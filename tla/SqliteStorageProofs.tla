------------------------ MODULE SqliteStorageProofs ------------------------
(***************************************************************************)
(* For any number of clients, runs and calls:                              *)
(*   - every row's references resolve, other than what is said of another  *)
(*     run's fork in progress: a deferred transaction writes what it has   *)
(*     checked because its snapshot is current; a call outside of a        *)
(*     transaction, because nobody else may remove what it has found       *)
(*     (FoundStays);                                                       *)
(*   - the store implements InMemoryStorage, its tables taken for nested   *)
(*     maps, but for inserts that come after such a fork's cleanup;        *)
(*   - its reads answer as those of InMemoryStorage, in the same order,    *)
(*     whoever calls: keys are unique, and a member's position in a list   *)
(*     follows from the numbers it is sorted by.                           *)
(***************************************************************************)
EXTENDS SqliteStorage, FiniteSetTheorems, TLAPS

Sound(t) ==
    /\ IsTables(t)
    /\ ReferencesIn(t)
    /\ CountersIn(t)

\* What is found in t is found in n, outside of the runs gone.
Keeps(t, n, gone) ==
    /\ \A run : run \notin gone /\ HasRun(t, run) => HasRun(n, run)
    /\ \A run, span :
          run \notin gone /\ HasSpan(t, run, span) => HasSpan(n, run, span)
    /\ \A run, id :
          run \notin gone /\ HasArtifact(t, run, id) => HasArtifact(n, run, id)

\* What the reads of a transaction look for.
Checked(t, q) ==
    /\ q.op = "upsert_span" =>
          /\ HasRun(t, q.run) /\ OptionalSpan(t, q.run, q.parent)
          /\ q.parent # q.id
    /\ q.op = "insert_event" => HasRun(t, q.run) /\ HasSpan(t, q.run, q.span)
    /\ q.op = "insert_artifact" =>
          HasRun(t, q.run) /\ OptionalSpan(t, q.run, q.span) /\ q.valid
    /\ q.op = "insert_snapshot" =>
          /\ HasRun(t, q.run) /\ OptionalSpan(t, q.run, q.span)
          /\ HasArtifact(t, q.run, q.artifact)
          /\ q.span = NoSpan \/ Attached(t, q.run, q.artifact, q.span)
    /\ q.op = "insert_edge" =>
          /\ HasRun(t, q.run)
          /\ HasSpan(t, q.run, q.from) /\ HasSpan(t, q.run, q.to)
    /\ q.op = "update_replay_job" => HasRun(t, q.source) /\ HasRun(t, q.run)

Unguarded == {"insert_branch", "insert_replay_job", "insert_diff"}

\* What the reads of a call outside of a transaction have found so far.
FoundIn(t, q, reads) == q.op \in Unguarded =>
    /\ reads >= 1 /\ ~InProgress(q.source) => HasRun(t, q.source)
    /\ reads >= 2 /\ ~(q.op = "insert_diff" /\ InProgress(q.run)) => HasRun(t, q.run)
    /\ q.op = "insert_branch" =>
          /\ reads >= 3 /\ ~InProgress(q.source) => HasSpan(t, q.source, q.span)
          /\ reads >= 4 => HasArtifact(t, q.run, q.manifest)

CallsOK ==
    /\ call \in [Clients -> Requests \cup {Idle}]
    /\ passed \in [Clients -> Nat]
    /\ snapshots \subseteq Clients
    /\ \A c \in Clients : call[c] = Idle => passed[c] = 0 /\ c \notin snapshots
    /\ \A c \in Clients : call[c] # Idle => MayCall(c, call[c])

SnapshotsCurrent == \A c \in snapshots : Checked(tables, call[c])

FoundStays == \A c \in Clients :
    call[c] # Idle => FoundIn(tables, call[c], passed[c])

IInv == Sound(tables) /\ CallsOK /\ SnapshotsCurrent /\ FoundStays

----------------------------------------------------------------------------
(* Tables                                                                  *)

LEMMA Allocated ==
  ASSUME NEW t, Sound(t), NEW kind, NEW next, NEW n,
         n = [t EXCEPT !.counters[kind] = next]
  PROVE  Sound(n) /\ Keeps(t, n, {})
<1>1. /\ IsTables(n)
      /\ n.runs = t.runs /\ n.sequences = t.sequences /\ n.spans = t.spans
      /\ n.events = t.events /\ n.artifacts = t.artifacts /\ n.snapshots = t.snapshots
      /\ n.edges = t.edges /\ n.branches = t.branches /\ n.jobs = t.jobs
      /\ n.diffs = t.diffs
  BY DEF Sound, IsTables
<1>2. ReferencesIn(n)
  BY <1>1 DEF Sound, ReferencesIn, HasRun, HasSpan, HasArtifact, Keyed,
     Attached, OptionalSpan
<1>3. CountersIn(n)
  BY <1>1 DEF Sound, CountersIn, HasRun, HasCounter
<1>4. Keeps(t, n, {})
  BY <1>1 DEF Keeps, HasRun, HasSpan, HasArtifact, Keyed
<1> QED BY <1>1, <1>2, <1>3, <1>4 DEF Sound

LEMMA RunInserted ==
  ASSUME NEW t, Sound(t), NEW run, NEW record, NEW n,
         n = [t EXCEPT !.runs = @ \cup {[run |-> run, record |-> record]},
                       !.sequences = @ \cup {[run |-> run, next |-> 0]}]
  PROVE  Sound(n) /\ Keeps(t, n, {})
<1>1. /\ IsTables(n)
      /\ n.runs = t.runs \cup {[run |-> run, record |-> record]}
      /\ n.sequences = t.sequences \cup {[run |-> run, next |-> 0]}
      /\ n.spans = t.spans /\ n.events = t.events /\ n.artifacts = t.artifacts
      /\ n.snapshots = t.snapshots /\ n.edges = t.edges /\ n.branches = t.branches
      /\ n.jobs = t.jobs /\ n.diffs = t.diffs
  BY DEF Sound, IsTables
<1>2. ReferencesIn(n)
  BY <1>1 DEF Sound, ReferencesIn, HasRun, HasSpan, HasArtifact, Keyed,
     Attached, OptionalSpan
<1>3. CountersIn(n)
  <2>1. /\ HasRun(n, run) /\ HasCounter(n, run)
        /\ \A r : HasRun(t, r) => HasRun(n, r)
        /\ \A r : HasCounter(t, r) => HasCounter(n, r)
    <3>1. /\ [run |-> run, record |-> record] \in n.runs
          /\ [run |-> run, record |-> record].run = run
          /\ [run |-> run, next |-> 0] \in n.sequences
          /\ [run |-> run, next |-> 0].run = run
      BY <1>1
    <3> QED BY <1>1, <3>1 DEF HasRun, HasCounter
  <2>2. /\ \A row \in n.runs : row \in t.runs \/ row.run = run
        /\ \A row \in n.sequences : row \in t.sequences \/ row.run = run
    BY <1>1
  <2> QED BY <1>1, <2>1, <2>2 DEF Sound, CountersIn
<1>4. Keeps(t, n, {})
  BY <1>1 DEF Keeps, HasRun, HasSpan, HasArtifact, Keyed
<1> QED BY <1>1, <1>2, <1>3, <1>4 DEF Sound

LEMMA RunUpdated ==
  ASSUME NEW t, Sound(t), NEW run, NEW record, NEW n,
         HasRun(t, run),
         n = [t EXCEPT !.runs = {row \in @ : row.run # run}
                           \cup {[run |-> run, record |-> record]}]
  PROVE  Sound(n) /\ Keeps(t, n, {})
<1>1. /\ IsTables(n)
      /\ n.runs = {row \in t.runs : row.run # run}
                     \cup {[run |-> run, record |-> record]}
      /\ n.sequences = t.sequences /\ n.spans = t.spans /\ n.events = t.events
      /\ n.artifacts = t.artifacts /\ n.snapshots = t.snapshots /\ n.edges = t.edges
      /\ n.branches = t.branches /\ n.jobs = t.jobs /\ n.diffs = t.diffs
  BY DEF Sound, IsTables
<1>a. \A r : HasRun(t, r) <=> HasRun(n, r)
  <2>1. /\ [run |-> run, record |-> record] \in n.runs
        /\ [run |-> run, record |-> record].run = run
    BY <1>1
  <2>2. \A row \in n.runs : row \in t.runs \/ row.run = run
    BY <1>1
  <2>3. \A row \in t.runs : row \in n.runs \/ row.run = run
    BY <1>1
  <2> QED BY <2>1, <2>2, <2>3 DEF HasRun
<1>2. ReferencesIn(n)
  BY <1>1, <1>a DEF Sound, ReferencesIn, HasSpan, HasArtifact, Keyed,
     Attached, OptionalSpan
<1>3. CountersIn(n)
  <2>1. \A row \in n.runs : row \in t.runs \/ row.run = run
    BY <1>1
  <2>2. HasCounter(t, run)
    BY DEF Sound, CountersIn, HasRun, HasCounter
  <2> QED BY <1>1, <1>a, <2>1, <2>2 DEF Sound, CountersIn, HasCounter
<1>4. Keeps(t, n, {})
  BY <1>1, <1>a DEF Keeps, HasSpan, HasArtifact, Keyed
<1> QED BY <1>1, <1>2, <1>3, <1>4 DEF Sound

LEMMA SequenceDrawn ==
  ASSUME NEW t, Sound(t), NEW row \in t.sequences, NEW next, NEW n,
         n = [t EXCEPT !.sequences =
              (@ \ {row}) \cup {[run |-> row.run, next |-> next]}]
  PROVE  Sound(n) /\ Keeps(t, n, {})
<1>1. /\ IsTables(n)
      /\ n.sequences = (t.sequences \ {row}) \cup {[run |-> row.run, next |-> next]}
      /\ n.runs = t.runs /\ n.spans = t.spans /\ n.events = t.events
      /\ n.artifacts = t.artifacts /\ n.snapshots = t.snapshots /\ n.edges = t.edges
      /\ n.branches = t.branches /\ n.jobs = t.jobs /\ n.diffs = t.diffs
  BY DEF Sound, IsTables
<1>2. ReferencesIn(n)
  BY <1>1 DEF Sound, ReferencesIn, HasRun, HasSpan, HasArtifact, Keyed,
     Attached, OptionalSpan
<1>3. CountersIn(n)
  <2>1. /\ [run |-> row.run, next |-> next] \in n.sequences
        /\ [run |-> row.run, next |-> next].run = row.run
    BY <1>1
  <2>2. /\ \A r \in n.sequences : r \in t.sequences \/ r.run = row.run
        /\ \A r \in t.sequences : r \in n.sequences \/ r.run = row.run
    BY <1>1
  <2>3. \A r : HasCounter(t, r) => HasCounter(n, r)
    BY <2>1, <2>2 DEF HasCounter
  <2> QED BY <1>1, <2>2, <2>3 DEF Sound, CountersIn, HasRun
<1>4. Keeps(t, n, {})
  BY <1>1 DEF Keeps, HasRun, HasSpan, HasArtifact, Keyed
<1> QED BY <1>1, <1>2, <1>3, <1>4 DEF Sound

LEMMA SpanUpserted ==
  ASSUME NEW t, Sound(t), NEW run, NEW id, NEW parent, NEW seq, NEW n,
         HasRun(t, run),
         OptionalSpan(t, run, parent),
         n = [t EXCEPT !.spans = (@ \ Keyed(@, run, id)) \cup
              {[run |-> run, id |-> id, parent |-> parent, seq |-> seq]}]
  PROVE  Sound(n) /\ Keeps(t, n, {})
<1>1. /\ IsTables(n)
      /\ n.spans = (t.spans \ Keyed(t.spans, run, id)) \cup
           {[run |-> run, id |-> id, parent |-> parent, seq |-> seq]}
      /\ n.runs = t.runs /\ n.sequences = t.sequences /\ n.events = t.events
      /\ n.artifacts = t.artifacts /\ n.snapshots = t.snapshots /\ n.edges = t.edges
      /\ n.branches = t.branches /\ n.jobs = t.jobs /\ n.diffs = t.diffs
  BY DEF Sound, IsTables
<1>a. \A r, k : HasSpan(t, r, k) => HasSpan(n, r, k)
  <2>1. /\ [run |-> run, id |-> id, parent |-> parent, seq |-> seq] \in n.spans
        /\ [run |-> run, id |-> id, parent |-> parent, seq |-> seq].run = run
        /\ [run |-> run, id |-> id, parent |-> parent, seq |-> seq].id = id
    BY <1>1
  <2>2. HasSpan(n, run, id)
    BY <2>1 DEF HasSpan, Keyed
  <2>3. \A row \in t.spans : row \in n.spans \/ (row.run = run /\ row.id = id)
    BY <1>1 DEF Keyed
  <2> QED BY <2>2, <2>3 DEF HasSpan, Keyed
<1>b. \A row \in n.spans : \/ row \in t.spans
                           \/ row.run = run /\ row.parent = parent
  BY <1>1
<1>2. ReferencesIn(n)
  BY <1>1, <1>a, <1>b DEF Sound, ReferencesIn, HasRun, HasArtifact, Attached, Keyed,
     OptionalSpan
<1>3. CountersIn(n)
  BY <1>1 DEF Sound, CountersIn, HasRun, HasCounter
<1>4. Keeps(t, n, {})
  BY <1>1, <1>a DEF Keeps, HasRun, HasArtifact, Keyed
<1> QED BY <1>1, <1>2, <1>3, <1>4 DEF Sound

LEMMA EventInserted ==
  ASSUME NEW t, Sound(t), NEW run, NEW id, NEW span, NEW seq, NEW at, NEW n,
         HasRun(t, run),
         HasSpan(t, run, span),
         n = [t EXCEPT !.events = @ \cup
              {[run |-> run, id |-> id, span |-> span, seq |-> seq, at |-> at]}]
  PROVE  Sound(n) /\ Keeps(t, n, {})
<1>1. /\ IsTables(n)
      /\ n.events = t.events \cup
           {[run |-> run, id |-> id, span |-> span, seq |-> seq, at |-> at]}
      /\ n.runs = t.runs /\ n.sequences = t.sequences /\ n.spans = t.spans
      /\ n.artifacts = t.artifacts /\ n.snapshots = t.snapshots /\ n.edges = t.edges
      /\ n.branches = t.branches /\ n.jobs = t.jobs /\ n.diffs = t.diffs
  BY DEF Sound, IsTables
<1>2. ReferencesIn(n)
  BY <1>1 DEF Sound, ReferencesIn, HasRun, HasSpan, HasArtifact, Keyed,
     Attached, OptionalSpan
<1>3. CountersIn(n)
  BY <1>1 DEF Sound, CountersIn, HasRun, HasCounter
<1>4. Keeps(t, n, {})
  BY <1>1 DEF Keeps, HasRun, HasSpan, HasArtifact, Keyed
<1> QED BY <1>1, <1>2, <1>3, <1>4 DEF Sound

LEMMA ArtifactInserted ==
  ASSUME NEW t, Sound(t), NEW run, NEW id, NEW span, NEW created, NEW n,
         HasRun(t, run),
         OptionalSpan(t, run, span),
         n = [t EXCEPT !.artifacts = @ \cup
              {[run |-> run, id |-> id, span |-> span, created |-> created]}]
  PROVE  Sound(n) /\ Keeps(t, n, {})
<1>1. /\ IsTables(n)
      /\ n.artifacts = t.artifacts \cup
           {[run |-> run, id |-> id, span |-> span, created |-> created]}
      /\ n.runs = t.runs /\ n.sequences = t.sequences /\ n.spans = t.spans
      /\ n.events = t.events /\ n.snapshots = t.snapshots /\ n.edges = t.edges
      /\ n.branches = t.branches /\ n.jobs = t.jobs /\ n.diffs = t.diffs
  BY DEF Sound, IsTables
<1>2. ReferencesIn(n)
  BY <1>1 DEF Sound, ReferencesIn, HasRun, HasSpan, HasArtifact, Keyed,
     Attached, OptionalSpan
<1>3. CountersIn(n)
  BY <1>1 DEF Sound, CountersIn, HasRun, HasCounter
<1>4. Keeps(t, n, {})
  BY <1>1 DEF Keeps, HasRun, HasSpan, HasArtifact, Keyed
<1> QED BY <1>1, <1>2, <1>3, <1>4 DEF Sound

LEMMA SnapshotInserted ==
  ASSUME NEW t, Sound(t), NEW run, NEW id, NEW span, NEW artifact, NEW created, NEW n,
         HasRun(t, run),
         OptionalSpan(t, run, span),
         HasArtifact(t, run, artifact),
         span = NoSpan \/ Attached(t, run, artifact, span),
         n = [t EXCEPT !.snapshots = @ \cup
              {[run |-> run, id |-> id, span |-> span, artifact |-> artifact,
                created |-> created]}]
  PROVE  Sound(n) /\ Keeps(t, n, {})
<1>1. /\ IsTables(n)
      /\ n.snapshots = t.snapshots \cup
           {[run |-> run, id |-> id, span |-> span, artifact |-> artifact,
             created |-> created]}
      /\ n.runs = t.runs /\ n.sequences = t.sequences /\ n.spans = t.spans
      /\ n.events = t.events /\ n.artifacts = t.artifacts /\ n.edges = t.edges
      /\ n.branches = t.branches /\ n.jobs = t.jobs /\ n.diffs = t.diffs
  BY DEF Sound, IsTables
<1>2. ReferencesIn(n)
  BY <1>1 DEF Sound, ReferencesIn, HasRun, HasSpan, HasArtifact, Keyed,
     Attached, OptionalSpan
<1>3. CountersIn(n)
  BY <1>1 DEF Sound, CountersIn, HasRun, HasCounter
<1>4. Keeps(t, n, {})
  BY <1>1 DEF Keeps, HasRun, HasSpan, HasArtifact, Keyed
<1> QED BY <1>1, <1>2, <1>3, <1>4 DEF Sound

LEMMA EdgeInserted ==
  ASSUME NEW t, Sound(t), NEW run, NEW id, NEW from, NEW to, NEW at, NEW n,
         HasRun(t, run),
         HasSpan(t, run, from),
         HasSpan(t, run, to),
         n = [t EXCEPT !.edges = @ \cup
              {[run |-> run, id |-> id, from |-> from, to |-> to, at |-> at]}]
  PROVE  Sound(n) /\ Keeps(t, n, {})
<1>1. /\ IsTables(n)
      /\ n.edges = t.edges \cup
           {[run |-> run, id |-> id, from |-> from, to |-> to, at |-> at]}
      /\ n.runs = t.runs /\ n.sequences = t.sequences /\ n.spans = t.spans
      /\ n.events = t.events /\ n.artifacts = t.artifacts /\ n.snapshots = t.snapshots
      /\ n.branches = t.branches /\ n.jobs = t.jobs /\ n.diffs = t.diffs
  BY DEF Sound, IsTables
<1>2. ReferencesIn(n)
  BY <1>1 DEF Sound, ReferencesIn, HasRun, HasSpan, HasArtifact, Keyed,
     Attached, OptionalSpan
<1>3. CountersIn(n)
  BY <1>1 DEF Sound, CountersIn, HasRun, HasCounter
<1>4. Keeps(t, n, {})
  BY <1>1 DEF Keeps, HasRun, HasSpan, HasArtifact, Keyed
<1> QED BY <1>1, <1>2, <1>3, <1>4 DEF Sound

LEMMA BranchUpserted ==
  ASSUME NEW t, Sound(t), NEW run, NEW source, NEW span, NEW manifest, NEW n,
         HasRun(t, run),
         InProgress(source) \/ HasSpan(t, source, span),
         HasArtifact(t, run, manifest),
         n = [t EXCEPT !.branches = {row \in @ : row.run # run} \cup
              {[run |-> run, source |-> source, span |-> span,
                manifest |-> manifest]}]
  PROVE  Sound(n) /\ Keeps(t, n, {})
<1>1. /\ IsTables(n)
      /\ n.branches = {row \in t.branches : row.run # run} \cup
           {[run |-> run, source |-> source, span |-> span,
             manifest |-> manifest]}
      /\ n.runs = t.runs /\ n.sequences = t.sequences /\ n.spans = t.spans
      /\ n.events = t.events /\ n.artifacts = t.artifacts /\ n.snapshots = t.snapshots
      /\ n.edges = t.edges /\ n.jobs = t.jobs /\ n.diffs = t.diffs
  BY DEF Sound, IsTables
<1>2. ReferencesIn(n)
  BY <1>1 DEF Sound, ReferencesIn, HasRun, HasSpan, HasArtifact, Keyed,
     Attached, OptionalSpan
<1>3. CountersIn(n)
  BY <1>1 DEF Sound, CountersIn, HasRun, HasCounter
<1>4. Keeps(t, n, {})
  BY <1>1 DEF Keeps, HasRun, HasSpan, HasArtifact, Keyed
<1> QED BY <1>1, <1>2, <1>3, <1>4 DEF Sound

LEMMA JobWritten ==
  ASSUME NEW t, Sound(t), NEW run, NEW source, NEW status, NEW kept \in SUBSET t.jobs,
         NEW n,
         HasRun(t, run),
         InProgress(source) \/ HasRun(t, source),
         n = [t EXCEPT !.jobs = kept \cup
              {[run |-> run, source |-> source, status |-> status]}]
  PROVE  Sound(n) /\ Keeps(t, n, {})
<1>1. /\ IsTables(n)
      /\ n.jobs = kept \cup {[run |-> run, source |-> source, status |-> status]}
      /\ n.runs = t.runs /\ n.sequences = t.sequences /\ n.spans = t.spans
      /\ n.events = t.events /\ n.artifacts = t.artifacts /\ n.snapshots = t.snapshots
      /\ n.edges = t.edges /\ n.branches = t.branches /\ n.diffs = t.diffs
  BY DEF Sound, IsTables
<1>2. ReferencesIn(n)
  BY <1>1 DEF Sound, ReferencesIn, HasRun, HasSpan, HasArtifact, Keyed,
     Attached, OptionalSpan
<1>3. CountersIn(n)
  BY <1>1 DEF Sound, CountersIn, HasRun, HasCounter
<1>4. Keeps(t, n, {})
  BY <1>1 DEF Keeps, HasRun, HasSpan, HasArtifact, Keyed
<1> QED BY <1>1, <1>2, <1>3, <1>4 DEF Sound

LEMMA DiffInserted ==
  ASSUME NEW t, Sound(t), NEW run, NEW source, NEW n,
         InProgress(run) \/ HasRun(t, run),
         InProgress(source) \/ HasRun(t, source),
         n = [t EXCEPT !.diffs = @ \cup {[run |-> run, source |-> source]}]
  PROVE  Sound(n) /\ Keeps(t, n, {})
<1>1. /\ IsTables(n)
      /\ n.diffs = t.diffs \cup {[run |-> run, source |-> source]}
      /\ n.runs = t.runs /\ n.sequences = t.sequences /\ n.spans = t.spans
      /\ n.events = t.events /\ n.artifacts = t.artifacts /\ n.snapshots = t.snapshots
      /\ n.edges = t.edges /\ n.branches = t.branches /\ n.jobs = t.jobs
  BY DEF Sound, IsTables
<1>2. ReferencesIn(n)
  BY <1>1 DEF Sound, ReferencesIn, HasRun, HasSpan, HasArtifact, Keyed,
     Attached, OptionalSpan
<1>3. CountersIn(n)
  BY <1>1 DEF Sound, CountersIn, HasRun, HasCounter
<1>4. Keeps(t, n, {})
  BY <1>1 DEF Keeps, HasRun, HasSpan, HasArtifact, Keyed
<1> QED BY <1>1, <1>2, <1>3, <1>4 DEF Sound

LEMMA RunCleanedUp ==
  ASSUME NEW t, Sound(t), NEW run, InProgress(run), NEW n,
         n = [t EXCEPT 
           !.diffs = {row \in @ : run \notin {row.source, row.run}},
           !.artifacts = {row \in @ : row.run # run},
           !.snapshots = {row \in @ : row.run # run},
           !.edges = {row \in @ : row.run # run},
           !.events = {row \in @ : row.run # run},
           !.spans = {row \in @ : row.run # run},
           !.sequences = {row \in @ : row.run # run},
           !.branches = {row \in @ : row.run # run},
           !.jobs = {row \in @ : row.run # run},
           !.runs = {row \in @ : row.run # run}]
  PROVE  Sound(n) /\ Keeps(t, n, {run})
<1>1. /\ IsTables(n)
      /\ n.diffs = {row \in t.diffs : run \notin {row.source, row.run}}
      /\ n.artifacts = {row \in t.artifacts : row.run # run}
      /\ n.snapshots = {row \in t.snapshots : row.run # run}
      /\ n.edges = {row \in t.edges : row.run # run}
      /\ n.events = {row \in t.events : row.run # run}
      /\ n.spans = {row \in t.spans : row.run # run}
      /\ n.sequences = {row \in t.sequences : row.run # run}
      /\ n.branches = {row \in t.branches : row.run # run}
      /\ n.jobs = {row \in t.jobs : row.run # run}
      /\ n.runs = {row \in t.runs : row.run # run}
  BY DEF Sound, IsTables
<1>2. ReferencesIn(n)
  BY <1>1 DEF Sound, ReferencesIn, HasRun, HasSpan, HasArtifact, Keyed,
     Attached, OptionalSpan
<1>3. CountersIn(n)
  BY <1>1 DEF Sound, CountersIn, HasRun, HasCounter
<1>4. Keeps(t, n, {run})
  BY <1>1 DEF Keeps, HasRun, HasSpan, HasArtifact, Keyed
<1> QED BY <1>1, <1>2, <1>3, <1>4 DEF Sound

----------------------------------------------------------------------------
(* Steps of a call                                                         *)

LEMMA CommitKeeps ==
  ASSUME IInv, NEW c \in Clients, call[c] # Idle, NEW n, NEW v, NEW gone,
         Commit(c, n, v), Sound(n), Keeps(tables, n, gone),
         gone \in SUBSET DOMAIN Owner,
         \A d \in Clients : d # c /\ call[d] # Idle
               /\ call[d].op \in {"insert_branch", "insert_replay_job"}
            => call[d].run \notin gone
  PROVE  IInv'
<1>1. /\ tables' = n /\ snapshots' = {}
      /\ call' = [call EXCEPT ![c] = Idle]
      /\ passed' = [passed EXCEPT ![c] = 0]
  BY DEF Commit, Answer
<1>2. CallsOK'
  BY <1>1 DEF IInv, CallsOK, MayCall
<1>3. FoundStays'
  BY <1>1 DEF IInv, CallsOK, FoundStays, FoundIn, Keeps, InProgress, Unguarded
<1> QED BY <1>1, <1>2, <1>3 DEF IInv, SnapshotsCurrent

LEMMA RefuseKeeps ==
  ASSUME IInv, NEW c \in Clients, NEW answer, Refuse(c, answer)
  PROVE  IInv'
<1>1. /\ tables' = tables /\ snapshots' = snapshots \ {c}
      /\ call' = [call EXCEPT ![c] = Idle]
      /\ passed' = [passed EXCEPT ![c] = 0]
  BY DEF Refuse, Answer
<1>2. CallsOK'
  BY <1>1 DEF IInv, CallsOK, MayCall
<1>3. SnapshotsCurrent' /\ FoundStays'
  BY <1>1 DEF IInv, CallsOK, SnapshotsCurrent, FoundStays
<1> QED BY <1>1, <1>2, <1>3 DEF IInv

\* A transaction has read what it needs: its snapshot is current from now on.
LEMMA ReadsKeep ==
  ASSUME IInv, NEW c \in Clients, call[c] # Idle, call[c].op \notin Unguarded,
         Pass(c), snapshots' = snapshots \cup {c}, Checked(tables, call[c])
  PROVE  IInv'
<1>1. /\ tables' = tables /\ call' = call
      /\ passed' = [passed EXCEPT ![c] = @ + 1]
  BY DEF Pass
<1>2. CallsOK'
  BY <1>1 DEF IInv, CallsOK, MayCall
<1>3. SnapshotsCurrent'
  BY <1>1 DEF IInv, SnapshotsCurrent
<1>4. FoundStays'
  BY <1>1 DEF IInv, CallsOK, FoundStays, FoundIn
<1> QED BY <1>1, <1>2, <1>3, <1>4 DEF IInv

\* One more read of a call outside of a transaction has found its row.
LEMMA ReadKeeps ==
  ASSUME IInv, NEW c \in Clients, call[c] # Idle, Pass(c), UNCHANGED snapshots,
         FoundIn(tables, call[c], passed[c] + 1)
  PROVE  IInv'
<1>1. /\ tables' = tables /\ call' = call
      /\ passed' = [passed EXCEPT ![c] = @ + 1]
  BY DEF Pass
<1>2. CallsOK'
  BY <1>1 DEF IInv, CallsOK, MayCall
<1>3. SnapshotsCurrent'
  BY <1>1 DEF IInv, SnapshotsCurrent
<1>4. FoundStays'
  BY <1>1 DEF IInv, CallsOK, FoundStays
<1> QED BY <1>1, <1>2, <1>3, <1>4 DEF IInv

LEMMA UpsertSpanKeeps ==
  ASSUME IInv, NEW c \in Clients, call[c] # Idle, UpsertSpan(c, call[c])
  PROVE  IInv'
<1> DEFINE q == call[c]
           n == [tables EXCEPT !.spans = (@ \ Keyed(@, q.run, q.id)) \cup
                  {[run |-> q.run, id |-> q.id, parent |-> q.parent,
                    seq |-> q.seq]}]
<1>1. \/ \E answer : Refuse(c, answer)
      \/ /\ Checked(tables, q) /\ Pass(c)
         /\ snapshots' = snapshots \cup {c}
      \/ c \in snapshots /\ Commit(c, n, 0)
  BY DEF UpsertSpan, Transaction, Checked
<1>2. q.op \notin Unguarded
  BY DEF UpsertSpan, Unguarded
<1>3. ASSUME c \in snapshots
      PROVE  Sound(n) /\ Keeps(tables, n, {})
  BY <1>3, SpanUpserted DEF IInv, SnapshotsCurrent, Checked, UpsertSpan
<1> QED BY <1>1, <1>2, <1>3, RefuseKeeps, ReadsKeep, CommitKeeps

LEMMA InsertEventKeeps ==
  ASSUME IInv, NEW c \in Clients, call[c] # Idle, InsertEvent(c, call[c])
  PROVE  IInv'
<1> DEFINE q == call[c]
           n == [tables EXCEPT !.events = @ \cup
                  {[run |-> q.run, id |-> q.id, span |-> q.span,
                    seq |-> q.seq, at |-> Place(@, q.run)]}]
<1>1. \/ \E answer : Refuse(c, answer)
      \/ /\ Checked(tables, q) /\ Pass(c)
         /\ snapshots' = snapshots \cup {c}
      \/ c \in snapshots /\ Commit(c, n, 0)
  BY DEF InsertEvent, Transaction, Checked
<1>2. q.op \notin Unguarded
  BY DEF InsertEvent, Unguarded
<1>3. ASSUME c \in snapshots
      PROVE  Sound(n) /\ Keeps(tables, n, {})
  BY <1>3, EventInserted DEF IInv, SnapshotsCurrent, Checked, InsertEvent
<1> QED BY <1>1, <1>2, <1>3, RefuseKeeps, ReadsKeep, CommitKeeps

LEMMA InsertArtifactKeeps ==
  ASSUME IInv, NEW c \in Clients, call[c] # Idle, InsertArtifact(c, call[c])
  PROVE  IInv'
<1> DEFINE q == call[c]
           n == [tables EXCEPT !.artifacts = @ \cup
                  {[run |-> q.run, id |-> q.id, span |-> q.span,
                    created |-> q.created]}]
<1>1. \/ \E answer : Refuse(c, answer)
      \/ /\ Checked(tables, q) /\ Pass(c)
         /\ snapshots' = snapshots \cup {c}
      \/ c \in snapshots /\ Commit(c, n, 0)
  BY DEF InsertArtifact, Transaction, Checked
<1>2. q.op \notin Unguarded
  BY DEF InsertArtifact, Unguarded
<1>3. ASSUME c \in snapshots
      PROVE  Sound(n) /\ Keeps(tables, n, {})
  BY <1>3, ArtifactInserted DEF IInv, SnapshotsCurrent, Checked, InsertArtifact
<1> QED BY <1>1, <1>2, <1>3, RefuseKeeps, ReadsKeep, CommitKeeps

LEMMA InsertSnapshotKeeps ==
  ASSUME IInv, NEW c \in Clients, call[c] # Idle, InsertSnapshot(c, call[c])
  PROVE  IInv'
<1> DEFINE q == call[c]
           n == [tables EXCEPT !.snapshots = @ \cup
                  {[run |-> q.run, id |-> q.id, span |-> q.span,
                    artifact |-> q.artifact, created |-> q.created]}]
<1>1. \/ \E answer : Refuse(c, answer)
      \/ /\ Checked(tables, q) /\ Pass(c)
         /\ snapshots' = snapshots \cup {c}
      \/ c \in snapshots /\ Commit(c, n, 0)
  BY DEF InsertSnapshot, Transaction, Checked
<1>2. q.op \notin Unguarded
  BY DEF InsertSnapshot, Unguarded
<1>3. ASSUME c \in snapshots
      PROVE  Sound(n) /\ Keeps(tables, n, {})
  <2>1. /\ HasRun(tables, q.run) /\ OptionalSpan(tables, q.run, q.span)
        /\ HasArtifact(tables, q.run, q.artifact)
        /\ q.span = NoSpan \/ Attached(tables, q.run, q.artifact, q.span)
    BY <1>3 DEF IInv, SnapshotsCurrent, Checked, InsertSnapshot
  <2> QED BY <2>1, SnapshotInserted DEF IInv
<1> QED BY <1>1, <1>2, <1>3, RefuseKeeps, ReadsKeep, CommitKeeps

LEMMA InsertEdgeKeeps ==
  ASSUME IInv, NEW c \in Clients, call[c] # Idle, InsertEdge(c, call[c])
  PROVE  IInv'
<1> DEFINE q == call[c]
           n == [tables EXCEPT !.edges = @ \cup
                  {[run |-> q.run, id |-> q.id, from |-> q.from, to |-> q.to,
                    at |-> Place(@, q.run)]}]
<1>1. \/ \E answer : Refuse(c, answer)
      \/ /\ Checked(tables, q) /\ Pass(c)
         /\ snapshots' = snapshots \cup {c}
      \/ c \in snapshots /\ Commit(c, n, 0)
  BY DEF InsertEdge, Transaction, Checked
<1>2. q.op \notin Unguarded
  BY DEF InsertEdge, Unguarded
<1>3. ASSUME c \in snapshots
      PROVE  Sound(n) /\ Keeps(tables, n, {})
  BY <1>3, EdgeInserted DEF IInv, SnapshotsCurrent, Checked, InsertEdge
<1> QED BY <1>1, <1>2, <1>3, RefuseKeeps, ReadsKeep, CommitKeeps

LEMMA UpdateReplayJobKeeps ==
  ASSUME IInv, NEW c \in Clients, call[c] # Idle,
         UpdateReplayJob(c, call[c])
  PROVE  IInv'
<1> DEFINE q == call[c]
           n == [tables EXCEPT !.jobs =
                  {row \in @ : row.run # q.run} \cup {JobRow(q)}]
<1>1. \/ \E answer : Refuse(c, answer)
      \/ /\ Checked(tables, q) /\ Pass(c)
         /\ snapshots' = snapshots \cup {c}
      \/ c \in snapshots /\ Commit(c, n, 0)
  BY DEF UpdateReplayJob, Transaction, Checked
<1>2. q.op \notin Unguarded
  BY DEF UpdateReplayJob, Unguarded
<1>4. ASSUME c \in snapshots
      PROVE  Sound(n) /\ Keeps(tables, n, {})
  <2> DEFINE kept == {row \in tables.jobs : row.run # q.run}
  <2>1. n = [tables EXCEPT !.jobs = kept \cup
               {[run |-> q.run, source |-> q.source, status |-> q.status]}]
    BY DEF JobRow
  <2>2. HasRun(tables, q.run) /\ HasRun(tables, q.source)
    BY <1>4 DEF IInv, SnapshotsCurrent, Checked, UpdateReplayJob
  <2> HIDE DEF n
  <2>3. kept \in SUBSET tables.jobs
    OBVIOUS
  <2> HIDE DEF kept
  <2> QED BY <2>1, <2>2, <2>3, JobWritten DEF IInv
<1> QED BY <1>1, <1>2, <1>4, RefuseKeeps, ReadsKeep, CommitKeeps

LEMMA InsertBranchKeeps ==
  ASSUME IInv, NEW c \in Clients, call[c] # Idle,
         InsertBranch(c, call[c])
  PROVE  IInv'
<1> DEFINE q == call[c]
           n == [tables EXCEPT !.branches = {row \in @ : row.run # q.run} \cup
                  {[run |-> q.run, source |-> q.source, span |-> q.span,
                    manifest |-> q.manifest]}]
<1> USE DEF InsertBranch
<1>1. \/ \E answer : Refuse(c, answer)
      \/ /\ FoundIn(tables, q, passed[c] + 1)
         /\ Pass(c) /\ UNCHANGED snapshots
      \/ passed[c] = 4 /\ Commit(c, n, 0)
  <2>1. FoundIn(tables, q, passed[c]) /\ passed[c] \in Nat
    BY DEF IInv, FoundStays, CallsOK
  <2>2. CASE passed[c] < 4
    <3>1. passed[c] \in 0..3
      BY <2>1, <2>2
    <3> QED BY <2>1, <3>1 DEF ReadByRead, FoundIn
  <2>3. CASE passed[c] = 4
    BY <2>3 DEF ReadByRead
  <2> QED BY <2>1, <2>2, <2>3 DEF ReadByRead
<1>3. ASSUME passed[c] = 4
      PROVE  Sound(n) /\ Keeps(tables, n, {})
  <2>1. /\ HasRun(tables, q.run) /\ HasArtifact(tables, q.run, q.manifest)
        /\ InProgress(q.source) \/ HasSpan(tables, q.source, q.span)
    BY <1>3 DEF IInv, FoundStays, FoundIn, Unguarded
  <2> QED BY <2>1, BranchUpserted DEF IInv
<1> QED BY <1>1, <1>3, RefuseKeeps, ReadKeeps, CommitKeeps

LEMMA InsertReplayJobKeeps ==
  ASSUME IInv, NEW c \in Clients, call[c] # Idle,
         InsertReplayJob(c, call[c])
  PROVE  IInv'
<1> DEFINE q == call[c]
           n == [tables EXCEPT !.jobs = @ \cup {JobRow(q)}]
<1> USE DEF InsertReplayJob
<1>1. \/ \E answer : Refuse(c, answer)
      \/ /\ FoundIn(tables, q, passed[c] + 1)
         /\ Pass(c) /\ UNCHANGED snapshots
      \/ passed[c] = 2 /\ Commit(c, n, 0)
  <2>1. FoundIn(tables, q, passed[c]) /\ passed[c] \in Nat
    BY DEF IInv, FoundStays, CallsOK
  <2>2. CASE passed[c] < 2
    <3>1. passed[c] \in 0..1
      BY <2>1, <2>2
    <3> QED BY <2>1, <3>1 DEF ReadByRead, FoundIn
  <2>3. CASE passed[c] = 2
    BY <2>3 DEF ReadByRead
  <2> QED BY <2>1, <2>2, <2>3 DEF ReadByRead
<1>3. ASSUME passed[c] = 2
      PROVE  Sound(n) /\ Keeps(tables, n, {})
  <2>1. HasRun(tables, q.run) /\ (InProgress(q.source) \/ HasRun(tables, q.source))
    BY <1>3 DEF IInv, FoundStays, FoundIn, Unguarded
  <2>2. n = [tables EXCEPT !.jobs = tables.jobs \cup
               {[run |-> q.run, source |-> q.source, status |-> q.status]}]
    BY DEF JobRow
  <2> HIDE DEF n
  <2> QED BY <2>1, <2>2, JobWritten DEF IInv
<1> QED BY <1>1, <1>3, RefuseKeeps, ReadKeeps, CommitKeeps

LEMMA InsertDiffKeeps ==
  ASSUME IInv, NEW c \in Clients, call[c] # Idle,
         InsertDiff(c, call[c])
  PROVE  IInv'
<1> DEFINE q == call[c]
           n == [tables EXCEPT !.diffs =
                  @ \cup {[run |-> q.run, source |-> q.source]}]
<1> USE DEF InsertDiff
<1>1. \/ \E answer : Refuse(c, answer)
      \/ /\ FoundIn(tables, q, passed[c] + 1)
         /\ Pass(c) /\ UNCHANGED snapshots
      \/ passed[c] = 2 /\ Commit(c, n, 0)
  <2>1. FoundIn(tables, q, passed[c]) /\ passed[c] \in Nat
    BY DEF IInv, FoundStays, CallsOK
  <2>2. CASE passed[c] < 2
    <3>1. passed[c] \in 0..1
      BY <2>1, <2>2
    <3> QED BY <2>1, <3>1 DEF ReadByRead, FoundIn
  <2>3. CASE passed[c] = 2
    BY <2>3 DEF ReadByRead
  <2> QED BY <2>1, <2>2, <2>3 DEF ReadByRead
<1>3. ASSUME passed[c] = 2
      PROVE  Sound(n) /\ Keeps(tables, n, {})
  <2>1. /\ InProgress(q.run) \/ HasRun(tables, q.run)
        /\ InProgress(q.source) \/ HasRun(tables, q.source)
    BY <1>3 DEF IInv, FoundStays, FoundIn, Unguarded
  <2> QED BY <2>1, DiffInserted DEF IInv
<1> QED BY <1>1, <1>3, RefuseKeeps, ReadKeeps, CommitKeeps

LEMMA NextSequenceKeeps ==
  ASSUME IInv, NEW c \in Clients, call[c] # Idle, NextSequence(c, call[c])
  PROVE  IInv'
<1> DEFINE q == call[c]
<1>1. q.op \notin Unguarded /\ Checked(tables, q)
  BY DEF NextSequence, Unguarded, Checked
<1>2. CASE \E answer : Refuse(c, answer)
  BY <1>2, RefuseKeeps
<1>3. CASE Pass(c) /\ snapshots' = snapshots \cup {c}
  BY <1>1, <1>3, ReadsKeep
<1>4. ASSUME NEW row \in tables.sequences, row.run = q.run,
             Commit(c, [tables EXCEPT !.sequences = (@ \ {row})
                          \cup {[run |-> q.run, next |-> row.next + 1]}],
                    row.next + 1)
      PROVE  IInv'
  <2> DEFINE n == [tables EXCEPT !.sequences = (@ \ {row})
                     \cup {[run |-> row.run, next |-> row.next + 1]}]
  <2>1. Sound(n) /\ Keeps(tables, n, {})
    BY SequenceDrawn DEF IInv
  <2>2. Commit(c, n, row.next + 1)
    BY <1>4
  <2> HIDE DEF n
  <2> QED BY <2>1, <2>2, CommitKeeps
<1> QED BY <1>2, <1>3, <1>4 DEF NextSequence

LEMMA WriteFirstKeeps ==
  ASSUME IInv, NEW c \in Clients, call[c] # Idle,
         \/ AllocateId(c, call[c]) \/ InsertRun(c, call[c])
         \/ UpdateRun(c, call[c]) \/ CleanupBranchExecution(c, call[c])
  PROVE  IInv'
<1> DEFINE q == call[c]
<1>1. CASE AllocateId(c, q)
  BY <1>1, Allocated, CommitKeeps DEF AllocateId, IInv
<1>2. CASE InsertRun(c, q)
  <2> DEFINE n == [tables EXCEPT
           !.runs = @ \cup {[run |-> q.run, record |-> q.record]},
           !.sequences = @ \cup {[run |-> q.run, next |-> 0]}]
  <2>1. Refuse(c, "Conflict") \/ Commit(c, n, 0)
    BY <1>2 DEF InsertRun
  <2>2. Sound(n) /\ Keeps(tables, n, {})
    BY RunInserted DEF IInv
  <2> HIDE DEF n
  <2> QED BY <2>1, <2>2, CommitKeeps, RefuseKeeps
<1>3. CASE UpdateRun(c, q)
  <2> DEFINE n == [tables EXCEPT !.runs =
           {row \in @ : row.run # q.run}
               \cup {[run |-> q.run, record |-> q.record]}]
  <2>1. Refuse(c, "NotFound") \/ (HasRun(tables, q.run) /\ Commit(c, n, 0))
    BY <1>3 DEF UpdateRun
  <2>2. HasRun(tables, q.run) => Sound(n) /\ Keeps(tables, n, {})
    BY RunUpdated DEF IInv
  <2> HIDE DEF n
  <2> QED BY <2>1, <2>2, CommitKeeps, RefuseKeeps
<1>4. CASE CleanupBranchExecution(c, q)
  <2> DEFINE n == [tables EXCEPT
           !.diffs = {row \in @ : q.run \notin {row.source, row.run}},
           !.artifacts = {row \in @ : row.run # q.run},
           !.snapshots = {row \in @ : row.run # q.run},
           !.edges = {row \in @ : row.run # q.run},
           !.events = {row \in @ : row.run # q.run},
           !.spans = {row \in @ : row.run # q.run},
           !.sequences = {row \in @ : row.run # q.run},
           !.branches = {row \in @ : row.run # q.run},
           !.jobs = {row \in @ : row.run # q.run},
           !.runs = {row \in @ : row.run # q.run}]
  <2>1. Commit(c, n, 0)
    BY <1>4 DEF CleanupBranchExecution
  <2>2. InProgress(q.run) /\ Owner[q.run] = c
    BY <1>4 DEF IInv, CallsOK, MayCall, CleanupBranchExecution
  <2>3. Sound(n) /\ Keeps(tables, n, {q.run})
    BY <2>2, RunCleanedUp DEF IInv
  <2>4. \A d \in Clients : d # c /\ call[d] # Idle
              /\ call[d].op \in {"insert_branch", "insert_replay_job"}
           => call[d].run \notin {q.run}
    BY <2>2 DEF IInv, CallsOK, MayCall
  <2>5. {q.run} \in SUBSET DOMAIN Owner
    BY <2>2 DEF InProgress
  <2> HIDE DEF n
  <2> QED BY <2>1, <2>3, <2>4, <2>5, CommitKeeps
<1> QED BY <1>1, <1>2, <1>3, <1>4

LEMMA StepKeeps ==
  ASSUME IInv, [Next]_vars
  PROVE  IInv'
<1>1. ASSUME NEW c \in Clients, NEW q \in Requests, Invoke(c, q)
      PROVE  IInv'
  <2>1. /\ UNCHANGED <<tables, passed, snapshots>>
        /\ call' = [call EXCEPT ![c] = q] /\ MayCall(c, q)
        /\ passed[c] = 0 /\ c \notin snapshots
    BY <1>1 DEF Invoke, IInv, CallsOK
  <2>2. CallsOK'
    BY <2>1, IdleAssumption DEF IInv, CallsOK, MayCall
  <2>3. SnapshotsCurrent' /\ FoundStays'
    BY <2>1, IdleAssumption DEF IInv, CallsOK, SnapshotsCurrent, FoundStays, FoundIn
  <2> QED BY <2>1, <2>2, <2>3 DEF IInv
<1>2. ASSUME NEW c \in Clients, call[c] # Idle, Step(c, call[c])
      PROVE  IInv'
  BY <1>2, RefuseKeeps, UpsertSpanKeeps, InsertEventKeeps,
     InsertArtifactKeeps, InsertSnapshotKeeps, InsertEdgeKeeps,
     UpdateReplayJobKeeps, InsertBranchKeeps, InsertReplayJobKeeps,
     InsertDiffKeeps, NextSequenceKeeps, WriteFirstKeeps DEF Step, Fail
<1>3. CASE UNCHANGED vars
  BY <1>3 DEF vars, IInv, CallsOK, MayCall, SnapshotsCurrent, FoundStays
<1> QED BY <1>1, <1>2, <1>3 DEF Next

\* No row of any table refers to something that is not there, other than a fork
\* in progress that another run's branch or job, or a diff, was made from:
\* whatever clients read, write, fork, compare and clean up in the meantime.
THEOREM ReferencesHold == Spec => []ReferencesResolve
<1>1. Init => IInv
  BY StoresAssumption DEF Init, IInv, Sound, CallsOK, SnapshotsCurrent,
     FoundStays
<1>2. IInv /\ [Next]_vars => IInv'
  BY StepKeeps
<1>3. IInv => ReferencesResolve
  BY DEF IInv, Sound, ReferencesResolve
<1> QED BY <1>1, <1>2, <1>3, PTL DEF Spec

----------------------------------------------------------------------------
(* Positions in a list                                                     *)

\* Members with numbers to sort by, and an id each.
Ordered(S, key, id) ==
    /\ IsFiniteSet(S)
    /\ key \in [S -> Nat] /\ id \in [S -> Nat]
    /\ \A a, b \in S : id[a] = id[b] => a = b

\* Every member has a position below the number of members.
LEMMA Positions ==
  ASSUME NEW S, NEW key, NEW id, Ordered(S, key, id)
  PROVE  \A a \in S : /\ IsFiniteSet(Before(S, key, id, a))
                      /\ Cardinality(Before(S, key, id, a)) \in 0..Cardinality(S) - 1
<1> SUFFICES ASSUME NEW a \in S
             PROVE  /\ IsFiniteSet(Before(S, key, id, a))
                    /\ Cardinality(Before(S, key, id, a)) \in 0..Cardinality(S) - 1
  OBVIOUS
<1>1. Before(S, key, id, a) \in SUBSET (S \ {a})
  BY DEF Before, Ordered
<1>2. /\ IsFiniteSet(S \ {a}) /\ Cardinality(S \ {a}) = Cardinality(S) - 1
      /\ Cardinality(S) \in Nat
  BY FS_RemoveElement, FS_CardinalityType DEF Ordered
<1>3. /\ IsFiniteSet(Before(S, key, id, a))
      /\ Cardinality(Before(S, key, id, a)) <= Cardinality(S) - 1
  BY <1>1, <1>2, FS_Subset
<1>4. Cardinality(Before(S, key, id, a)) \in Nat
  BY <1>3, FS_CardinalityType
<1> QED BY <1>2, <1>3, <1>4

\* Every position is taken by exactly one member: as many positions as members,
\* and of two members one comes before the other.
LEMMA OnePosition ==
  ASSUME NEW S, NEW key, NEW id, Ordered(S, key, id),
         NEW i \in 1..Cardinality(S)
  PROVE  \E a \in S :
            /\ Cardinality(Before(S, key, id, a)) = i - 1
            /\ \A b \in S : Cardinality(Before(S, key, id, b)) = i - 1 => b = a
<1> DEFINE before(a) == Before(S, key, id, a)
           position == [a \in S |-> Cardinality(before(a))]
           n == Cardinality(S)
<1>1. /\ \A a \in S : IsFiniteSet(before(a))
      /\ position \in [S -> 0..n - 1]
  BY Positions
<1>2. ASSUME NEW a \in S, NEW b \in S, a \in before(b)
      PROVE  Cardinality(before(a)) # Cardinality(before(b))
  <2>1. /\ before(a) \in SUBSET before(b) /\ a \notin before(a)
        /\ before(a) # before(b)
    BY <1>2 DEF Before, Ordered
  <2>2. IsFiniteSet(before(b))
    BY <1>1
  <2> HIDE DEF before
  <2> QED BY <2>1, <2>2, FS_Subset
<1>3. \A a, b \in S : a # b => a \in before(b) \/ b \in before(a)
  BY DEF Before, Ordered
<1>4. position \in Injection(S, 0..n - 1)
  <2>1. \A a, b \in S : position[a] = position[b] => a = b
    <3> HIDE DEF before
    <3> QED BY <1>2, <1>3
  <2> HIDE DEF position, n
  <2> QED BY <1>1, <2>1 DEF Injection, IsInjective
<1>5. n \in Nat
  BY FS_CardinalityType DEF Ordered
<1>6. IsFiniteSet(0..n - 1) /\ Cardinality(0..n - 1) = n
  <2>1. 0 \in Int /\ n - 1 \in Int /\ n >= 1
    BY <1>5
  <2>2. /\ IsFiniteSet(0..n - 1)
        /\ Cardinality(0..n - 1) = IF 0 > n - 1 THEN 0 ELSE (n - 1) - 0 + 1
    <3> HIDE DEF n
    <3> QED BY <2>1, FS_Interval
  <2> QED BY <1>5, <2>1, <2>2
<1>7. position \in Surjection(S, 0..n - 1)
  <2>1. Cardinality(S) = Cardinality(0..n - 1)
    BY <1>6
  <2> HIDE DEF position, n
  <2> QED BY <1>4, <1>6, <2>1, FS_Injection
<1>8. PICK a \in S : position[a] = i - 1
  <2>1. i - 1 \in 0..n - 1
    BY <1>5
  <2> HIDE DEF position, n
  <2> QED BY <1>7, <2>1 DEF Surjection
<1>9. \A b \in S : position[b] = position[a] => b = a
  <2> HIDE DEF position
  <2> QED BY <1>4 DEF Injection, IsInjective
<1> QED BY <1>8, <1>9

\* Sorting rows and taking their ids is sorting the ids by the keys of the rows.
LEMMA SameOrder ==
  ASSUME NEW S, NEW key, NEW id, Ordered(S, key, id),
         NEW T, id \in Surjection(S, T),
         NEW keyOf, \A a \in S : keyOf[id[a]] = key[a]
  PROVE  InOrder(S, key, id) = InOrder(T, keyOf, [k \in T |-> k])
<1> DEFINE self == [k \in T |-> k]
           At(a, i) == Cardinality(Before(S, key, id, a)) = i - 1
           AtT(k, i) == Cardinality(Before(T, keyOf, self, k)) = i - 1
<1>1. Cardinality(T) = Cardinality(S)
  <2>1. id \in Bijection(S, T)
    BY DEF Ordered, Bijection, Injection, IsInjective, Surjection
  <2> QED BY <2>1, FS_Bijection DEF Ordered, ExistsBijection
<1>2. \A a \in S : Cardinality(Before(T, keyOf, self, id[a]))
                      = Cardinality(Before(S, key, id, a))
  <2> TAKE a \in S
  <2> DEFINE B == Before(S, key, id, a)
             C == Before(T, keyOf, self, id[a])
             f == [b \in B |-> id[b]]
  <2>1. (\A b \in S : id[b] \in T) /\ \A k \in T : \E b \in S : id[b] = k
    BY DEF Surjection
  <2>2. C = {id[b] : b \in B}
    BY <2>1 DEF Before, Ordered
  <2>3. B \subseteq S
    BY DEF Before
  <2>4. f \in Bijection(B, C)
    <3> HIDE DEF B, C
    <3>1. f \in [B -> C]
      BY <2>2
    <3>2. \A x, y \in B : f[x] = f[y] => x = y
      BY <2>3 DEF Ordered
    <3>3. \A k \in C : \E x \in B : f[x] = k
      BY <2>2
    <3> HIDE DEF f
    <3> QED BY <3>1, <3>2, <3>3 DEF Bijection, Injection, Surjection, IsInjective
  <2>5. IsFiniteSet(B)
    BY Positions
  <2>6. Cardinality(C) = Cardinality(B)
    <3> HIDE DEF B, C, f
    <3> QED BY <2>4, <2>5, FS_Bijection DEF ExistsBijection
  <2> QED BY <2>6
<1>3. ASSUME NEW i \in 1..Cardinality(S)
      PROVE  id[CHOOSE a \in S : At(a, i)] = self[CHOOSE k \in T : AtT(k, i)]
  <2>1. \A k \in T : \E a \in S : id[a] = k
    BY DEF Surjection
  <2>2. PICK a \in S : At(a, i) /\ \A b \in S : At(b, i) => b = a
    BY <1>3, OnePosition
  <2>3. (CHOOSE b \in S : At(b, i)) = a
    <3> HIDE DEF At
    <3> QED BY <2>2
  <2>4. \A b \in S : AtT(id[b], i) <=> At(b, i)
    BY <1>2
  <2>5. id[a] \in T
    BY DEF Surjection
  <2>6. (CHOOSE k \in T : AtT(k, i)) = id[a]
    <3> HIDE DEF At, AtT
    <3>1. /\ id[a] \in T /\ AtT(id[a], i)
          /\ \A k \in T : AtT(k, i) => k = id[a]
      BY <2>1, <2>2, <2>4, <2>5
    <3> QED BY <3>1
  <2> HIDE DEF At, AtT
  <2> QED BY <2>3, <2>6, <2>5
<1>4. InOrder(T, keyOf, self) = [i \in 1..Cardinality(S) |->
        self[CHOOSE k \in T : Cardinality(Before(T, keyOf, self, k)) = i - 1]]
  <2> HIDE DEF self
  <2> QED BY <1>1 DEF InOrder
<1>5. InOrder(S, key, id) = InOrder(T, keyOf, self)
  <2> DEFINE ours(i) == id[CHOOSE a \in S : At(a, i)]
             theirs(i) == self[CHOOSE k \in T : AtT(k, i)]
  <2>1. \A i \in 1..Cardinality(S) : ours(i) = theirs(i)
    BY <1>3
  <2>2. InOrder(S, key, id) = [i \in 1..Cardinality(S) |-> ours(i)]
    BY DEF InOrder
  <2>3. InOrder(T, keyOf, self) = [i \in 1..Cardinality(S) |-> theirs(i)]
    <3> HIDE DEF self
    <3> QED BY <1>4
  <2> HIDE DEF ours, theirs
  <2> QED BY <2>1, <2>2, <2>3
<1> QED BY <1>5

----------------------------------------------------------------------------
(* Tables as maps                                                          *)

\* What keys a table has rows for, and the row of a key.
Runs(rows) == {row.run : row \in rows}
Mine(rows, run) == {row \in rows : row.run = run}
Ids(rows, run) == {row.id : row \in Mine(rows, run)}
The(rows, run) == CHOOSE row \in rows : row.run = run
TheOne(rows, run, id) == CHOOSE row \in Mine(rows, run) : row.id = id

\* The table new is rows with row as the one of its run.
Replaced(rows, row, new) ==
    /\ OnePerRun(new) /\ row \in new
    /\ Runs(new) = Runs(rows) \cup {row.run}
    /\ The(new, row.run) = row
    /\ \A run \in Runs(rows) : run # row.run => The(new, run) = The(rows, run)

LEMMA RowPut ==
  ASSUME NEW rows, OnePerRun(rows), NEW row, NEW new,
         new = {r \in rows : r.run # row.run} \cup {row}
  PROVE  Replaced(rows, row, new)
<1>1. OnePerRun(new)
  BY DEF OnePerRun
<1>2. Runs(new) = Runs(rows) \cup {row.run}
  BY DEF Runs
<1>3. The(new, row.run) = row
  BY DEF The
<1>4. ASSUME NEW run \in Runs(rows), run # row.run
      PROVE  The(new, run) = The(rows, run)
  <2>1. PICK r \in rows : r.run = run
    BY DEF Runs
  <2>2. The(rows, run) = r
    BY <2>1 DEF The, OnePerRun
  <2>3. The(new, run) = r
    BY <2>1, <1>1, <1>4 DEF The, OnePerRun
  <2> QED BY <2>2, <2>3
<1> QED BY <1>1, <1>2, <1>3, <1>4 DEF Replaced

\* The map of a table with one row for a run, the values given by a function.
MapBy(rows, v) == [run \in Runs(rows) |-> v[The(rows, run)]]

\* Replacing the row of a run puts its value into the map.
LEMMA MapPut ==
  ASSUME NEW rows, NEW row, NEW new, Replaced(rows, row, new), NEW v
  PROVE  MapBy(new, v) = Memory!Put(MapBy(rows, v), row.run, v[row])
BY DEF Replaced, MapBy, Memory!Put

\* Deleting the rows of a run drops it from the map.
LEMMA MapDropped ==
  ASSUME NEW rows, OnePerRun(rows), NEW run, NEW new,
         new = {r \in rows : r.run # run}, NEW v
  PROVE  /\ OnePerRun(new)
         /\ MapBy(new, v) = Memory!Drop(MapBy(rows, v), run)
<1>1. OnePerRun(new) /\ Runs(new) = Runs(rows) \ {run}
  BY DEF OnePerRun, Runs
<1>2. ASSUME NEW other \in Runs(new)
      PROVE  The(new, other) = The(rows, other)
  <2>1. PICK r \in new : r.run = other
    BY DEF Runs
  <2> QED BY <2>1, <1>1 DEF The, OnePerRun
<1>3. DOMAIN MapBy(rows, v) = Runs(rows)
  BY DEF MapBy
<1>4. MapBy(new, v) = [other \in Runs(rows) \ {run} |-> MapBy(rows, v)[other]]
  BY <1>1, <1>2 DEF MapBy
<1> QED BY <1>1, <1>3, <1>4 DEF Memory!Drop, Memory!Restrict

\* The table new is rows with row under its key (run, id).
Added(rows, row, new) ==
    /\ OnePerId(new) /\ row \in new
    /\ Runs(new) = Runs(rows) \cup {row.run}
    /\ Ids(new, row.run) = Ids(rows, row.run) \cup {row.id}
    /\ TheOne(new, row.run, row.id) = row
    /\ \A id \in Ids(rows, row.run) : id # row.id =>
          TheOne(new, row.run, id) = TheOne(rows, row.run, id)
    /\ \A run : run # row.run => Mine(new, run) = Mine(rows, run)

LEMMA KeyedRowPut ==
  ASSUME NEW rows, OnePerId(rows), NEW row, NEW new,
         new = (rows \ Keyed(rows, row.run, row.id)) \cup {row}
  PROVE  Added(rows, row, new)
<1>1. OnePerId(new)
  BY DEF OnePerId, Keyed
<1>2. Runs(new) = Runs(rows) \cup {row.run}
  BY DEF Runs, Keyed
<1>3. Ids(new, row.run) = Ids(rows, row.run) \cup {row.id}
  BY DEF Ids, Mine, Keyed
<1>4. TheOne(new, row.run, row.id) = row
  BY <1>1 DEF TheOne, Mine, OnePerId
<1>5. ASSUME NEW id \in Ids(rows, row.run), id # row.id
      PROVE  TheOne(new, row.run, id) = TheOne(rows, row.run, id)
  <2>1. PICK r \in Mine(rows, row.run) : r.id = id
    BY DEF Ids
  <2>2. TheOne(rows, row.run, id) = r
    BY <2>1 DEF TheOne, Mine, OnePerId
  <2>3. r \in Mine(new, row.run)
    BY <2>1, <1>5 DEF Mine, Keyed
  <2>4. TheOne(new, row.run, id) = r
    BY <2>1, <2>3, <1>1 DEF TheOne, Mine, OnePerId
  <2> QED BY <2>2, <2>4
<1>6. \A run : run # row.run => Mine(new, run) = Mine(rows, run)
  BY DEF Mine, Keyed
<1> QED BY <1>1, <1>2, <1>3, <1>4, <1>5, <1>6 DEF Added

\* The nested maps of a table's rows, the values given by a function.
NestedBy(rows, v) == [run \in Runs(rows) |->
    [id \in Ids(rows, run) |-> v[TheOne(rows, run, id)]]]

\* Adding a row puts its value into the map of its run.
LEMMA NestedPut ==
  ASSUME NEW rows, NEW row, NEW new, Added(rows, row, new), NEW v
  PROVE  NestedBy(new, v) =
           Memory!PutOf(NestedBy(rows, v), row.run, row.id, v[row])
<1> DEFINE at(s, run) == [id \in Ids(s, run) |-> v[TheOne(s, run, id)]]
<1>1. Memory!Put(Memory!Of(NestedBy(rows, v), row.run), row.id, v[row])
        = at(new, row.run)
  <2>1. Memory!Of(NestedBy(rows, v), row.run) = at(rows, row.run)
    <3>1. row.run \notin Runs(rows) => Ids(rows, row.run) = {}
      BY DEF Runs, Ids, Mine
    <3> QED BY <3>1 DEF Memory!Of, Memory!Empty, NestedBy
  <2>2. \A id \in Ids(new, row.run) : TheOne(new, row.run, id) =
           IF id = row.id THEN row ELSE TheOne(rows, row.run, id)
    BY DEF Added
  <2> QED BY <2>1, <2>2 DEF Memory!Put, Added
<1>2. ASSUME NEW run, run # row.run
      PROVE  at(new, run) = at(rows, run)
  <2>1. Mine(new, run) = Mine(rows, run)
    BY <1>2 DEF Added
  <2>2. /\ Ids(new, run) = Ids(rows, run)
        /\ \A id : TheOne(new, run, id) = TheOne(rows, run, id)
    BY <2>1 DEF Ids, TheOne
  <2> QED BY <2>2
<1>3. NestedBy(new, v) = [run \in Runs(rows) \cup {row.run} |->
        IF run = row.run THEN at(new, row.run) ELSE NestedBy(rows, v)[run]]
  <2>1. Runs(new) = Runs(rows) \cup {row.run}
    BY DEF Added
  <2>2. \A run \in Runs(rows) : run # row.run =>
           at(new, run) = NestedBy(rows, v)[run]
    BY <1>2 DEF NestedBy
  <2>3. NestedBy(new, v) = [run \in Runs(new) |-> at(new, run)]
    BY DEF NestedBy
  <2> HIDE DEF at
  <2> QED BY <2>1, <2>2, <2>3
<1>4. DOMAIN NestedBy(rows, v) = Runs(rows)
  BY DEF NestedBy
<1> QED BY <1>1, <1>3, <1>4 DEF Memory!PutOf, Memory!Put

\* Deleting the rows of a run drops its map.
LEMMA NestedDropped ==
  ASSUME NEW rows, OnePerId(rows), NEW run, NEW new,
         new = {r \in rows : r.run # run}, NEW v
  PROVE  /\ OnePerId(new)
         /\ NestedBy(new, v) = Memory!Drop(NestedBy(rows, v), run)
<1>1. OnePerId(new) /\ Runs(new) = Runs(rows) \ {run}
  BY DEF OnePerId, Runs
<1>2. ASSUME NEW other, other # run
      PROVE  [id \in Ids(new, other) |-> v[TheOne(new, other, id)]]
                = [id \in Ids(rows, other) |-> v[TheOne(rows, other, id)]]
  <2>1. Mine(new, other) = Mine(rows, other)
    BY <1>2 DEF Mine
  <2>2. /\ Ids(new, other) = Ids(rows, other)
        /\ \A id : TheOne(new, other, id) = TheOne(rows, other, id)
    BY <2>1 DEF Ids, TheOne
  <2> QED BY <2>2
<1>3. NestedBy(new, v) = [other \in Runs(rows) \ {run} |->
                             NestedBy(rows, v)[other]]
  BY <1>1, <1>2 DEF NestedBy
<1>4. DOMAIN NestedBy(rows, v) = Runs(rows)
  BY DEF NestedBy
<1> QED BY <1>1, <1>3, <1>4 DEF Memory!Drop, Memory!Restrict

\* ByRun and NestedRows take the value as an operator: as a function of rows it
\* can be quantified over.
LEMMA ValuesByRun ==
  ASSUME NEW rows, NEW all, rows \subseteq all
  PROVE  /\ ByRun(rows, Record) = MapBy(rows, [row \in all |-> Record(row)])
         /\ ByRun(rows, Branch) = MapBy(rows, [row \in all |-> Branch(row)])
         /\ ByRun(rows, Job) = MapBy(rows, [row \in all |-> Job(row)])
         /\ ByRun(rows, Counter) = MapBy(rows, [row \in all |-> Counter(row)])
<1>1. \A run \in Runs(rows) : The(rows, run) \in all
  BY DEF Runs, The
<1> QED BY <1>1 DEF ByRun, MapBy, Runs, The

LEMMA ValuesById ==
  ASSUME NEW rows, NEW all, rows \subseteq all
  PROVE  /\ NestedRows(rows, Span) = NestedBy(rows, [row \in all |-> Span(row)])
         /\ NestedRows(rows, Event) = NestedBy(rows, [row \in all |-> Event(row)])
         /\ NestedRows(rows, Artifact) =
           NestedBy(rows, [row \in all |-> Artifact(row)])
         /\ NestedRows(rows, Snapshot) =
           NestedBy(rows, [row \in all |-> Snapshot(row)])
         /\ NestedRows(rows, Edge) = NestedBy(rows, [row \in all |-> Edge(row)])
<1>1. \A run \in Runs(rows) : \A id \in Ids(rows, run) : TheOne(rows, run, id) \in all
  BY DEF Ids, TheOne, Mine
<1> QED BY <1>1 DEF NestedRows, NestedBy, Runs, Ids, TheOne, Mine

LEMMA ByRunPut ==
  ASSUME NEW rows, NEW row, NEW new, Replaced(rows, row, new)
  PROVE  /\ ByRun(new, Record) = Memory!Put(ByRun(rows, Record), row.run, Record(row))
         /\ ByRun(new, Branch) = Memory!Put(ByRun(rows, Branch), row.run, Branch(row))
         /\ ByRun(new, Job) = Memory!Put(ByRun(rows, Job), row.run, Job(row))
         /\ ByRun(new, Counter) =
           Memory!Put(ByRun(rows, Counter), row.run, Counter(row))
<1> DEFINE all == rows \cup new
<1>1. row \in new
  BY DEF Replaced
<1>2. rows \subseteq all /\ new \subseteq all
  OBVIOUS
<1> HIDE DEF all
<1>3. ByRun(new, Record) = Memory!Put(ByRun(rows, Record), row.run, Record(row))
  <2> DEFINE v == [r \in all |-> Record(r)]
  <2>1. ByRun(rows, Record) = MapBy(rows, v) /\ ByRun(new, Record) = MapBy(new, v)
    BY <1>2, ValuesByRun
  <2>2. v[row] = Record(row)
    BY <1>1, <1>2
  <2> HIDE DEF v
  <2> QED BY <2>1, <2>2, MapPut
<1>4. ByRun(new, Branch) = Memory!Put(ByRun(rows, Branch), row.run, Branch(row))
  <2> DEFINE v == [r \in all |-> Branch(r)]
  <2>1. ByRun(rows, Branch) = MapBy(rows, v) /\ ByRun(new, Branch) = MapBy(new, v)
    BY <1>2, ValuesByRun
  <2>2. v[row] = Branch(row)
    BY <1>1, <1>2
  <2> HIDE DEF v
  <2> QED BY <2>1, <2>2, MapPut
<1>5. ByRun(new, Job) = Memory!Put(ByRun(rows, Job), row.run, Job(row))
  <2> DEFINE v == [r \in all |-> Job(r)]
  <2>1. ByRun(rows, Job) = MapBy(rows, v) /\ ByRun(new, Job) = MapBy(new, v)
    BY <1>2, ValuesByRun
  <2>2. v[row] = Job(row)
    BY <1>1, <1>2
  <2> HIDE DEF v
  <2> QED BY <2>1, <2>2, MapPut
<1>6. ByRun(new, Counter) = Memory!Put(ByRun(rows, Counter), row.run, Counter(row))
  <2> DEFINE v == [r \in all |-> Counter(r)]
  <2>1. ByRun(rows, Counter) = MapBy(rows, v) /\ ByRun(new, Counter) = MapBy(new, v)
    BY <1>2, ValuesByRun
  <2>2. v[row] = Counter(row)
    BY <1>1, <1>2
  <2> HIDE DEF v
  <2> QED BY <2>1, <2>2, MapPut
<1> QED BY <1>3, <1>4, <1>5, <1>6

\* The rows that a run's cleanup leaves.
Without(rows, run, new) == new = {row \in rows : row.run # run}

LEMMA ByRunDropped ==
  ASSUME NEW rows, OnePerRun(rows), NEW run, NEW new, Without(rows, run, new)
  PROVE  /\ ByRun(new, Record) = Memory!Drop(ByRun(rows, Record), run)
         /\ ByRun(new, Branch) = Memory!Drop(ByRun(rows, Branch), run)
         /\ ByRun(new, Job) = Memory!Drop(ByRun(rows, Job), run)
         /\ ByRun(new, Counter) = Memory!Drop(ByRun(rows, Counter), run)
<1> DEFINE all == rows \cup new
<1>1. rows \subseteq all /\ new \subseteq all
  BY DEF Without
<1> HIDE DEF all
<1>2. ByRun(new, Record) = Memory!Drop(ByRun(rows, Record), run)
  <2> DEFINE v == [r \in all |-> Record(r)]
  <2>1. ByRun(rows, Record) = MapBy(rows, v) /\ ByRun(new, Record) = MapBy(new, v)
    BY <1>1, ValuesByRun
  <2> HIDE DEF v
  <2> QED BY <2>1, MapDropped DEF Without
<1>3. ByRun(new, Branch) = Memory!Drop(ByRun(rows, Branch), run)
  <2> DEFINE v == [r \in all |-> Branch(r)]
  <2>1. ByRun(rows, Branch) = MapBy(rows, v) /\ ByRun(new, Branch) = MapBy(new, v)
    BY <1>1, ValuesByRun
  <2> HIDE DEF v
  <2> QED BY <2>1, MapDropped DEF Without
<1>4. ByRun(new, Job) = Memory!Drop(ByRun(rows, Job), run)
  <2> DEFINE v == [r \in all |-> Job(r)]
  <2>1. ByRun(rows, Job) = MapBy(rows, v) /\ ByRun(new, Job) = MapBy(new, v)
    BY <1>1, ValuesByRun
  <2> HIDE DEF v
  <2> QED BY <2>1, MapDropped DEF Without
<1>5. ByRun(new, Counter) = Memory!Drop(ByRun(rows, Counter), run)
  <2> DEFINE v == [r \in all |-> Counter(r)]
  <2>1. ByRun(rows, Counter) = MapBy(rows, v) /\ ByRun(new, Counter) = MapBy(new, v)
    BY <1>1, ValuesByRun
  <2> HIDE DEF v
  <2> QED BY <2>1, MapDropped DEF Without
<1> QED BY <1>2, <1>3, <1>4, <1>5

LEMMA NestedRowsPut ==
  ASSUME NEW rows, NEW row, NEW new, Added(rows, row, new)
  PROVE  /\ NestedRows(new, Span) =
              Memory!PutOf(NestedRows(rows, Span), row.run, row.id, Span(row))
         /\ NestedRows(new, Event) =
              Memory!PutOf(NestedRows(rows, Event), row.run, row.id, Event(row))
         /\ NestedRows(new, Artifact) =
              Memory!PutOf(NestedRows(rows, Artifact), row.run, row.id, Artifact(row))
         /\ NestedRows(new, Snapshot) =
              Memory!PutOf(NestedRows(rows, Snapshot), row.run, row.id, Snapshot(row))
         /\ NestedRows(new, Edge) =
              Memory!PutOf(NestedRows(rows, Edge), row.run, row.id, Edge(row))
<1> DEFINE all == rows \cup new
<1>1. row \in new
  BY DEF Added
<1>2. rows \subseteq all /\ new \subseteq all
  OBVIOUS
<1> HIDE DEF all
<1>3. NestedRows(new, Span) =
              Memory!PutOf(NestedRows(rows, Span), row.run, row.id, Span(row))
  <2> DEFINE v == [r \in all |-> Span(r)]
  <2>1. /\ NestedRows(rows, Span) = NestedBy(rows, v)
        /\ NestedRows(new, Span) = NestedBy(new, v)
    BY <1>2, ValuesById
  <2>2. v[row] = Span(row)
    BY <1>1, <1>2
  <2> HIDE DEF v
  <2> QED BY <2>1, <2>2, NestedPut
<1>4. NestedRows(new, Event) =
              Memory!PutOf(NestedRows(rows, Event), row.run, row.id, Event(row))
  <2> DEFINE v == [r \in all |-> Event(r)]
  <2>1. /\ NestedRows(rows, Event) = NestedBy(rows, v)
        /\ NestedRows(new, Event) = NestedBy(new, v)
    BY <1>2, ValuesById
  <2>2. v[row] = Event(row)
    BY <1>1, <1>2
  <2> HIDE DEF v
  <2> QED BY <2>1, <2>2, NestedPut
<1>5. NestedRows(new, Artifact) =
              Memory!PutOf(NestedRows(rows, Artifact), row.run, row.id, Artifact(row))
  <2> DEFINE v == [r \in all |-> Artifact(r)]
  <2>1. /\ NestedRows(rows, Artifact) = NestedBy(rows, v)
        /\ NestedRows(new, Artifact) = NestedBy(new, v)
    BY <1>2, ValuesById
  <2>2. v[row] = Artifact(row)
    BY <1>1, <1>2
  <2> HIDE DEF v
  <2> QED BY <2>1, <2>2, NestedPut
<1>6. NestedRows(new, Snapshot) =
              Memory!PutOf(NestedRows(rows, Snapshot), row.run, row.id, Snapshot(row))
  <2> DEFINE v == [r \in all |-> Snapshot(r)]
  <2>1. /\ NestedRows(rows, Snapshot) = NestedBy(rows, v)
        /\ NestedRows(new, Snapshot) = NestedBy(new, v)
    BY <1>2, ValuesById
  <2>2. v[row] = Snapshot(row)
    BY <1>1, <1>2
  <2> HIDE DEF v
  <2> QED BY <2>1, <2>2, NestedPut
<1>7. NestedRows(new, Edge) =
              Memory!PutOf(NestedRows(rows, Edge), row.run, row.id, Edge(row))
  <2> DEFINE v == [r \in all |-> Edge(r)]
  <2>1. /\ NestedRows(rows, Edge) = NestedBy(rows, v)
        /\ NestedRows(new, Edge) = NestedBy(new, v)
    BY <1>2, ValuesById
  <2>2. v[row] = Edge(row)
    BY <1>1, <1>2
  <2> HIDE DEF v
  <2> QED BY <2>1, <2>2, NestedPut
<1> QED BY <1>3, <1>4, <1>5, <1>6, <1>7

LEMMA NestedRowsDropped ==
  ASSUME NEW rows, OnePerId(rows), NEW run, NEW new, Without(rows, run, new)
  PROVE  /\ NestedRows(new, Span) =
              Memory!Drop(NestedRows(rows, Span), run)
         /\ NestedRows(new, Event) =
              Memory!Drop(NestedRows(rows, Event), run)
         /\ NestedRows(new, Artifact) =
              Memory!Drop(NestedRows(rows, Artifact), run)
         /\ NestedRows(new, Snapshot) =
              Memory!Drop(NestedRows(rows, Snapshot), run)
         /\ NestedRows(new, Edge) =
              Memory!Drop(NestedRows(rows, Edge), run)
<1> DEFINE all == rows \cup new
<1>1. rows \subseteq all /\ new \subseteq all
  BY DEF Without
<1> HIDE DEF all
<1>2. NestedRows(new, Span) =
              Memory!Drop(NestedRows(rows, Span), run)
  <2> DEFINE v == [r \in all |-> Span(r)]
  <2>1. /\ NestedRows(rows, Span) = NestedBy(rows, v)
        /\ NestedRows(new, Span) = NestedBy(new, v)
    BY <1>1, ValuesById
  <2> HIDE DEF v
  <2> QED BY <2>1, NestedDropped DEF Without
<1>3. NestedRows(new, Event) =
              Memory!Drop(NestedRows(rows, Event), run)
  <2> DEFINE v == [r \in all |-> Event(r)]
  <2>1. /\ NestedRows(rows, Event) = NestedBy(rows, v)
        /\ NestedRows(new, Event) = NestedBy(new, v)
    BY <1>1, ValuesById
  <2> HIDE DEF v
  <2> QED BY <2>1, NestedDropped DEF Without
<1>4. NestedRows(new, Artifact) =
              Memory!Drop(NestedRows(rows, Artifact), run)
  <2> DEFINE v == [r \in all |-> Artifact(r)]
  <2>1. /\ NestedRows(rows, Artifact) = NestedBy(rows, v)
        /\ NestedRows(new, Artifact) = NestedBy(new, v)
    BY <1>1, ValuesById
  <2> HIDE DEF v
  <2> QED BY <2>1, NestedDropped DEF Without
<1>5. NestedRows(new, Snapshot) =
              Memory!Drop(NestedRows(rows, Snapshot), run)
  <2> DEFINE v == [r \in all |-> Snapshot(r)]
  <2>1. /\ NestedRows(rows, Snapshot) = NestedBy(rows, v)
        /\ NestedRows(new, Snapshot) = NestedBy(new, v)
    BY <1>1, ValuesById
  <2> HIDE DEF v
  <2> QED BY <2>1, NestedDropped DEF Without
<1>6. NestedRows(new, Edge) =
              Memory!Drop(NestedRows(rows, Edge), run)
  <2> DEFINE v == [r \in all |-> Edge(r)]
  <2>1. /\ NestedRows(rows, Edge) = NestedBy(rows, v)
        /\ NestedRows(new, Edge) = NestedBy(new, v)
    BY <1>1, ValuesById
  <2> HIDE DEF v
  <2> QED BY <2>1, NestedDropped DEF Without
<1> QED BY <1>2, <1>3, <1>4, <1>5, <1>6

LEMMA StillFinite ==
  ASSUME NEW rows, IsFiniteSet(rows), NEW row, NEW new,
         new \subseteq rows \cup {row}
  PROVE  IsFiniteSet(new)
BY FS_AddElement, FS_Subset

\* The fields of a MemoryState.
IsMaps(m) ==
    m = [runs |-> m.runs, spans |-> m.spans, events |-> m.events,
         artifacts |-> m.artifacts, snapshots |-> m.snapshots,
         edges |-> m.edges, branches |-> m.branches, jobs |-> m.jobs,
         diffs |-> m.diffs, sequences |-> m.sequences, counters |-> m.counters]

\* n is m, but for some fields.
SameBut(m, n, fields) ==
    /\ IsMaps(n)
    /\ "runs" \notin fields => m.runs = n.runs
    /\ "spans" \notin fields => m.spans = n.spans
    /\ "events" \notin fields => m.events = n.events
    /\ "artifacts" \notin fields => m.artifacts = n.artifacts
    /\ "snapshots" \notin fields => m.snapshots = n.snapshots
    /\ "edges" \notin fields => m.edges = n.edges
    /\ "branches" \notin fields => m.branches = n.branches
    /\ "jobs" \notin fields => m.jobs = n.jobs
    /\ "diffs" \notin fields => m.diffs = n.diffs
    /\ "sequences" \notin fields => m.sequences = n.sequences
    /\ "counters" \notin fields => m.counters = n.counters

\* m is what the tables of t look like.
MapsOf(t, m) ==
    /\ IsMaps(m)
    /\ m.runs = ByRun(t.runs, Record) /\ m.branches = ByRun(t.branches, Branch)
    /\ m.jobs = ByRun(t.jobs, Job) /\ m.sequences = ByRun(t.sequences, Counter)
    /\ m.spans = NestedRows(t.spans, Span)
    /\ m.events = NestedRows(t.events, Event)
    /\ m.artifacts = NestedRows(t.artifacts, Artifact)
    /\ m.snapshots = NestedRows(t.snapshots, Snapshot)
    /\ m.edges = NestedRows(t.edges, Edge)
    /\ m.diffs = {<<row.source, row.run>> : row \in t.diffs}
    /\ m.counters = t.counters

LEMMA NestedMaps ==
  ASSUME NEW t
  PROVE  MapsOf(t, Nested(t))
BY DEF Nested, MapsOf, IsMaps

\* The map of every table, with the values as a function of its rows.
LEMMA MapsByRun ==
  ASSUME NEW t
  PROVE  /\ Nested(t).runs = MapBy(t.runs, [row \in t.runs |-> Record(row)])
         /\ Nested(t).branches =
           MapBy(t.branches, [row \in t.branches |-> Branch(row)])
         /\ Nested(t).jobs = MapBy(t.jobs, [row \in t.jobs |-> Job(row)])
         /\ Nested(t).sequences =
           MapBy(t.sequences, [row \in t.sequences |-> Counter(row)])
<1>1. MapsOf(t, Nested(t))
  BY NestedMaps
<1>2. Nested(t).runs = MapBy(t.runs, [row \in t.runs |-> Record(row)])
  <2>1. ByRun(t.runs, Record) = MapBy(t.runs, [row \in t.runs |-> Record(row)])
    BY ValuesByRun
  <2>2. Nested(t).runs = ByRun(t.runs, Record)
    BY <1>1 DEF MapsOf
  <2> QED BY <2>1, <2>2
<1>3. Nested(t).branches = MapBy(t.branches, [row \in t.branches |-> Branch(row)])
  <2>1. ByRun(t.branches, Branch) =
          MapBy(t.branches, [row \in t.branches |-> Branch(row)])
    BY ValuesByRun
  <2>2. Nested(t).branches = ByRun(t.branches, Branch)
    BY <1>1 DEF MapsOf
  <2> QED BY <2>1, <2>2
<1>4. Nested(t).jobs = MapBy(t.jobs, [row \in t.jobs |-> Job(row)])
  <2>1. ByRun(t.jobs, Job) = MapBy(t.jobs, [row \in t.jobs |-> Job(row)])
    BY ValuesByRun
  <2>2. Nested(t).jobs = ByRun(t.jobs, Job)
    BY <1>1 DEF MapsOf
  <2> QED BY <2>1, <2>2
<1>5. Nested(t).sequences = MapBy(t.sequences, [row \in t.sequences |-> Counter(row)])
  <2>1. ByRun(t.sequences, Counter) =
          MapBy(t.sequences, [row \in t.sequences |-> Counter(row)])
    BY ValuesByRun
  <2>2. Nested(t).sequences = ByRun(t.sequences, Counter)
    BY <1>1 DEF MapsOf
  <2> QED BY <2>1, <2>2
<1> QED BY <1>2, <1>3, <1>4, <1>5

LEMMA MapsById ==
  ASSUME NEW t
  PROVE  /\ Nested(t).spans = NestedBy(t.spans, [row \in t.spans |-> Span(row)])
         /\ Nested(t).events = NestedBy(t.events, [row \in t.events |-> Event(row)])
         /\ Nested(t).artifacts =
           NestedBy(t.artifacts, [row \in t.artifacts |-> Artifact(row)])
         /\ Nested(t).snapshots =
           NestedBy(t.snapshots, [row \in t.snapshots |-> Snapshot(row)])
         /\ Nested(t).edges = NestedBy(t.edges, [row \in t.edges |-> Edge(row)])
<1>1. MapsOf(t, Nested(t))
  BY NestedMaps
<1>2. Nested(t).spans = NestedBy(t.spans, [row \in t.spans |-> Span(row)])
  <2>1. NestedRows(t.spans, Span) = NestedBy(t.spans, [row \in t.spans |-> Span(row)])
    BY ValuesById
  <2>2. Nested(t).spans = NestedRows(t.spans, Span)
    BY <1>1 DEF MapsOf
  <2> QED BY <2>1, <2>2
<1>3. Nested(t).events = NestedBy(t.events, [row \in t.events |-> Event(row)])
  <2>1. NestedRows(t.events, Event) =
          NestedBy(t.events, [row \in t.events |-> Event(row)])
    BY ValuesById
  <2>2. Nested(t).events = NestedRows(t.events, Event)
    BY <1>1 DEF MapsOf
  <2> QED BY <2>1, <2>2
<1>4. Nested(t).artifacts =
        NestedBy(t.artifacts, [row \in t.artifacts |-> Artifact(row)])
  <2>1. NestedRows(t.artifacts, Artifact) =
          NestedBy(t.artifacts, [row \in t.artifacts |-> Artifact(row)])
    BY ValuesById
  <2>2. Nested(t).artifacts = NestedRows(t.artifacts, Artifact)
    BY <1>1 DEF MapsOf
  <2> QED BY <2>1, <2>2
<1>5. Nested(t).snapshots =
        NestedBy(t.snapshots, [row \in t.snapshots |-> Snapshot(row)])
  <2>1. NestedRows(t.snapshots, Snapshot) =
          NestedBy(t.snapshots, [row \in t.snapshots |-> Snapshot(row)])
    BY ValuesById
  <2>2. Nested(t).snapshots = NestedRows(t.snapshots, Snapshot)
    BY <1>1 DEF MapsOf
  <2> QED BY <2>1, <2>2
<1>6. Nested(t).edges = NestedBy(t.edges, [row \in t.edges |-> Edge(row)])
  <2>1. NestedRows(t.edges, Edge) = NestedBy(t.edges, [row \in t.edges |-> Edge(row)])
    BY ValuesById
  <2>2. Nested(t).edges = NestedRows(t.edges, Edge)
    BY <1>1 DEF MapsOf
  <2> QED BY <2>1, <2>2
<1> QED BY <1>2, <1>3, <1>4, <1>5, <1>6

LEMMA SameMaps ==
  ASSUME NEW m, NEW n, IsMaps(m), SameBut(m, n, {})
  PROVE  m = n
BY DEF IsMaps, SameBut

\* The rows of t are those of n, but for some tables.
SameTables(t, n, tabs) ==
    /\ "runs" \notin tabs => t.runs = n.runs
    /\ "sequences" \notin tabs => t.sequences = n.sequences
    /\ "spans" \notin tabs => t.spans = n.spans
    /\ "events" \notin tabs => t.events = n.events
    /\ "artifacts" \notin tabs => t.artifacts = n.artifacts
    /\ "snapshots" \notin tabs => t.snapshots = n.snapshots
    /\ "edges" \notin tabs => t.edges = n.edges
    /\ "branches" \notin tabs => t.branches = n.branches
    /\ "jobs" \notin tabs => t.jobs = n.jobs
    /\ "diffs" \notin tabs => t.diffs = n.diffs
    /\ "counters" \notin tabs => t.counters = n.counters

LEMMA MapsOfSameTables ==
  ASSUME NEW t, NEW n, NEW tabs, SameTables(t, n, tabs)
  PROVE  SameBut(Nested(t), Nested(n), tabs)
BY DEF SameTables, SameBut, Nested, IsMaps

----------------------------------------------------------------------------
(* What the calls write, as maps                                           *)

\* What the reads and the mapping to maps need of the tables.
Rows(t) == IsTables(t) /\ KeysIn(t) /\ NumbersIn(t)

\* What each call writes keeps keys and numbers, and looks like what the
\* in-memory store does to its maps.
LEMMA SpanMapped ==
  ASSUME NEW t, Rows(t), NEW run, NEW id, NEW parent, NEW seq, id \in Nat,
         seq \in Nat,
         NEW n, n = [t EXCEPT !.spans = (@ \ Keyed(@, run, id)) \cup
              {[run |-> run, id |-> id, parent |-> parent, seq |-> seq]}]
  PROVE  /\ Rows(n)
         /\ Nested(n) = [Nested(t) EXCEPT !.spans =
              Memory!PutOf(@, run, id, [parent |-> parent, seq |-> seq])]
<1> DEFINE row == [run |-> run, id |-> id, parent |-> parent, seq |-> seq]
           value == [parent |-> parent, seq |-> seq]
<1>1. /\ IsTables(n)
      /\ n.spans = (t.spans \ Keyed(t.spans, row.run, row.id)) \cup {row}
      /\ n.runs = t.runs /\ n.sequences = t.sequences
      /\ n.events = t.events /\ n.artifacts = t.artifacts
      /\ n.snapshots = t.snapshots /\ n.edges = t.edges
      /\ n.branches = t.branches /\ n.jobs = t.jobs /\ n.diffs = t.diffs
      /\ n.counters = t.counters
  BY DEF Rows, IsTables
<1>2. Added(t.spans, row, n.spans)
  <2> HIDE DEF row
  <2> QED BY <1>1, KeyedRowPut DEF Rows, KeysIn
<1>3. NestedRows(n.spans, Span) =
        Memory!PutOf(NestedRows(t.spans, Span), run, id, value)
  <2>1. row.run = run /\ row.id = id /\ Span(row) = value
    BY DEF Span
  <2> HIDE DEF row
  <2>2. NestedRows(n.spans, Span) =
          Memory!PutOf(NestedRows(t.spans, Span), row.run, row.id, Span(row))
    BY <1>2, NestedRowsPut
  <2> QED BY <2>1, <2>2
<1>4. KeysIn(n)
  BY <1>1, <1>2 DEF Rows, KeysIn, Added
<1>5. NumbersIn(n)
  <2>1. IsFiniteSet(t.spans) => IsFiniteSet(n.spans)
    <3> HIDE DEF row
    <3> QED BY <1>1, StillFinite
  <2> QED BY <1>1, <2>1 DEF Rows, NumbersIn
<1>6. Nested(n) = [Nested(t) EXCEPT !.spans = Memory!PutOf(@, run, id, value)]
  <2> DEFINE x == Memory!PutOf(Nested(t).spans, run, id, value)
             m == [Nested(t) EXCEPT !.spans = x]
  <2>1. m.spans = x /\ SameBut(Nested(t), m, {"spans"})
    <3> HIDE DEF x
    <3> QED BY NestedMaps DEF MapsOf, SameBut, IsMaps
  <2>2. Nested(n).spans = x /\ SameBut(Nested(t), Nested(n), {"spans"})
    <3>1. /\ Nested(n).spans = NestedRows(n.spans, Span)
          /\ Nested(t).spans = NestedRows(t.spans, Span)
      BY NestedMaps DEF MapsOf
    <3>2. Nested(n).spans = x
      BY <1>3, <3>1
    <3>3. SameBut(Nested(t), Nested(n), {"spans"})
      <4> HIDE DEF x, row
      <4> QED BY <1>1, MapsOfSameTables DEF SameTables
    <3> QED BY <3>2, <3>3
  <2>3. m = Nested(n)
    <3> HIDE DEF x, m
    <3> QED BY <2>1, <2>2, SameMaps DEF SameBut
  <2> QED BY <2>3
<1> QED BY <1>1, <1>4, <1>5, <1>6 DEF Rows

LEMMA EventMapped ==
  ASSUME NEW t, Rows(t), NEW run, NEW id, NEW span, NEW seq, NEW at,
         Keyed(t.events, run, id) = {}, id \in Nat, seq \in Nat, at \in Nat,
         NEW n, n = [t EXCEPT !.events = @ \cup
              {[run |-> run, id |-> id, span |-> span, seq |-> seq, at |-> at]}]
  PROVE  /\ Rows(n)
         /\ Nested(n) = [Nested(t) EXCEPT !.events =
              Memory!PutOf(@, run, id, [span |-> span, seq |-> seq, at |-> at])]
<1> DEFINE row == [run |-> run, id |-> id, span |-> span, seq |-> seq, at |-> at]
           value == [span |-> span, seq |-> seq, at |-> at]
<1>1. /\ IsTables(n)
      /\ n.events = (t.events \ Keyed(t.events, row.run, row.id)) \cup {row}
      /\ n.runs = t.runs /\ n.sequences = t.sequences /\ n.spans = t.spans
      /\ n.artifacts = t.artifacts /\ n.snapshots = t.snapshots
      /\ n.edges = t.edges /\ n.branches = t.branches /\ n.jobs = t.jobs
      /\ n.diffs = t.diffs /\ n.counters = t.counters
  BY DEF Rows, IsTables
<1>2. Added(t.events, row, n.events)
  <2> HIDE DEF row
  <2> QED BY <1>1, KeyedRowPut DEF Rows, KeysIn
<1>3. NestedRows(n.events, Event) =
        Memory!PutOf(NestedRows(t.events, Event), run, id, value)
  <2>1. row.run = run /\ row.id = id /\ Event(row) = value
    BY DEF Event
  <2> HIDE DEF row
  <2>2. NestedRows(n.events, Event) =
          Memory!PutOf(NestedRows(t.events, Event), row.run, row.id, Event(row))
    BY <1>2, NestedRowsPut
  <2> QED BY <2>1, <2>2
<1>4. KeysIn(n)
  BY <1>1, <1>2 DEF Rows, KeysIn, Added
<1>5. NumbersIn(n)
  <2>1. IsFiniteSet(t.events) => IsFiniteSet(n.events)
    <3> HIDE DEF row
    <3> QED BY <1>1, StillFinite
  <2> QED BY <1>1, <2>1 DEF Rows, NumbersIn
<1>6. Nested(n) = [Nested(t) EXCEPT !.events = Memory!PutOf(@, run, id, value)]
  <2> DEFINE x == Memory!PutOf(Nested(t).events, run, id, value)
             m == [Nested(t) EXCEPT !.events = x]
  <2>1. m.events = x /\ SameBut(Nested(t), m, {"events"})
    <3> HIDE DEF x
    <3> QED BY NestedMaps DEF MapsOf, SameBut, IsMaps
  <2>2. Nested(n).events = x /\ SameBut(Nested(t), Nested(n), {"events"})
    <3>1. /\ Nested(n).events = NestedRows(n.events, Event)
          /\ Nested(t).events = NestedRows(t.events, Event)
      BY NestedMaps DEF MapsOf
    <3>2. Nested(n).events = x
      BY <1>3, <3>1
    <3>3. SameBut(Nested(t), Nested(n), {"events"})
      <4> HIDE DEF x, row
      <4> QED BY <1>1, MapsOfSameTables DEF SameTables
    <3> QED BY <3>2, <3>3
  <2>3. m = Nested(n)
    <3> HIDE DEF x, m
    <3> QED BY <2>1, <2>2, SameMaps DEF SameBut
  <2> QED BY <2>3
<1> QED BY <1>1, <1>4, <1>5, <1>6 DEF Rows

LEMMA ArtifactMapped ==
  ASSUME NEW t, Rows(t), NEW run, NEW id, NEW span, NEW created,
         Keyed(t.artifacts, run, id) = {}, id \in Nat, created \in Nat,
         NEW n, n = [t EXCEPT !.artifacts = @ \cup
              {[run |-> run, id |-> id, span |-> span, created |-> created]}]
  PROVE  /\ Rows(n)
         /\ Nested(n) = [Nested(t) EXCEPT !.artifacts =
              Memory!PutOf(@, run, id, [span |-> span, created |-> created])]
<1> DEFINE row == [run |-> run, id |-> id, span |-> span, created |-> created]
           value == [span |-> span, created |-> created]
<1>1. /\ IsTables(n)
      /\ n.artifacts = (t.artifacts \ Keyed(t.artifacts, row.run, row.id)) \cup {row}
      /\ n.runs = t.runs /\ n.sequences = t.sequences /\ n.spans = t.spans
      /\ n.events = t.events /\ n.snapshots = t.snapshots
      /\ n.edges = t.edges /\ n.branches = t.branches /\ n.jobs = t.jobs
      /\ n.diffs = t.diffs /\ n.counters = t.counters
  BY DEF Rows, IsTables
<1>2. Added(t.artifacts, row, n.artifacts)
  <2> HIDE DEF row
  <2> QED BY <1>1, KeyedRowPut DEF Rows, KeysIn
<1>3. NestedRows(n.artifacts, Artifact) =
        Memory!PutOf(NestedRows(t.artifacts, Artifact), run, id, value)
  <2>1. row.run = run /\ row.id = id /\ Artifact(row) = value
    BY DEF Artifact
  <2> HIDE DEF row
  <2>2. NestedRows(n.artifacts, Artifact) =
          Memory!PutOf(NestedRows(t.artifacts, Artifact), row.run, row.id, Artifact(row))
    BY <1>2, NestedRowsPut
  <2> QED BY <2>1, <2>2
<1>4. KeysIn(n)
  BY <1>1, <1>2 DEF Rows, KeysIn, Added
<1>5. NumbersIn(n)
  <2>1. IsFiniteSet(t.artifacts) => IsFiniteSet(n.artifacts)
    <3> HIDE DEF row
    <3> QED BY <1>1, StillFinite
  <2> QED BY <1>1, <2>1 DEF Rows, NumbersIn
<1>6. Nested(n) = [Nested(t) EXCEPT !.artifacts = Memory!PutOf(@, run, id, value)]
  <2> DEFINE x == Memory!PutOf(Nested(t).artifacts, run, id, value)
             m == [Nested(t) EXCEPT !.artifacts = x]
  <2>1. m.artifacts = x /\ SameBut(Nested(t), m, {"artifacts"})
    <3> HIDE DEF x
    <3> QED BY NestedMaps DEF MapsOf, SameBut, IsMaps
  <2>2. Nested(n).artifacts = x /\ SameBut(Nested(t), Nested(n), {"artifacts"})
    <3>1. /\ Nested(n).artifacts = NestedRows(n.artifacts, Artifact)
          /\ Nested(t).artifacts = NestedRows(t.artifacts, Artifact)
      BY NestedMaps DEF MapsOf
    <3>2. Nested(n).artifacts = x
      BY <1>3, <3>1
    <3>3. SameBut(Nested(t), Nested(n), {"artifacts"})
      <4> HIDE DEF x, row
      <4> QED BY <1>1, MapsOfSameTables DEF SameTables
    <3> QED BY <3>2, <3>3
  <2>3. m = Nested(n)
    <3> HIDE DEF x, m
    <3> QED BY <2>1, <2>2, SameMaps DEF SameBut
  <2> QED BY <2>3
<1> QED BY <1>1, <1>4, <1>5, <1>6 DEF Rows

LEMMA SnapshotMapped ==
  ASSUME NEW t, Rows(t), NEW run, NEW id, NEW span, NEW artifact, NEW created,
         Keyed(t.snapshots, run, id) = {}, id \in Nat, created \in Nat,
         NEW n, n = [t EXCEPT !.snapshots = @ \cup
              {[run |-> run, id |-> id, span |-> span, artifact |-> artifact,
                created |-> created]}]
  PROVE  /\ Rows(n)
         /\ Nested(n) = [Nested(t) EXCEPT !.snapshots =
              Memory!PutOf(@, run, id,
                 [span |-> span, artifact |-> artifact, created |-> created])]
<1> DEFINE row == [run |-> run, id |-> id, span |-> span, artifact |-> artifact,
                   created |-> created]
           value == [span |-> span, artifact |-> artifact, created |-> created]
<1>1. /\ IsTables(n)
      /\ n.snapshots = (t.snapshots \ Keyed(t.snapshots, row.run, row.id)) \cup {row}
      /\ n.runs = t.runs /\ n.sequences = t.sequences /\ n.spans = t.spans
      /\ n.events = t.events /\ n.artifacts = t.artifacts
      /\ n.edges = t.edges /\ n.branches = t.branches /\ n.jobs = t.jobs
      /\ n.diffs = t.diffs /\ n.counters = t.counters
  BY DEF Rows, IsTables
<1>2. Added(t.snapshots, row, n.snapshots)
  <2> HIDE DEF row
  <2> QED BY <1>1, KeyedRowPut DEF Rows, KeysIn
<1>3. NestedRows(n.snapshots, Snapshot) =
        Memory!PutOf(NestedRows(t.snapshots, Snapshot), run, id, value)
  <2>1. row.run = run /\ row.id = id /\ Snapshot(row) = value
    BY DEF Snapshot
  <2> HIDE DEF row
  <2>2. NestedRows(n.snapshots, Snapshot) =
          Memory!PutOf(NestedRows(t.snapshots, Snapshot), row.run, row.id, Snapshot(row))
    BY <1>2, NestedRowsPut
  <2> QED BY <2>1, <2>2
<1>4. KeysIn(n)
  BY <1>1, <1>2 DEF Rows, KeysIn, Added
<1>5. NumbersIn(n)
  <2>1. IsFiniteSet(t.snapshots) => IsFiniteSet(n.snapshots)
    <3> HIDE DEF row
    <3> QED BY <1>1, StillFinite
  <2> QED BY <1>1, <2>1 DEF Rows, NumbersIn
<1>6. Nested(n) = [Nested(t) EXCEPT !.snapshots = Memory!PutOf(@, run, id, value)]
  <2> DEFINE x == Memory!PutOf(Nested(t).snapshots, run, id, value)
             m == [Nested(t) EXCEPT !.snapshots = x]
  <2>1. m.snapshots = x /\ SameBut(Nested(t), m, {"snapshots"})
    <3> HIDE DEF x
    <3> QED BY NestedMaps DEF MapsOf, SameBut, IsMaps
  <2>2. Nested(n).snapshots = x /\ SameBut(Nested(t), Nested(n), {"snapshots"})
    <3>1. /\ Nested(n).snapshots = NestedRows(n.snapshots, Snapshot)
          /\ Nested(t).snapshots = NestedRows(t.snapshots, Snapshot)
      BY NestedMaps DEF MapsOf
    <3>2. Nested(n).snapshots = x
      BY <1>3, <3>1
    <3>3. SameBut(Nested(t), Nested(n), {"snapshots"})
      <4> HIDE DEF x, row
      <4> QED BY <1>1, MapsOfSameTables DEF SameTables
    <3> QED BY <3>2, <3>3
  <2>3. m = Nested(n)
    <3> HIDE DEF x, m
    <3> QED BY <2>1, <2>2, SameMaps DEF SameBut
  <2> QED BY <2>3
<1> QED BY <1>1, <1>4, <1>5, <1>6 DEF Rows

LEMMA EdgeMapped ==
  ASSUME NEW t, Rows(t), NEW run, NEW id, NEW from, NEW to, NEW at,
         Keyed(t.edges, run, id) = {}, id \in Nat, at \in Nat,
         NEW n, n = [t EXCEPT !.edges = @ \cup
              {[run |-> run, id |-> id, from |-> from, to |-> to, at |-> at]}]
  PROVE  /\ Rows(n)
         /\ Nested(n) = [Nested(t) EXCEPT !.edges =
              Memory!PutOf(@, run, id, [from |-> from, to |-> to, at |-> at])]
<1> DEFINE row == [run |-> run, id |-> id, from |-> from, to |-> to, at |-> at]
           value == [from |-> from, to |-> to, at |-> at]
<1>1. /\ IsTables(n)
      /\ n.edges = (t.edges \ Keyed(t.edges, row.run, row.id)) \cup {row}
      /\ n.runs = t.runs /\ n.sequences = t.sequences /\ n.spans = t.spans
      /\ n.events = t.events /\ n.artifacts = t.artifacts
      /\ n.snapshots = t.snapshots /\ n.branches = t.branches
      /\ n.jobs = t.jobs /\ n.diffs = t.diffs /\ n.counters = t.counters
  BY DEF Rows, IsTables
<1>2. Added(t.edges, row, n.edges)
  <2> HIDE DEF row
  <2> QED BY <1>1, KeyedRowPut DEF Rows, KeysIn
<1>3. NestedRows(n.edges, Edge) =
        Memory!PutOf(NestedRows(t.edges, Edge), run, id, value)
  <2>1. row.run = run /\ row.id = id /\ Edge(row) = value
    BY DEF Edge
  <2> HIDE DEF row
  <2>2. NestedRows(n.edges, Edge) =
          Memory!PutOf(NestedRows(t.edges, Edge), row.run, row.id, Edge(row))
    BY <1>2, NestedRowsPut
  <2> QED BY <2>1, <2>2
<1>4. KeysIn(n)
  BY <1>1, <1>2 DEF Rows, KeysIn, Added
<1>5. NumbersIn(n)
  <2>1. IsFiniteSet(t.edges) => IsFiniteSet(n.edges)
    <3> HIDE DEF row
    <3> QED BY <1>1, StillFinite
  <2> QED BY <1>1, <2>1 DEF Rows, NumbersIn
<1>6. Nested(n) = [Nested(t) EXCEPT !.edges = Memory!PutOf(@, run, id, value)]
  <2> DEFINE x == Memory!PutOf(Nested(t).edges, run, id, value)
             m == [Nested(t) EXCEPT !.edges = x]
  <2>1. m.edges = x /\ SameBut(Nested(t), m, {"edges"})
    <3> HIDE DEF x
    <3> QED BY NestedMaps DEF MapsOf, SameBut, IsMaps
  <2>2. Nested(n).edges = x /\ SameBut(Nested(t), Nested(n), {"edges"})
    <3>1. /\ Nested(n).edges = NestedRows(n.edges, Edge)
          /\ Nested(t).edges = NestedRows(t.edges, Edge)
      BY NestedMaps DEF MapsOf
    <3>2. Nested(n).edges = x
      BY <1>3, <3>1
    <3>3. SameBut(Nested(t), Nested(n), {"edges"})
      <4> HIDE DEF x, row
      <4> QED BY <1>1, MapsOfSameTables DEF SameTables
    <3> QED BY <3>2, <3>3
  <2>3. m = Nested(n)
    <3> HIDE DEF x, m
    <3> QED BY <2>1, <2>2, SameMaps DEF SameBut
  <2> QED BY <2>3
<1> QED BY <1>1, <1>4, <1>5, <1>6 DEF Rows

LEMMA RunMapped ==
  ASSUME NEW t, Rows(t), NEW run, NEW record, run \in Nat, record.started \in Nat,
         NEW n, n = [t EXCEPT !.runs = {row \in @ : row.run # run} \cup
              {[run |-> run, record |-> record]}]
  PROVE  /\ Rows(n)
         /\ Nested(n) = [Nested(t) EXCEPT !.runs =
              Memory!Put(@, run, record)]
<1> DEFINE row == [run |-> run, record |-> record]
<1>1. /\ IsTables(n)
      /\ n.runs = {r \in t.runs : r.run # row.run} \cup {row}
      /\ n.sequences = t.sequences /\ n.spans = t.spans
      /\ n.events = t.events /\ n.artifacts = t.artifacts
      /\ n.snapshots = t.snapshots /\ n.edges = t.edges
      /\ n.branches = t.branches /\ n.jobs = t.jobs /\ n.diffs = t.diffs
      /\ n.counters = t.counters
  BY DEF Rows, IsTables
<1>2. Replaced(t.runs, row, n.runs)
  <2> HIDE DEF row
  <2> QED BY <1>1, RowPut DEF Rows, KeysIn
<1>3. ByRun(n.runs, Record) =
        Memory!Put(ByRun(t.runs, Record), run, record)
  <2>1. row.run = run /\ Record(row) = record
    BY DEF Record
  <2> HIDE DEF row
  <2>2. ByRun(n.runs, Record) =
          Memory!Put(ByRun(t.runs, Record), row.run, Record(row))
    BY <1>2, ByRunPut
  <2> QED BY <2>1, <2>2
<1>4. KeysIn(n)
  BY <1>1, <1>2 DEF Rows, KeysIn, Replaced
<1>5. NumbersIn(n)
  <2>1. IsFiniteSet(t.runs) => IsFiniteSet(n.runs)
    <3> HIDE DEF row
    <3> QED BY <1>1, StillFinite
  <2> QED BY <1>1, <2>1 DEF Rows, NumbersIn
<1>6. Nested(n) = [Nested(t) EXCEPT !.runs = Memory!Put(@, run, record)]
  <2> DEFINE x == Memory!Put(Nested(t).runs, run, record)
             m == [Nested(t) EXCEPT !.runs = x]
  <2>1. m.runs = x /\ SameBut(Nested(t), m, {"runs"})
    <3> HIDE DEF x
    <3> QED BY NestedMaps DEF MapsOf, SameBut, IsMaps
  <2>2. Nested(n).runs = x /\ SameBut(Nested(t), Nested(n), {"runs"})
    <3>1. /\ Nested(n).runs = ByRun(n.runs, Record)
          /\ Nested(t).runs = ByRun(t.runs, Record)
      BY NestedMaps DEF MapsOf
    <3>2. Nested(n).runs = x
      BY <1>3, <3>1
    <3>3. SameBut(Nested(t), Nested(n), {"runs"})
      <4> HIDE DEF x, row
      <4> QED BY <1>1, MapsOfSameTables DEF SameTables
    <3> QED BY <3>2, <3>3
  <2>3. m = Nested(n)
    <3> HIDE DEF x, m
    <3> QED BY <2>1, <2>2, SameMaps DEF SameBut
  <2> QED BY <2>3
<1> QED BY <1>1, <1>4, <1>5, <1>6 DEF Rows

LEMMA CounterMapped ==
  ASSUME NEW t, Rows(t), NEW run, NEW next,
         NEW n, n = [t EXCEPT !.sequences = {row \in @ : row.run # run} \cup
              {[run |-> run, next |-> next]}]
  PROVE  /\ Rows(n)
         /\ Nested(n) = [Nested(t) EXCEPT !.sequences =
              Memory!Put(@, run, next)]
<1> DEFINE row == [run |-> run, next |-> next]
<1>1. /\ IsTables(n)
      /\ n.sequences = {r \in t.sequences : r.run # row.run} \cup {row}
      /\ n.runs = t.runs /\ n.spans = t.spans /\ n.events = t.events
      /\ n.artifacts = t.artifacts /\ n.snapshots = t.snapshots
      /\ n.edges = t.edges /\ n.branches = t.branches /\ n.jobs = t.jobs
      /\ n.diffs = t.diffs /\ n.counters = t.counters
  BY DEF Rows, IsTables
<1>2. Replaced(t.sequences, row, n.sequences)
  <2> HIDE DEF row
  <2> QED BY <1>1, RowPut DEF Rows, KeysIn
<1>3. ByRun(n.sequences, Counter) =
        Memory!Put(ByRun(t.sequences, Counter), run, next)
  <2>1. row.run = run /\ Counter(row) = next
    BY DEF Counter
  <2> HIDE DEF row
  <2>2. ByRun(n.sequences, Counter) =
          Memory!Put(ByRun(t.sequences, Counter), row.run, Counter(row))
    BY <1>2, ByRunPut
  <2> QED BY <2>1, <2>2
<1>4. KeysIn(n)
  BY <1>1, <1>2 DEF Rows, KeysIn, Replaced
<1>5. NumbersIn(n)
  <2>1. IsFiniteSet(t.sequences) => IsFiniteSet(n.sequences)
    <3> HIDE DEF row
    <3> QED BY <1>1, StillFinite
  <2> QED BY <1>1, <2>1 DEF Rows, NumbersIn
<1>6. Nested(n) = [Nested(t) EXCEPT !.sequences = Memory!Put(@, run, next)]
  <2> DEFINE x == Memory!Put(Nested(t).sequences, run, next)
             m == [Nested(t) EXCEPT !.sequences = x]
  <2>1. m.sequences = x /\ SameBut(Nested(t), m, {"sequences"})
    <3> HIDE DEF x
    <3> QED BY NestedMaps DEF MapsOf, SameBut, IsMaps
  <2>2. Nested(n).sequences = x /\ SameBut(Nested(t), Nested(n), {"sequences"})
    <3>1. /\ Nested(n).sequences = ByRun(n.sequences, Counter)
          /\ Nested(t).sequences = ByRun(t.sequences, Counter)
      BY NestedMaps DEF MapsOf
    <3>2. Nested(n).sequences = x
      BY <1>3, <3>1
    <3>3. SameBut(Nested(t), Nested(n), {"sequences"})
      <4> HIDE DEF x, row
      <4> QED BY <1>1, MapsOfSameTables DEF SameTables
    <3> QED BY <3>2, <3>3
  <2>3. m = Nested(n)
    <3> HIDE DEF x, m
    <3> QED BY <2>1, <2>2, SameMaps DEF SameBut
  <2> QED BY <2>3
<1> QED BY <1>1, <1>4, <1>5, <1>6 DEF Rows

LEMMA BranchMapped ==
  ASSUME NEW t, Rows(t), NEW run, NEW source, NEW span, NEW manifest, run \in Nat,
         NEW n, n = [t EXCEPT !.branches = {row \in @ : row.run # run} \cup
              {[run |-> run, source |-> source, span |-> span,
                manifest |-> manifest]}]
  PROVE  /\ Rows(n)
         /\ Nested(n) = [Nested(t) EXCEPT !.branches =
              Memory!Put(@, run,
                 [source |-> source, span |-> span, manifest |-> manifest])]
<1> DEFINE row == [run |-> run, source |-> source, span |-> span,
                   manifest |-> manifest]
           value == [source |-> source, span |-> span, manifest |-> manifest]
<1>1. /\ IsTables(n)
      /\ n.branches = {r \in t.branches : r.run # row.run} \cup {row}
      /\ n.runs = t.runs /\ n.sequences = t.sequences /\ n.spans = t.spans
      /\ n.events = t.events /\ n.artifacts = t.artifacts
      /\ n.snapshots = t.snapshots /\ n.edges = t.edges /\ n.jobs = t.jobs
      /\ n.diffs = t.diffs /\ n.counters = t.counters
  BY DEF Rows, IsTables
<1>2. Replaced(t.branches, row, n.branches)
  <2> HIDE DEF row
  <2> QED BY <1>1, RowPut DEF Rows, KeysIn
<1>3. ByRun(n.branches, Branch) =
        Memory!Put(ByRun(t.branches, Branch), run, value)
  <2>1. row.run = run /\ Branch(row) = value
    BY DEF Branch
  <2> HIDE DEF row
  <2>2. ByRun(n.branches, Branch) =
          Memory!Put(ByRun(t.branches, Branch), row.run, Branch(row))
    BY <1>2, ByRunPut
  <2> QED BY <2>1, <2>2
<1>4. KeysIn(n)
  BY <1>1, <1>2 DEF Rows, KeysIn, Replaced
<1>5. NumbersIn(n)
  <2>1. IsFiniteSet(t.branches) => IsFiniteSet(n.branches)
    <3> HIDE DEF row
    <3> QED BY <1>1, StillFinite
  <2> QED BY <1>1, <2>1 DEF Rows, NumbersIn
<1>6. Nested(n) = [Nested(t) EXCEPT !.branches = Memory!Put(@, run, value)]
  <2> DEFINE x == Memory!Put(Nested(t).branches, run, value)
             m == [Nested(t) EXCEPT !.branches = x]
  <2>1. m.branches = x /\ SameBut(Nested(t), m, {"branches"})
    <3> HIDE DEF x
    <3> QED BY NestedMaps DEF MapsOf, SameBut, IsMaps
  <2>2. Nested(n).branches = x /\ SameBut(Nested(t), Nested(n), {"branches"})
    <3>1. /\ Nested(n).branches = ByRun(n.branches, Branch)
          /\ Nested(t).branches = ByRun(t.branches, Branch)
      BY NestedMaps DEF MapsOf
    <3>2. Nested(n).branches = x
      BY <1>3, <3>1
    <3>3. SameBut(Nested(t), Nested(n), {"branches"})
      <4> HIDE DEF x, row
      <4> QED BY <1>1, MapsOfSameTables DEF SameTables
    <3> QED BY <3>2, <3>3
  <2>3. m = Nested(n)
    <3> HIDE DEF x, m
    <3> QED BY <2>1, <2>2, SameMaps DEF SameBut
  <2> QED BY <2>3
<1> QED BY <1>1, <1>4, <1>5, <1>6 DEF Rows

LEMMA JobMapped ==
  ASSUME NEW t, Rows(t), NEW run, NEW source, NEW status,
         NEW n, n = [t EXCEPT !.jobs = {row \in @ : row.run # run} \cup
              {[run |-> run, source |-> source, status |-> status]}]
  PROVE  /\ Rows(n)
         /\ Nested(n) = [Nested(t) EXCEPT !.jobs =
              Memory!Put(@, run, [source |-> source, status |-> status])]
<1> DEFINE row == [run |-> run, source |-> source, status |-> status]
           value == [source |-> source, status |-> status]
<1>1. /\ IsTables(n)
      /\ n.jobs = {r \in t.jobs : r.run # row.run} \cup {row}
      /\ n.runs = t.runs /\ n.sequences = t.sequences /\ n.spans = t.spans
      /\ n.events = t.events /\ n.artifacts = t.artifacts
      /\ n.snapshots = t.snapshots /\ n.edges = t.edges
      /\ n.branches = t.branches /\ n.diffs = t.diffs
      /\ n.counters = t.counters
  BY DEF Rows, IsTables
<1>2. Replaced(t.jobs, row, n.jobs)
  <2> HIDE DEF row
  <2> QED BY <1>1, RowPut DEF Rows, KeysIn
<1>3. ByRun(n.jobs, Job) =
        Memory!Put(ByRun(t.jobs, Job), run, value)
  <2>1. row.run = run /\ Job(row) = value
    BY DEF Job
  <2> HIDE DEF row
  <2>2. ByRun(n.jobs, Job) =
          Memory!Put(ByRun(t.jobs, Job), row.run, Job(row))
    BY <1>2, ByRunPut
  <2> QED BY <2>1, <2>2
<1>4. KeysIn(n)
  BY <1>1, <1>2 DEF Rows, KeysIn, Replaced
<1>5. NumbersIn(n)
  <2>1. IsFiniteSet(t.jobs) => IsFiniteSet(n.jobs)
    <3> HIDE DEF row
    <3> QED BY <1>1, StillFinite
  <2> QED BY <1>1, <2>1 DEF Rows, NumbersIn
<1>6. Nested(n) = [Nested(t) EXCEPT !.jobs = Memory!Put(@, run, value)]
  <2> DEFINE x == Memory!Put(Nested(t).jobs, run, value)
             m == [Nested(t) EXCEPT !.jobs = x]
  <2>1. m.jobs = x /\ SameBut(Nested(t), m, {"jobs"})
    <3> HIDE DEF x
    <3> QED BY NestedMaps DEF MapsOf, SameBut, IsMaps
  <2>2. Nested(n).jobs = x /\ SameBut(Nested(t), Nested(n), {"jobs"})
    <3>1. /\ Nested(n).jobs = ByRun(n.jobs, Job)
          /\ Nested(t).jobs = ByRun(t.jobs, Job)
      BY NestedMaps DEF MapsOf
    <3>2. Nested(n).jobs = x
      BY <1>3, <3>1
    <3>3. SameBut(Nested(t), Nested(n), {"jobs"})
      <4> HIDE DEF x, row
      <4> QED BY <1>1, MapsOfSameTables DEF SameTables
    <3> QED BY <3>2, <3>3
  <2>3. m = Nested(n)
    <3> HIDE DEF x, m
    <3> QED BY <2>1, <2>2, SameMaps DEF SameBut
  <2> QED BY <2>3
<1> QED BY <1>1, <1>4, <1>5, <1>6 DEF Rows

LEMMA CountersMapped ==
  ASSUME NEW t, Rows(t), NEW kind, NEW n,
         n = [t EXCEPT !.counters[kind] = @ + 1]
  PROVE  /\ Rows(n)
         /\ Nested(n) = [Nested(t) EXCEPT !.counters[kind] = @ + 1]
<1> DEFINE x == [t.counters EXCEPT ![kind] = @ + 1]
           m == [Nested(t) EXCEPT !.counters = x]
<1>1. /\ IsTables(n) /\ n.counters = x
      /\ n.runs = t.runs /\ n.sequences = t.sequences /\ n.spans = t.spans
      /\ n.events = t.events /\ n.artifacts = t.artifacts
      /\ n.snapshots = t.snapshots /\ n.edges = t.edges
      /\ n.branches = t.branches /\ n.jobs = t.jobs /\ n.diffs = t.diffs
  BY DEF Rows, IsTables
<1>2. KeysIn(n) /\ NumbersIn(n)
  BY <1>1 DEF Rows, KeysIn, NumbersIn
<1>3. m.counters = x /\ SameBut(Nested(t), m, {"counters"})
  <2> HIDE DEF x
  <2> QED BY NestedMaps DEF MapsOf, SameBut, IsMaps
<1>4. Nested(n).counters = x /\ SameBut(Nested(t), Nested(n), {"counters"})
  <2>1. Nested(n).counters = x
    BY <1>1, NestedMaps DEF MapsOf
  <2>2. SameBut(Nested(t), Nested(n), {"counters"})
    <3> HIDE DEF x
    <3> QED BY <1>1, MapsOfSameTables DEF SameTables
  <2> QED BY <2>1, <2>2
<1>5. m = Nested(n)
  <2> HIDE DEF x, m
  <2> QED BY <1>3, <1>4, SameMaps DEF SameBut
<1>6. Nested(t).counters = t.counters
  BY NestedMaps DEF MapsOf
<1> QED BY <1>1, <1>2, <1>5, <1>6 DEF Rows

LEMMA DiffMapped ==
  ASSUME NEW t, Rows(t), NEW run, NEW source, NEW n,
         n = [t EXCEPT !.diffs = @ \cup {[run |-> run, source |-> source]}]
  PROVE  /\ Rows(n)
         /\ Nested(n) = [Nested(t) EXCEPT !.diffs = @ \cup {<<source, run>>}]
<1> DEFINE row == [run |-> run, source |-> source]
           x == Nested(t).diffs \cup {<<source, run>>}
           m == [Nested(t) EXCEPT !.diffs = x]
<1>1. /\ IsTables(n) /\ n.diffs = t.diffs \cup {row}
      /\ n.runs = t.runs /\ n.sequences = t.sequences /\ n.spans = t.spans
      /\ n.events = t.events /\ n.artifacts = t.artifacts
      /\ n.snapshots = t.snapshots /\ n.edges = t.edges
      /\ n.branches = t.branches /\ n.jobs = t.jobs /\ n.counters = t.counters
  BY DEF Rows, IsTables
<1>2. KeysIn(n) /\ NumbersIn(n)
  BY <1>1 DEF Rows, KeysIn, NumbersIn
<1>3. m.diffs = x /\ SameBut(Nested(t), m, {"diffs"})
  <2> HIDE DEF x
  <2> QED BY NestedMaps DEF MapsOf, SameBut, IsMaps
<1>4. Nested(n).diffs = x /\ SameBut(Nested(t), Nested(n), {"diffs"})
  <2>1. /\ Nested(n).diffs = {<<r.source, r.run>> : r \in n.diffs}
        /\ Nested(t).diffs = {<<r.source, r.run>> : r \in t.diffs}
    BY NestedMaps DEF MapsOf
  <2>2. row.source = source /\ row.run = run
    OBVIOUS
  <2>3. Nested(n).diffs = x
    <3> HIDE DEF row
    <3>1. \A d : d \in Nested(n).diffs
                   <=> d \in Nested(t).diffs \/ d = <<row.source, row.run>>
      BY <1>1, <2>1
    <3> QED BY <2>2, <3>1
  <2>4. SameBut(Nested(t), Nested(n), {"diffs"})
    <3> HIDE DEF x
    <3> QED BY <1>1, MapsOfSameTables DEF SameTables
  <2> QED BY <2>3, <2>4
<1>5. m = Nested(n)
  <2> HIDE DEF x, m
  <2> QED BY <1>3, <1>4, SameMaps DEF SameBut
<1> QED BY <1>1, <1>2, <1>5 DEF Rows

\* What insert_run writes: the run and its counter.
NewRun(t, run, record) ==
    [t EXCEPT !.runs = @ \cup {[run |-> run, record |-> record]},
              !.sequences = @ \cup {[run |-> run, next |-> 0]}]

LEMMA RunsMapped ==
  ASSUME NEW t, Rows(t), CountersIn(t), NEW run \in Nat, ~HasRun(t, run),
         NEW record, record.started \in Nat
  PROVE  /\ Rows(NewRun(t, run, record))
         /\ Nested(NewRun(t, run, record)) =
              [Nested(t) EXCEPT !.sequences = Memory!Put(@, run, 0),
                                !.runs = Memory!Put(@, run, record)]
<1> DEFINE u == [t EXCEPT !.runs = {row \in @ : row.run # run} \cup
                   {[run |-> run, record |-> record]}]
           w == [u EXCEPT !.sequences = {row \in @ : row.run # run} \cup
                   {[run |-> run, next |-> 0]}]
<1>1. /\ Rows(u)
      /\ Nested(u) = [Nested(t) EXCEPT !.runs = Memory!Put(@, run, record)]
  BY RunMapped
<1>2. /\ Rows(w)
      /\ Nested(w) = [Nested(u) EXCEPT !.sequences = Memory!Put(@, run, 0)]
  <2> HIDE DEF u
  <2>1. Rows(w)
    BY <1>1, CounterMapped
  <2>2. Nested(w) = [Nested(u) EXCEPT !.sequences = Memory!Put(@, run, 0)]
    <3>1. Rows(u)
      BY <1>1
    <3> QED BY <3>1, CounterMapped
  <2> QED BY <2>1, <2>2
<1>3. NewRun(t, run, record) = w
  <2>1. \A row \in t.runs \cup t.sequences : row.run # run
    BY DEF HasRun, CountersIn
  <2>2. /\ {row \in t.runs : row.run # run} = t.runs
        /\ {row \in t.sequences : row.run # run} = t.sequences
    BY <2>1
  <2>3. u = [t EXCEPT !.runs = @ \cup {[run |-> run, record |-> record]}]
    BY <2>2
  <2>4. u.sequences = t.sequences
    BY DEF Rows, IsTables
  <2>5. w = [u EXCEPT !.sequences = @ \cup {[run |-> run, next |-> 0]}]
    <3> HIDE DEF u
    <3> QED BY <2>2, <2>4
  <2> HIDE DEF w, u
  <2> QED BY <2>3, <2>5 DEF NewRun, Rows, IsTables
<1>4. [[Nested(t) EXCEPT !.runs = Memory!Put(@, run, record)]
          EXCEPT !.sequences = Memory!Put(@, run, 0)]
        = [Nested(t) EXCEPT !.sequences = Memory!Put(@, run, 0),
                            !.runs = Memory!Put(@, run, record)]
  BY NestedMaps DEF MapsOf, IsMaps
<1> HIDE DEF u, w
<1> QED BY <1>1, <1>2, <1>3, <1>4

\* What phase 1 of a cleanup leaves.
WithoutRun(t, run) ==
    [t EXCEPT !.diffs = {row \in @ : run \notin {row.source, row.run}},
              !.artifacts = {row \in @ : row.run # run},
              !.snapshots = {row \in @ : row.run # run},
              !.edges = {row \in @ : row.run # run},
              !.events = {row \in @ : row.run # run},
              !.spans = {row \in @ : row.run # run},
              !.sequences = {row \in @ : row.run # run},
              !.branches = {row \in @ : row.run # run},
              !.jobs = {row \in @ : row.run # run},
              !.runs = {row \in @ : row.run # run}]

\* What the in-memory store does to its maps in a cleanup.
MapsWithoutRun(m, run) ==
    [m EXCEPT !.artifacts = Memory!Drop(@, run), !.spans = Memory!Drop(@, run),
              !.events = Memory!Drop(@, run), !.snapshots = Memory!Drop(@, run),
              !.edges = Memory!Drop(@, run), !.sequences = Memory!Drop(@, run),
              !.runs = Memory!Drop(@, run), !.branches = Memory!Drop(@, run),
              !.jobs = Memory!Drop(@, run),
              !.diffs = {d \in @ : run \notin {d[1], d[2]}}]

LEMMA RunDropped ==
  ASSUME NEW t, Rows(t), NEW run, NEW n, n = WithoutRun(t, run)
  PROVE  /\ Rows(n)
         /\ Nested(n) = MapsWithoutRun(Nested(t), run)
<1>1. /\ IsTables(n)
      /\ n.diffs = {row \in t.diffs : run \notin {row.source, row.run}}
      /\ n.artifacts = {row \in t.artifacts : row.run # run}
      /\ n.snapshots = {row \in t.snapshots : row.run # run}
      /\ n.edges = {row \in t.edges : row.run # run}
      /\ n.events = {row \in t.events : row.run # run}
      /\ n.spans = {row \in t.spans : row.run # run}
      /\ n.sequences = {row \in t.sequences : row.run # run}
      /\ n.branches = {row \in t.branches : row.run # run}
      /\ n.jobs = {row \in t.jobs : row.run # run}
      /\ n.runs = {row \in t.runs : row.run # run}
      /\ n.counters = t.counters
  BY DEF Rows, IsTables, WithoutRun
<1>2. /\ Without(t.runs, run, n.runs) /\ Without(t.sequences, run, n.sequences)
      /\ Without(t.branches, run, n.branches) /\ Without(t.jobs, run, n.jobs)
      /\ Without(t.spans, run, n.spans) /\ Without(t.events, run, n.events)
      /\ Without(t.artifacts, run, n.artifacts)
      /\ Without(t.snapshots, run, n.snapshots)
      /\ Without(t.edges, run, n.edges)
  BY <1>1 DEF Without
<1>3. KeysIn(n)
  BY <1>1 DEF Rows, KeysIn, OnePerRun, OnePerId
<1>4. NumbersIn(n)
  BY <1>1, FS_Subset DEF Rows, NumbersIn
<1>5. /\ ByRun(n.runs, Record) = Memory!Drop(ByRun(t.runs, Record), run)
      /\ ByRun(n.sequences, Counter) = Memory!Drop(ByRun(t.sequences, Counter), run)
      /\ ByRun(n.branches, Branch) = Memory!Drop(ByRun(t.branches, Branch), run)
      /\ ByRun(n.jobs, Job) = Memory!Drop(ByRun(t.jobs, Job), run)
  BY <1>2, ByRunDropped DEF Rows, KeysIn
<1>6. /\ NestedRows(n.spans, Span) =
           Memory!Drop(NestedRows(t.spans, Span), run)
      /\ NestedRows(n.events, Event) =
           Memory!Drop(NestedRows(t.events, Event), run)
      /\ NestedRows(n.artifacts, Artifact) =
           Memory!Drop(NestedRows(t.artifacts, Artifact), run)
      /\ NestedRows(n.snapshots, Snapshot) =
           Memory!Drop(NestedRows(t.snapshots, Snapshot), run)
      /\ NestedRows(n.edges, Edge) =
           Memory!Drop(NestedRows(t.edges, Edge), run)
  BY <1>2, NestedRowsDropped DEF Rows, KeysIn
<1>7. MapsOf(t, Nested(t)) /\ MapsOf(n, Nested(n))
  BY NestedMaps
<1>8. /\ Nested(n).runs = Memory!Drop(Nested(t).runs, run)
      /\ Nested(n).sequences = Memory!Drop(Nested(t).sequences, run)
      /\ Nested(n).branches = Memory!Drop(Nested(t).branches, run)
      /\ Nested(n).jobs = Memory!Drop(Nested(t).jobs, run)
      /\ Nested(n).spans = Memory!Drop(Nested(t).spans, run)
      /\ Nested(n).events = Memory!Drop(Nested(t).events, run)
      /\ Nested(n).artifacts = Memory!Drop(Nested(t).artifacts, run)
      /\ Nested(n).snapshots = Memory!Drop(Nested(t).snapshots, run)
      /\ Nested(n).edges = Memory!Drop(Nested(t).edges, run)
      /\ Nested(n).counters = Nested(t).counters
  BY <1>1, <1>5, <1>6, <1>7 DEF MapsOf
<1>9. Nested(n).diffs = {d \in Nested(t).diffs : run \notin {d[1], d[2]}}
  <2>1. /\ Nested(n).diffs = {<<row.source, row.run>> : row \in n.diffs}
        /\ Nested(t).diffs = {<<row.source, row.run>> : row \in t.diffs}
    BY <1>7 DEF MapsOf
  <2>2. /\ \A row : <<row.source, row.run>>[1] = row.source
        /\ \A row : <<row.source, row.run>>[2] = row.run
    OBVIOUS
  <2>3. \A d : d \in Nested(n).diffs <=>
           \E row \in t.diffs : /\ d = <<row.source, row.run>>
                               /\ run \notin {row.source, row.run}
    BY <1>1, <2>1
  <2>4. \A d : d \in {e \in Nested(t).diffs : run \notin {e[1], e[2]}} <=>
           \E row \in t.diffs : /\ d = <<row.source, row.run>>
                               /\ run \notin {row.source, row.run}
    BY <2>1, <2>2
  <2> QED BY <2>3, <2>4
<1> DEFINE drops(map) == Memory!Drop(map, run)
           diffs == {d \in Nested(t).diffs : run \notin {d[1], d[2]}}
           m == [Nested(t) EXCEPT
              !.artifacts = drops(@), !.spans = drops(@),
              !.events = drops(@), !.snapshots = drops(@),
              !.edges = drops(@), !.sequences = drops(@),
              !.runs = drops(@), !.branches = drops(@),
              !.jobs = drops(@), !.diffs = diffs]
<1>10. SameBut(Nested(n), m, {})
  <2>1. Nested(n).diffs = diffs
    BY <1>9
  <2>2. /\ m.artifacts = drops(Nested(t).artifacts)
        /\ m.spans = drops(Nested(t).spans) /\ m.events = drops(Nested(t).events)
        /\ m.snapshots = drops(Nested(t).snapshots)
        /\ m.edges = drops(Nested(t).edges) /\ m.runs = drops(Nested(t).runs)
        /\ m.sequences = drops(Nested(t).sequences)
        /\ m.branches = drops(Nested(t).branches)
        /\ m.jobs = drops(Nested(t).jobs) /\ m.diffs = diffs
        /\ m.counters = Nested(t).counters /\ IsMaps(m)
    <3> HIDE DEF diffs, drops
    <3>1. ASSUME NEW map, IsMaps(map),
                 NEW x, x = [map EXCEPT
                   !.artifacts = drops(@), !.spans = drops(@),
                   !.events = drops(@), !.snapshots = drops(@),
                   !.edges = drops(@), !.sequences = drops(@),
                   !.runs = drops(@), !.branches = drops(@),
                   !.jobs = drops(@), !.diffs = diffs]
          PROVE  /\ x.artifacts = drops(map.artifacts)
                 /\ x.spans = drops(map.spans) /\ x.events = drops(map.events)
                 /\ x.snapshots = drops(map.snapshots)
                 /\ x.edges = drops(map.edges) /\ x.runs = drops(map.runs)
                 /\ x.sequences = drops(map.sequences)
                 /\ x.branches = drops(map.branches)
                 /\ x.jobs = drops(map.jobs) /\ x.diffs = diffs
                 /\ x.counters = map.counters /\ IsMaps(x)
      BY <3>1 DEF IsMaps
    <3>2. IsMaps(Nested(t))
      BY <1>7 DEF MapsOf
    <3> QED BY <3>1, <3>2
  <2> HIDE DEF diffs, m
  <2> QED BY <1>8, <2>1, <2>2 DEF SameBut
<1>11. Nested(n) = m
  <2> HIDE DEF m
  <2> QED BY <1>7, <1>10, SameMaps DEF MapsOf
<1> QED BY <1>1, <1>3, <1>4, <1>11 DEF Rows, MapsWithoutRun

----------------------------------------------------------------------------
(* What the calls look up, in maps                                         *)

\* A lookup in the nested maps is a query by key.
LEMMA NestedLookup ==
  ASSUME NEW rows, NEW v, NEW run, NEW id
  PROVE  /\ id \in DOMAIN Memory!Of(NestedBy(rows, v), run)
               <=> Keyed(rows, run, id) # {}
         /\ OnePerId(rows) => \A row \in Keyed(rows, run, id) :
               Memory!Of(NestedBy(rows, v), run)[id] = v[row]
<1>1. Memory!Of(NestedBy(rows, v), run) =
        [k \in Ids(rows, run) |-> v[TheOne(rows, run, k)]]
  <2>1. run \notin Runs(rows) => Ids(rows, run) = {}
    BY DEF Runs, Ids, Mine
  <2> QED BY <2>1 DEF Memory!Of, Memory!Empty, NestedBy
<1>2. id \in Ids(rows, run) <=> Keyed(rows, run, id) # {}
  BY DEF Ids, Mine, Keyed
<1>3. ASSUME OnePerId(rows), NEW row \in Keyed(rows, run, id)
      PROVE  TheOne(rows, run, id) = row
  BY <1>3 DEF OnePerId, TheOne, Mine, Keyed
<1> QED BY <1>1, <1>2, <1>3

LEMMA MapLookup ==
  ASSUME NEW rows, NEW v, NEW run
  PROVE  /\ run \in DOMAIN MapBy(rows, v) <=> \E row \in rows : row.run = run
         /\ OnePerRun(rows) => \A row \in rows :
               row.run = run => MapBy(rows, v)[run] = v[row]
<1>1. run \in Runs(rows) <=> \E row \in rows : row.run = run
  BY DEF Runs
<1>2. ASSUME OnePerRun(rows), NEW row \in rows, row.run = run
      PROVE  The(rows, run) = row
  BY <1>2 DEF OnePerRun, The
<1> QED BY <1>1, <1>2 DEF MapBy

\* The checks of both stores ask for the same.
LEMMA RunLookups ==
  ASSUME NEW t, NEW run
  PROVE  /\ HasRun(t, run) <=> run \in DOMAIN Nested(t).runs
         /\ HasJob(t, run) <=> run \in DOMAIN Nested(t).jobs
<1>1. Nested(t).runs = MapBy(t.runs, [row \in t.runs |-> Record(row)])
  BY MapsByRun
<1>2. Nested(t).jobs = MapBy(t.jobs, [row \in t.jobs |-> Job(row)])
  BY MapsByRun
<1>3. HasRun(t, run) <=> run \in DOMAIN Nested(t).runs
  BY <1>1, MapLookup DEF HasRun
<1>4. HasJob(t, run) <=> run \in DOMAIN Nested(t).jobs
  BY <1>2, MapLookup DEF HasJob
<1> QED BY <1>3, <1>4

LEMMA Lookups ==
  ASSUME NEW t, NEW run, NEW id
  PROVE  /\ id \in DOMAIN Memory!Of(Nested(t).spans, run) <=> HasSpan(t, run, id)
         /\ id \in DOMAIN Memory!Of(Nested(t).artifacts, run)
               <=> HasArtifact(t, run, id)
         /\ id \in DOMAIN Memory!Of(Nested(t).events, run)
               <=> Keyed(t.events, run, id) # {}
         /\ id \in DOMAIN Memory!Of(Nested(t).snapshots, run)
               <=> Keyed(t.snapshots, run, id) # {}
         /\ id \in DOMAIN Memory!Of(Nested(t).edges, run)
               <=> Keyed(t.edges, run, id) # {}
<1>1. id \in DOMAIN Memory!Of(Nested(t).spans, run) <=> HasSpan(t, run, id)
  <2>1. Nested(t).spans = NestedBy(t.spans, [row \in t.spans |-> Span(row)])
    BY MapsById
  <2> QED BY <2>1, NestedLookup DEF HasSpan
<1>2. id \in DOMAIN Memory!Of(Nested(t).artifacts, run)
         <=> HasArtifact(t, run, id)
  <2>1. Nested(t).artifacts =
          NestedBy(t.artifacts, [row \in t.artifacts |-> Artifact(row)])
    BY MapsById
  <2> QED BY <2>1, NestedLookup DEF HasArtifact
<1>3. id \in DOMAIN Memory!Of(Nested(t).events, run)
         <=> Keyed(t.events, run, id) # {}
  <2>1. Nested(t).events = NestedBy(t.events, [row \in t.events |-> Event(row)])
    BY MapsById
  <2> QED BY <2>1, NestedLookup
<1>4. id \in DOMAIN Memory!Of(Nested(t).snapshots, run)
         <=> Keyed(t.snapshots, run, id) # {}
  <2>1. Nested(t).snapshots =
          NestedBy(t.snapshots, [row \in t.snapshots |-> Snapshot(row)])
    BY MapsById
  <2> QED BY <2>1, NestedLookup
<1>5. id \in DOMAIN Memory!Of(Nested(t).edges, run)
         <=> Keyed(t.edges, run, id) # {}
  <2>1. Nested(t).edges = NestedBy(t.edges, [row \in t.edges |-> Edge(row)])
    BY MapsById
  <2> QED BY <2>1, NestedLookup
<1> QED BY <1>1, <1>2, <1>3, <1>4, <1>5

LEMMA MemoryCardinality == \A S : Memory!Cardinality(S) = Cardinality(S)
BY DEF Memory!Cardinality, Cardinality

\* Both stores count the events and the edges of a run alike.
LEMMA PlaceLookup ==
  ASSUME NEW t, Rows(t), NEW run
  PROVE  /\ Place(t.events, run) \in Nat
         /\ Memory!Place(Nested(t).events, run) = Place(t.events, run)
         /\ Place(t.edges, run) \in Nat
         /\ Memory!Place(Nested(t).edges, run) = Place(t.edges, run)
<1>1. ASSUME NEW rows, IsFiniteSet(rows)
      PROVE  Place(rows, run) \in Nat
  <2> DEFINE mine == OfRun(rows, run)
  <2>1. IsFiniteSet(mine)
    <3>1. mine \in SUBSET rows
      BY DEF OfRun
    <3> HIDE DEF mine
    <3> QED BY <1>1, <3>1, FS_Subset
  <2>2. IsFiniteSet({row.id : row \in mine})
    <3> HIDE DEF mine
    <3> DEFINE f == [row \in mine |-> row.id]
    <3>1. f \in Surjection(mine, {row.id : row \in mine})
      BY DEF Surjection
    <3> HIDE DEF f
    <3> QED BY <2>1, <3>1, FS_Surjection
  <2> QED BY <2>2, FS_CardinalityType DEF Place
<1>2. ASSUME NEW rows, NEW map,
             \A id : id \in DOMAIN Memory!Of(map, run) <=> Keyed(rows, run, id) # {}
      PROVE  Memory!Place(map, run) = Place(rows, run)
  <2>1. DOMAIN Memory!Of(map, run) = {row.id : row \in OfRun(rows, run)}
    BY <1>2 DEF Keyed, OfRun
  <2> QED BY <2>1, MemoryCardinality DEF Place, Memory!Place
<1>3. /\ Memory!Place(Nested(t).events, run) = Place(t.events, run)
      /\ Memory!Place(Nested(t).edges, run) = Place(t.edges, run)
  BY <1>2, Lookups
<1> QED BY <1>1, <1>3 DEF Rows, NumbersIn

LEMMA AttachedLookup ==
  ASSUME NEW t, Rows(t), NEW run, NEW id, HasArtifact(t, run, id), NEW span
  PROVE  Attached(t, run, id, span)
            <=> Memory!Of(Nested(t).artifacts, run)[id].span = span
<1> DEFINE v == [row \in t.artifacts |-> Artifact(row)]
<1>1. Nested(t).artifacts = NestedBy(t.artifacts, v)
  BY MapsById
<1>2. PICK row \in Keyed(t.artifacts, run, id) : TRUE
  BY DEF HasArtifact
<1>3. Memory!Of(Nested(t).artifacts, run)[id] = v[row]
  <2> HIDE DEF v
  <2> QED BY <1>1, <1>2, NestedLookup DEF Rows, KeysIn
<1>4. v[row].span = row.span
  BY <1>2 DEF Keyed, Artifact
<1>5. \A r \in Keyed(t.artifacts, run, id) : r = row
  BY <1>2 DEF Keyed, Rows, KeysIn, OnePerId
<1> QED BY <1>2, <1>3, <1>4, <1>5 DEF Attached

LEMMA RefuseMaps ==
  ASSUME NEW c, NEW answer, Refuse(c, answer)
  PROVE  Memory!Answer(c, answer, 0) /\ Nested(tables)' = Nested(tables)
BY DEF Refuse, Answer, Memory!Answer

LEMMA CommitMaps ==
  ASSUME NEW c, NEW n, NEW v, Commit(c, n, v)
  PROVE  Memory!Answer(c, "Ok", v) /\ Nested(tables)' = Nested(n)
BY DEF Commit, Answer, Memory!Answer

LEMMA PassMaps ==
  ASSUME NEW c, Pass(c)
  PROVE  UNCHANGED Memory!vars
BY DEF Pass, Memory!vars

----------------------------------------------------------------------------
(* Every call is one of the in-memory store                                *)

\* A step of a call is that call on the in-memory store, or an insert that comes
\* after a cleanup, or changes nothing there.
Simulated(c, q) ==
    /\ Rows(tables')
    /\ Memory!Perform(c, q) \/ InsertsAfterCleanup(c, q) \/ UNCHANGED Memory!vars

LEMMA FailSimulated ==
  ASSUME Rows(tables), NEW c, NEW q, Refuse(c, "Internal")
  PROVE  Simulated(c, q)
<1>1. Memory!Fail(c)
  BY RefuseMaps DEF Memory!Fail
<1>2. Rows(tables')
  BY DEF Refuse
<1> QED BY <1>1, <1>2 DEF Simulated, Memory!Perform

LEMMA PassSimulated ==
  ASSUME Rows(tables), NEW c, NEW q, Pass(c)
  PROVE  Simulated(c, q)
BY PassMaps DEF Simulated, Pass

LEMMA RefuseSimulated ==
  ASSUME Rows(tables), NEW c, NEW q, NEW answer, Refuse(c, answer),
         Memory!Perform(c, q) \/ InsertsAfterCleanup(c, q)
  PROVE  Simulated(c, q)
BY DEF Simulated, Refuse

LEMMA CommitSimulated ==
  ASSUME NEW c, NEW q, NEW n, Rows(n), NEW value, Commit(c, n, value),
         Memory!Perform(c, q) \/ InsertsAfterCleanup(c, q)
  PROVE  Simulated(c, q)
BY DEF Simulated, Commit

LEMMA UpsertSpanSimulated ==
  ASSUME IInv, Rows(tables), NEW c \in Clients, call[c] # Idle,
         UpsertSpan(c, call[c])
  PROVE  Simulated(c, call[c])
<1> DEFINE q == call[c]
           n == [tables EXCEPT !.spans = (@ \ Keyed(@, q.run, q.id)) \cup
                  {[run |-> q.run, id |-> q.id, parent |-> q.parent,
                    seq |-> q.seq]}]
           refusal == IF ~HasRun(tables, q.run) THEN "NotFound"
                      ELSE IF q.parent = q.id THEN "InvalidInput"
                      ELSE IF OptionalSpan(tables, q.run, q.parent) THEN "Ok"
                      ELSE "NotFound"
<1>1. /\ HasRun(tables, q.run) <=> Memory!RunExists(q.run)
      /\ HasSpan(tables, q.run, q.parent) <=> Memory!SpanExists(q.run, q.parent)
  BY RunLookups, Lookups DEF Memory!RunExists, Memory!SpanExists
<1>2. q.op = "upsert_span"
  BY DEF UpsertSpan
<1>3. CASE refusal # "Ok" /\ Refuse(c, refusal)
  <2>1. Memory!UpsertSpan(c, q)
    BY <1>1, <1>2, <1>3, RefuseMaps
       DEF Memory!UpsertSpan, Memory!Settle, OptionalSpan
  <2> QED BY <1>3, <2>1, RefuseSimulated DEF Memory!Perform
<1>4. CASE c \in snapshots /\ Commit(c, n, 0)
  <2>1. q \in Requests
    BY DEF IInv, CallsOK
  <2>2. q.id \in Nat /\ q.seq \in Nat
    BY <1>2, <2>1, RequestsAssumption
  <2>3. Rows(n)
    BY <2>2, SpanMapped
  <2>4. Nested(n) = [Nested(tables) EXCEPT !.spans =
          Memory!PutOf(@, q.run, q.id, [parent |-> q.parent, seq |-> q.seq])]
    BY <2>2, SpanMapped
  <2>5. /\ HasRun(tables, q.run) /\ OptionalSpan(tables, q.run, q.parent)
        /\ q.parent # q.id
    BY <1>2, <1>4 DEF IInv, SnapshotsCurrent, Checked
  <2> HIDE DEF n
  <2>6. Memory!UpsertSpan(c, q)
    BY <1>1, <1>2, <1>4, <2>4, <2>5, CommitMaps
       DEF Memory!UpsertSpan, Memory!Settle, OptionalSpan
  <2> QED BY <1>4, <2>3, <2>6, CommitSimulated DEF Memory!Perform
<1>5. \/ Refuse(c, "Internal") \/ Pass(c)
      \/ refusal # "Ok" /\ Refuse(c, refusal)
      \/ c \in snapshots /\ Commit(c, n, 0)
  <2> HIDE DEF n, refusal
  <2> QED BY DEF UpsertSpan, Transaction, n, refusal
<1> HIDE DEF n, refusal
<1> QED BY <1>3, <1>4, <1>5, FailSimulated, PassSimulated

LEMMA InsertEventSimulated ==
  ASSUME IInv, Rows(tables), NEW c \in Clients, call[c] # Idle,
         InsertEvent(c, call[c])
  PROVE  Simulated(c, call[c])
<1> DEFINE q == call[c]
           n == [tables EXCEPT !.events = @ \cup
                  {[run |-> q.run, id |-> q.id, span |-> q.span,
                    seq |-> q.seq, at |-> Place(@, q.run)]}]
           found == HasRun(tables, q.run) /\ HasSpan(tables, q.run, q.span)
           taken == Keyed(tables.events, q.run, q.id) # {}
<1>1. /\ HasRun(tables, q.run) <=> Memory!RunExists(q.run)
      /\ HasSpan(tables, q.run, q.span) <=> Memory!SpanExists(q.run, q.span)
      /\ taken <=> q.id \in DOMAIN Memory!Of(Nested(tables).events, q.run)
  BY RunLookups, Lookups DEF Memory!RunExists, Memory!SpanExists
<1>2. q.op = "insert_event" /\ (c \in snapshots => found)
  BY DEF InsertEvent, IInv, SnapshotsCurrent, Checked
<1>3. CASE ~found /\ Refuse(c, "NotFound")
  <2>1. Memory!InsertEvent(c, q)
    BY <1>1, <1>2, <1>3, RefuseMaps DEF Memory!InsertEvent, Memory!Settle
  <2> QED BY <1>3, <2>1, RefuseSimulated DEF Memory!Perform
<1>4. CASE c \in snapshots /\ taken /\ Refuse(c, "Conflict")
  <2>1. Memory!InsertEvent(c, q)
    BY <1>1, <1>2, <1>4, RefuseMaps DEF Memory!InsertEvent, Memory!Settle
  <2> QED BY <1>4, <2>1, RefuseSimulated DEF Memory!Perform
<1>5. CASE c \in snapshots /\ ~taken /\ Commit(c, n, 0)
  <2> DEFINE at == Place(tables.events, q.run)
             m == [Nested(tables) EXCEPT !.events = Memory!PutOf(@, q.run, q.id,
                     [span |-> q.span, seq |-> q.seq, at |-> at])]
  <2>1. Keyed(tables.events, q.run, q.id) = {}
    BY <1>5
  <2>2. q.id \in Nat /\ q.seq \in Nat
    BY <1>2, RequestsAssumption DEF IInv, CallsOK
  <2>3. at \in Nat /\ Memory!Place(Nested(tables).events, q.run) = at
    BY PlaceLookup
  <2>4. n = [tables EXCEPT !.events = @ \cup {[run |-> q.run, id |-> q.id,
               span |-> q.span, seq |-> q.seq, at |-> at]}]
    OBVIOUS
  <2>5. Rows(n) /\ Nested(n) = m
    <3> HIDE DEF q, at, n
    <3>1. Rows(n)
      BY <2>1, <2>2, <2>3, <2>4, EventMapped
    <3>2. Nested(n) = m
      BY <2>1, <2>2, <2>3, <2>4, EventMapped, SMTT(60)
    <3> QED BY <3>1, <3>2
  <2>6. m = [Nested(tables) EXCEPT !.events = Memory!PutOf(@, q.run, q.id,
               [span |-> q.span, seq |-> q.seq,
                at |-> Memory!Place(@, q.run)])]
    BY <2>3
  <2> HIDE DEF n, m
  <2>7. Memory!InsertEvent(c, q)
    BY <1>1, <1>2, <1>5, <2>5, <2>6, CommitMaps DEF Memory!InsertEvent, Memory!Settle
  <2> QED BY <1>5, <2>5, <2>7, CommitSimulated DEF Memory!Perform
<1>6. \/ Refuse(c, "Internal") \/ Pass(c)
      \/ ~found /\ Refuse(c, "NotFound")
      \/ c \in snapshots /\ taken /\ Refuse(c, "Conflict")
      \/ c \in snapshots /\ ~taken /\ Commit(c, n, 0)
  BY DEF InsertEvent, Transaction
<1> HIDE DEF n, found, taken
<1> QED BY <1>3, <1>4, <1>5, <1>6, FailSimulated, PassSimulated

LEMMA InsertArtifactSimulated ==
  ASSUME IInv, Rows(tables), NEW c \in Clients, call[c] # Idle,
         InsertArtifact(c, call[c])
  PROVE  Simulated(c, call[c])
<1> DEFINE q == call[c]
           n == [tables EXCEPT !.artifacts = @ \cup
                  {[run |-> q.run, id |-> q.id, span |-> q.span,
                    created |-> q.created]}]
           refusal == IF \/ ~HasRun(tables, q.run)
                         \/ ~OptionalSpan(tables, q.run, q.span)
                      THEN "NotFound"
                      ELSE IF q.valid THEN "Ok" ELSE "InvalidInput"
           taken == HasArtifact(tables, q.run, q.id)
<1>1. /\ HasRun(tables, q.run) <=> Memory!RunExists(q.run)
      /\ HasSpan(tables, q.run, q.span) <=> Memory!SpanExists(q.run, q.span)
      /\ taken <=> Memory!ArtifactExists(q.run, q.id)
  BY RunLookups, Lookups
     DEF Memory!RunExists, Memory!SpanExists, Memory!ArtifactExists
<1>2. q.op = "insert_artifact" /\ (c \in snapshots => refusal = "Ok")
  BY DEF InsertArtifact, IInv, SnapshotsCurrent, Checked
<1>3. CASE refusal # "Ok" /\ Refuse(c, refusal)
  <2>1. Memory!InsertArtifact(c, q)
    BY <1>1, <1>2, <1>3, RefuseMaps
       DEF Memory!InsertArtifact, Memory!Settle, OptionalSpan
  <2> QED BY <1>3, <2>1, RefuseSimulated DEF Memory!Perform
<1>4. CASE c \in snapshots /\ taken /\ Refuse(c, "Conflict")
  <2>1. Memory!InsertArtifact(c, q)
    BY <1>1, <1>2, <1>4, RefuseMaps
       DEF Memory!InsertArtifact, Memory!Settle, OptionalSpan
  <2> QED BY <1>4, <2>1, RefuseSimulated DEF Memory!Perform
<1>5. CASE c \in snapshots /\ ~taken /\ Commit(c, n, 0)
  <2>1. q.id \in Nat /\ q.created \in Nat
    BY <1>2, RequestsAssumption DEF IInv, CallsOK
  <2>2. Keyed(tables.artifacts, q.run, q.id) = {}
    BY <1>5 DEF HasArtifact
  <2> HIDE DEF refusal, taken
  <2>3. Rows(n)
    BY <2>1, <2>2, ArtifactMapped
  <2>4. Nested(n) = [Nested(tables) EXCEPT !.artifacts =
          Memory!PutOf(@, q.run, q.id,
                       [span |-> q.span, created |-> q.created])]
    <3> HIDE DEF q
    <3>1. q.id \in Nat /\ q.created \in Nat
      BY <2>1
    <3>2. Keyed(tables.artifacts, q.run, q.id) = {}
      BY <2>2
    <3> QED BY <3>1, <3>2, ArtifactMapped, SMTT(40)
  <2> HIDE DEF n
  <2> USE DEF refusal, taken
  <2>5. Memory!InsertArtifact(c, q)
    BY <1>1, <1>2, <1>5, <2>4, CommitMaps
       DEF Memory!InsertArtifact, Memory!Settle, OptionalSpan
  <2> QED BY <1>5, <2>3, <2>5, CommitSimulated DEF Memory!Perform
<1>6. \/ Refuse(c, "Internal") \/ Pass(c)
      \/ refusal # "Ok" /\ Refuse(c, refusal)
      \/ c \in snapshots /\ taken /\ Refuse(c, "Conflict")
      \/ c \in snapshots /\ ~taken /\ Commit(c, n, 0)
  <2> HIDE DEF n, refusal, taken
  <2> QED BY DEF InsertArtifact, Transaction, n, refusal, taken
<1> HIDE DEF n, refusal, taken
<1> QED BY <1>3, <1>4, <1>5, <1>6, FailSimulated, PassSimulated

LEMMA InsertSnapshotSimulated ==
  ASSUME IInv, Rows(tables), NEW c \in Clients, call[c] # Idle,
         InsertSnapshot(c, call[c])
  PROVE  Simulated(c, call[c])
<1> DEFINE q == call[c]
           n == [tables EXCEPT !.snapshots = @ \cup
                  {[run |-> q.run, id |-> q.id, span |-> q.span,
                    artifact |-> q.artifact, created |-> q.created]}]
           refusal ==
             IF \/ ~HasRun(tables, q.run)
                \/ ~OptionalSpan(tables, q.run, q.span)
                \/ ~HasArtifact(tables, q.run, q.artifact)
             THEN "NotFound"
             ELSE IF \/ q.span = NoSpan
                     \/ Attached(tables, q.run, q.artifact, q.span)
             THEN "Ok" ELSE "InvalidInput"
           taken == Keyed(tables.snapshots, q.run, q.id) # {}
<1>1. /\ HasRun(tables, q.run) <=> Memory!RunExists(q.run)
      /\ HasSpan(tables, q.run, q.span) <=> Memory!SpanExists(q.run, q.span)
      /\ HasArtifact(tables, q.run, q.artifact)
            <=> Memory!ArtifactExists(q.run, q.artifact)
      /\ taken <=> q.id \in DOMAIN Memory!Of(Nested(tables).snapshots, q.run)
  BY RunLookups, Lookups
     DEF Memory!RunExists, Memory!SpanExists, Memory!ArtifactExists
<1>2. HasArtifact(tables, q.run, q.artifact) =>
        (Attached(tables, q.run, q.artifact, q.span)
            <=> Memory!AttachedTo(q.run, q.artifact, q.span))
  BY AttachedLookup DEF Memory!AttachedTo
<1>3. q.op = "insert_snapshot" /\ (c \in snapshots => refusal = "Ok")
  BY DEF InsertSnapshot, IInv, SnapshotsCurrent, Checked
<1>4. CASE refusal # "Ok" /\ Refuse(c, refusal)
  <2>1. Memory!InsertSnapshot(c, q)
    BY <1>1, <1>2, <1>3, <1>4, RefuseMaps
       DEF Memory!InsertSnapshot, Memory!Settle, OptionalSpan
  <2> QED BY <1>4, <2>1, RefuseSimulated DEF Memory!Perform
<1>5. CASE c \in snapshots /\ taken /\ Refuse(c, "Conflict")
  <2>1. Memory!InsertSnapshot(c, q)
    BY <1>1, <1>2, <1>3, <1>5, RefuseMaps
       DEF Memory!InsertSnapshot, Memory!Settle, OptionalSpan
  <2> QED BY <1>5, <2>1, RefuseSimulated DEF Memory!Perform
<1>6. CASE c \in snapshots /\ ~taken /\ Commit(c, n, 0)
  <2>1. q.id \in Nat /\ q.created \in Nat
    BY <1>3, RequestsAssumption DEF IInv, CallsOK
  <2>2. Keyed(tables.snapshots, q.run, q.id) = {}
    BY <1>6
  <2>3. Rows(n)
    BY <2>1, <2>2, SnapshotMapped
  <2>4. Nested(n) = [Nested(tables) EXCEPT !.snapshots =
          Memory!PutOf(@, q.run, q.id,
             [span |-> q.span, artifact |-> q.artifact, created |-> q.created])]
    BY <2>1, <2>2, SnapshotMapped
  <2> HIDE DEF n
  <2>5. Memory!InsertSnapshot(c, q)
    BY <1>1, <1>2, <1>3, <1>6, <2>4, CommitMaps
       DEF Memory!InsertSnapshot, Memory!Settle, OptionalSpan
  <2> QED BY <1>6, <2>3, <2>5, CommitSimulated DEF Memory!Perform
<1>7. \/ Refuse(c, "Internal") \/ Pass(c)
      \/ refusal # "Ok" /\ Refuse(c, refusal)
      \/ c \in snapshots /\ taken /\ Refuse(c, "Conflict")
      \/ c \in snapshots /\ ~taken /\ Commit(c, n, 0)
  <2> HIDE DEF n, refusal, taken
  <2> QED BY DEF InsertSnapshot, Transaction, n, refusal, taken
<1> HIDE DEF n, refusal, taken
<1> QED BY <1>4, <1>5, <1>6, <1>7, FailSimulated, PassSimulated

LEMMA InsertEdgeSimulated ==
  ASSUME IInv, Rows(tables), NEW c \in Clients, call[c] # Idle,
         InsertEdge(c, call[c])
  PROVE  Simulated(c, call[c])
<1> DEFINE q == call[c]
           n == [tables EXCEPT !.edges = @ \cup
                  {[run |-> q.run, id |-> q.id, from |-> q.from, to |-> q.to,
                    at |-> Place(@, q.run)]}]
           found == /\ HasRun(tables, q.run)
                    /\ HasSpan(tables, q.run, q.from)
                    /\ HasSpan(tables, q.run, q.to)
           taken == Keyed(tables.edges, q.run, q.id) # {}
<1>1. /\ HasRun(tables, q.run) <=> Memory!RunExists(q.run)
      /\ HasSpan(tables, q.run, q.from) <=> Memory!SpanExists(q.run, q.from)
      /\ HasSpan(tables, q.run, q.to) <=> Memory!SpanExists(q.run, q.to)
      /\ taken <=> q.id \in DOMAIN Memory!Of(Nested(tables).edges, q.run)
  BY RunLookups, Lookups DEF Memory!RunExists, Memory!SpanExists
<1>2. q.op = "insert_edge" /\ (c \in snapshots => found)
  BY DEF InsertEdge, IInv, SnapshotsCurrent, Checked
<1>3. CASE ~found /\ Refuse(c, "NotFound")
  <2>1. Memory!InsertEdge(c, q)
    BY <1>1, <1>2, <1>3, RefuseMaps DEF Memory!InsertEdge, Memory!Settle
  <2> QED BY <1>3, <2>1, RefuseSimulated DEF Memory!Perform
<1>4. CASE c \in snapshots /\ taken /\ Refuse(c, "Conflict")
  <2>1. Memory!InsertEdge(c, q)
    BY <1>1, <1>2, <1>4, RefuseMaps DEF Memory!InsertEdge, Memory!Settle
  <2> QED BY <1>4, <2>1, RefuseSimulated DEF Memory!Perform
<1>5. CASE c \in snapshots /\ ~taken /\ Commit(c, n, 0)
  <2> DEFINE at == Place(tables.edges, q.run)
             m == [Nested(tables) EXCEPT !.edges = Memory!PutOf(@, q.run, q.id,
                     [from |-> q.from, to |-> q.to, at |-> at])]
  <2>1. Keyed(tables.edges, q.run, q.id) = {}
    BY <1>5
  <2>2. q.id \in Nat
    BY <1>2, RequestsAssumption DEF IInv, CallsOK
  <2>3. at \in Nat /\ Memory!Place(Nested(tables).edges, q.run) = at
    BY PlaceLookup
  <2>4. n = [tables EXCEPT !.edges = @ \cup {[run |-> q.run, id |-> q.id,
               from |-> q.from, to |-> q.to, at |-> at]}]
    OBVIOUS
  <2>5. Rows(n) /\ Nested(n) = m
    <3> HIDE DEF q, at, n, found, taken
    <3>1. Rows(n)
      BY <2>1, <2>2, <2>3, <2>4, EdgeMapped
    <3>2. Nested(n) = m
      BY <2>1, <2>2, <2>3, <2>4, EdgeMapped, SMTT(60)
    <3> QED BY <3>1, <3>2
  <2>6. m = [Nested(tables) EXCEPT !.edges = Memory!PutOf(@, q.run, q.id,
               [from |-> q.from, to |-> q.to, at |-> Memory!Place(@, q.run)])]
    BY <2>3
  <2> HIDE DEF n, m
  <2>7. Memory!InsertEdge(c, q)
    BY <1>1, <1>2, <1>5, <2>5, <2>6, CommitMaps DEF Memory!InsertEdge, Memory!Settle
  <2> QED BY <1>5, <2>5, <2>7, CommitSimulated DEF Memory!Perform
<1>6. \/ Refuse(c, "Internal") \/ Pass(c)
      \/ ~found /\ Refuse(c, "NotFound")
      \/ c \in snapshots /\ taken /\ Refuse(c, "Conflict")
      \/ c \in snapshots /\ ~taken /\ Commit(c, n, 0)
  BY DEF InsertEdge, Transaction
<1> HIDE DEF n, found, taken
<1> QED BY <1>3, <1>4, <1>5, <1>6, FailSimulated, PassSimulated

LEMMA UpdateReplayJobSimulated ==
  ASSUME IInv, Rows(tables), NEW c \in Clients, call[c] # Idle,
         UpdateReplayJob(c, call[c])
  PROVE  Simulated(c, call[c])
<1> DEFINE q == call[c]
           n == [tables EXCEPT !.jobs =
                  {row \in @ : row.run # q.run} \cup {JobRow(q)}]
           found == HasRun(tables, q.source) /\ HasRun(tables, q.run)
           job == HasJob(tables, q.run)
<1>1. /\ HasRun(tables, q.run) <=> Memory!RunExists(q.run)
      /\ HasRun(tables, q.source) <=> Memory!RunExists(q.source)
      /\ job <=> q.run \in DOMAIN Nested(tables).jobs
  BY RunLookups DEF Memory!RunExists
<1>2. q.op = "update_replay_job" /\ (c \in snapshots => found)
  BY DEF UpdateReplayJob, IInv, SnapshotsCurrent, Checked
<1>3. CASE ~(found /\ job) /\ Refuse(c, "NotFound")
  <2>1. Memory!UpdateReplayJob(c, q)
    BY <1>1, <1>2, <1>3, RefuseMaps DEF Memory!UpdateReplayJob, Memory!Settle
  <2> QED BY <1>3, <2>1, RefuseSimulated DEF Memory!Perform
<1>4. CASE c \in snapshots /\ job /\ Commit(c, n, 0)
  <2> DEFINE m == [tables EXCEPT !.jobs = {row \in @ : row.run # q.run} \cup
                     {[run |-> q.run, source |-> q.source, status |-> q.status]}]
  <2>1. m = n
    BY DEF JobRow
  <2> HIDE DEF n, q, job, found
  <2>2. Rows(m)
    BY JobMapped
  <2>3. Nested(m) = [Nested(tables) EXCEPT !.jobs =
          Memory!Put(@, q.run, [source |-> q.source, status |-> q.status])]
    BY JobMapped
  <2> HIDE DEF m
  <2> USE DEF q, job, found
  <2>4. Memory!UpdateReplayJob(c, q)
    BY <1>1, <1>2, <1>4, <2>1, <2>3, CommitMaps
       DEF Memory!UpdateReplayJob, Memory!Settle, Memory!JobInserted
  <2> QED BY <1>4, <2>1, <2>2, <2>4, CommitSimulated DEF Memory!Perform
<1>5. \/ Refuse(c, "Internal") \/ Pass(c)
      \/ ~(found /\ job) /\ Refuse(c, "NotFound")
      \/ c \in snapshots /\ job /\ Commit(c, n, 0)
  <2> HIDE DEF n
  <2> QED BY DEF UpdateReplayJob, Transaction, n
<1> HIDE DEF n, found, job
<1> QED BY <1>3, <1>4, <1>5, FailSimulated, PassSimulated

LEMMA InsertBranchSimulated ==
  ASSUME IInv, Rows(tables), NEW c \in Clients, call[c] # Idle,
         InsertBranch(c, call[c])
  PROVE  Simulated(c, call[c])
<1> DEFINE q == call[c]
           n == [tables EXCEPT !.branches = {row \in @ : row.run # q.run} \cup
                  {[run |-> q.run, source |-> q.source, span |-> q.span,
                    manifest |-> q.manifest]}]
           found == /\ HasRun(tables, q.source) /\ HasRun(tables, q.run)
                    /\ HasSpan(tables, q.source, q.span)
                    /\ HasArtifact(tables, q.run, q.manifest)
           lost == /\ InProgress(q.source)
                   /\ ~HasRun(tables, q.source) \/ ~HasSpan(tables, q.source, q.span)
<1>1. /\ HasRun(tables, q.run) <=> Memory!RunExists(q.run)
      /\ HasRun(tables, q.source) <=> Memory!RunExists(q.source)
      /\ HasSpan(tables, q.source, q.span) <=> Memory!SpanExists(q.source, q.span)
      /\ HasArtifact(tables, q.run, q.manifest)
            <=> Memory!ArtifactExists(q.run, q.manifest)
  BY RunLookups, Lookups
     DEF Memory!RunExists, Memory!SpanExists, Memory!ArtifactExists
<1>2. q.op = "insert_branch" /\ (passed[c] = 4 => found \/ lost)
  BY DEF InsertBranch, IInv, FoundStays, FoundIn, Unguarded
<1>3. CASE ~found /\ Refuse(c, "NotFound")
  <2>1. Memory!InsertBranch(c, q)
    BY <1>1, <1>2, <1>3, RefuseMaps DEF Memory!InsertBranch, Memory!Settle
  <2> QED BY <1>3, <2>1, RefuseSimulated DEF Memory!Perform
<1>4. CASE passed[c] = 4 /\ Commit(c, n, 0)
  <2>1. q.run \in Nat
    BY <1>2, RequestsAssumption DEF IInv, CallsOK
  <2> HIDE DEF q, found, lost
  <2>2. Rows(n)
    BY <2>1, BranchMapped
  <2>3. Nested(n) = [Nested(tables) EXCEPT !.branches =
          Memory!Put(@, q.run, [source |-> q.source, span |-> q.span,
                                manifest |-> q.manifest])]
    BY <2>1, BranchMapped
  <2> HIDE DEF n
  <2> USE DEF q, found, lost
  <2>4. Memory!Settle(c, "Ok", Memory!BranchInserted(q))
    BY <1>4, <2>3, CommitMaps DEF Memory!Settle, Memory!BranchInserted
  <2>5. found => Memory!InsertBranch(c, q)
    BY <1>1, <1>2, <2>4 DEF Memory!InsertBranch
  <2>6. lost => InsertsAfterCleanup(c, q)
    BY <1>2, <2>4 DEF InsertsAfterCleanup
  <2> HIDE DEF found, lost
  <2> QED BY <1>2, <1>4, <2>2, <2>5, <2>6, CommitSimulated DEF Memory!Perform
<1>5. \/ Pass(c)
      \/ ~found /\ Refuse(c, "NotFound")
      \/ passed[c] = 4 /\ Commit(c, n, 0)
  <2>1. passed[c] \in Nat
    BY DEF IInv, CallsOK
  <2> HIDE DEF n
  <2>2. CASE passed[c] < 4
    <3>1. passed[c] \in 0..3
      BY <2>1, <2>2
    <3> QED BY <3>1 DEF InsertBranch, ReadByRead
  <2>3. CASE passed[c] = 4
    BY <2>3 DEF InsertBranch, ReadByRead, n
  <2> QED BY <2>1, <2>2, <2>3 DEF InsertBranch, ReadByRead
<1> HIDE DEF n, found, lost
<1> QED BY <1>3, <1>4, <1>5, PassSimulated

LEMMA InsertReplayJobSimulated ==
  ASSUME IInv, Rows(tables), NEW c \in Clients, call[c] # Idle,
         InsertReplayJob(c, call[c])
  PROVE  Simulated(c, call[c])
<1> DEFINE q == call[c]
           n == [tables EXCEPT !.jobs = @ \cup {JobRow(q)}]
           found == HasRun(tables, q.source) /\ HasRun(tables, q.run)
           lost == InProgress(q.source) /\ ~HasRun(tables, q.source)
           taken == HasJob(tables, q.run)
<1>1. /\ HasRun(tables, q.run) <=> Memory!RunExists(q.run)
      /\ HasRun(tables, q.source) <=> Memory!RunExists(q.source)
      /\ taken <=> q.run \in DOMAIN Nested(tables).jobs
  BY RunLookups DEF Memory!RunExists
<1>2. q.op = "insert_replay_job" /\ (passed[c] = 2 => found \/ lost)
  BY DEF InsertReplayJob, IInv, FoundStays, FoundIn, Unguarded
<1>3. CASE ~found /\ Refuse(c, "NotFound")
  <2>1. Memory!InsertReplayJob(c, q)
    BY <1>1, <1>2, <1>3, RefuseMaps DEF Memory!InsertReplayJob, Memory!Settle
  <2> QED BY <1>3, <2>1, RefuseSimulated DEF Memory!Perform
<1>a. ASSUME passed[c] = 2,
             Memory!Settle(c, IF taken THEN "Conflict" ELSE "Ok",
                           Memory!JobInserted(q))
      PROVE  Memory!Perform(c, q) \/ InsertsAfterCleanup(c, q)
  <2>1. found => Memory!InsertReplayJob(c, q)
    BY <1>1, <1>2, <1>a DEF Memory!InsertReplayJob, Memory!Settle
  <2>2. lost => InsertsAfterCleanup(c, q)
    BY <1>2, <1>a DEF InsertsAfterCleanup
  <2> HIDE DEF found, lost
  <2> QED BY <1>2, <1>a, <2>1, <2>2 DEF Memory!Perform
<1>4. CASE passed[c] = 2 /\ taken /\ Refuse(c, "Conflict")
  <2>1. Memory!Settle(c, IF taken THEN "Conflict" ELSE "Ok", Memory!JobInserted(q))
    BY <1>4, RefuseMaps DEF Memory!Settle
  <2> QED BY <1>4, <1>a, <2>1, RefuseSimulated
<1>5. CASE passed[c] = 2 /\ ~taken /\ Commit(c, n, 0)
  <2> DEFINE m == [tables EXCEPT !.jobs = {row \in @ : row.run # q.run} \cup
                     {[run |-> q.run, source |-> q.source, status |-> q.status]}]
  <2>1. m = n
    <3>1. {row \in tables.jobs : row.run # q.run} = tables.jobs
      BY <1>5 DEF HasJob
    <3> QED BY <3>1 DEF JobRow
  <2> HIDE DEF n, q, taken, found, lost
  <2>2. Rows(m)
    BY JobMapped
  <2>3. Nested(m) = [Nested(tables) EXCEPT !.jobs =
          Memory!Put(@, q.run, [source |-> q.source, status |-> q.status])]
    BY JobMapped
  <2> HIDE DEF m
  <2> USE DEF q
  <2>4. Memory!Settle(c, IF taken THEN "Conflict" ELSE "Ok", Memory!JobInserted(q))
    BY <1>5, <2>1, <2>3, CommitMaps DEF Memory!Settle, Memory!JobInserted
  <2> QED BY <1>5, <1>a, <2>1, <2>2, <2>4, CommitSimulated
<1>6. \/ Pass(c)
      \/ ~found /\ Refuse(c, "NotFound")
      \/ passed[c] = 2 /\ taken /\ Refuse(c, "Conflict")
      \/ passed[c] = 2 /\ ~taken /\ Commit(c, n, 0)
  <2>1. passed[c] \in Nat
    BY DEF IInv, CallsOK
  <2> HIDE DEF n, taken
  <2>2. CASE passed[c] < 2
    <3>1. passed[c] \in 0..1
      BY <2>1, <2>2
    <3> QED BY <3>1 DEF InsertReplayJob, ReadByRead
  <2>3. CASE passed[c] = 2
    BY <2>3 DEF InsertReplayJob, ReadByRead, n, taken
  <2> QED BY <2>1, <2>2, <2>3 DEF InsertReplayJob, ReadByRead
<1> HIDE DEF n, found, lost, taken
<1> QED BY <1>3, <1>4, <1>5, <1>6, PassSimulated

LEMMA InsertDiffSimulated ==
  ASSUME IInv, Rows(tables), NEW c \in Clients, call[c] # Idle,
         InsertDiff(c, call[c])
  PROVE  Simulated(c, call[c])
<1> DEFINE q == call[c]
           n == [tables EXCEPT !.diffs =
                  @ \cup {[run |-> q.run, source |-> q.source]}]
           found == HasRun(tables, q.source) /\ HasRun(tables, q.run)
           lost == \E run \in {q.source, q.run} : InProgress(run) /\ ~HasRun(tables, run)
<1>1. /\ HasRun(tables, q.run) <=> Memory!RunExists(q.run)
      /\ HasRun(tables, q.source) <=> Memory!RunExists(q.source)
  BY RunLookups DEF Memory!RunExists
<1>2. q.op = "insert_diff" /\ (passed[c] = 2 => found \/ lost)
  BY DEF InsertDiff, IInv, FoundStays, FoundIn, Unguarded
<1>3. CASE ~found /\ Refuse(c, "NotFound")
  <2>1. Memory!InsertDiff(c, q)
    BY <1>1, <1>2, <1>3, RefuseMaps DEF Memory!InsertDiff, Memory!Settle
  <2> QED BY <1>3, <2>1, RefuseSimulated DEF Memory!Perform
<1>4. CASE passed[c] = 2 /\ Commit(c, n, 0)
  <2> HIDE DEF q, found, lost
  <2>1. Rows(n)
    BY DiffMapped
  <2>2. Nested(n) =
          [Nested(tables) EXCEPT !.diffs = @ \cup {<<q.source, q.run>>}]
    BY DiffMapped
  <2> HIDE DEF n
  <2> USE DEF q, found, lost
  <2>3. Memory!Settle(c, "Ok", Memory!DiffInserted(q))
    BY <1>4, <2>2, CommitMaps DEF Memory!Settle, Memory!DiffInserted
  <2>4. found => Memory!InsertDiff(c, q)
    BY <1>1, <1>2, <2>3 DEF Memory!InsertDiff
  <2>5. lost => InsertsAfterCleanup(c, q)
    BY <1>2, <2>3 DEF InsertsAfterCleanup
  <2> HIDE DEF found, lost
  <2> QED BY <1>2, <1>4, <2>1, <2>4, <2>5, CommitSimulated DEF Memory!Perform
<1>5. \/ Pass(c)
      \/ ~found /\ Refuse(c, "NotFound")
      \/ passed[c] = 2 /\ Commit(c, n, 0)
  <2>1. passed[c] \in Nat
    BY DEF IInv, CallsOK
  <2> HIDE DEF n
  <2>2. CASE passed[c] < 2
    <3>1. passed[c] \in 0..1
      BY <2>1, <2>2
    <3> QED BY <3>1 DEF InsertDiff, ReadByRead
  <2>3. CASE passed[c] = 2
    BY <2>3 DEF InsertDiff, ReadByRead, n
  <2> QED BY <2>1, <2>2, <2>3 DEF InsertDiff, ReadByRead
<1> HIDE DEF n, found, lost
<1> QED BY <1>3, <1>4, <1>5, PassSimulated

LEMMA NextSequenceSimulated ==
  ASSUME IInv, Rows(tables), NEW c \in Clients, call[c] # Idle,
         NextSequence(c, call[c])
  PROVE  Simulated(c, call[c])
<1> DEFINE q == call[c]
<1>1. q.op = "next_sequence"
  BY DEF NextSequence
<1>2. HasCounter(tables, q.run) <=> Memory!RunExists(q.run)
  <2>1. HasCounter(tables, q.run) <=> HasRun(tables, q.run)
    BY DEF IInv, Sound, CountersIn, HasCounter, HasRun
  <2> QED BY <2>1, RunLookups DEF Memory!RunExists
<1>3. CASE ~HasCounter(tables, q.run) /\ Refuse(c, "NotFound")
  <2>1. Memory!NextSequence(c, q)
    BY <1>1, <1>2, <1>3, RefuseMaps DEF Memory!NextSequence
  <2> QED BY <1>3, <2>1, RefuseSimulated DEF Memory!Perform
<1>4. ASSUME NEW row \in tables.sequences, row.run = q.run,
             Commit(c, [tables EXCEPT !.sequences = (@ \ {row})
                          \cup {[run |-> q.run, next |-> row.next + 1]}],
                    row.next + 1)
      PROVE  Simulated(c, q)
  <2> DEFINE next == row.next + 1
             n == [tables EXCEPT !.sequences = {r \in @ : r.run # q.run} \cup
                     {[run |-> q.run, next |-> next]}]
  <2>1. tables.sequences \ {row} = {r \in tables.sequences : r.run # q.run}
    BY <1>4 DEF Rows, KeysIn, OnePerRun
  <2>2. Commit(c, n, next)
    BY <1>4, <2>1
  <2>3. Nested(tables).sequences[q.run] = row.next
    <3>1. Nested(tables).sequences =
            MapBy(tables.sequences, [r \in tables.sequences |-> Counter(r)])
      BY MapsByRun
    <3> QED BY <1>4, <3>1, MapLookup DEF Rows, KeysIn, Counter
  <2>4. q.run \in DOMAIN Nested(tables).sequences
    <3>1. Nested(tables).sequences =
            MapBy(tables.sequences, [r \in tables.sequences |-> Counter(r)])
      BY MapsByRun
    <3> QED BY <1>4, <3>1, MapLookup
  <2>5. HasCounter(tables, q.run)
    BY <1>4 DEF HasCounter
  <2>6. Rows(n)
    <3> HIDE DEF q, next
    <3> QED BY CounterMapped
  <2>7. Nested(n) = [Nested(tables) EXCEPT !.sequences =
           Memory!Put(@, q.run, next)]
    <3> HIDE DEF q, next
    <3> QED BY CounterMapped
  <2>8. Memory!Put(Nested(tables).sequences, q.run, next)
           = [Nested(tables).sequences EXCEPT ![q.run] = @ + 1]
    <3>1. Nested(tables).sequences = [r \in DOMAIN Nested(tables).sequences |->
                                        Nested(tables).sequences[r]]
      BY NestedMaps DEF MapsOf, ByRun
    <3> QED BY <2>3, <2>4, <3>1 DEF Memory!Put
  <2> HIDE DEF n
  <2>9. Memory!NextSequence(c, q)
    BY <1>1, <1>2, <2>2, <2>3, <2>5, <2>7, <2>8, CommitMaps
       DEF Memory!NextSequence
  <2> QED BY <2>2, <2>6, <2>9, CommitSimulated DEF Memory!Perform
<1>5. \/ Refuse(c, "Internal") \/ Pass(c)
      \/ ~HasCounter(tables, q.run) /\ Refuse(c, "NotFound")
      \/ \E row \in tables.sequences :
            /\ row.run = q.run
            /\ Commit(c, [tables EXCEPT !.sequences = (@ \ {row})
                             \cup {[run |-> q.run, next |-> row.next + 1]}],
                      row.next + 1)
  BY DEF NextSequence
<1> QED BY <1>3, <1>4, <1>5, FailSimulated, PassSimulated

LEMMA AllocateIdSimulated ==
  ASSUME IInv, Rows(tables), NEW c \in Clients, AllocateId(c, call[c])
  PROVE  Simulated(c, call[c])
<1> DEFINE q == call[c]
           n == [tables EXCEPT !.counters[q.kind] = @ + 1]
<1>1. q.op = "allocate_id" /\ Commit(c, n, tables.counters[q.kind] + 1)
  BY DEF AllocateId
<1>2. Rows(n)
  BY CountersMapped
<1>3. Nested(n) = [Nested(tables) EXCEPT !.counters[q.kind] = @ + 1]
  BY CountersMapped
<1>4. Nested(tables).counters = tables.counters
  BY NestedMaps DEF MapsOf
<1> HIDE DEF n
<1>5. Memory!AllocateId(c, q)
  BY <1>1, <1>3, <1>4, CommitMaps DEF Memory!AllocateId
<1> QED BY <1>1, <1>2, <1>5, CommitSimulated DEF Memory!Perform

LEMMA InsertRunSimulated ==
  ASSUME IInv, Rows(tables), NEW c \in Clients, call[c] # Idle,
         InsertRun(c, call[c])
  PROVE  Simulated(c, call[c])
<1> DEFINE q == call[c]
           n == NewRun(tables, q.run, q.record)
<1>1. HasRun(tables, q.run) <=> Memory!RunExists(q.run)
  BY RunLookups DEF Memory!RunExists
<1>2. /\ q.op = "insert_run"
      /\ \/ HasRun(tables, q.run) /\ Refuse(c, "Conflict")
         \/ ~HasRun(tables, q.run) /\ Commit(c, n, 0)
  BY DEF InsertRun, NewRun
<1>3. CASE HasRun(tables, q.run) /\ Refuse(c, "Conflict")
  <2>1. Memory!InsertRun(c, q)
    BY <1>1, <1>2, <1>3, RefuseMaps DEF Memory!InsertRun, Memory!Settle
  <2> QED BY <1>3, <2>1, RefuseSimulated DEF Memory!Perform
<1>4. CASE ~HasRun(tables, q.run) /\ Commit(c, n, 0)
  <2>1. q.run \in Nat /\ q.record.started \in Nat
    BY <1>2, RequestsAssumption DEF IInv, CallsOK
  <2>2. CountersIn(tables)
    BY DEF IInv, Sound
  <2>3. /\ Rows(n)
        /\ Nested(n) = [Nested(tables) EXCEPT
              !.sequences = Memory!Put(@, q.run, 0),
              !.runs = Memory!Put(@, q.run, q.record)]
    BY <1>4, <2>1, <2>2, RunsMapped
  <2> HIDE DEF n
  <2>4. Memory!InsertRun(c, q)
    BY <1>1, <1>2, <1>4, <2>3, CommitMaps DEF Memory!InsertRun, Memory!Settle
  <2> QED BY <1>4, <2>3, <2>4, CommitSimulated DEF Memory!Perform
<1> QED BY <1>2, <1>3, <1>4

LEMMA UpdateRunSimulated ==
  ASSUME IInv, Rows(tables), NEW c \in Clients, call[c] # Idle,
         UpdateRun(c, call[c])
  PROVE  Simulated(c, call[c])
<1> DEFINE q == call[c]
           n == [tables EXCEPT !.runs = {row \in @ : row.run # q.run} \cup
                  {[run |-> q.run, record |-> q.record]}]
<1>1. HasRun(tables, q.run) <=> Memory!RunExists(q.run)
  BY RunLookups DEF Memory!RunExists
<1>2. /\ q.op = "update_run"
      /\ \/ ~HasRun(tables, q.run) /\ Refuse(c, "NotFound")
         \/ HasRun(tables, q.run) /\ Commit(c, n, 0)
  BY DEF UpdateRun
<1>3. CASE ~HasRun(tables, q.run) /\ Refuse(c, "NotFound")
  <2>1. Memory!UpdateRun(c, q)
    BY <1>1, <1>2, <1>3, RefuseMaps DEF Memory!UpdateRun, Memory!Settle
  <2> QED BY <1>3, <2>1, RefuseSimulated DEF Memory!Perform
<1>4. CASE HasRun(tables, q.run) /\ Commit(c, n, 0)
  <2>1. q.run \in Nat /\ q.record.started \in Nat
    BY <1>2, RequestsAssumption DEF IInv, CallsOK
  <2>2. Rows(n)
    <3> HIDE DEF q
    <3> QED BY <2>1, RunMapped
  <2>3. Nested(n) = [Nested(tables) EXCEPT !.runs =
          Memory!Put(@, q.run, q.record)]
    <3> HIDE DEF q
    <3> QED BY <2>1, RunMapped
  <2> HIDE DEF n
  <2>4. Memory!UpdateRun(c, q)
    BY <1>1, <1>2, <1>4, <2>3, CommitMaps DEF Memory!UpdateRun, Memory!Settle
  <2> QED BY <1>4, <2>2, <2>4, CommitSimulated DEF Memory!Perform
<1> HIDE DEF n
<1> QED BY <1>2, <1>3, <1>4

LEMMA CleanupSimulated ==
  ASSUME IInv, Rows(tables), NEW c \in Clients, call[c] # Idle,
         CleanupBranchExecution(c, call[c])
  PROVE  Simulated(c, call[c])
<1> DEFINE q == call[c]
           n == WithoutRun(tables, q.run)
<1>1. q.op = "cleanup" /\ Commit(c, n, 0)
  BY DEF CleanupBranchExecution, WithoutRun
<1>2. Rows(n)
  <2> HIDE DEF q
  <2> QED BY RunDropped
<1>3. Nested(n) = MapsWithoutRun(Nested(tables), q.run)
  <2> HIDE DEF q
  <2> QED BY RunDropped
<1> HIDE DEF n
<1>4. Memory!CleanupBranchExecution(c, q)
  BY <1>1, <1>3, CommitMaps DEF Memory!CleanupBranchExecution, Memory!Settle,
       MapsWithoutRun
<1> QED BY <1>1, <1>2, <1>4, CommitSimulated DEF Memory!Perform

LEMMA NextSimulated ==
  ASSUME IInv, Rows(tables), [Next]_vars
  PROVE  Rows(tables') /\ [MemoryNext]_(Memory!vars)
<1>1. ASSUME NEW c \in Clients, NEW q \in Requests, Invoke(c, q)
      PROVE  Rows(tables') /\ [MemoryNext]_(Memory!vars)
  <2>1. tables' = tables /\ Memory!Invoke(c, q)
    BY <1>1 DEF Invoke, Memory!Invoke
  <2> QED BY <2>1 DEF Memory!Next, MemoryNext
<1>2. ASSUME NEW c \in Clients, call[c] # Idle, Step(c, call[c])
      PROVE  Rows(tables') /\ [MemoryNext]_(Memory!vars)
  <2>1. Simulated(c, call[c])
    BY <1>2, FailSimulated, AllocateIdSimulated, NextSequenceSimulated,
       InsertRunSimulated, UpdateRunSimulated, UpsertSpanSimulated,
       InsertEventSimulated, InsertArtifactSimulated, InsertSnapshotSimulated,
       InsertEdgeSimulated, InsertBranchSimulated, InsertReplayJobSimulated,
       UpdateReplayJobSimulated, InsertDiffSimulated, CleanupSimulated
       DEF Step, Fail
  <2> QED BY <1>2, <2>1 DEF Simulated, Memory!Next, MemoryNext
<1>3. CASE UNCHANGED vars
  BY <1>3 DEF vars, Memory!vars
<1> QED BY <1>1, <1>2, <1>3 DEF Next

\* SqliteStorage implements InMemoryStorage: each call answers and changes the
\* tables as the call under the one lock of the in-memory store would, and takes
\* effect in one step between its start and its answer.  The checks of a deferred
\* transaction still hold when it writes because its snapshot is current; those
\* of a call outside of a transaction, because nobody else may undo them, other
\* than by the cleanup of a fork in progress that the insert refers to: then, and
\* only then, the insert goes on where the in-memory store would refuse it.
THEOREM StoreImplementsMemory == Spec => ImplementsMemory
<1> DEFINE Both == IInv /\ Rows(tables)
<1>1. Init => Both /\ Memory!Init
  <2> SUFFICES ASSUME Init PROVE Both /\ Memory!Init
    OBVIOUS
  <2>1. Both
    BY StoresAssumption DEF Init, IInv, Sound, CallsOK, SnapshotsCurrent,
       FoundStays, Rows
  <2>2. Memory!Init
    BY DEF Init, Memory!Init
  <2> QED BY <2>1, <2>2
<1>2. Both /\ [Next]_vars => Both'
  BY StepKeeps, NextSimulated
<1>3. Both /\ [Next]_vars => [MemoryNext]_(Memory!vars)
  BY NextSimulated
<1> HIDE DEF Both
<1> QED BY <1>1, <1>2, <1>3, PTL DEF Spec, ImplementsMemory

----------------------------------------------------------------------------
(* Reads                                                                   *)

\* Both stores sort by one definition; the instance has a copy of its own.
LEMMA MemoryInOrder ==
  ASSUME NEW S, NEW key, NEW id
  PROVE  Memory!InOrder(S, key, id) = InOrder(S, key, id)
<1>1. \A T : Memory!Cardinality(T) = Cardinality(T)
  BY MemoryCardinality
<1>2. \A a : Memory!Before(S, key, id, a) = Before(S, key, id, a)
  BY DEF Memory!Before, Before
<1> DEFINE theirs(i) == CHOOSE a \in S :
             Memory!Cardinality(Memory!Before(S, key, id, a)) = i - 1
           ours(i) == CHOOSE a \in S : Cardinality(Before(S, key, id, a)) = i - 1
<1>3. \A i : theirs(i) = ours(i)
  BY <1>1, <1>2
<1>4. Memory!InOrder(S, key, id) = [i \in 1..Memory!Cardinality(S) |-> id[theirs(i)]]
  BY DEF Memory!InOrder
<1>5. InOrder(S, key, id) = [i \in 1..Cardinality(S) |-> id[ours(i)]]
  BY DEF InOrder
<1>6. Memory!Cardinality(S) = Cardinality(S)
  BY <1>1
<1> HIDE DEF theirs, ours
<1> QED BY <1>3, <1>4, <1>5, <1>6

\* A get finds the same record, or none, in the table and in the map.
LEMMA RowFound ==
  ASSUME NEW rows, OnePerRun(rows), NEW run, NEW v
  PROVE  Memory!Found(MapBy(rows, v), run) =
           IF OfRun(rows, run) = {} THEN <<>>
           ELSE <<v[CHOOSE row \in OfRun(rows, run) : TRUE]>>
<1> DEFINE r == CHOOSE row \in OfRun(rows, run) : TRUE
<1>1. run \in DOMAIN MapBy(rows, v) <=> OfRun(rows, run) # {}
  BY DEF MapBy, Runs, OfRun
<1>2. ASSUME OfRun(rows, run) # {}
      PROVE  MapBy(rows, v)[run] = v[r]
  <2>1. r \in rows /\ r.run = run
    BY <1>2 DEF OfRun
  <2> HIDE DEF r
  <2> QED BY <2>1, MapLookup
<1> QED BY <1>1, <1>2 DEF Memory!Found

LEMMA KeyedRowFound ==
  ASSUME NEW rows, OnePerId(rows), NEW run, NEW id, NEW v
  PROVE  Memory!Found(Memory!Of(NestedBy(rows, v), run), id) =
           IF Keyed(rows, run, id) = {} THEN <<>>
           ELSE <<v[CHOOSE row \in Keyed(rows, run, id) : TRUE]>>
<1> DEFINE r == CHOOSE row \in Keyed(rows, run, id) : TRUE
<1>1. id \in DOMAIN Memory!Of(NestedBy(rows, v), run) <=> Keyed(rows, run, id) # {}
  BY NestedLookup
<1>2. ASSUME Keyed(rows, run, id) # {}
      PROVE  Memory!Of(NestedBy(rows, v), run)[id] = v[r]
  <2>1. r \in Keyed(rows, run, id)
    BY <1>2
  <2> HIDE DEF r
  <2> QED BY <2>1, NestedLookup
<1> QED BY <1>1, <1>2 DEF Memory!Found

LEMMA RunGetsAgree ==
  ASSUME Rows(tables), NEW run
  PROVE  /\ GetRun(run) = Memory!GetRun(run)
         /\ GetBranch(run) = Memory!GetBranch(run)
         /\ GetReplayJob(run) = Memory!GetReplayJob(run)
<1>1. GetRun(run) = Memory!GetRun(run)
  <2> DEFINE rows == tables.runs
             v == [row \in rows |-> Record(row)]
  <2>1. Nested(tables).runs = MapBy(rows, v)
    BY MapsByRun
  <2>2. OnePerRun(rows)
    BY DEF Rows, KeysIn
  <2>3. \A row \in OfRun(rows, run) : v[row] = Record(row)
    BY DEF OfRun
  <2>4. GetRun(run) = IF OfRun(rows, run) = {} THEN <<>>
                      ELSE <<Record(CHOOSE row \in OfRun(rows, run) : TRUE)>>
    BY DEF GetRun, Row
  <2> HIDE DEF v, rows
  <2> QED BY <2>1, <2>2, <2>3, <2>4, RowFound DEF Memory!GetRun
<1>2. GetBranch(run) = Memory!GetBranch(run)
  <2> DEFINE rows == tables.branches
             v == [row \in rows |-> Branch(row)]
  <2>1. Nested(tables).branches = MapBy(rows, v)
    BY MapsByRun
  <2>2. OnePerRun(rows)
    BY DEF Rows, KeysIn
  <2>3. \A row \in OfRun(rows, run) : v[row] = Branch(row)
    BY DEF OfRun
  <2>4. GetBranch(run) = IF OfRun(rows, run) = {} THEN <<>>
                         ELSE <<Branch(CHOOSE row \in OfRun(rows, run) : TRUE)>>
    BY DEF GetBranch, Row
  <2> HIDE DEF v, rows
  <2> QED BY <2>1, <2>2, <2>3, <2>4, RowFound DEF Memory!GetBranch
<1>3. GetReplayJob(run) = Memory!GetReplayJob(run)
  <2> DEFINE rows == tables.jobs
             v == [row \in rows |-> Job(row)]
  <2>1. Nested(tables).jobs = MapBy(rows, v)
    BY MapsByRun
  <2>2. OnePerRun(rows)
    BY DEF Rows, KeysIn
  <2>3. \A row \in OfRun(rows, run) : v[row] = Job(row)
    BY DEF OfRun
  <2>4. GetReplayJob(run) = IF OfRun(rows, run) = {} THEN <<>>
                            ELSE <<Job(CHOOSE row \in OfRun(rows, run) : TRUE)>>
    BY DEF GetReplayJob, Row
  <2> HIDE DEF v, rows
  <2> QED BY <2>1, <2>2, <2>3, <2>4, RowFound DEF Memory!GetReplayJob
<1> QED BY <1>1, <1>2, <1>3

LEMMA GetsAgree ==
  ASSUME Rows(tables), NEW run, NEW id
  PROVE  /\ GetSpan(run, id) = Memory!GetSpan(run, id)
         /\ GetArtifact(run, id) = Memory!GetArtifact(run, id)
         /\ GetSnapshot(run, id) = Memory!GetSnapshot(run, id)
<1>1. GetSpan(run, id) = Memory!GetSpan(run, id)
  <2> DEFINE rows == tables.spans
             v == [row \in rows |-> Span(row)]
  <2>1. Nested(tables).spans = NestedBy(rows, v)
    BY MapsById
  <2>2. OnePerId(rows)
    BY DEF Rows, KeysIn
  <2>3. \A row \in Keyed(rows, run, id) : v[row] = Span(row)
    BY DEF Keyed
  <2>4. GetSpan(run, id) = IF Keyed(rows, run, id) = {} THEN <<>>
          ELSE <<Span(CHOOSE row \in Keyed(rows, run, id) : TRUE)>>
    BY DEF GetSpan, Row
  <2> HIDE DEF v, rows
  <2> QED BY <2>1, <2>2, <2>3, <2>4, KeyedRowFound DEF Memory!GetSpan
<1>2. GetArtifact(run, id) = Memory!GetArtifact(run, id)
  <2> DEFINE rows == tables.artifacts
             v == [row \in rows |-> Artifact(row)]
  <2>1. Nested(tables).artifacts = NestedBy(rows, v)
    BY MapsById
  <2>2. OnePerId(rows)
    BY DEF Rows, KeysIn
  <2>3. \A row \in Keyed(rows, run, id) : v[row] = Artifact(row)
    BY DEF Keyed
  <2>4. GetArtifact(run, id) = IF Keyed(rows, run, id) = {} THEN <<>>
          ELSE <<Artifact(CHOOSE row \in Keyed(rows, run, id) : TRUE)>>
    BY DEF GetArtifact, Row
  <2> HIDE DEF v, rows
  <2> QED BY <2>1, <2>2, <2>3, <2>4, KeyedRowFound DEF Memory!GetArtifact
<1>3. GetSnapshot(run, id) = Memory!GetSnapshot(run, id)
  <2> DEFINE rows == tables.snapshots
             v == [row \in rows |-> Snapshot(row)]
  <2>1. Nested(tables).snapshots = NestedBy(rows, v)
    BY MapsById
  <2>2. OnePerId(rows)
    BY DEF Rows, KeysIn
  <2>3. \A row \in Keyed(rows, run, id) : v[row] = Snapshot(row)
    BY DEF Keyed
  <2>4. GetSnapshot(run, id) = IF Keyed(rows, run, id) = {} THEN <<>>
          ELSE <<Snapshot(CHOOSE row \in Keyed(rows, run, id) : TRUE)>>
    BY DEF GetSnapshot, Row
  <2> HIDE DEF v, rows
  <2> QED BY <2>1, <2>2, <2>3, <2>4, KeyedRowFound DEF Memory!GetSnapshot
<1> QED BY <1>1, <1>2, <1>3

\* Sorting rows by a key is sorting the entries of the map.
LEMMA RunListsAgree ==
  ASSUME NEW rows, IsFiniteSet(rows), OnePerRun(rows),
         \A row \in rows : row.run \in Nat,
         NEW key \in [rows -> Nat], NEW keyOf,
         \A row \in rows : keyOf[row.run] = key[row]
  PROVE  InOrder(rows, key, [row \in rows |-> RunOf(row)])
           = Memory!InOrder(Runs(rows), keyOf, [run \in Runs(rows) |-> run])
<1> DEFINE id == [row \in rows |-> RunOf(row)]
<1>1. Ordered(rows, key, id) /\ \A row \in rows : id[row] = row.run
  BY DEF Ordered, OnePerRun, RunOf
<1>2. id \in Surjection(rows, Runs(rows))
  BY DEF Surjection, Runs, RunOf
<1> HIDE DEF id
<1>3. InOrder(rows, key, id) = InOrder(Runs(rows), keyOf, [k \in Runs(rows) |-> k])
  BY <1>1, <1>2, SameOrder
<1> QED BY <1>3, MemoryInOrder DEF id

LEMMA IdListsAgree ==
  ASSUME NEW rows, IsFiniteSet(rows), OnePerId(rows), NEW run,
         \A row \in rows : row.id \in Nat,
         NEW key \in [OfRun(rows, run) -> Nat], NEW keyOf,
         \A row \in OfRun(rows, run) : keyOf[row.id] = key[row]
  PROVE  InOrder(OfRun(rows, run), key, [row \in OfRun(rows, run) |-> IdOf(row)])
           = Memory!InOrder(Ids(rows, run), keyOf, [id \in Ids(rows, run) |-> id])
<1> DEFINE mine == OfRun(rows, run)
           id == [row \in mine |-> IdOf(row)]
<1>1. IsFiniteSet(mine)
  BY FS_Subset DEF OfRun
<1>2. /\ Ordered(mine, key, id)
      /\ \A row \in mine : keyOf[id[row]] = key[row]
  BY <1>1 DEF Ordered, OnePerId, IdOf, OfRun
<1>3. id \in Surjection(mine, Ids(rows, run))
  BY DEF Surjection, Ids, Mine, OfRun, IdOf
<1> HIDE DEF id
<1>4. InOrder(mine, key, id)
        = InOrder(Ids(rows, run), keyOf, [k \in Ids(rows, run) |-> k])
  <2> HIDE DEF mine
  <2> QED BY <1>2, <1>3, SameOrder
<1> QED BY <1>4, MemoryInOrder DEF id

LEMMA ListRunsAgrees ==
  ASSUME Rows(tables)
  PROVE  ListRuns = Memory!ListRuns
<1> DEFINE rows == tables.runs
           v == [row \in rows |-> Record(row)]
           key == [row \in rows |-> row.record.started]
           map == Nested(tables).runs
           keyOf == [run \in DOMAIN map |-> map[run].started]
<1>1. map = MapBy(rows, v)
  BY MapsByRun
<1>2. DOMAIN map = Runs(rows)
  BY <1>1 DEF MapBy
<1>3. \A row \in rows : row.run \in Runs(rows) /\ map[row.run] = Record(row)
  <2>1. \A row \in rows : v[row] = Record(row)
    OBVIOUS
  <2>2. OnePerRun(rows)
    BY DEF Rows, KeysIn
  <2> HIDE DEF v, rows, map
  <2> QED BY <1>1, <2>1, <2>2, MapLookup DEF Runs
<1>4. /\ key \in [rows -> Nat] /\ \A row \in rows : keyOf[row.run] = key[row]
      /\ \A row \in rows : row.run \in Nat
      /\ IsFiniteSet(rows) /\ OnePerRun(rows)
  <2>1. key \in [rows -> Nat] /\ \A row \in rows : row.run \in Nat
    BY DEF Rows, NumbersIn
  <2>2. \A row \in rows : keyOf[row.run] = key[row]
    <3> HIDE DEF map
    <3> QED BY <1>2, <1>3 DEF Record
  <2> QED BY <2>1, <2>2 DEF Rows, NumbersIn, KeysIn
<1>5. ListRuns = InOrder(rows, key, [row \in rows |-> RunOf(row)])
  BY DEF ListRuns, OrderBy
<1>6. Memory!ListRuns =
        Memory!InOrder(DOMAIN map, keyOf, [run \in DOMAIN map |-> run])
  BY DEF Memory!ListRuns, Memory!Sorted
<1> HIDE DEF rows, key, map, keyOf
<1> QED BY <1>2, <1>4, <1>5, <1>6, RunListsAgree

LEMMA ListBranchesAgrees ==
  ASSUME Rows(tables)
  PROVE  ListBranches = Memory!ListBranches
<1> DEFINE rows == tables.branches
           key == [row \in rows |-> 0]
           map == Nested(tables).branches
           keyOf == [run \in DOMAIN map |-> 0]
<1>1. map = MapBy(rows, [row \in rows |-> Branch(row)])
  BY MapsByRun
<1>2. DOMAIN map = Runs(rows)
  BY <1>1 DEF MapBy
<1>3. /\ key \in [rows -> Nat] /\ \A row \in rows : keyOf[row.run] = key[row]
      /\ \A row \in rows : row.run \in Nat
      /\ IsFiniteSet(rows) /\ OnePerRun(rows)
  <2>1. \A row \in rows : keyOf[row.run] = key[row]
    <3> HIDE DEF map
    <3> QED BY <1>2 DEF Runs
  <2> QED BY <2>1 DEF Rows, NumbersIn, KeysIn
<1>4. ListBranches = InOrder(rows, key, [row \in rows |-> RunOf(row)])
  BY DEF ListBranches, OrderBy
<1>5. Memory!ListBranches =
        Memory!InOrder(DOMAIN map, keyOf, [run \in DOMAIN map |-> run])
  BY DEF Memory!ListBranches, Memory!Sorted
<1> HIDE DEF rows, key, map, keyOf
<1> QED BY <1>2, <1>3, <1>4, <1>5, RunListsAgree

LEMMA IdsOfMap ==
  ASSUME NEW rows, NEW run, NEW v
  PROVE  DOMAIN Memory!Of(NestedBy(rows, v), run) = Ids(rows, run)
<1>1. run \notin Runs(rows) => Ids(rows, run) = {}
  BY DEF Runs, Ids, Mine
<1> QED BY <1>1 DEF Memory!Of, Memory!Empty, NestedBy

LEMMA ListSpansAgrees ==
  ASSUME Rows(tables), NEW run
  PROVE  ListSpans(run) = Memory!ListSpans(run)
<1> DEFINE rows == tables.spans
           mine == OfRun(rows, run)
           v == [row \in rows |-> Span(row)]
           key == [row \in mine |-> row.seq]
           map == Memory!Of(Nested(tables).spans, run)
           keyOf == [id \in DOMAIN map |-> map[id].seq]
<1>1. map = Memory!Of(NestedBy(rows, v), run)
  BY MapsById
<1>2. DOMAIN map = Ids(rows, run)
  <2> HIDE DEF rows, v, map
  <2> QED BY <1>1, IdsOfMap
<1>3. \A row \in mine : row.id \in Ids(rows, run) /\ map[row.id] = Span(row)
  <2>1. \A row \in mine : /\ row \in Keyed(rows, run, row.id)
                         /\ v[row] = Span(row) /\ row.id \in Ids(rows, run)
    BY DEF OfRun, Keyed, Ids, Mine
  <2>2. OnePerId(rows)
    BY DEF Rows, KeysIn
  <2> HIDE DEF v, rows, map, mine
  <2> QED BY <1>1, <2>1, <2>2, NestedLookup
<1>4. /\ key \in [mine -> Nat] /\ \A row \in mine : keyOf[row.id] = key[row]
      /\ \A row \in rows : row.id \in Nat
      /\ IsFiniteSet(rows) /\ OnePerId(rows)
  <2>1. key \in [mine -> Nat] /\ \A row \in rows : row.id \in Nat
    BY DEF Rows, NumbersIn, OfRun
  <2>2. \A row \in mine : keyOf[row.id] = key[row]
    <3> HIDE DEF map, mine, rows, v
    <3>1. \A row : Span(row).seq = row.seq
      BY DEF Span
    <3> QED BY <1>2, <1>3, <3>1
  <2> QED BY <2>1, <2>2 DEF Rows, NumbersIn, KeysIn
<1>5. ListSpans(run) = InOrder(mine, key, [row \in mine |-> IdOf(row)])
  BY DEF ListSpans, OrderBy
<1>6. Memory!ListSpans(run) =
        Memory!InOrder(DOMAIN map, keyOf, [id \in DOMAIN map |-> id])
  BY DEF Memory!ListSpans, Memory!Sorted
<1> HIDE DEF rows, key, map, keyOf
<1> QED BY <1>2, <1>4, <1>5, <1>6, IdListsAgree

LEMMA ListArtifactsAgrees ==
  ASSUME Rows(tables), NEW run
  PROVE  ListArtifacts(run) = Memory!ListArtifacts(run)
<1> DEFINE rows == tables.artifacts
           mine == OfRun(rows, run)
           v == [row \in rows |-> Artifact(row)]
           key == [row \in mine |-> row.created]
           map == Memory!Of(Nested(tables).artifacts, run)
           keyOf == [id \in DOMAIN map |-> map[id].created]
<1>1. map = Memory!Of(NestedBy(rows, v), run)
  BY MapsById
<1>2. DOMAIN map = Ids(rows, run)
  <2> HIDE DEF rows, v, map
  <2> QED BY <1>1, IdsOfMap
<1>3. \A row \in mine : row.id \in Ids(rows, run) /\ map[row.id] = Artifact(row)
  <2>1. \A row \in mine : /\ row \in Keyed(rows, run, row.id)
                         /\ v[row] = Artifact(row) /\ row.id \in Ids(rows, run)
    BY DEF OfRun, Keyed, Ids, Mine
  <2>2. OnePerId(rows)
    BY DEF Rows, KeysIn
  <2> HIDE DEF v, rows, map, mine
  <2> QED BY <1>1, <2>1, <2>2, NestedLookup
<1>4. /\ key \in [mine -> Nat] /\ \A row \in mine : keyOf[row.id] = key[row]
      /\ \A row \in rows : row.id \in Nat
      /\ IsFiniteSet(rows) /\ OnePerId(rows)
  <2>1. key \in [mine -> Nat] /\ \A row \in rows : row.id \in Nat
    BY DEF Rows, NumbersIn, OfRun
  <2>2. \A row \in mine : keyOf[row.id] = key[row]
    <3> HIDE DEF map, mine, rows, v
    <3>1. \A row : Artifact(row).created = row.created
      BY DEF Artifact
    <3> QED BY <1>2, <1>3, <3>1
  <2> QED BY <2>1, <2>2 DEF Rows, NumbersIn, KeysIn
<1>5. ListArtifacts(run) = InOrder(mine, key, [row \in mine |-> IdOf(row)])
  BY DEF ListArtifacts, OrderBy
<1>6. Memory!ListArtifacts(run) =
        Memory!InOrder(DOMAIN map, keyOf, [id \in DOMAIN map |-> id])
  BY DEF Memory!ListArtifacts, Memory!Sorted
<1> HIDE DEF rows, key, map, keyOf
<1> QED BY <1>2, <1>4, <1>5, <1>6, IdListsAgree

LEMMA ListSnapshotsAgrees ==
  ASSUME Rows(tables), NEW run
  PROVE  ListSnapshots(run) = Memory!ListSnapshots(run)
<1> DEFINE rows == tables.snapshots
           mine == OfRun(rows, run)
           v == [row \in rows |-> Snapshot(row)]
           key == [row \in mine |-> row.created]
           map == Memory!Of(Nested(tables).snapshots, run)
           keyOf == [id \in DOMAIN map |-> map[id].created]
<1>1. map = Memory!Of(NestedBy(rows, v), run)
  BY MapsById
<1>2. DOMAIN map = Ids(rows, run)
  <2> HIDE DEF rows, v, map
  <2> QED BY <1>1, IdsOfMap
<1>3. \A row \in mine : row.id \in Ids(rows, run) /\ map[row.id] = Snapshot(row)
  <2>1. \A row \in mine : /\ row \in Keyed(rows, run, row.id)
                         /\ v[row] = Snapshot(row) /\ row.id \in Ids(rows, run)
    BY DEF OfRun, Keyed, Ids, Mine
  <2>2. OnePerId(rows)
    BY DEF Rows, KeysIn
  <2> HIDE DEF v, rows, map, mine
  <2> QED BY <1>1, <2>1, <2>2, NestedLookup
<1>4. /\ key \in [mine -> Nat] /\ \A row \in mine : keyOf[row.id] = key[row]
      /\ \A row \in rows : row.id \in Nat
      /\ IsFiniteSet(rows) /\ OnePerId(rows)
  <2>1. key \in [mine -> Nat] /\ \A row \in rows : row.id \in Nat
    BY DEF Rows, NumbersIn, OfRun
  <2>2. \A row \in mine : keyOf[row.id] = key[row]
    <3> HIDE DEF map, mine, rows, v
    <3>1. \A row : Snapshot(row).created = row.created
      BY DEF Snapshot
    <3> QED BY <1>2, <1>3, <3>1
  <2> QED BY <2>1, <2>2 DEF Rows, NumbersIn, KeysIn
<1>5. ListSnapshots(run) = InOrder(mine, key, [row \in mine |-> IdOf(row)])
  BY DEF ListSnapshots, OrderBy
<1>6. Memory!ListSnapshots(run) =
        Memory!InOrder(DOMAIN map, keyOf, [id \in DOMAIN map |-> id])
  BY DEF Memory!ListSnapshots, Memory!Sorted
<1> HIDE DEF rows, key, map, keyOf
<1> QED BY <1>2, <1>4, <1>5, <1>6, IdListsAgree

\* A list has the ids of all members.
LEMMA Members ==
  ASSUME NEW S, NEW key, NEW id, Ordered(S, key, id)
  PROVE  Range(InOrder(S, key, id)) = {id[a] : a \in S}
<1> DEFINE At(a, i) == Cardinality(Before(S, key, id, a)) = i - 1
           n == Cardinality(S)
           list == [i \in 1..n |-> id[CHOOSE a \in S : At(a, i)]]
<1>1. InOrder(S, key, id) = list
  BY DEF InOrder
<1>2. ASSUME NEW i \in 1..n
      PROVE  \E a \in S : list[i] = id[a]
  <2>1. \E a \in S : At(a, i)
    BY OnePosition
  <2> HIDE DEF At, n
  <2> QED BY <2>1
<1>3. ASSUME NEW a \in S
      PROVE  \E i \in 1..n : list[i] = id[a]
  <2> DEFINE i == Cardinality(Before(S, key, id, a)) + 1
  <2>1. Cardinality(Before(S, key, id, a)) \in 0..n - 1 /\ n \in Nat
    BY Positions, FS_CardinalityType DEF Ordered
  <2>2. i \in 1..n /\ At(a, i)
    BY <2>1
  <2>3. \A b \in S : At(b, i) => b = a
    BY <2>2, OnePosition
  <2> HIDE DEF At, n, i
  <2>4. (CHOOSE b \in S : At(b, i)) = a
    BY <2>2, <2>3
  <2> QED BY <2>2, <2>4
<1> HIDE DEF n, At
<1>4. DOMAIN list = 1..n
  OBVIOUS
<1> HIDE DEF list
<1> QED BY <1>1, <1>2, <1>3, <1>4 DEF Range

\* Two lists of the same members; one list, if both sort alike.
LEMMA NumberedListsAgree ==
  ASSUME NEW S, NEW key, NEW number, NEW id,
         Ordered(S, key, id), Ordered(S, number, id),
         \A a \in S : key[a] \in Nat /\ number[a] \in Nat /\ id[a] \in Nat
  PROVE  /\ Range(InOrder(S, number, id)) = Range(InOrder(S, key, id))
         /\ (\A a, b \in S :
                key[a] < key[b] <=>
                    (number[a] < number[b] \/ (number[a] = number[b] /\ id[a] < id[b])))
            => InOrder(S, number, id) = InOrder(S, key, id)
<1>1. Range(InOrder(S, number, id)) = Range(InOrder(S, key, id))
  BY Members
<1>2. ASSUME \A a, b \in S :
               key[a] < key[b] <=>
                   (number[a] < number[b] \/ (number[a] = number[b] /\ id[a] < id[b]))
      PROVE  InOrder(S, number, id) = InOrder(S, key, id)
  <2>1. ASSUME NEW a \in S
        PROVE  Before(S, number, id, a) = Before(S, key, id, a)
    <3>1. ASSUME NEW b \in S
          PROVE  b \in Before(S, number, id, a) <=> b \in Before(S, key, id, a)
      <4>1. /\ key[a] \in Nat /\ key[b] \in Nat
            /\ number[a] \in Nat /\ number[b] \in Nat
            /\ id[a] \in Nat /\ id[b] \in Nat
        OBVIOUS
      <4>2. key[b] < key[a] <=>
                (number[b] < number[a] \/ (number[b] = number[a] /\ id[b] < id[a]))
        BY <1>2
      <4>3. key[a] < key[b] <=>
                (number[a] < number[b] \/ (number[a] = number[b] /\ id[a] < id[b]))
        BY <1>2
      <4>4. b \in Before(S, number, id, a) <=>
                (number[b] < number[a] \/ (number[b] = number[a] /\ id[b] < id[a]))
        BY DEF Before
      <4>5. b \in Before(S, key, id, a) <=>
                (key[b] < key[a] \/ (key[b] = key[a] /\ id[b] < id[a]))
        BY DEF Before
      <4> QED BY <4>1, <4>2, <4>3, <4>4, <4>5
    <3>2. /\ Before(S, number, id, a) \subseteq S
          /\ Before(S, key, id, a) \subseteq S
      BY DEF Before
    <3> QED BY <3>1, <3>2
  <2> DEFINE ours(i) == CHOOSE a \in S :
                          Cardinality(Before(S, number, id, a)) = i - 1
             theirs(i) == CHOOSE a \in S :
                            Cardinality(Before(S, key, id, a)) = i - 1
  <2>2. \A i : ours(i) = theirs(i)
    BY <2>1
  <2>3. /\ InOrder(S, number, id) = [i \in 1..Cardinality(S) |-> id[ours(i)]]
        /\ InOrder(S, key, id) = [i \in 1..Cardinality(S) |-> id[theirs(i)]]
    BY DEF InOrder
  <2> HIDE DEF ours, theirs
  <2> QED BY <2>2, <2>3
<1> QED BY <1>1, <1>2

LEMMA ListEventsAgrees ==
  ASSUME Rows(tables), NEW run
  PROVE  /\ Range(ListEvents(run)) = Range(Memory!ListEvents(run))
         /\ CameInOrder(OfRun(tables.events, run), LAMBDA row : row.seq) =>
               ListEvents(run) = Memory!ListEvents(run)
<1> DEFINE rows == tables.events
           mine == OfRun(rows, run)
           v == [row \in rows |-> Event(row)]
           key == [row \in mine |-> row.at]
           number == [row \in mine |-> row.seq]
           idOf == [row \in mine |-> IdOf(row)]
           map == Memory!Of(Nested(tables).events, run)
           keyOf == [id \in DOMAIN map |-> map[id].at]
<1>1. map = Memory!Of(NestedBy(rows, v), run)
  BY MapsById
<1>2. DOMAIN map = Ids(rows, run)
  <2> HIDE DEF rows, v, map
  <2> QED BY <1>1, IdsOfMap
<1>3. \A row \in mine : row.id \in Ids(rows, run) /\ map[row.id] = Event(row)
  <2>1. \A row \in mine : /\ row \in Keyed(rows, run, row.id)
                         /\ v[row] = Event(row) /\ row.id \in Ids(rows, run)
    BY DEF OfRun, Keyed, Ids, Mine
  <2>2. OnePerId(rows)
    BY DEF Rows, KeysIn
  <2> HIDE DEF v, rows, map, mine
  <2> QED BY <1>1, <2>1, <2>2, NestedLookup
<1>4. /\ key \in [mine -> Nat] /\ \A row \in mine : keyOf[row.id] = key[row]
      /\ \A row \in rows : row.id \in Nat
      /\ IsFiniteSet(rows) /\ OnePerId(rows)
  <2>1. key \in [mine -> Nat] /\ \A row \in rows : row.id \in Nat
    BY DEF Rows, NumbersIn, OfRun
  <2>2. \A row \in mine : keyOf[row.id] = key[row]
    <3> HIDE DEF map, mine, rows, v
    <3>1. \A row : Event(row).at = row.at
      BY DEF Event
    <3> QED BY <1>2, <1>3, <3>1
  <2> QED BY <2>1, <2>2 DEF Rows, NumbersIn, KeysIn
<1>5. Memory!ListEvents(run) =
        Memory!InOrder(DOMAIN map, keyOf, [id \in DOMAIN map |-> id])
  BY DEF Memory!ListEvents, Memory!Sorted
<1>6. InOrder(mine, key, [row \in mine |-> IdOf(row)]) = Memory!ListEvents(run)
  <2> HIDE DEF rows, key, map, keyOf
  <2> QED BY <1>2, <1>4, <1>5, IdListsAgree
<1>7. ListEvents(run) = InOrder(mine, number, idOf)
  BY DEF ListEvents, OrderBy
<1>8. \A row \in mine : /\ key[row] \in Nat /\ idOf[row] \in Nat
                       /\ idOf[row] = row.id /\ key[row] = row.at
                       /\ number[row] \in Nat /\ number[row] = row.seq
  BY DEF Rows, NumbersIn, OfRun, IdOf
<1>9. Ordered(mine, key, idOf) /\ Ordered(mine, number, idOf)
  <2>1. IsFiniteSet(mine)
    BY <1>4, FS_Subset DEF OfRun
  <2>2. \A a, b \in mine : a.id = b.id => a = b
    BY <1>4 DEF OnePerId, OfRun
  <2>3. key \in [mine -> Nat] /\ number \in [mine -> Nat] /\ idOf \in [mine -> Nat]
    BY <1>8
  <2> HIDE DEF mine, key, number, idOf
  <2> QED BY <1>8, <2>1, <2>2, <2>3 DEF Ordered
<1>10. ASSUME CameInOrder(mine, LAMBDA row : row.seq), NEW a \in mine, NEW b \in mine
       PROVE  key[a] < key[b] <=>
                  (number[a] < number[b] \/ (number[a] = number[b] /\ idOf[a] < idOf[b]))
  <2>1. a.at < b.at <=> (a.seq < b.seq \/ (a.seq = b.seq /\ a.id < b.id))
    BY <1>10 DEF CameInOrder
  <2> HIDE DEF mine, key, number, idOf
  <2> QED BY <1>8, <2>1
<1>11. /\ Range(InOrder(mine, number, idOf)) = Range(InOrder(mine, key, idOf))
       /\ (\A a, b \in mine :
              key[a] < key[b] <=>
                  (number[a] < number[b] \/ (number[a] = number[b] /\ idOf[a] < idOf[b])))
          => InOrder(mine, number, idOf) = InOrder(mine, key, idOf)
  <2> HIDE DEF mine, key, number, idOf
  <2> QED BY <1>8, <1>9, NumberedListsAgree
<1>12. CameInOrder(mine, LAMBDA row : row.seq) =>
         InOrder(mine, number, idOf) = InOrder(mine, key, idOf)
  BY <1>10, <1>11
<1> QED BY <1>6, <1>7, <1>11, <1>12

LEMMA ListEdgesAgrees ==
  ASSUME Rows(tables), NEW run
  PROVE  /\ Range(ListEdges(run)) = Range(Memory!ListEdges(run))
         /\ CameInOrder(OfRun(tables.edges, run), LAMBDA row : 0) =>
               ListEdges(run) = Memory!ListEdges(run)
<1> DEFINE rows == tables.edges
           mine == OfRun(rows, run)
           v == [row \in rows |-> Edge(row)]
           key == [row \in mine |-> row.at]
           number == [row \in mine |-> 0]
           idOf == [row \in mine |-> IdOf(row)]
           map == Memory!Of(Nested(tables).edges, run)
           keyOf == [id \in DOMAIN map |-> map[id].at]
<1>1. map = Memory!Of(NestedBy(rows, v), run)
  BY MapsById
<1>2. DOMAIN map = Ids(rows, run)
  <2> HIDE DEF rows, v, map
  <2> QED BY <1>1, IdsOfMap
<1>3. \A row \in mine : row.id \in Ids(rows, run) /\ map[row.id] = Edge(row)
  <2>1. \A row \in mine : /\ row \in Keyed(rows, run, row.id)
                         /\ v[row] = Edge(row) /\ row.id \in Ids(rows, run)
    BY DEF OfRun, Keyed, Ids, Mine
  <2>2. OnePerId(rows)
    BY DEF Rows, KeysIn
  <2> HIDE DEF v, rows, map, mine
  <2> QED BY <1>1, <2>1, <2>2, NestedLookup
<1>4. /\ key \in [mine -> Nat] /\ \A row \in mine : keyOf[row.id] = key[row]
      /\ \A row \in rows : row.id \in Nat
      /\ IsFiniteSet(rows) /\ OnePerId(rows)
  <2>1. key \in [mine -> Nat] /\ \A row \in rows : row.id \in Nat
    BY DEF Rows, NumbersIn, OfRun
  <2>2. \A row \in mine : keyOf[row.id] = key[row]
    <3> HIDE DEF map, mine, rows, v
    <3>1. \A row : Edge(row).at = row.at
      BY DEF Edge
    <3> QED BY <1>2, <1>3, <3>1
  <2> QED BY <2>1, <2>2 DEF Rows, NumbersIn, KeysIn
<1>5. Memory!ListEdges(run) =
        Memory!InOrder(DOMAIN map, keyOf, [id \in DOMAIN map |-> id])
  BY DEF Memory!ListEdges, Memory!Sorted
<1>6. InOrder(mine, key, [row \in mine |-> IdOf(row)]) = Memory!ListEdges(run)
  <2> HIDE DEF rows, key, map, keyOf
  <2> QED BY <1>2, <1>4, <1>5, IdListsAgree
<1>7. ListEdges(run) = InOrder(mine, number, idOf)
  BY DEF ListEdges, OrderBy
<1>8. \A row \in mine : /\ key[row] \in Nat /\ idOf[row] \in Nat
                       /\ idOf[row] = row.id /\ key[row] = row.at
                       /\ number[row] \in Nat /\ number[row] = 0
  BY DEF Rows, NumbersIn, OfRun, IdOf
<1>9. Ordered(mine, key, idOf) /\ Ordered(mine, number, idOf)
  <2>1. IsFiniteSet(mine)
    BY <1>4, FS_Subset DEF OfRun
  <2>2. \A a, b \in mine : a.id = b.id => a = b
    BY <1>4 DEF OnePerId, OfRun
  <2>3. key \in [mine -> Nat] /\ number \in [mine -> Nat] /\ idOf \in [mine -> Nat]
    BY <1>8
  <2> HIDE DEF mine, key, number, idOf
  <2> QED BY <1>8, <2>1, <2>2, <2>3 DEF Ordered
<1>10. ASSUME CameInOrder(mine, LAMBDA row : 0), NEW a \in mine, NEW b \in mine
       PROVE  key[a] < key[b] <=>
                  (number[a] < number[b] \/ (number[a] = number[b] /\ idOf[a] < idOf[b]))
  <2>1. a.at < b.at <=> (0 < 0 \/ (0 = 0 /\ a.id < b.id))
    BY <1>10 DEF CameInOrder
  <2> HIDE DEF mine, key, number, idOf
  <2> QED BY <1>8, <2>1
<1>11. /\ Range(InOrder(mine, number, idOf)) = Range(InOrder(mine, key, idOf))
       /\ (\A a, b \in mine :
              key[a] < key[b] <=>
                  (number[a] < number[b] \/ (number[a] = number[b] /\ idOf[a] < idOf[b])))
          => InOrder(mine, number, idOf) = InOrder(mine, key, idOf)
  <2> HIDE DEF mine, key, number, idOf
  <2> QED BY <1>8, <1>9, NumberedListsAgree
<1>12. CameInOrder(mine, LAMBDA row : 0) =>
         InOrder(mine, number, idOf) = InOrder(mine, key, idOf)
  BY <1>10, <1>11
<1> QED BY <1>6, <1>7, <1>11, <1>12

LEMMA GetDiffsAgree ==
  ASSUME NEW run
  PROVE  \A other : GetDiff(other, run) = Memory!GetDiff(other, run)
<1>1. MapsOf(tables, Nested(tables))
  BY NestedMaps
<1>2. ASSUME NEW other
      PROVE  GetDiff(other, run) = Memory!GetDiff(other, run)
  <2>1. Nested(tables).diffs = {<<row.source, row.run>> : row \in tables.diffs}
    BY <1>1 DEF MapsOf
  <2>2. <<other, run>> \in Nested(tables).diffs <=>
           \E row \in tables.diffs : row.source = other /\ row.run = run
    BY <2>1
  <2>3. CASE GetDiff(other, run)
    <3>1. GetDiff(other, run) = TRUE
      BY <2>3 DEF GetDiff
    <3>2. Memory!GetDiff(other, run) = TRUE
      BY <2>2, <2>3 DEF GetDiff, Memory!GetDiff
    <3> QED BY <3>1, <3>2
  <2>4. CASE ~GetDiff(other, run)
    <3>1. GetDiff(other, run) = FALSE
      BY <2>4 DEF GetDiff
    <3>2. Memory!GetDiff(other, run) = FALSE
      BY <2>2, <2>4 DEF GetDiff, Memory!GetDiff
    <3> QED BY <3>1, <3>2
  <2> QED BY <2>3, <2>4
<1> QED BY <1>2

LEMMA RowsAgree ==
  ASSUME Rows(tables)
  PROVE  ReadsAgree
BY ListRunsAgrees, ListBranchesAgrees, RunGetsAgree, GetsAgree, ListSpansAgrees,
   ListArtifactsAgrees, ListSnapshotsAgrees, ListEventsAgrees, ListEdgesAgrees,
   GetDiffsAgree DEF ReadsAgree

----------------------------------------------------------------------------
(* Keys stay, whoever calls                                                *)

\* What a read relies on: keys are unique, and a run has a counter.
Keyable(t) == Rows(t) /\ CountersIn(t)

CallsTyped == call \in [Clients -> Requests \cup {Idle}]

LEMMA CountersStay ==
  ASSUME NEW t, CountersIn(t), NEW n,
         n.runs = t.runs, n.sequences = t.sequences
  PROVE  CountersIn(n)
BY DEF CountersIn, HasRun, HasCounter

LEMMA RefuseKeepsKeys ==
  ASSUME Keyable(tables), NEW c, NEW answer, Refuse(c, answer)
  PROVE  Keyable(tables')
BY DEF Refuse

LEMMA PassKeepsKeys ==
  ASSUME Keyable(tables), NEW c, Pass(c)
  PROVE  Keyable(tables')
BY DEF Pass

LEMMA CommitKeepsKeys ==
  ASSUME NEW c, NEW n, Rows(n), CountersIn(n), NEW value, Commit(c, n, value)
  PROVE  Keyable(tables')
BY DEF Commit, Keyable

LEMMA UpsertSpanKeepsKeys ==
  ASSUME Keyable(tables), CallsTyped, NEW c \in Clients, call[c] # Idle,
         UpsertSpan(c, call[c])
  PROVE  Keyable(tables')
<1> DEFINE q == call[c]
           n == [tables EXCEPT !.spans = (@ \ Keyed(@, q.run, q.id)) \cup
                  {[run |-> q.run, id |-> q.id, parent |-> q.parent,
                    seq |-> q.seq]}]
<1>1. ASSUME Commit(c, n, 0)
      PROVE  Keyable(tables')
  <2>1. q.id \in Nat /\ q.seq \in Nat
    BY RequestsAssumption DEF UpsertSpan, CallsTyped
  <2>2. Rows(n)
    <3> HIDE DEF q
    <3> QED BY <1>1, <2>1, SpanMapped DEF Keyable
  <2>3. CountersIn(n)
    BY CountersStay DEF Keyable, Rows, IsTables
  <2> HIDE DEF n
  <2> QED BY <1>1, <2>2, <2>3, CommitKeepsKeys
<1>2. \/ \E answer : Refuse(c, answer)
      \/ Pass(c)
      \/ Commit(c, n, 0)
  BY DEF UpsertSpan, Transaction
<1> HIDE DEF n
<1> QED BY <1>1, <1>2, RefuseKeepsKeys, PassKeepsKeys

LEMMA InsertEventKeepsKeys ==
  ASSUME Keyable(tables), CallsTyped, NEW c \in Clients, call[c] # Idle,
         InsertEvent(c, call[c])
  PROVE  Keyable(tables')
<1> DEFINE q == call[c]
           n == [tables EXCEPT !.events = @ \cup
                  {[run |-> q.run, id |-> q.id, span |-> q.span,
                    seq |-> q.seq, at |-> Place(@, q.run)]}]
<1>1. ASSUME Keyed(tables.events, q.run, q.id) = {}, Commit(c, n, 0)
      PROVE  Keyable(tables')
  <2>1. Rows(n)
    <3>1. q.id \in Nat /\ q.seq \in Nat
      BY RequestsAssumption DEF InsertEvent, CallsTyped
    <3>2. Place(tables.events, q.run) \in Nat
      BY PlaceLookup DEF Keyable
    <3> HIDE DEF q
    <3> QED BY <1>1, <3>1, <3>2, EventMapped DEF Keyable
  <2>2. CountersIn(n)
    BY CountersStay DEF Keyable, Rows, IsTables
  <2> HIDE DEF n
  <2> QED BY <1>1, <2>1, <2>2, CommitKeepsKeys
<1>2. \/ \E answer : Refuse(c, answer)
      \/ Pass(c)
      \/ Keyed(tables.events, q.run, q.id) = {} /\ Commit(c, n, 0)
  BY DEF InsertEvent, Transaction
<1> HIDE DEF n
<1> QED BY <1>1, <1>2, RefuseKeepsKeys, PassKeepsKeys

LEMMA InsertArtifactKeepsKeys ==
  ASSUME Keyable(tables), CallsTyped, NEW c \in Clients, call[c] # Idle,
         InsertArtifact(c, call[c])
  PROVE  Keyable(tables')
<1> DEFINE q == call[c]
           n == [tables EXCEPT !.artifacts = @ \cup
                  {[run |-> q.run, id |-> q.id, span |-> q.span,
                    created |-> q.created]}]
<1>1. ASSUME Keyed(tables.artifacts, q.run, q.id) = {}, Commit(c, n, 0)
      PROVE  Keyable(tables')
  <2>1. q.id \in Nat /\ q.created \in Nat
    BY RequestsAssumption DEF InsertArtifact, CallsTyped
  <2>2. Rows(n)
    <3> HIDE DEF q
    <3> QED BY <1>1, <2>1, ArtifactMapped DEF Keyable
  <2>3. CountersIn(n)
    BY CountersStay DEF Keyable, Rows, IsTables
  <2> HIDE DEF n
  <2> QED BY <1>1, <2>2, <2>3, CommitKeepsKeys
<1>2. \/ \E answer : Refuse(c, answer)
      \/ Pass(c)
      \/ Keyed(tables.artifacts, q.run, q.id) = {} /\ Commit(c, n, 0)
  BY DEF InsertArtifact, Transaction, HasArtifact
<1> HIDE DEF n
<1> QED BY <1>1, <1>2, RefuseKeepsKeys, PassKeepsKeys

LEMMA InsertSnapshotKeepsKeys ==
  ASSUME Keyable(tables), CallsTyped, NEW c \in Clients, call[c] # Idle,
         InsertSnapshot(c, call[c])
  PROVE  Keyable(tables')
<1> DEFINE q == call[c]
           n == [tables EXCEPT !.snapshots = @ \cup
                  {[run |-> q.run, id |-> q.id, span |-> q.span,
                    artifact |-> q.artifact, created |-> q.created]}]
<1>1. ASSUME Keyed(tables.snapshots, q.run, q.id) = {}, Commit(c, n, 0)
      PROVE  Keyable(tables')
  <2>1. q.id \in Nat /\ q.created \in Nat
    BY RequestsAssumption DEF InsertSnapshot, CallsTyped
  <2>2. Rows(n)
    <3> HIDE DEF q
    <3> QED BY <1>1, <2>1, SnapshotMapped DEF Keyable
  <2>3. CountersIn(n)
    BY CountersStay DEF Keyable, Rows, IsTables
  <2> HIDE DEF n
  <2> QED BY <1>1, <2>2, <2>3, CommitKeepsKeys
<1>2. \/ \E answer : Refuse(c, answer)
      \/ Pass(c)
      \/ Keyed(tables.snapshots, q.run, q.id) = {} /\ Commit(c, n, 0)
  BY DEF InsertSnapshot, Transaction
<1> HIDE DEF n
<1> QED BY <1>1, <1>2, RefuseKeepsKeys, PassKeepsKeys

LEMMA InsertEdgeKeepsKeys ==
  ASSUME Keyable(tables), CallsTyped, NEW c \in Clients, call[c] # Idle,
         InsertEdge(c, call[c])
  PROVE  Keyable(tables')
<1> DEFINE q == call[c]
           n == [tables EXCEPT !.edges = @ \cup
                  {[run |-> q.run, id |-> q.id, from |-> q.from, to |-> q.to,
                    at |-> Place(@, q.run)]}]
<1>1. ASSUME Keyed(tables.edges, q.run, q.id) = {}, Commit(c, n, 0)
      PROVE  Keyable(tables')
  <2>1. Rows(n)
    <3>1. q.id \in Nat
      BY RequestsAssumption DEF InsertEdge, CallsTyped
    <3>2. Place(tables.edges, q.run) \in Nat
      BY PlaceLookup DEF Keyable
    <3> HIDE DEF q
    <3> QED BY <1>1, <3>1, <3>2, EdgeMapped DEF Keyable
  <2>2. CountersIn(n)
    BY CountersStay DEF Keyable, Rows, IsTables
  <2> HIDE DEF n
  <2> QED BY <1>1, <2>1, <2>2, CommitKeepsKeys
<1>2. \/ \E answer : Refuse(c, answer)
      \/ Pass(c)
      \/ Keyed(tables.edges, q.run, q.id) = {} /\ Commit(c, n, 0)
  BY DEF InsertEdge, Transaction
<1> HIDE DEF n
<1> QED BY <1>1, <1>2, RefuseKeepsKeys, PassKeepsKeys

LEMMA UpdateReplayJobKeepsKeys ==
  ASSUME Keyable(tables), CallsTyped, NEW c \in Clients, call[c] # Idle,
         UpdateReplayJob(c, call[c])
  PROVE  Keyable(tables')
<1> DEFINE q == call[c]
           n == [tables EXCEPT !.jobs = {row \in @ : row.run # q.run} \cup
                  {[run |-> q.run, source |-> q.source, status |-> q.status]}]
<1>1. ASSUME Commit(c, n, 0)
      PROVE  Keyable(tables')
  <2>1. Rows(n)
    <3> HIDE DEF q
    <3> QED BY <1>1, JobMapped DEF Keyable
  <2>2. CountersIn(n)
    BY CountersStay DEF Keyable, Rows, IsTables
  <2> HIDE DEF n
  <2> QED BY <1>1, <2>1, <2>2, CommitKeepsKeys
<1>2. \/ \E answer : Refuse(c, answer)
      \/ Pass(c)
      \/ Commit(c, n, 0)
  BY DEF UpdateReplayJob, Transaction, JobRow
<1> HIDE DEF n
<1> QED BY <1>1, <1>2, RefuseKeepsKeys, PassKeepsKeys

LEMMA InsertBranchKeepsKeys ==
  ASSUME Keyable(tables), CallsTyped, NEW c \in Clients, call[c] # Idle,
         InsertBranch(c, call[c])
  PROVE  Keyable(tables')
<1> DEFINE q == call[c]
           n == [tables EXCEPT !.branches = {row \in @ : row.run # q.run} \cup
                  {[run |-> q.run, source |-> q.source, span |-> q.span,
                    manifest |-> q.manifest]}]
<1>1. ASSUME Commit(c, n, 0)
      PROVE  Keyable(tables')
  <2>1. q.run \in Nat
    BY RequestsAssumption DEF InsertBranch, CallsTyped
  <2>2. Rows(n)
    <3> HIDE DEF q
    <3> QED BY <1>1, <2>1, BranchMapped DEF Keyable
  <2>3. CountersIn(n)
    BY CountersStay DEF Keyable, Rows, IsTables
  <2> HIDE DEF n
  <2> QED BY <1>1, <2>2, <2>3, CommitKeepsKeys
<1>2. \/ \E answer : Refuse(c, answer)
      \/ Pass(c)
      \/ Commit(c, n, 0)
  BY DEF InsertBranch, ReadByRead
<1> HIDE DEF n
<1> QED BY <1>1, <1>2, RefuseKeepsKeys, PassKeepsKeys

LEMMA InsertDiffKeepsKeys ==
  ASSUME Keyable(tables), CallsTyped, NEW c \in Clients, call[c] # Idle,
         InsertDiff(c, call[c])
  PROVE  Keyable(tables')
<1> DEFINE q == call[c]
           n == [tables EXCEPT !.diffs = @ \cup
                  {[run |-> q.run, source |-> q.source]}]
<1>1. ASSUME Commit(c, n, 0)
      PROVE  Keyable(tables')
  <2>1. Rows(n)
    <3> HIDE DEF q
    <3> QED BY <1>1, DiffMapped DEF Keyable
  <2>2. CountersIn(n)
    BY CountersStay DEF Keyable, Rows, IsTables
  <2> HIDE DEF n
  <2> QED BY <1>1, <2>1, <2>2, CommitKeepsKeys
<1>2. \/ \E answer : Refuse(c, answer)
      \/ Pass(c)
      \/ Commit(c, n, 0)
  BY DEF InsertDiff, ReadByRead
<1> HIDE DEF n
<1> QED BY <1>1, <1>2, RefuseKeepsKeys, PassKeepsKeys

LEMMA InsertReplayJobKeepsKeys ==
  ASSUME Keyable(tables), CallsTyped, NEW c \in Clients, call[c] # Idle,
         InsertReplayJob(c, call[c])
  PROVE  Keyable(tables')
<1> DEFINE q == call[c]
           n == [tables EXCEPT !.jobs = @ \cup {JobRow(q)}]
           m == [tables EXCEPT !.jobs = {row \in @ : row.run # q.run} \cup
                  {[run |-> q.run, source |-> q.source, status |-> q.status]}]
<1>1. ASSUME ~HasJob(tables, q.run), Commit(c, n, 0)
      PROVE  Keyable(tables')
  <2>1. {row \in tables.jobs : row.run # q.run} = tables.jobs
    BY <1>1 DEF HasJob
  <2>2. n = m
    BY <2>1 DEF JobRow
  <2>3. Rows(m)
    <3> HIDE DEF q
    <3> QED BY JobMapped DEF Keyable
  <2>4. CountersIn(m)
    BY CountersStay DEF Keyable, Rows, IsTables
  <2> HIDE DEF n, m
  <2> QED BY <1>1, <2>2, <2>3, <2>4, CommitKeepsKeys
<1>2. \/ \E answer : Refuse(c, answer)
      \/ Pass(c)
      \/ ~HasJob(tables, q.run) /\ Commit(c, n, 0)
  BY DEF InsertReplayJob, ReadByRead
<1> HIDE DEF n
<1> QED BY <1>1, <1>2, RefuseKeepsKeys, PassKeepsKeys

\* Which runs have a row after one was replaced or added.
LEMMA RowReplaced ==
  ASSUME NEW rows, NEW row, NEW new,
         new = {r \in rows : r.run # row.run} \cup {row}
  PROVE  \A run : (\E r \in new : r.run = run)
                     <=> (\E r \in rows : r.run = run) \/ run = row.run
OBVIOUS

LEMMA RowAdded ==
  ASSUME NEW rows, NEW row, NEW new, new = rows \cup {row}
  PROVE  \A run : (\E r \in new : r.run = run)
                     <=> (\E r \in rows : r.run = run) \/ run = row.run
OBVIOUS

LEMMA NextSequenceKeepsKeys ==
  ASSUME Keyable(tables), NEW c, NEW q, NextSequence(c, q)
  PROVE  Keyable(tables')
<1>1. ASSUME NEW row \in tables.sequences, row.run = q.run,
             Commit(c, [tables EXCEPT !.sequences = (@ \ {row})
                          \cup {[run |-> q.run, next |-> row.next + 1]}],
                    row.next + 1)
      PROVE  Keyable(tables')
  <2> DEFINE next == row.next + 1
             n == [tables EXCEPT !.sequences = {r \in @ : r.run # q.run} \cup
                     {[run |-> q.run, next |-> next]}]
  <2>1. tables.sequences \ {row} = {r \in tables.sequences : r.run # q.run}
    BY <1>1 DEF Keyable, Rows, KeysIn, OnePerRun
  <2>2. Commit(c, n, next)
    BY <1>1, <2>1
  <2>3. Rows(n)
    <3> HIDE DEF next
    <3> QED BY CounterMapped DEF Keyable
  <2>4. CountersIn(n)
    <3>1. /\ n.runs = tables.runs
          /\ n.sequences = {r \in tables.sequences : r.run # q.run} \cup
                {[run |-> q.run, next |-> next]}
      BY DEF Keyable, Rows, IsTables
    <3>2. \A run : HasCounter(n, run) <=> HasCounter(tables, run)
      <4> DEFINE new == [run |-> q.run, next |-> next]
      <4>1. new.run = q.run
        OBVIOUS
      <4>2. HasCounter(tables, q.run)
        BY <1>1 DEF HasCounter
      <4> HIDE DEF n, new
      <4>3. \A run : HasCounter(n, run) <=> HasCounter(tables, run) \/ run = q.run
        <5>1. n.sequences = {r \in tables.sequences : r.run # new.run} \cup {new}
          BY <3>1, <4>1 DEF new
        <5> QED BY <4>1, <5>1, RowReplaced DEF HasCounter
      <4> QED BY <4>2, <4>3
    <3>3. \A run : HasRun(n, run) <=> HasRun(tables, run)
      BY <3>1 DEF HasRun
    <3> HIDE DEF n
    <3>4. \A r \in n.sequences : HasCounter(n, r.run)
      BY DEF HasCounter
    <3>5. \A run : HasCounter(tables, run) <=> HasRun(tables, run)
      BY DEF Keyable, CountersIn, HasRun, HasCounter
    <3> QED BY <3>2, <3>3, <3>4, <3>5 DEF CountersIn, HasRun, HasCounter
  <2> HIDE DEF n
  <2> QED BY <2>2, <2>3, <2>4, CommitKeepsKeys
<1>2. \/ \E answer : Refuse(c, answer)
      \/ Pass(c)
      \/ \E row \in tables.sequences :
            /\ row.run = q.run
            /\ Commit(c, [tables EXCEPT !.sequences = (@ \ {row})
                             \cup {[run |-> q.run, next |-> row.next + 1]}],
                      row.next + 1)
  BY DEF NextSequence
<1> QED BY <1>1, <1>2, RefuseKeepsKeys, PassKeepsKeys

LEMMA WriteFirstKeepsKeys ==
  ASSUME Keyable(tables), CallsTyped, NEW c \in Clients, call[c] # Idle,
         \/ AllocateId(c, call[c])
         \/ InsertRun(c, call[c])
         \/ UpdateRun(c, call[c])
         \/ CleanupBranchExecution(c, call[c])
  PROVE  Keyable(tables')
<1> DEFINE q == call[c]
<1>1. CASE AllocateId(c, q)
  <2> DEFINE n == [tables EXCEPT !.counters[q.kind] = @ + 1]
  <2>1. Commit(c, n, tables.counters[q.kind] + 1)
    BY <1>1 DEF AllocateId
  <2>2. Rows(n)
    <3> HIDE DEF q
    <3> QED BY CountersMapped DEF Keyable
  <2>3. CountersIn(n)
    BY CountersStay DEF Keyable, Rows, IsTables
  <2> HIDE DEF n
  <2> QED BY <2>1, <2>2, <2>3, CommitKeepsKeys
<1>2. CASE InsertRun(c, q)
  <2> DEFINE n == NewRun(tables, q.run, q.record)
  <2>1. \/ Refuse(c, "Conflict")
        \/ ~HasRun(tables, q.run) /\ Commit(c, n, 0)
    BY <1>2 DEF InsertRun, NewRun
  <2>2. q.run \in Nat /\ q.record.started \in Nat
    BY <1>2, RequestsAssumption DEF InsertRun, CallsTyped
  <2>3. ASSUME ~HasRun(tables, q.run)
        PROVE  Rows(n) /\ CountersIn(n)
    <3>1. Rows(n)
      <4> HIDE DEF q
      <4> QED BY <2>2, <2>3, RunsMapped DEF Keyable
    <3>2. /\ n.runs = tables.runs \cup {[run |-> q.run, record |-> q.record]}
          /\ n.sequences = tables.sequences \cup {[run |-> q.run, next |-> 0]}
      BY DEF NewRun, Keyable, Rows, IsTables
    <3>3. CountersIn(n)
      <4> DEFINE new == [run |-> q.run, record |-> q.record]
                 counter == [run |-> q.run, next |-> 0]
      <4>1. new.run = q.run /\ counter.run = q.run
        OBVIOUS
      <4>2. /\ \A run : HasRun(n, run) <=> HasRun(tables, run) \/ run = q.run
            /\ \A run : HasCounter(n, run)
                          <=> HasCounter(tables, run) \/ run = q.run
        <5> HIDE DEF n, new, counter
        <5>1. /\ n.runs = tables.runs \cup {new}
              /\ n.sequences = tables.sequences \cup {counter}
          BY <3>2 DEF new, counter
        <5>2. \A run : HasRun(n, run) <=> HasRun(tables, run) \/ run = q.run
          BY <4>1, <5>1, RowAdded DEF HasRun
        <5>3. \A run : HasCounter(n, run)
                          <=> HasCounter(tables, run) \/ run = q.run
          BY <4>1, <5>1, RowAdded DEF HasCounter
        <5> QED BY <5>2, <5>3
      <4>3. \A run : HasRun(tables, run) <=> HasCounter(tables, run)
        BY DEF Keyable, CountersIn, HasRun, HasCounter
      <4> HIDE DEF n
      <4> QED BY <4>2, <4>3 DEF CountersIn, HasRun, HasCounter
    <3> QED BY <3>1, <3>3
  <2> HIDE DEF n
  <2> QED BY <2>1, <2>3, RefuseKeepsKeys, CommitKeepsKeys
<1>3. CASE UpdateRun(c, q)
  <2> DEFINE n == [tables EXCEPT !.runs = {row \in @ : row.run # q.run} \cup
                     {[run |-> q.run, record |-> q.record]}]
  <2>1. \/ Refuse(c, "NotFound")
        \/ HasRun(tables, q.run) /\ Commit(c, n, 0)
    BY <1>3 DEF UpdateRun
  <2>2. q.run \in Nat /\ q.record.started \in Nat
    BY <1>3, RequestsAssumption DEF UpdateRun, CallsTyped
  <2>3. ASSUME HasRun(tables, q.run)
        PROVE  Rows(n) /\ CountersIn(n)
    <3>1. Rows(n)
      <4> HIDE DEF q
      <4> QED BY <2>2, RunMapped DEF Keyable
    <3>2. /\ n.runs = {row \in tables.runs : row.run # q.run} \cup
                        {[run |-> q.run, record |-> q.record]}
          /\ n.sequences = tables.sequences
      BY DEF Keyable, Rows, IsTables
    <3>3. CountersIn(n)
      <4> DEFINE new == [run |-> q.run, record |-> q.record]
      <4>1. new.run = q.run
        OBVIOUS
      <4>2. /\ \A run : HasRun(n, run) <=> HasRun(tables, run)
            /\ \A run : HasCounter(n, run) <=> HasCounter(tables, run)
        <5> HIDE DEF n, new
        <5>1. \A run : HasRun(n, run) <=> HasRun(tables, run) \/ run = q.run
          <6>1. n.runs = {row \in tables.runs : row.run # new.run} \cup {new}
            BY <3>2, <4>1 DEF new
          <6> QED BY <4>1, <6>1, RowReplaced DEF HasRun
        <5>2. \A run : HasCounter(n, run) <=> HasCounter(tables, run)
          BY <3>2 DEF HasCounter
        <5> QED BY <2>3, <5>1, <5>2
      <4>3. \A run : HasRun(tables, run) <=> HasCounter(tables, run)
        BY DEF Keyable, CountersIn, HasRun, HasCounter
      <4> HIDE DEF n
      <4> QED BY <4>2, <4>3 DEF CountersIn, HasRun, HasCounter
    <3> QED BY <3>1, <3>3
  <2> HIDE DEF n
  <2> QED BY <2>1, <2>3, RefuseKeepsKeys, CommitKeepsKeys
<1>4. CASE CleanupBranchExecution(c, q)
  <2> DEFINE n == WithoutRun(tables, q.run)
  <2>1. Commit(c, n, 0)
    BY <1>4 DEF CleanupBranchExecution, WithoutRun
  <2>2. Rows(n)
    <3> HIDE DEF q
    <3> QED BY RunDropped DEF Keyable
  <2>3. CountersIn(n)
    <3>1. /\ n.runs = {row \in tables.runs : row.run # q.run}
          /\ n.sequences = {row \in tables.sequences : row.run # q.run}
      BY DEF WithoutRun, Keyable, Rows, IsTables
    <3> HIDE DEF n
    <3> QED BY <3>1 DEF Keyable, CountersIn, HasRun, HasCounter
  <2> HIDE DEF n
  <2> QED BY <2>1, <2>2, <2>3, CommitKeepsKeys
<1> QED BY <1>1, <1>2, <1>3, <1>4

\* Primary keys and counters stay, whatever the clients call: an insert looks
\* for its key in the statement that writes.
LEMMA NextKeepsKeys ==
  ASSUME Keyable(tables), CallsTyped, [Next]_vars
  PROVE  Keyable(tables') /\ CallsTyped'
<1>1. ASSUME NEW c \in Clients, NEW q \in Requests, Invoke(c, q)
      PROVE  Keyable(tables') /\ CallsTyped'
  BY <1>1 DEF Invoke, CallsTyped
<1>2. ASSUME NEW c \in Clients, call[c] # Idle, Step(c, call[c])
      PROVE  Keyable(tables') /\ CallsTyped'
  <2>1. Keyable(tables')
    BY <1>2, RefuseKeepsKeys, UpsertSpanKeepsKeys, InsertEventKeepsKeys,
       InsertArtifactKeepsKeys, InsertSnapshotKeepsKeys, InsertEdgeKeepsKeys,
       UpdateReplayJobKeepsKeys, InsertBranchKeepsKeys, InsertReplayJobKeepsKeys,
       InsertDiffKeepsKeys, NextSequenceKeepsKeys, WriteFirstKeepsKeys
       DEF Step, Fail
  <2>2. CallsTyped'
    BY <1>2 DEF CallsTyped, Step, Fail, Refuse, Pass, Commit, Answer,
       AllocateId, NextSequence, InsertRun, UpdateRun, UpsertSpan, InsertEvent,
       InsertArtifact, InsertSnapshot, InsertEdge, InsertBranch, InsertReplayJob,
       UpdateReplayJob, InsertDiff, CleanupBranchExecution, Transaction, ReadByRead
  <2> QED BY <2>1, <2>2
<1>3. CASE UNCHANGED vars
  BY <1>3 DEF vars, CallsTyped
<1> QED BY <1>1, <1>2, <1>3 DEF Next

\* Every read of the database answers as the in-memory store would, whatever the
\* clients call: a get the same record or none, a list the same ids, and in the
\* same order (ORDER BY key and id there, a stable sort of a map's values here)
\* but for events and edges, which the in-memory store lists as they came: theirs
\* is the same when they came in the order of their numbers and ids.
THEOREM ReadsAreThoseOfMemory == Spec => []ReadsAgree
<1> DEFINE Inv == Keyable(tables) /\ CallsTyped
<1>1. Init => Inv
  BY StoresAssumption DEF Init, Keyable, Rows, CallsTyped
<1>2. Inv /\ [Next]_vars => Inv'
  BY NextKeepsKeys
<1>3. Inv => ReadsAgree
  BY RowsAgree DEF Keyable
<1> HIDE DEF Inv
<1> QED BY <1>1, <1>2, <1>3, PTL DEF Spec
============================================================================
