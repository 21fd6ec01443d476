-------------------------- MODULE MCSqliteStorage --------------------------
(* SqliteStorage for TLC: run 1 is recorded and stays, run 2 is a fork of  *)
(* client c1's, and run 3 one that client c2 makes of run 2.               *)
EXTENDS SqliteStorage, TLC

CONSTANTS c1, c2

MCClients == {c1, c2}
MCOwner == 2 :> c1 @@ 3 :> c2
Running == [started |-> 1, status |-> "running"]
Completed == [started |-> 2, status |-> "completed"]

Recorded == [
    runs |-> {[run |-> 1, record |-> Running]},
    sequences |-> {[run |-> 1, next |-> 1]},
    spans |-> {[run |-> 1, id |-> 1, parent |-> NoSpan, seq |-> 2]},
    events |-> {},
    artifacts |-> {[run |-> 1, id |-> 1, span |-> 1, created |-> 1]},
    snapshots |-> {}, edges |-> {}, branches |-> {}, jobs |-> {}, diffs |-> {},
    counters |-> [kind \in {"span"} |-> 1]]

\* In the middle of execute_fork: the run is there, its first span copied, and
\* its patch manifest stored.
Forking == [Recorded EXCEPT
    !.runs = @ \cup {[run |-> 2, record |-> Running]},
    !.sequences = @ \cup {[run |-> 2, next |-> 0]},
    !.spans = @ \cup {[run |-> 2, id |-> 1, parent |-> NoSpan, seq |-> 2]},
    !.artifacts = @ \cup {[run |-> 2, id |-> 1, span |-> NoSpan, created |-> 2]}]

\* Another client forks that fork.
ForkingAgain == [Forking EXCEPT
    !.runs = @ \cup {[run |-> 3, record |-> Completed]},
    !.sequences = @ \cup {[run |-> 3, next |-> 0]},
    !.artifacts = @ \cup {[run |-> 3, id |-> 1, span |-> NoSpan, created |-> 2]}]

MCStores == {Recorded, ForkingAgain}

MCRequests ==
    {[op |-> "allocate_id", kind |-> "span"],
     [op |-> "next_sequence", run |-> 2], [op |-> "cleanup", run |-> 2],
     [op |-> "insert_run", run |-> 2, record |-> Running]}
    \cup [op : {"update_run"}, run : {1, 2}, record : {Completed}]
    \cup [op : {"upsert_span"}, run : {1}, id : {2}, parent : {NoSpan, 1, 2},
          seq : {1}]
    \cup [op : {"upsert_span"}, run : {2}, id : {1, 2}, parent : {1}, seq : {1}]
    \cup [op : {"insert_event"}, run : {2}, id : {1}, span : {1, 2}, seq : {2}]
    \cup [op : {"insert_event"}, run : {2}, id : {2}, span : {1}, seq : {1}]
    \cup {[op |-> "insert_artifact", run |-> 2, id |-> 2, span |-> 1,
           created |-> 1, valid |-> v] : v \in BOOLEAN}
    \cup [op : {"insert_artifact"}, run : {2}, id : {1}, span : {NoSpan, 2},
          created : {1}, valid : {TRUE}]
    \cup [op : {"insert_snapshot"}, run : {2}, id : {1}, span : {NoSpan, 1},
          artifact : {1, 2}, created : {1}]
    \cup [op : {"insert_edge"}, run : {2}, id : {1}, from : {1}, to : {1, 2}]
    \cup [op : {"insert_edge"}, run : {2}, id : {2}, from : {1}, to : {1}]
    \cup [op : {"insert_branch"}, run : {2}, source : {1}, span : {1, 2},
          manifest : {1}]
    \cup [op : {"insert_replay_job"}, run : {2}, source : {1},
          status : {"running"}]
    \cup [op : {"update_replay_job"}, run : {2}, source : {1},
          status : {"completed"}]
    \cup [op : {"insert_diff"}, run : {2}, source : {1}]
    \cup {[op |-> "insert_branch", run |-> 3, source |-> 2, span |-> 1,
           manifest |-> 1],
          [op |-> "insert_replay_job", run |-> 3, source |-> 2,
           status |-> "running"]}
============================================================================
