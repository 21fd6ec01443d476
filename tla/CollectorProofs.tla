--------------------------- MODULE CollectorProofs ---------------------------
(***************************************************************************)
(* Proofs about Collector, for any number of spans and requests and any    *)
(* bounds.  TypeOK is inductive; SequencesUnique needs the numbers that    *)
(* handlers hold in their locals (SequenceInv), AllocatedSpansNeverReopen  *)
(* the ids they hold (IdentityInv), ClosedRunStaysClosed the status.       *)
(*                                                                         *)
(* Then about CollectorSession, for any application: a session is a client *)
(* of the collector (SessionIsCollector); the rest follows from where each *)
(* request is (Roles) and whose each id is (OwnIds).                       *)
(***************************************************************************)
EXTENDS CollectorSession, TLAPS

\* TypeOK holds initially.
LEMMA TypeInit == Init => TypeOK
  BY CollectorAssumption
     DEF Init, TypeOK, NewRun, NoRecord, RunRecord, RunStatus, SpanRecord,
         Positions, Operations, SpanStatus, Outcomes, Point

\* A handler that answers leaves well-typed locals.
LEMMA TypeReturn ==
  ASSUME NEW t \in Tasks, TypeOK, Return(t)
  PROVE  /\ pc' \in [Tasks -> Positions]
         /\ op' \in [Tasks -> Operations]
         /\ target' \in [Tasks -> Spans \cup {NoSpan}]
         /\ \A u \in Tasks : op'[u] \in {"end", "event"} => target'[u] \in Spans
         /\ copy' \in [Tasks -> SpanRecord]
         /\ row' \in [Tasks -> RunRecord]
         /\ ordinal' \in [Tasks -> Nat]
  BY DEF TypeOK, Return, Goto, NewRun, NoRecord, RunRecord, RunStatus,
         SpanRecord, Positions, Operations, SpanStatus, Outcomes

\* Every step of the collector keeps TypeOK.
LEMMA TypeStep == TypeOK /\ [Next]_vars => TypeOK'
<1> SUFFICES ASSUME TypeOK, [Next]_vars PROVE TypeOK'
  OBVIOUS
<1>1. ASSUME NEW t \in Tasks, Calls(t) PROVE TypeOK'
  <2>1. ASSUME NEW o \in Operations, NEW x \in Spans \cup {NoSpan},
               NEW p \in Spans \cup {NoSpan}, NEW first \in Positions,
               o \in {"end", "event"} => x \in Spans,
               Call(t, o, x, p, first)
        PROVE  TypeOK'
    BY <2>1 DEF Call, SpanRecord, TypeOK, Goto, dbVars
  <2> USE DEF Operations, Positions
  <2>2. CASE StartCall(t)
    BY <2>1, <2>2 DEF StartCall, Spans
  <2>3. CASE EndCall(t)
    BY <2>1, <2>3 DEF EndCall
  <2>4. CASE EventCall(t)
    BY <2>1, <2>4 DEF EventCall, Existing
  <2>5. CASE CloseCall(t)
    BY <2>1, <2>5 DEF CloseCall
  <2> QED
    BY <1>1, <2>2, <2>3, <2>4, <2>5 DEF Calls
<1>2. ASSUME NEW t \in Tasks, NextSequence(t) PROVE TypeOK'
  <2>1. copy' \in [Tasks -> SpanRecord]
    <3>1. copy[t] \in SpanRecord /\ sequence + 1 \in Nat
      BY DEF TypeOK
    <3>2. [copy[t] EXCEPT !.seq = sequence + 1] \in SpanRecord
      BY <3>1 DEF SpanRecord
    <3> QED
      BY <1>2, <3>2 DEF NextSequence, TypeOK
  <2> QED
    BY <1>2, <2>1 DEF NextSequence, Positions, TypeOK, Goto
<1>3. ASSUME NEW t \in Tasks, StartIdentify(t) PROVE TypeOK'
  BY <1>3, ZenonT(40) DEF StartIdentify, SpanRecord, SpanStatus, Positions, Spans, TypeOK, Goto
<1>4. ASSUME NEW t \in Tasks, UpsertSpan(t) PROVE TypeOK'
  <2>1. spans' \in [Spans -> SpanRecord]
    BY <1>4 DEF UpsertSpan, TypeOK
  <2>2. copy' \in [Tasks -> SpanRecord] /\ pc' \in [Tasks -> Positions]
    <3>1. NoRecord \in SpanRecord
      BY DEF NoRecord, SpanRecord
    <3> QED
      BY <1>4, <3>1 DEF UpsertSpan, Positions, TypeOK, Goto
  <2> QED
    BY <1>4, <2>1, <2>2 DEF UpsertSpan, TypeOK
<1>5. ASSUME NEW t \in Tasks, StartReread(t) PROVE TypeOK'
  BY <1>5, ZenonT(40) DEF StartReread, SpanRecord, NoRecord, Positions, TypeOK, Goto, dbVars
<1>6. ASSUME NEW t \in Tasks, StartRoot(t) PROVE TypeOK'
  BY <1>6, ZenonT(40) DEF StartRoot, RunRecord, NewRun, RunStatus, Positions, TypeOK, Goto
<1>7. ASSUME NEW t \in Tasks, EndRead(t) PROVE TypeOK'
  <2>1. copy' \in [Tasks -> SpanRecord]
    <3>1. PICK status \in SpanStatus :
            copy' = [copy EXCEPT ![t] =
                       [spans[target[t]] EXCEPT !.status = status]]
      BY <1>7 DEF EndRead
    <3>2. spans[target[t]] \in SpanRecord
      BY <1>7 DEF EndRead, TypeOK
    <3>3. [spans[target[t]] EXCEPT !.status = status] \in SpanRecord
      BY <3>2 DEF SpanRecord
    <3> QED
      BY <3>1, <3>3 DEF TypeOK
  <2> QED
    BY <1>7, <2>1 DEF EndRead, Positions, TypeOK, Goto, dbVars
<1>8. ASSUME NEW t \in Tasks, EventInsert(t) PROVE TypeOK'
  <2>1. copy[t].seq \in Nat
    BY DEF TypeOK, SpanRecord
  <2> QED
    BY <1>8, <2>1, TypeReturn DEF EventInsert, TypeOK
<1>9. ASSUME NEW t \in Tasks, CloseRead(t) PROVE TypeOK'
  BY <1>9 DEF CloseRead, Positions, TypeOK, Goto, dbVars
<1>10. ASSUME NEW t \in Tasks, CloseList(t) PROVE TypeOK'
  <2>1. PICK s \in Closing(t) : row' = [row EXCEPT ![t].counted = Existing, ![t].status = s]
    BY <1>10 DEF CloseList
  <2>2. row' \in [Tasks -> RunRecord]
    BY <2>1 DEF Closing, Existing, RunRecord, RunStatus, TypeOK
  <2> QED
    BY <1>10, <2>2 DEF CloseList, Positions, TypeOK, Goto, dbVars
<1>11. ASSUME NEW t \in Tasks, CloseUpdate(t) PROVE TypeOK'
  BY <1>11, TypeReturn DEF CloseUpdate, TypeOK
<1>12. ASSUME NEW t \in Tasks, CaptureRead(t) PROVE TypeOK'
  BY <1>12, CollectorAssumption DEF CaptureRead, Positions, TypeOK, Goto, dbVars
<1>13. ASSUME NEW t \in Tasks, AfterCapture(t),
              points' \in Seq(Point), UNCHANGED <<run, spans, events, sequence, allocated, up>>
       PROVE  TypeOK'
  BY <1>13, TypeReturn DEF AfterCapture, Positions, TypeOK, Goto, localVars
<1>14. ASSUME NEW t \in Tasks, CaptureRecord(t) PROVE TypeOK'
  <2>1. [span |-> target[t], by |-> op[t], ordinal |-> ordinal[t]] \in Point
    BY DEF Point, TypeOK
  <2>2. points' \in Seq(Point)
    BY <1>14, <2>1 DEF CaptureRecord, TypeOK
  <2> QED
    BY <1>13, <1>14, <2>2 DEF CaptureRecord
<1>15. ASSUME NEW t \in Tasks, CaptureSkip(t) PROVE TypeOK'
  BY <1>13, <1>15 DEF CaptureSkip, TypeOK, dbVars
<1>16. ASSUME NEW t \in Tasks, Reject(t) PROVE TypeOK'
  BY <1>16, TypeReturn DEF Reject, TypeOK, dbVars
<1>17. ASSUME Crash PROVE TypeOK'
  BY <1>17 DEF Crash, TypeOK, NewRun, NoRecord, RunRecord, RunStatus, SpanRecord,
               Positions, Operations, SpanStatus, Outcomes, dbVars
<1>18. ASSUME Recover PROVE TypeOK'
  BY <1>18 DEF Recover, TypeOK, RunRecord, RunStatus, localVars
<1>19. CASE UNCHANGED vars
  BY <1>19 DEF vars, TypeOK
<1> QED
  BY <1>1, <1>2, <1>3, <1>4, <1>5, <1>6, <1>7, <1>8, <1>9, <1>10, <1>11, <1>12,
     <1>14, <1>15, <1>16, <1>17, <1>18, <1>19 DEF Next, Step

\* Every variable of the collector keeps its type.
THEOREM TypeCorrect == Spec => []TypeOK
  BY TypeInit, TypeStep, PTL DEF Spec

----------------------------------------------------------------------------
(* The inductive invariant                                                 *)

\* Which operation can stand at which of the shared positions.
Shared == \A t \in Tasks :
    /\ pc[t] \in {"sequence", "insert"} => op[t] \in {"start", "event"}
    /\ pc[t] = "identify" => op[t] = "start"
    /\ pc[t] = "upsert" => op[t] \in {"start", "end"}

\* The handler has drawn a number that no row has yet.
Fresh(t) == op[t] \in {"start", "event"} /\ pc[t] \in {"identify", "upsert", "insert"}

\* The handler holds a copy of a row, and with it the number of its span.
Ending(t) == op[t] = "end" /\ pc[t] = "upsert"

\* Every number, in a row or in a handler, has been drawn.
Drawn ==
    /\ \A x \in Existing : spans[x].seq <= sequence
    /\ \A n \in events : n <= sequence
    /\ \A t \in Tasks : Fresh(t) \/ Ending(t) => copy[t].seq <= sequence

\* A fresh number belongs to one handler, the number of a copy to its span.
Owned ==
    /\ \A t \in Tasks : Fresh(t) =>
          /\ copy[t].seq \notin events
          /\ \A x \in Existing : spans[x].seq # copy[t].seq
          /\ \A u \in Tasks : Fresh(u) /\ copy[u].seq = copy[t].seq => u = t
          /\ \A u \in Tasks : Ending(u) => copy[u].seq # copy[t].seq
    /\ \A t \in Tasks : Ending(t) =>
          /\ copy[t].seq \notin events
          /\ \A x \in Existing : spans[x].seq = copy[t].seq => x = target[t]
          /\ \A u \in Tasks : Ending(u) /\ copy[u].seq = copy[t].seq => target[u] = target[t]

SequenceInv == Shared /\ Drawn /\ Owned /\ SequencesUnique

\* No handler draws, copies or writes: the numbers stay where they are.
LEMMA SequenceQuiet ==
  ASSUME TypeOK, TypeOK', SequenceInv, Shared',
         UNCHANGED <<spans, events, sequence>>,
         \A u \in Tasks : Fresh(u)' => Fresh(u) /\ copy'[u].seq = copy[u].seq,
         \A u \in Tasks : Ending(u)' => Ending(u) /\ copy'[u].seq = copy[u].seq
                                        /\ target'[u] = target[u]
  PROVE  SequenceInv'
<1>1. Existing' = Existing
  BY DEF Existing, Exists
<1>2. Drawn'
  BY <1>1 DEF SequenceInv, Drawn
<1>3. Owned'
  BY <1>1 DEF SequenceInv, Owned
<1>4. SequencesUnique'
  BY <1>1 DEF SequenceInv, SequencesUnique
<1> QED
  BY <1>2, <1>3, <1>4 DEF SequenceInv

\* What a step of t leaves alone in the other handlers.
Others(t) == \A u \in Tasks \ {t} :
    pc'[u] = pc[u] /\ op'[u] = op[u] /\ copy'[u] = copy[u] /\ target'[u] = target[u]

\* A handler changes its own locals only.
LEMMA OthersStay ==
  ASSUME TypeOK, NEW t \in Tasks, Calls(t) \/ Step(t)
  PROVE  Others(t)
<1> USE DEF Others, TypeOK, Goto
<1>1. ASSUME Return(t) PROVE Others(t)
  BY <1>1 DEF Return
<1>2. ASSUME NEW o, NEW x, NEW p, NEW first, Call(t, o, x, p, first) PROVE Others(t)
  BY <1>2 DEF Call
<1>3. CASE Calls(t)
  BY <1>2, <1>3 DEF Calls, StartCall, EndCall, EventCall, CloseCall
<1>4. CASE NextSequence(t) \/ StartIdentify(t) \/ UpsertSpan(t)
  BY <1>4 DEF NextSequence, StartIdentify, UpsertSpan
<1>5. CASE StartReread(t) \/ StartRoot(t) \/ EndRead(t)
  BY <1>5 DEF StartReread, StartRoot, EndRead
<1>6. CASE EventInsert(t) \/ CloseUpdate(t) \/ Reject(t)
  BY <1>1, <1>6 DEF EventInsert, CloseUpdate, Reject
<1>7. CASE CloseRead(t) \/ CloseList(t) \/ CaptureRead(t)
  BY <1>7 DEF CloseRead, CloseList, CaptureRead
<1>8. CASE CaptureRecord(t) \/ CaptureSkip(t)
  BY <1>1, <1>8 DEF CaptureRecord, CaptureSkip, AfterCapture, localVars
<1> QED
  BY <1>3, <1>4, <1>5, <1>6, <1>7, <1>8 DEF Step

\* Every step keeps the numbers apart.
LEMMA SequenceStep ==
  ASSUME TypeOK, TypeOK', SequenceInv, [Next]_vars
  PROVE  SequenceInv'
<1>1. ASSUME NEW t \in Tasks, Others(t),
             UNCHANGED <<spans, events, sequence>>,
             pc'[t] \notin {"sequence", "identify", "insert", "upsert"}
      PROVE  SequenceInv'
  <2>1. Shared'
    BY <1>1 DEF Others, SequenceInv, Shared
  <2> QED
    BY <1>1, <2>1, SequenceQuiet DEF Others, Fresh, Ending
<1>2. ASSUME NEW t \in Tasks, Calls(t) PROVE SequenceInv'
  <2>1. UNCHANGED <<spans, events, sequence>>
    BY <1>2 DEF Calls, StartCall, EndCall, EventCall, CloseCall, Call, dbVars
  <2>2. pc'[t] \in {"sequence", "read"}
        /\ (pc'[t] = "sequence" => op'[t] \in {"start", "event"})
    BY <1>2 DEF Calls, StartCall, EndCall, EventCall, CloseCall, Call, Goto, TypeOK
  <2>3. Others(t)
    BY <1>2, OthersStay
  <2>4. Shared'
    BY <2>2, <2>3 DEF Others, SequenceInv, Shared
  <2> QED
    BY <2>1, <2>2, <2>3, <2>4, SequenceQuiet DEF Others, Fresh, Ending
\* The number drawn is larger than all there are.
<1>3. ASSUME NEW t \in Tasks, NextSequence(t) PROVE SequenceInv'
  <2>1. Others(t)
    BY <1>3, OthersStay DEF Step
  <2>2. /\ pc[t] = "sequence"
        /\ UNCHANGED <<spans, events, op, target>>
        /\ sequence' = sequence + 1
        /\ copy'[t].seq = sequence + 1
        /\ pc'[t] = IF op[t] = "start" THEN "identify" ELSE "insert"
    BY <1>3 DEF NextSequence, Goto, TypeOK, SpanRecord
  <2>3. Shared'
    BY <2>1, <2>2 DEF Others, SequenceInv, Shared
  <2>4. Existing' = Existing /\ \A x \in Existing : spans[x].seq \in Nat
    BY <2>2 DEF Existing, Exists, TypeOK, SpanRecord
  <2>5. \A u \in Tasks : copy[u].seq \in Nat
    BY DEF TypeOK, SpanRecord
  <2>6. ~Ending(t)' /\ \A u \in Tasks \ {t} : Ending(u)' = Ending(u) /\ Fresh(u)' = Fresh(u)
    BY <2>1, <2>2 DEF Others, Fresh, Ending
  <2>7. \A n \in Nat : n <= sequence => n <= sequence + 1 /\ n # sequence + 1
    BY DEF TypeOK
  <2>8. /\ \A x \in Existing : spans[x].seq <= sequence
        /\ events \subseteq Nat /\ \A n \in events : n <= sequence
        /\ \A u \in Tasks : Fresh(u) \/ Ending(u) => copy[u].seq <= sequence
    BY DEF SequenceInv, Drawn, TypeOK
  <2>9. sequence + 1 <= sequence + 1 /\ \A u \in Tasks \ {t} : copy'[u].seq = copy[u].seq
    BY <2>1 DEF TypeOK, Others
  <2>10. Drawn'
    BY <2>2, <2>4, <2>5, <2>6, <2>7, <2>8, <2>9 DEF Drawn
  <2>11. Owned'
    <3>1. ASSUME NEW u \in Tasks, Fresh(u)' PROVE
            /\ copy'[u].seq \notin events'
            /\ \A x \in Existing' : spans'[x].seq # copy'[u].seq
            /\ \A v \in Tasks : Fresh(v)' /\ copy'[v].seq = copy'[u].seq => v = u
            /\ \A v \in Tasks : Ending(v)' => copy'[v].seq # copy'[u].seq
      BY <3>1, <2>2, <2>4, <2>5, <2>6, <2>7, <2>8, <2>9 DEF SequenceInv, Owned
    <3>2. ASSUME NEW u \in Tasks, Ending(u)' PROVE
            /\ copy'[u].seq \notin events'
            /\ \A x \in Existing' : spans'[x].seq = copy'[u].seq => x = target'[u]
            /\ \A v \in Tasks : Ending(v)' /\ copy'[v].seq = copy'[u].seq
                                  => target'[v] = target'[u]
      BY <3>2, <2>2, <2>4, <2>6, <2>9 DEF SequenceInv, Owned
    <3> QED
      BY <3>1, <3>2 DEF Owned
  <2>12. SequencesUnique'
    BY <2>2, <2>4 DEF SequenceInv, SequencesUnique
  <2> QED
    BY <2>3, <2>10, <2>11, <2>12 DEF SequenceInv
<1>4. ASSUME NEW t \in Tasks, StartIdentify(t) PROVE SequenceInv'
  <2>1. Others(t)
    BY <1>4, OthersStay DEF Step
  <2>2. /\ pc[t] = "identify" /\ pc'[t] = "upsert"
        /\ UNCHANGED <<spans, events, sequence, op>>
        /\ copy'[t].seq = copy[t].seq
    BY <1>4 DEF StartIdentify, Goto, TypeOK, SpanRecord
  <2>3. Shared'
    BY <2>1, <2>2 DEF Others, SequenceInv, Shared
  <2>4. Fresh(t) /\ ~Ending(t)'
    BY <2>2 DEF SequenceInv, Shared, Fresh, Ending
  <2> QED
    BY <2>1, <2>2, <2>3, <2>4, SequenceQuiet DEF Others, Fresh, Ending
\* The row gets the number its handler holds, which no other row has.
<1>5. ASSUME NEW t \in Tasks, UpsertSpan(t) PROVE SequenceInv'
  <2>1. Others(t)
    BY <1>5, OthersStay DEF Step
  <2>2. /\ pc[t] = "upsert" /\ pc'[t] \in {"reread", "capture"}
        /\ UNCHANGED <<events, sequence, op, target>>
        /\ spans' = [spans EXCEPT ![target[t]] = copy[t]]
    BY <1>5 DEF UpsertSpan, Goto, TypeOK
  <2>3. Shared'
    BY <2>1, <2>2 DEF Others, SequenceInv, Shared
  <2>4. Fresh(t) \/ Ending(t)
    BY <2>2 DEF SequenceInv, Shared, Fresh, Ending
  <2>5. \A x \in Existing' : \/ x = target[t] /\ spans'[x].seq = copy[t].seq
                             \/ x \in Existing /\ x # target[t] /\ spans'[x] = spans[x]
    BY <2>2 DEF Existing, Exists, TypeOK
  <2>6. /\ ~Fresh(t)' /\ ~Ending(t)'
        /\ \A u \in Tasks \ {t} : Ending(u)' = Ending(u) /\ Fresh(u)' = Fresh(u)
    BY <2>1, <2>2 DEF Others, Fresh, Ending
  <2>7. Drawn'
    BY <2>1, <2>2, <2>4, <2>5, <2>6 DEF Others, SequenceInv, Drawn
  <2>8. Owned'
    <3>1. ASSUME NEW u \in Tasks, Fresh(u)' PROVE
            /\ copy'[u].seq \notin events'
            /\ \A x \in Existing' : spans'[x].seq # copy'[u].seq
            /\ \A v \in Tasks : Fresh(v)' /\ copy'[v].seq = copy'[u].seq => v = u
            /\ \A v \in Tasks : Ending(v)' => copy'[v].seq # copy'[u].seq
      BY <3>1, <2>1, <2>2, <2>4, <2>5, <2>6 DEF Others, SequenceInv, Owned
    <3>2. ASSUME NEW u \in Tasks, Ending(u)' PROVE
            /\ copy'[u].seq \notin events'
            /\ \A x \in Existing' : spans'[x].seq = copy'[u].seq => x = target'[u]
            /\ \A v \in Tasks : Ending(v)' /\ copy'[v].seq = copy'[u].seq
                                  => target'[v] = target'[u]
      BY <3>2, <2>1, <2>2, <2>4, <2>5, <2>6 DEF Others, SequenceInv, Owned
    <3> QED
      BY <3>1, <3>2 DEF Owned
  <2>9. SequencesUnique'
    BY <2>2, <2>4, <2>5 DEF SequenceInv, SequencesUnique, Owned
  <2> QED
    BY <2>3, <2>7, <2>8, <2>9 DEF SequenceInv
<1>6. ASSUME NEW t \in Tasks, EndRead(t) PROVE SequenceInv'
  <2>1. Others(t)
    BY <1>6, OthersStay DEF Step
  <2>2. /\ pc[t] = "read" /\ pc'[t] = "upsert" /\ op[t] = "end"
        /\ UNCHANGED <<spans, events, sequence, op, target>>
        /\ target[t] \in Existing
    BY <1>6 DEF EndRead, Goto, TypeOK, Existing, dbVars
  <2>3. copy'[t].seq = spans[target[t]].seq
    BY <1>6, <2>2 DEF EndRead, TypeOK, SpanRecord, Existing
  <2>4. Shared'
    BY <2>1, <2>2 DEF Others, SequenceInv, Shared
  <2>5. Existing' = Existing
    BY <2>2 DEF Existing, Exists
  <2>6. /\ ~Fresh(t)' /\ Ending(t)'
        /\ \A u \in Tasks \ {t} : Ending(u)' = Ending(u) /\ Fresh(u)' = Fresh(u)
    BY <2>1, <2>2 DEF Others, Fresh, Ending
  <2>7. Drawn'
    BY <2>1, <2>2, <2>3, <2>5, <2>6 DEF Others, SequenceInv, Drawn
  <2>8. Owned'
    <3>1. ASSUME NEW u \in Tasks, Fresh(u)' PROVE
            /\ copy'[u].seq \notin events'
            /\ \A x \in Existing' : spans'[x].seq # copy'[u].seq
            /\ \A v \in Tasks : Fresh(v)' /\ copy'[v].seq = copy'[u].seq => v = u
            /\ \A v \in Tasks : Ending(v)' => copy'[v].seq # copy'[u].seq
      BY <3>1, <2>1, <2>2, <2>3, <2>5, <2>6 DEF Others, SequenceInv, Owned
    <3>2. ASSUME NEW u \in Tasks, Ending(u)' PROVE
            /\ copy'[u].seq \notin events'
            /\ \A x \in Existing' : spans'[x].seq = copy'[u].seq => x = target'[u]
            /\ \A v \in Tasks : Ending(v)' /\ copy'[v].seq = copy'[u].seq
                                  => target'[v] = target'[u]
      BY <3>2, <2>1, <2>2, <2>3, <2>5, <2>6 DEF Others, SequenceInv, Owned, SequencesUnique
    <3> QED
      BY <3>1, <3>2 DEF Owned
  <2>9. SequencesUnique'
    BY <2>2, <2>5 DEF SequenceInv, SequencesUnique
  <2> QED
    BY <2>4, <2>7, <2>8, <2>9 DEF SequenceInv
<1>7. ASSUME NEW t \in Tasks, EventInsert(t) PROVE SequenceInv'
  <2>1. Others(t)
    BY <1>7, OthersStay DEF Step
  <2>2. /\ pc[t] = "insert" /\ pc'[t] = "idle"
        /\ UNCHANGED <<spans, sequence>>
        /\ events' = events \cup {copy[t].seq}
    BY <1>7 DEF EventInsert, Return, Goto, TypeOK
  <2>3. Shared'
    BY <2>1, <2>2 DEF Others, SequenceInv, Shared
  <2>4. Existing' = Existing
    BY <2>2 DEF Existing, Exists
  <2>5. Fresh(t)
    BY <2>2 DEF SequenceInv, Shared, Fresh
  <2>6. /\ ~Fresh(t)' /\ ~Ending(t)'
        /\ \A u \in Tasks \ {t} : Ending(u)' = Ending(u) /\ Fresh(u)' = Fresh(u)
    BY <2>1, <2>2 DEF Others, Fresh, Ending
  <2>7. Drawn'
    BY <2>1, <2>2, <2>4, <2>5, <2>6 DEF Others, SequenceInv, Drawn
  <2>8. Owned'
    BY <2>1, <2>2, <2>4, <2>5, <2>6 DEF Others, SequenceInv, Owned
  <2>9. SequencesUnique'
    BY <2>2, <2>4, <2>5 DEF SequenceInv, SequencesUnique, Owned
  <2> QED
    BY <2>3, <2>7, <2>8, <2>9 DEF SequenceInv
<1>8. ASSUME NEW t \in Tasks, StartReread(t) \/ StartRoot(t) \/ CloseRead(t) \/ CloseList(t)
      PROVE  SequenceInv'
  <2>1. Others(t)
    BY <1>8, OthersStay DEF Step
  <2> QED
    BY <1>1, <1>8, <2>1 DEF StartReread, StartRoot, CloseRead, CloseList, Goto, TypeOK, dbVars
<1>9. ASSUME NEW t \in Tasks, CloseUpdate(t) \/ CaptureRead(t) \/ CaptureRecord(t)
                              \/ CaptureSkip(t) \/ Reject(t)
      PROVE  SequenceInv'
  <2>1. Others(t)
    BY <1>9, OthersStay DEF Step
  <2>2. UNCHANGED <<spans, events, sequence>>
    BY <1>9 DEF CloseUpdate, CaptureRead, CaptureRecord, CaptureSkip, Reject, dbVars
  <2>3. pc'[t] \in {"idle", "point", "update"}
    BY <1>9 DEF CloseUpdate, CaptureRead, CaptureRecord, CaptureSkip, Reject,
                AfterCapture, Return, Goto, TypeOK
  <2> QED
    BY <1>1, <2>1, <2>2, <2>3
<1>10. ASSUME Crash PROVE SequenceInv'
  <2>1. Shared'
    BY <1>10 DEF Crash, Shared
  <2> QED
    BY <1>10, <2>1, SequenceQuiet DEF Crash, dbVars, Fresh, Ending
<1>11. ASSUME Recover \/ UNCHANGED vars PROVE SequenceInv'
  <2>1. UNCHANGED <<spans, events, sequence, pc, op, target, copy>>
    BY <1>11 DEF Recover, vars, localVars
  <2>2. Shared'
    BY <2>1 DEF SequenceInv, Shared
  <2> QED
    BY <2>1, <2>2, SequenceQuiet DEF Fresh, Ending
<1> QED
  BY <1>2, <1>3, <1>4, <1>5, <1>6, <1>7, <1>8, <1>9, <1>10, <1>11 DEF Next, Step

\* No two spans, and no span and event, ever share a sequence number.
THEOREM SequenceNumbersUnique == Spec => []SequencesUnique
<1>1. Init => SequenceInv
  BY DEF Init, SequenceInv, Shared, Drawn, Owned, SequencesUnique, Fresh, Ending,
         Existing, Exists, NoRecord
<1>2. TypeOK /\ TypeOK' /\ SequenceInv /\ [Next]_vars => SequenceInv'
  BY SequenceStep
<1>3. SequenceInv => SequencesUnique
  BY DEF SequenceInv
<1> QED
  BY <1>1, <1>2, <1>3, TypeCorrect, PTL DEF Spec

----------------------------------------------------------------------------
(* The run's row                                                           *)

\* Only finish_run and abort_run come to these positions, and what abort_run is
\* about to write says Interrupted.
CloseInv == \A t \in Tasks :
    /\ pc[t] \in {"list", "update"} => op[t] \in {"finish", "abort"}
    /\ pc[t] = "update" /\ op[t] = "abort" => row[t].status = "Interrupted"

\* Every step keeps CloseInv.
LEMMA CloseStep ==
  ASSUME TypeOK, CloseInv, [Next]_vars
  PROVE  CloseInv'
<1> DEFINE Elsewhere(t) == \A u \in Tasks \ {t} :
               pc'[u] = pc[u] /\ op'[u] = op[u] /\ row'[u] = row[u]
<1> USE DEF TypeOK, Goto, dbVars
<1>1. ASSUME NEW t \in Tasks, Elsewhere(t), pc'[t] \notin {"list", "update"}
      PROVE  CloseInv'
  BY <1>1 DEF CloseInv
<1>2. ASSUME NEW t \in Tasks, Return(t) PROVE Elsewhere(t) /\ pc'[t] = "idle"
  BY <1>2 DEF Return
<1>3. ASSUME NEW t \in Tasks, Calls(t) PROVE CloseInv'
  <2>1. Elsewhere(t) /\ pc'[t] \in {"sequence", "read"}
    BY <1>3 DEF Calls, StartCall, EndCall, EventCall, CloseCall, Call
  <2> QED
    BY <1>1, <2>1
<1>4. ASSUME NEW t \in Tasks,
             NextSequence(t) \/ StartIdentify(t) \/ UpsertSpan(t) \/ StartReread(t)
             \/ StartRoot(t) \/ EndRead(t) \/ CaptureRead(t)
      PROVE  CloseInv'
  <2>1. Elsewhere(t) /\ pc'[t] \notin {"list", "update"}
    BY <1>4 DEF NextSequence, StartIdentify, UpsertSpan, StartReread, StartRoot, EndRead, CaptureRead
  <2> QED
    BY <1>1, <2>1
<1>5. ASSUME NEW t \in Tasks, EventInsert(t) \/ CloseUpdate(t) \/ Reject(t) PROVE CloseInv'
  BY <1>1, <1>2, <1>5 DEF EventInsert, CloseUpdate, Reject
<1>6. ASSUME NEW t \in Tasks, CloseRead(t) PROVE CloseInv'
  BY <1>6 DEF CloseRead, CloseInv
<1>7. ASSUME NEW t \in Tasks, CloseList(t) PROVE CloseInv'
  <2>1. PICK s \in Closing(t) : row' = [row EXCEPT ![t].counted = Existing, ![t].status = s]
    BY <1>7 DEF CloseList
  <2>2. /\ Elsewhere(t) /\ op' = op /\ op[t] \in {"finish", "abort"}
        /\ row'[t].status = s /\ (op[t] = "abort" => s = "Interrupted")
    BY <1>7, <2>1 DEF CloseList, Closing, CloseInv, RunRecord
  <2> QED
    BY <2>2 DEF CloseInv
<1>8. ASSUME NEW t \in Tasks, CaptureRecord(t) \/ CaptureSkip(t) PROVE CloseInv'
  <2>1. CASE op[t] = "finish"
    <3>1. Elsewhere(t) /\ op' = op /\ pc'[t] = "update"
      BY <1>8, <2>1 DEF CaptureRecord, CaptureSkip, AfterCapture, localVars
    <3> QED
      BY <2>1, <3>1 DEF CloseInv
  <2>2. CASE op[t] # "finish"
    BY <1>1, <1>2, <1>8, <2>2 DEF CaptureRecord, CaptureSkip, AfterCapture
  <2> QED
    BY <2>1, <2>2
<1>9. CASE Crash \/ Recover \/ UNCHANGED vars
  BY <1>9 DEF Crash, Recover, vars, localVars, CloseInv
<1> QED
  BY <1>3, <1>4, <1>5, <1>6, <1>7, <1>8, <1>9 DEF Next, Step

\* A run that is closed while no handler is about to write that it runs, a start
\* from an older copy or a finish at its client's request, stays closed.
THEOREM ClosedForGood == Spec => ClosedRunStaysClosed
<1>1. ASSUME TypeOK, CloseInv, [Next]_vars, run.status # "Running",
             \A t \in Tasks : ~HoldsRunning(t)
      PROVE  run'.status # "Running"
  <2>1. ASSUME NEW t \in Tasks, StartRoot(t) PROVE run'.status # "Running"
    <3>1. row[t].status # "Running" /\ row[t] \in RunRecord
      BY <1>1, <2>1 DEF StartRoot, HoldsRunning, TypeOK
    <3> QED
      BY <2>1, <3>1 DEF StartRoot, RunRecord
  <2>2. ASSUME NEW t \in Tasks, CloseUpdate(t) PROVE run'.status # "Running"
    BY <1>1, <2>2 DEF CloseUpdate, CloseInv, HoldsRunning
  <2>3. ASSUME NEW t \in Tasks, Calls(t) PROVE run' = run
    BY <2>3 DEF Calls, StartCall, EndCall, EventCall, CloseCall, Call, dbVars
  <2>4. ASSUME NEW t \in Tasks,
               NextSequence(t) \/ StartIdentify(t) \/ UpsertSpan(t) \/ StartReread(t)
               \/ EndRead(t) \/ EventInsert(t) \/ CloseRead(t) \/ CloseList(t)
        PROVE  run' = run
    BY <2>4 DEF NextSequence, StartIdentify, UpsertSpan, StartReread, EndRead,
                EventInsert, CloseRead, CloseList, dbVars
  <2>5. ASSUME NEW t \in Tasks,
               CaptureRead(t) \/ CaptureRecord(t) \/ CaptureSkip(t) \/ Reject(t)
        PROVE  run' = run
    BY <2>5 DEF CaptureRead, CaptureRecord, CaptureSkip, Reject, dbVars
  <2>6. CASE Crash \/ Recover \/ UNCHANGED vars
    BY <1>1, <2>6 DEF Crash, Recover, vars, dbVars
  <2> QED
    BY <1>1, <2>1, <2>2, <2>3, <2>4, <2>5, <2>6 DEF Next, Step
<1>2. TypeOK /\ CloseInv /\ [Next]_vars =>
        [run.status # "Running" /\ (\A t \in Tasks : ~HoldsRunning(t))
           => run'.status # "Running"]_vars
  BY <1>1
<1>3. Init => CloseInv
  BY DEF Init, CloseInv
<1> QED
  BY <1>2, <1>3, CloseStep, TypeCorrect, PTL DEF Spec, ClosedRunStaysClosed

----------------------------------------------------------------------------
(* Span identity                                                           *)

\* The handler is about to write a span that it starts.
Starting(t) == op[t] = "start" /\ pc[t] = "upsert"

\* The ids that only allocate_id gives to spans.
Unnamed == Allocated \ Named

\* An allocated id that no client names is handed out to one handler, and is not
\* in use before that handler writes it; what a handler ends exists.
IdentityInv ==
    /\ \A x \in Unnamed : Exists(x) => x \in allocated
    /\ \A t \in Tasks : op[t] = "start" /\ pc[t] \in {"sequence", "identify"} =>
          target[t] \notin Unnamed
    /\ \A t \in Tasks : Starting(t) =>
          /\ copy[t].status = "Running"
          /\ target[t] \in Unnamed =>
                /\ target[t] \in allocated
                /\ ~Exists(target[t])
                /\ \A u \in Tasks : Starting(u) /\ target[u] = target[t] => u = t
    /\ \A t \in Tasks : Ending(t) =>
          copy[t].status \in SpanStatus /\ Exists(target[t])

\* Nothing happens to spans or to the handlers that hold their ids.
LEMMA IdentityQuiet ==
  ASSUME TypeOK, IdentityInv,
         UNCHANGED <<spans, allocated>>,
         \A u \in Tasks : op'[u] = "start" /\ pc'[u] \in {"sequence", "identify"} =>
                            target'[u] \notin Unnamed,
         \A u \in Tasks : Starting(u)' \/ Ending(u)' =>
            /\ Starting(u)' = Starting(u) /\ Ending(u)' = Ending(u)
            /\ copy'[u] = copy[u] /\ target'[u] = target[u]
  PROVE  IdentityInv'
  BY DEF IdentityInv, Exists

\* Every step keeps ids apart.
LEMMA IdentityStep ==
  ASSUME TypeOK, TypeOK', Shared, IdentityInv, [Next]_vars
  PROVE  IdentityInv'
<1>1. ASSUME NEW t \in Tasks, Others(t), UNCHANGED <<spans, allocated>>,
             pc'[t] \notin {"sequence", "identify", "upsert"}
      PROVE  IdentityInv'
  <2>1. \A u \in Tasks : op'[u] = "start" /\ pc'[u] \in {"sequence", "identify"} =>
                            target'[u] \notin Unnamed
    BY <1>1 DEF Others, IdentityInv
  <2> QED
    BY <1>1, <2>1, IdentityQuiet DEF Others, Starting, Ending
<1>2. ASSUME NEW t \in Tasks, Calls(t) PROVE IdentityInv'
  <2>1. UNCHANGED <<spans, allocated>>
    BY <1>2 DEF Calls, StartCall, EndCall, EventCall, CloseCall, Call, dbVars
  <2>2. /\ pc'[t] \in {"sequence", "read"}
        /\ op'[t] = "start" => target'[t] \in Named \cup {NoSpan}
    BY <1>2 DEF Calls, StartCall, EndCall, EventCall, CloseCall, Call, Goto, TypeOK
  <2>3. Others(t)
    BY <1>2, OthersStay
  <2>4. \A u \in Tasks : op'[u] = "start" /\ pc'[u] \in {"sequence", "identify"} =>
                            target'[u] \notin Unnamed
    BY <2>2, <2>3, CollectorAssumption DEF Others, IdentityInv, Unnamed, Spans
  <2> QED
    BY <2>1, <2>2, <2>3, <2>4, IdentityQuiet DEF Others, Starting, Ending
<1>3. ASSUME NEW t \in Tasks, NextSequence(t) PROVE IdentityInv'
  <2>1. Others(t)
    BY <1>3, OthersStay DEF Step
  <2>2. /\ UNCHANGED <<spans, allocated, op, target>>
        /\ pc[t] = "sequence" /\ pc'[t] \in {"identify", "insert"}
    BY <1>3 DEF NextSequence, Goto, TypeOK
  <2>3. \A u \in Tasks : op'[u] = "start" /\ pc'[u] \in {"sequence", "identify"} =>
                            target'[u] \notin Unnamed
    BY <2>1, <2>2 DEF Others, IdentityInv
  <2> QED
    BY <2>1, <2>2, <2>3, IdentityQuiet DEF Others, Starting, Ending
\* Only here is an id taken.
<1>4. ASSUME NEW t \in Tasks, StartIdentify(t) PROVE IdentityInv'
  <2>1. Others(t)
    BY <1>4, OthersStay DEF Step
  <2>2. /\ UNCHANGED <<spans, op>>
        /\ pc[t] = "identify" /\ pc'[t] = "upsert" /\ op[t] = "start"
        /\ copy'[t].status = "Running"
    BY <1>4 DEF StartIdentify, Goto, TypeOK, SpanRecord, Shared
  <2>3. /\ allocated \subseteq allocated'
        /\ target'[t] \in Unnamed => target'[t] \in allocated' /\ target'[t] \notin allocated
    BY <1>4, <2>2 DEF StartIdentify, TypeOK, IdentityInv, Unnamed
  <2>4. /\ \A x \in Spans : Exists(x)' = Exists(x)
        /\ \A u \in Tasks \ {t} : Starting(u)' = Starting(u) /\ Ending(u)' = Ending(u)
        /\ Starting(t)' /\ ~Ending(t)'
    BY <2>1, <2>2 DEF Exists, Others, Starting, Ending
  <2>5. target'[t] \in Unnamed => ~Exists(target'[t])
    BY <2>3 DEF IdentityInv
  <2>6. \A u \in Tasks : Ending(u) => Exists(target[u])
    BY DEF IdentityInv
  <2>7. \A u \in Tasks \ {t} : Starting(u) /\ target[u] \in Unnamed => target[u] \in allocated
    BY DEF IdentityInv
  <2> QED
    BY <2>1, <2>2, <2>3, <2>4, <2>5, <2>6, <2>7 DEF IdentityInv, Others, Exists
<1>5. ASSUME NEW t \in Tasks, UpsertSpan(t) PROVE IdentityInv'
  <2>1. Others(t)
    BY <1>5, OthersStay DEF Step
  <2>2. /\ UNCHANGED <<allocated, op, target>>
        /\ pc[t] = "upsert" /\ pc'[t] \in {"reread", "capture"}
        /\ spans' = [spans EXCEPT ![target[t]] = copy[t]]
    BY <1>5 DEF UpsertSpan, Goto, TypeOK
  <2>3. Starting(t) \/ Ending(t)
    BY <2>2 DEF Shared, Starting, Ending
  <2>4. /\ \A u \in Tasks \ {t} : Starting(u)' = Starting(u) /\ Ending(u)' = Ending(u)
        /\ ~Starting(t)' /\ ~Ending(t)'
    BY <2>1, <2>2 DEF Others, Starting, Ending
  <2>5. copy[t].status # "absent"
    BY <2>3 DEF IdentityInv, SpanStatus, Outcomes
  <2>6. \A x \in Spans : Exists(x)' <=> Exists(x) \/ x = target[t]
    BY <2>2, <2>5 DEF Exists, TypeOK
  <2>7. \A u \in Tasks : Ending(u) => target[u] \in Spans
    BY DEF Ending, TypeOK
  <2>8. \A u \in Tasks \ {t} : Starting(u) /\ target[u] \in Unnamed => target[u] # target[t]
    BY <2>3 DEF IdentityInv
  <2> QED
    BY <2>1, <2>2, <2>3, <2>4, <2>6, <2>7, <2>8 DEF IdentityInv, Others, Unnamed, Spans
<1>6. ASSUME NEW t \in Tasks, EndRead(t) PROVE IdentityInv'
  <2>1. Others(t)
    BY <1>6, OthersStay DEF Step
  <2>2. /\ UNCHANGED <<spans, allocated, op, target>>
        /\ pc[t] = "read" /\ pc'[t] = "upsert" /\ op[t] = "end"
        /\ Exists(target[t]) /\ target[t] \in Spans
    BY <1>6 DEF EndRead, Goto, TypeOK, dbVars
  <2>3. copy'[t].status \in SpanStatus
    BY <1>6, <2>2 DEF EndRead, TypeOK, SpanRecord
  <2>4. /\ \A u \in Tasks \ {t} : Starting(u)' = Starting(u) /\ Ending(u)' = Ending(u)
        /\ ~Starting(t)' /\ Ending(t)'
    BY <2>1, <2>2 DEF Others, Starting, Ending
  <2> QED
    BY <2>1, <2>2, <2>3, <2>4 DEF IdentityInv, Others, Exists
<1>7. ASSUME NEW t \in Tasks, EventInsert(t) \/ StartReread(t) \/ StartRoot(t)
                              \/ CloseRead(t) \/ CloseList(t)
      PROVE  IdentityInv'
  <2>1. Others(t)
    BY <1>7, OthersStay DEF Step
  <2> QED
    BY <1>1, <1>7, <2>1, ZenonT(40) DEF EventInsert, Return, StartReread, StartRoot, CloseRead,
                            CloseList, Goto, TypeOK, dbVars
<1>8. ASSUME NEW t \in Tasks, CloseUpdate(t) \/ CaptureRead(t) \/ CaptureRecord(t)
                              \/ CaptureSkip(t) \/ Reject(t)
      PROVE  IdentityInv'
  <2>1. Others(t)
    BY <1>8, OthersStay DEF Step
  <2>2. UNCHANGED <<spans, allocated>>
    BY <1>8 DEF CloseUpdate, CaptureRead, CaptureRecord, CaptureSkip, Reject, dbVars
  <2>3. pc'[t] \in {"idle", "point", "update"}
    BY <1>8 DEF CloseUpdate, CaptureRead, CaptureRecord, CaptureSkip, Reject,
                AfterCapture, Return, Goto, TypeOK
  <2> QED
    BY <1>1, <2>1, <2>2, <2>3
<1>9. CASE Crash
  BY <1>9, IdentityQuiet DEF Crash, dbVars, Starting, Ending
<1>10. ASSUME Recover \/ UNCHANGED vars PROVE IdentityInv'
  <2>1. UNCHANGED <<spans, allocated, pc, op, target, copy>>
    BY <1>10 DEF Recover, vars, localVars
  <2>2. \A u \in Tasks : op'[u] = "start" /\ pc'[u] \in {"sequence", "identify"} =>
                            target'[u] \notin Unnamed
    BY <2>1 DEF IdentityInv
  <2> QED
    BY <2>1, <2>2, IdentityQuiet DEF Starting, Ending
<1> QED
  BY <1>2, <1>3, <1>4, <1>5, <1>6, <1>7, <1>8, <1>9, <1>10 DEF Next, Step

LEMMA IdentityHolds == Spec => [](TypeOK /\ SequenceInv /\ IdentityInv)
<1>1. Init => SequenceInv /\ IdentityInv
  BY CollectorAssumption
     DEF Init, SequenceInv, Shared, Drawn, Owned, SequencesUnique, Fresh, Ending,
         Existing, Exists, NoRecord, IdentityInv, Starting, Unnamed, Spans
<1>2. TypeOK /\ TypeOK' /\ SequenceInv /\ IdentityInv /\ [Next]_vars
        => SequenceInv' /\ IdentityInv'
  BY SequenceStep, IdentityStep DEF SequenceInv
<1> QED
  BY <1>1, <1>2, TypeCorrect, PTL DEF Spec

\* A span with an allocated id that no client names never runs again once it has
\* ended, unless a client ends it as Running.
THEOREM AllocatedForGood == Spec => AllocatedSpansNeverReopen
<1>3. ASSUME TypeOK, Shared, IdentityInv, [Next]_vars,
             \A t \in Tasks : ~EndsRunning(t), NEW x \in Unnamed, Terminal(x)
      PROVE  Terminal(x)'
  <2>1. ASSUME NEW t \in Tasks, UpsertSpan(t) PROVE Terminal(x)'
    <3>1. Starting(t) \/ Ending(t)
      BY <1>3, <2>1 DEF UpsertSpan, Shared, Starting, Ending
    <3>2. Exists(x) /\ x \in Spans
      BY <1>3 DEF Terminal, Exists, Outcomes, Spans, Unnamed
    <3>3. CASE target[t] = x
      <4>1. Ending(t) /\ copy[t].status \in Outcomes
        BY <1>3, <3>1, <3>2, <3>3 DEF IdentityInv, Ending, EndsRunning, SpanStatus
      <4> QED
        BY <1>3, <2>1, <3>2, <3>3, <4>1 DEF UpsertSpan, Terminal, TypeOK
    <3>4. CASE target[t] # x
      BY <1>3, <2>1, <3>2, <3>4 DEF UpsertSpan, Terminal, TypeOK
    <3> QED
      BY <3>3, <3>4
  <2>2. ASSUME NEW t \in Tasks, Calls(t) PROVE spans' = spans
    BY <2>2 DEF Calls, StartCall, EndCall, EventCall, CloseCall, Call, dbVars
  <2>3. ASSUME NEW t \in Tasks,
               NextSequence(t) \/ StartIdentify(t) \/ StartReread(t) \/ StartRoot(t)
               \/ EndRead(t) \/ EventInsert(t) \/ CloseRead(t) \/ CloseList(t)
        PROVE  spans' = spans
    BY <2>3 DEF NextSequence, StartIdentify, StartReread, StartRoot, EndRead,
                EventInsert, CloseRead, CloseList, dbVars
  <2>4. ASSUME NEW t \in Tasks, CloseUpdate(t) \/ CaptureRead(t) \/ CaptureRecord(t)
                                \/ CaptureSkip(t) \/ Reject(t)
        PROVE  spans' = spans
    BY <2>4 DEF CloseUpdate, CaptureRead, CaptureRecord, CaptureSkip, Reject, dbVars
  <2>5. CASE Crash \/ Recover \/ UNCHANGED vars
    BY <1>3, <2>5 DEF Crash, Recover, vars, dbVars, Terminal
  <2> QED
    BY <1>3, <2>1, <2>2, <2>3, <2>4, <2>5 DEF Next, Step, Terminal
<1>4. TypeOK /\ SequenceInv /\ IdentityInv /\ [Next]_vars =>
        [(\A t \in Tasks : ~EndsRunning(t)) =>
           \A x \in Allocated \ Named : Terminal(x) => Terminal(x)']_vars
  BY <1>3 DEF SequenceInv, Unnamed
<1> QED
  BY <1>4, IdentityHolds, PTL DEF Spec, AllocatedSpansNeverReopen

----------------------------------------------------------------------------
(* Workspace ordinals                                                      *)

\* The capture that a handler is about to record continues the timeline.
Continues == \A t \in Tasks : pc[t] = "point" =>
    ordinal[t] = 0 \/ \E j \in DOMAIN points : points[j].ordinal = ordinal[t] - 1

\* The timeline only grows, so what a handler has read stays true.
LEMMA OrdinalStep ==
  ASSUME TypeOK, TypeOK', Continues, OrdinalsWithoutGaps, [Next]_vars
  PROVE  Continues' /\ OrdinalsWithoutGaps'
<1>1. ASSUME points' = points,
             \A t \in Tasks : pc'[t] = "point" => pc[t] = "point" /\ ordinal'[t] = ordinal[t]
      PROVE  Continues' /\ OrdinalsWithoutGaps'
  BY <1>1 DEF Continues, OrdinalsWithoutGaps
<1> DEFINE Elsewhere(t) == \A u \in Tasks \ {t} : pc'[u] = pc[u] /\ ordinal'[u] = ordinal[u]
<1>2. ASSUME NEW t \in Tasks, Calls(t) PROVE Continues' /\ OrdinalsWithoutGaps'
  <2>1. points' = points /\ Elsewhere(t) /\ pc'[t] # "point"
    BY <1>2 DEF Calls, StartCall, EndCall, EventCall, CloseCall, Call, Goto, TypeOK, dbVars
  <2> QED
    BY <1>1, <2>1
<1>3. ASSUME NEW t \in Tasks,
             NextSequence(t) \/ StartIdentify(t) \/ UpsertSpan(t) \/ StartReread(t)
             \/ StartRoot(t) \/ EndRead(t) \/ CloseRead(t) \/ CloseList(t)
      PROVE  Continues' /\ OrdinalsWithoutGaps'
  <2>1. points' = points /\ Elsewhere(t) /\ pc'[t] # "point"
    BY <1>3 DEF NextSequence, StartIdentify, UpsertSpan, StartReread, StartRoot, EndRead,
                CloseRead, CloseList, Goto, TypeOK, dbVars
  <2> QED
    BY <1>1, <2>1
<1>4. ASSUME NEW t \in Tasks, EventInsert(t) \/ CloseUpdate(t) \/ CaptureSkip(t) \/ Reject(t)
      PROVE  Continues' /\ OrdinalsWithoutGaps'
  <2>1. points' = points /\ Elsewhere(t) /\ pc'[t] # "point"
    BY <1>4 DEF EventInsert, CloseUpdate, CaptureSkip, Reject, AfterCapture, Return, Goto,
                TypeOK, dbVars, localVars
  <2> QED
    BY <1>1, <2>1
\* One more than an ordinal that is there now.
<1>5. ASSUME NEW t \in Tasks, CaptureRead(t) PROVE Continues' /\ OrdinalsWithoutGaps'
  <2>1. PICK n \in 0 .. MaxPoints : NextOrdinal(n) /\ ordinal' = [ordinal EXCEPT ![t] = n]
    BY <1>5 DEF CaptureRead
  <2>2. points' = points /\ Elsewhere(t) /\ ordinal'[t] = n
    BY <1>5, <2>1 DEF CaptureRead, Goto, TypeOK, dbVars
  <2>3. Continues'
    BY <2>1, <2>2 DEF NextOrdinal, Continues
  <2> QED
    BY <2>2, <2>3 DEF OrdinalsWithoutGaps
<1>6. ASSUME NEW t \in Tasks, CaptureRecord(t) PROVE Continues' /\ OrdinalsWithoutGaps'
  <2> DEFINE new == [span |-> target[t], by |-> op[t], ordinal |-> ordinal[t]]
  <2>1. new \in Point /\ new.ordinal = ordinal[t]
    BY DEF TypeOK, Point
  <2> HIDE DEF new
  <2>2. points' = Append(points, new)
    BY <1>6 DEF CaptureRecord, new
  <2>3. /\ Len(points') = Len(points) + 1
        /\ \A i \in DOMAIN points : points'[i] = points[i]
        /\ points'[Len(points) + 1] = new
        /\ DOMAIN points = 1 .. Len(points) /\ Len(points) \in Nat
        /\ DOMAIN points' = 1 .. Len(points) + 1
    BY <2>1, <2>2 DEF TypeOK
  <2>4. Elsewhere(t) /\ pc[t] = "point" /\ pc'[t] # "point"
    BY <1>6 DEF CaptureRecord, AfterCapture, Return, Goto, TypeOK, localVars
  <2>5. Continues'
    BY <2>3, <2>4 DEF Continues
  <2>6. OrdinalsWithoutGaps'
    <3>1. ASSUME NEW i \in DOMAIN points'
          PROVE  points'[i].ordinal = 0
                 \/ \E j \in 1 .. i - 1 : points'[j].ordinal = points'[i].ordinal - 1
      <4>1. CASE i \in DOMAIN points
        BY <4>1, <2>3 DEF OrdinalsWithoutGaps
      <4>2. CASE i = Len(points) + 1
        BY <4>2, <2>1, <2>3, <2>4 DEF Continues
      <4> QED
        BY <2>3, <4>1, <4>2
    <3> QED
      BY <3>1 DEF OrdinalsWithoutGaps
  <2> QED
    BY <2>5, <2>6
<1>7. ASSUME Crash \/ Recover \/ UNCHANGED vars PROVE Continues' /\ OrdinalsWithoutGaps'
  BY <1>1, <1>7 DEF Crash, Recover, vars, dbVars, localVars
<1> QED
  BY <1>2, <1>3, <1>4, <1>5, <1>6, <1>7 DEF Next, Step

\* No ordinal of the workspace timeline is ever skipped.
THEOREM TimelineWithoutGaps == Spec => []OrdinalsWithoutGaps
<1>1. Init => Continues /\ OrdinalsWithoutGaps
  BY DEF Init, Continues, OrdinalsWithoutGaps
<1>2. TypeOK /\ TypeOK' /\ Continues /\ OrdinalsWithoutGaps /\ [Next]_vars
        => Continues' /\ OrdinalsWithoutGaps'
  BY OrdinalStep
<1> QED
  BY <1>1, <1>2, TypeCorrect, PTL DEF Spec

----------------------------------------------------------------------------
(* The session: the collector as the SDK drives it                         *)

Stages == {"new", "opening", "open", "ending", "closed"}

SessionTypeOK ==
    /\ program \in Programs
    /\ stage \in [AppSpans -> Stages]
    /\ handle \in [AppSpans -> Spans \cup {NoSpan}]
    /\ doing \in [Tasks -> AppSpans \cup {None}]
    /\ closing \in BOOLEAN

\* A session calls the collector as any client does.
LEMMA SessionImplements ==
  ASSUME TypeOK, SessionTypeOK, [SessionNext]_sessionVars
  PROVE  [Next]_vars
<1>1. ASSUME NEW t \in Tasks, NEW a \in AppSpans, Open(t, a) PROVE Next
  <2>1. ChosenId(a) \in Named \cup {NoSpan} /\ Parents(a) \subseteq Spans \cup {NoSpan}
    BY <1>1, ProgramsAssumption DEF Open, SessionTypeOK, ChosenId, Parents
  <2>2. PICK p \in Parents(a) : Call(t, "start", ChosenId(a), p, "sequence")
    BY <1>1 DEF Open
  <2> QED
    BY <2>1, <2>2 DEF Next, Calls, StartCall
<1>2. ASSUME NEW t \in Tasks, NEW a \in AppSpans, Close(t, a) PROVE Next
  <2>1. handle[a] \in Spans
    BY <1>2 DEF Close, SessionTypeOK
  <2> QED
    BY <1>2, <2>1 DEF Close, Next, Calls, EndCall
<1>3. ASSUME NEW t \in Tasks, Finish(t) PROVE Next
  BY <1>3 DEF Finish, Next, Calls, CloseCall
<1>4. ASSUME NEW t \in Tasks, Succeed(t) \/ Fail(t) PROVE Next
  BY <1>4 DEF Succeed, Works, Fail, Next, Step
<1>5. ASSUME NEW a \in AppSpans, OpenPlain(a) \/ CloseUnrecorded(a) \/ AttachFails(a)
      PROVE  UNCHANGED vars
  BY <1>5 DEF OpenPlain, CloseUnrecorded, AttachFails
<1>6. CASE Die \/ Restart \/ UNCHANGED sessionVars
  BY <1>6 DEF Die, Restart, sessionVars, Next
<1> QED
  BY <1>1, <1>2, <1>3, <1>4, <1>5, <1>6 DEF SessionNext

\* The locals of the session keep their types.
LEMMA SessionTypeStep ==
  ASSUME TypeOK, SessionTypeOK, [SessionNext]_sessionVars
  PROVE  SessionTypeOK'
<1> USE DEF SessionTypeOK, Stages
<1>1. ASSUME NEW t \in Tasks, NEW to \in Stages, NEW id \in Spans \cup {NoSpan},
             Settle(t, to, id)
      PROVE  SessionTypeOK'
  BY <1>1 DEF Settle
<1>2. ASSUME NEW t \in Tasks, NEW a \in AppSpans, Open(t, a) \/ Close(t, a)
      PROVE  SessionTypeOK'
  BY <1>2 DEF Open, Close, Asks
<1>3. ASSUME NEW t \in Tasks, Succeed(t) \/ Fail(t) PROVE SessionTypeOK'
  <2>1. target[t] \in Spans \cup {NoSpan} /\ NoSpan \in Spans \cup {NoSpan}
    BY DEF TypeOK
  <2>2. CASE Succeed(t)
    BY <1>1, <2>1, <2>2 DEF Succeed, sessionLocals
  <2>3. CASE Fail(t)
    BY <1>1, <2>1, <2>3 DEF Fail
  <2> QED
    BY <1>3, <2>2, <2>3
<1>4. ASSUME NEW a \in AppSpans, OpenPlain(a) \/ CloseUnrecorded(a) \/ AttachFails(a)
      PROVE  SessionTypeOK'
  BY <1>4 DEF OpenPlain, CloseUnrecorded, AttachFails
<1>5. ASSUME NEW t \in Tasks, Finish(t) PROVE SessionTypeOK'
  BY <1>5 DEF Finish
<1>6. CASE Die \/ Restart \/ UNCHANGED sessionVars
  BY <1>6 DEF Die, Restart, sessionVars, sessionLocals
<1> QED
  BY <1>2, <1>3, <1>4, <1>5, <1>6 DEF SessionNext

\* What is proved of the collector holds of the session too.
THEOREM SessionIsCollector == SessionSpec => Spec /\ []SessionTypeOK
<1>1. SessionInit => Init /\ SessionTypeOK
  BY DEF SessionInit, SessionTypeOK, Stages
<1>2. TypeOK /\ SessionTypeOK /\ [SessionNext]_sessionVars =>
         [Next]_vars /\ TypeOK' /\ SessionTypeOK'
  BY SessionImplements, SessionTypeStep, TypeStep
<1> QED
  BY <1>1, <1>2, TypeInit, PTL DEF SessionSpec, Spec

\* No ordinal of the workspace timeline of a session is ever skipped.
THEOREM SessionTimelineWithoutGaps == SessionSpec => []OrdinalsWithoutGaps
  BY SessionIsCollector, TimelineWithoutGaps, PTL

----------------------------------------------------------------------------
(* Who is where in a session                                               *)

StartAt  == {"sequence", "identify", "upsert", "reread", "root", "capture", "point"}
EndAt    == {"read", "upsert", "capture", "point"}
FinishAt == {"read", "list", "capture", "point", "update"}

\* The operation of a request fits its position and the span it is for.
Role(t) ==
    \/ op[t] = "start" /\ pc[t] = "idle" /\ doing[t] = None
    \/ /\ op[t] = "start" /\ pc[t] \in StartAt /\ ~closing
       /\ doing[t] \in AppSpans /\ stage[doing[t]] = "opening"
    \/ /\ op[t] = "end" /\ pc[t] \in EndAt
       /\ doing[t] \in AppSpans /\ stage[doing[t]] = "ending"
    \/ op[t] = "finish" /\ pc[t] \in FinishAt /\ closing /\ doing[t] = None

Roles ==
    /\ \A t \in Tasks : Role(t)
    /\ \A t, u \in Tasks : doing[t] = doing[u] => t = u \/ doing[t] = None

\* Where a request may go from where it is.
Goes(t) ==
    \/ /\ op[t] = "start"
       /\ <<pc[t], pc'[t]>> \in
            {<<"sequence", "identify">>, <<"identify", "upsert">>, <<"upsert", "reread">>,
             <<"reread", "root">>, <<"reread", "capture">>, <<"root", "capture">>,
             <<"capture", "point">>, <<"capture", "idle">>, <<"point", "idle">>}
    \/ /\ op[t] = "end"
       /\ <<pc[t], pc'[t]>> \in
            {<<"read", "upsert">>, <<"upsert", "capture">>, <<"capture", "point">>,
             <<"capture", "idle">>, <<"point", "idle">>}
    \/ /\ op[t] = "finish"
       /\ <<pc[t], pc'[t]>> \in
            {<<"read", "list">>, <<"list", "capture">>, <<"capture", "point">>,
             <<"capture", "update">>, <<"point", "update">>, <<"update", "idle">>}

\* A step of the collector for t.
LEMMA WorkGoes ==
  ASSUME TypeOK, NEW t \in Tasks, Role(t), Works(t)
  PROVE  /\ Goes(t)
         /\ Others(t)
         /\ \A u \in Tasks \ {t} : row'[u] = row[u] /\ ordinal'[u] = ordinal[u]
         /\ pc'[t] # "idle" => op'[t] = op[t]
         /\ pc'[t] = "idle" => op'[t] = "start"
         /\ pc'[t] # "idle" /\ pc[t] # "identify" => target'[t] = target[t]
<1> USE DEF TypeOK, Goto, Role, StartAt, EndAt, FinishAt, Goes
<1>1. Others(t)
  BY OthersStay DEF Works, Step
<1>2. CASE NextSequence(t) \/ StartIdentify(t) \/ UpsertSpan(t)
  BY <1>1, <1>2 DEF NextSequence, StartIdentify, UpsertSpan
<1>3. CASE StartReread(t) \/ StartRoot(t) \/ EndRead(t)
  BY <1>1, <1>3 DEF StartReread, StartRoot, EndRead
<1>4. CASE CloseRead(t) \/ CloseList(t) \/ CaptureRead(t)
  BY <1>1, <1>4 DEF CloseRead, CloseList, CaptureRead
<1>5. CASE CaptureRecord(t) \/ CaptureSkip(t) \/ CloseUpdate(t)
  BY <1>1, <1>5 DEF CaptureRecord, CaptureSkip, CloseUpdate, AfterCapture, Return, localVars
<1> QED
  BY <1>2, <1>3, <1>4, <1>5 DEF Works

\* A request that goes on keeps its role, and the others keep theirs.
LEMMA RolesStep ==
  ASSUME TypeOK, SessionTypeOK, Roles, [SessionNext]_sessionVars
  PROVE  Roles'
<1>0. ASSUME NEW t \in Tasks, NEW o, NEW x, NEW p, NEW first, Call(t, o, x, p, first)
      PROVE  /\ Others(t)
             /\ pc[t] = "idle" /\ doing[t] = None
             /\ op'[t] = o /\ pc'[t] = first
  <2>1. /\ Others(t)
        /\ pc[t] = "idle" /\ op'[t] = o /\ pc'[t] = first
    BY <1>0 DEF Call, Goto, Others, TypeOK
  <2>2. Role(t)
    BY DEF Roles
  <2> QED
    BY <2>1, <2>2 DEF Role, StartAt, EndAt, FinishAt
<1>1. ASSUME NEW t \in Tasks, NEW a \in AppSpans, Open(t, a) \/ Close(t, a) PROVE Roles'
  <2>1. /\ Others(t)
        /\ pc[t] = "idle" /\ doing[t] = None
        /\ \/ op'[t] = "start" /\ pc'[t] = "sequence" /\ ~closing
           \/ op'[t] = "end" /\ pc'[t] = "read"
    BY <1>0, <1>1 DEF Open, Close, MayStart
  <2>2. /\ stage[a] \in {"new", "open"}
        /\ op'[t] = "start" => stage'[a] = "opening"
        /\ op'[t] = "end" => stage'[a] = "ending"
        /\ \A b \in AppSpans \ {a} : stage'[b] = stage[b]
        /\ doing' = [doing EXCEPT ![t] = a]
        /\ closing' = closing
    BY <1>0, <1>1 DEF Open, Close, MayStart, Asks, SessionTypeOK
  <2>3. \A u \in Tasks : doing[u] # a
    BY <2>2, ProgramsAssumption DEF Roles, Role
  <2>4. \A u \in Tasks : Role(u)'
    BY <2>1, <2>2, <2>3, ProgramsAssumption
       DEF SessionTypeOK, Roles, Role, Others, StartAt, EndAt
  <2> QED
    BY <2>2, <2>3, <2>4 DEF SessionTypeOK, Roles
<1>2. ASSUME NEW t \in Tasks, Finish(t) PROVE Roles'
  <2>1. /\ Others(t)
        /\ pc[t] = "idle" /\ doing[t] = None
        /\ op'[t] = "finish" /\ pc'[t] = "read"
    BY <1>0, <1>2 DEF Finish
  <2>2. /\ closing'
        /\ \A u \in Tasks : pc[u] # "idle" => op[u] = "end"
        /\ UNCHANGED <<doing, stage>>
    BY <1>2 DEF Finish
  <2>3. \A u \in Tasks : Role(u)'
    BY <2>1, <2>2 DEF Roles, Role, Others, StartAt, EndAt, FinishAt
  <2> QED
    BY <2>2, <2>3 DEF Roles
<1>3. ASSUME NEW t \in Tasks, NEW to, NEW id, Settle(t, to, id), Others(t),
             op'[t] = "start" /\ pc'[t] = "idle"
      PROVE  Roles'
  <2>1. /\ doing' = [doing EXCEPT ![t] = None]
        /\ \A b \in AppSpans : b # doing[t] => stage'[b] = stage[b]
        /\ closing' = closing
    BY <1>3, ProgramsAssumption DEF Settle, SessionTypeOK
  <2> QED
    BY <1>3, <2>1, ProgramsAssumption DEF SessionTypeOK, Roles, Role, Others
<1>4. ASSUME NEW t \in Tasks, Succeed(t) PROVE Roles'
  <2>1. Role(t) /\ Works(t)
    BY <1>4 DEF Succeed, Roles
  <2>2. CASE pc'[t] = "idle"
    BY <1>3, <1>4, <2>1, <2>2, WorkGoes DEF Succeed
  <2>3. CASE pc'[t] # "idle"
    <3>1. UNCHANGED sessionLocals
      BY <1>4, <2>3 DEF Succeed
    <3>2. Goes(t) /\ Others(t) /\ op'[t] = op[t]
      BY <2>1, <2>3, WorkGoes
    <3> QED
      BY <2>1, <2>3, <3>1, <3>2
         DEF Roles, Role, Goes, Others, StartAt, EndAt, FinishAt, sessionLocals
  <2> QED
    BY <2>2, <2>3
<1>5. ASSUME NEW t \in Tasks, Fail(t) PROVE Roles'
  <2>1. Others(t) /\ op'[t] = "start" /\ pc'[t] = "idle"
    BY <1>5, OthersStay DEF Fail, Reject, Step, Return, Goto, TypeOK
  <2> QED
    BY <1>3, <1>5, <2>1 DEF Fail
<1>6. ASSUME NEW a \in AppSpans, OpenPlain(a) \/ CloseUnrecorded(a) \/ AttachFails(a)
      PROVE  Roles'
  <2>1. /\ UNCHANGED <<pc, op, doing, closing>>
        /\ stage[a] \notin {"opening", "ending"}
        /\ \A b \in AppSpans \ {a} : stage'[b] = stage[b]
    BY <1>6 DEF OpenPlain, CloseUnrecorded, AttachFails, MayStart, vars, SessionTypeOK
  <2> QED
    BY <2>1 DEF Roles, Role
<1>7. CASE Die
  BY <1>7 DEF Die, Crash, Roles, Role
<1>8. CASE Restart \/ UNCHANGED sessionVars
  BY <1>8 DEF Restart, Recover, sessionVars, sessionLocals, vars, Roles, Role
<1> QED
  BY <1>1, <1>2, <1>4, <1>5, <1>6, <1>7, <1>8 DEF SessionNext

\* What holds in every state of a session.
LEMMA SessionInvariants ==
  SessionSpec => [](TypeOK /\ SessionTypeOK /\ SequenceInv /\ IdentityInv /\ Roles)
<1>1. SessionInit => Roles
  BY DEF SessionInit, Init, Roles, Role
<1>2. TypeOK /\ SessionTypeOK /\ Roles /\ [SessionNext]_sessionVars => Roles'
  BY RolesStep
<1> QED
  BY <1>1, <1>2, SessionIsCollector, IdentityHolds, PTL DEF SessionSpec

----------------------------------------------------------------------------
(* The ids of the spans that a session records                             *)

Before(t) == pc[t] \in {"sequence", "identify"}

\* The handler is starting the span whose id is its target.
Claims(t) == op[t] = "start" /\ pc[t] \in {"upsert", "reread", "root", "capture", "point"}

\* The ids that allocate_id does not hand out.
Free == Named \ Allocated

\* The ids that requests and handles carry.  A chosen one belongs to the
\* application span that chose it.
Handles ==
    /\ \A a \in AppSpans :
          /\ stage[a] \in {"new", "opening", "closed"} => handle[a] = NoSpan
          /\ handle[a] \in Free => handle[a] = program.chosen[a]
    /\ \A t \in Tasks : op[t] = "end" => target[t] \in Spans /\ target[t] = handle[doing[t]]
    /\ \A t \in Tasks : op[t] = "start" =>
          /\ Before(t) => target[t] = program.chosen[doing[t]]
          /\ Claims(t) => target[t] \in Spans
          /\ Claims(t) /\ target[t] \in Free => target[t] = program.chosen[doing[t]]

\* What an answer changes.
LEMMA SettleHandles ==
  ASSUME SessionTypeOK, Roles, NEW t \in Tasks, NEW to, NEW id, Settle(t, to, id)
  PROVE  /\ program' = program /\ closing' = closing
         /\ \A u \in Tasks \ {t} :
               /\ doing'[u] = doing[u]
               /\ doing[u] \in AppSpans => doing[u] # doing[t]
         /\ doing'[t] = None
         /\ \A a \in AppSpans :
               a # doing[t] => handle'[a] = handle[a] /\ stage'[a] = stage[a]
         /\ doing[t] \in AppSpans => handle'[doing[t]] = id /\ stage'[doing[t]] = to
  BY ProgramsAssumption DEF SessionTypeOK, Roles, Settle

\* A request about a, which no other request is about.
LEMMA AskHandles ==
  ASSUME TypeOK, SessionTypeOK, Roles, NEW t \in Tasks, NEW a \in AppSpans,
         Open(t, a) \/ Close(t, a)
  PROVE  /\ UNCHANGED <<spans, allocated, points, program, handle, closing>>
         /\ Others(t)
         /\ \A u \in Tasks \ {t} : doing'[u] = doing[u] /\ ordinal'[u] = ordinal[u]
         /\ doing'[t] = a
         /\ \A b \in AppSpans : b # a => stage'[b] = stage[b]
         /\ \A u \in Tasks : doing[u] # a
         /\ \/ /\ stage[a] = "new" /\ stage'[a] = "opening" /\ Recorded(a)
               /\ op'[t] = "start" /\ pc'[t] = "sequence"
               /\ target'[t] = program.chosen[a]
            \/ /\ stage[a] = "open" /\ stage'[a] = "ending" /\ handle[a] \in Spans
               /\ op'[t] = "end" /\ pc'[t] = "read" /\ target'[t] = handle[a]
<1>1. ASSUME NEW o, NEW x, NEW p, NEW first, Call(t, o, x, p, first)
      PROVE  /\ UNCHANGED <<spans, allocated, points>>
             /\ Others(t)
             /\ \A u \in Tasks \ {t} : ordinal'[u] = ordinal[u]
             /\ op'[t] = o /\ pc'[t] = first /\ target'[t] = x
  BY <1>1 DEF Call, dbVars, Goto, Others, TypeOK, SpanRecord
<1>2. ASSUME NEW to, Asks(t, a, to)
      PROVE  /\ UNCHANGED <<program, handle, closing>>
             /\ \A u \in Tasks \ {t} : doing'[u] = doing[u]
             /\ doing'[t] = a
             /\ stage'[a] = to
             /\ \A b \in AppSpans : b # a => stage'[b] = stage[b]
  BY <1>2 DEF Asks, SessionTypeOK
<1>3. stage[a] \in {"new", "open"} => \A u \in Tasks : doing[u] # a
  BY ProgramsAssumption DEF Roles, Role
<1>4. CASE Open(t, a)
  BY <1>1, <1>2, <1>3, <1>4 DEF Open, MayStart, ChosenId
<1>5. CASE Close(t, a)
  BY <1>1, <1>2, <1>3, <1>5 DEF Close, SessionTypeOK
<1> QED
  BY <1>4, <1>5

LEMMA HandlesStep ==
  ASSUME TypeOK, TypeOK', SessionTypeOK, Roles, Handles, [SessionNext]_sessionVars
  PROVE  Handles'
<1>1. ASSUME NEW t \in Tasks, NEW a \in AppSpans, Open(t, a) \/ Close(t, a) PROVE Handles'
  <2>1. \A b \in AppSpans :
          /\ stage'[b] \in {"new", "opening", "closed"} => handle'[b] = NoSpan
          /\ handle'[b] \in Free => handle'[b] = program'.chosen[b]
    BY <1>1, AskHandles DEF Handles
  <2>2. \A u \in Tasks : op'[u] = "end" =>
          target'[u] \in Spans /\ target'[u] = handle'[doing'[u]]
    BY <1>1, AskHandles DEF Handles, Others
  <2>3. \A u \in Tasks : op'[u] = "start" =>
          /\ Before(u)' => target'[u] = program'.chosen[doing'[u]]
          /\ Claims(u)' => target'[u] \in Spans
          /\ Claims(u)' /\ target'[u] \in Free => target'[u] = program'.chosen[doing'[u]]
    BY <1>1, AskHandles DEF Handles, Others, Before, Claims
  <2> QED
    BY <2>1, <2>2, <2>3 DEF Handles
<1>2. ASSUME NEW t \in Tasks, Finish(t) PROVE Handles'
  <2>1. /\ Others(t) /\ op'[t] = "finish"
        /\ UNCHANGED <<program, stage, handle, doing>>
    BY <1>2 DEF Finish, Call, Goto, Others, TypeOK
  <2> QED
    BY <2>1 DEF Handles, Others, Before, Claims
<1>3. ASSUME NEW t \in Tasks, NEW to, NEW id, Settle(t, to, id), Others(t),
             op'[t] = "start" /\ pc'[t] = "idle",
             to \in {"new", "opening", "closed"} => id = NoSpan,
             id \in Free /\ doing[t] \in AppSpans => id = program.chosen[doing[t]]
      PROVE  Handles'
  <2>1. \A b \in AppSpans :
          /\ stage'[b] \in {"new", "opening", "closed"} => handle'[b] = NoSpan
          /\ handle'[b] \in Free => handle'[b] = program'.chosen[b]
    BY <1>3, SettleHandles DEF Handles
  <2>2. \A u \in Tasks : op'[u] = "end" =>
          target'[u] \in Spans /\ target'[u] = handle'[doing'[u]]
    BY <1>3, SettleHandles DEF Handles, Others, Roles, Role
  <2>3. \A u \in Tasks : op'[u] = "start" =>
          /\ Before(u)' => target'[u] = program'.chosen[doing'[u]]
          /\ Claims(u)' => target'[u] \in Spans
          /\ Claims(u)' /\ target'[u] \in Free => target'[u] = program'.chosen[doing'[u]]
    BY <1>3, SettleHandles DEF Handles, Others, Before, Claims
  <2> QED
    BY <2>1, <2>2, <2>3 DEF Handles
<1>4. ASSUME NEW t \in Tasks, Succeed(t), pc'[t] = "idle" PROVE Handles'
  <2>1. Role(t) /\ Works(t)
    BY <1>4 DEF Succeed, Roles
  <2>2. Goes(t) /\ Others(t) /\ op'[t] = "start"
    BY <1>4, <2>1, WorkGoes
  <2>3. CASE op[t] = "start"
    <3>1. Settle(t, "open", target[t]) /\ Claims(t)
      BY <1>4, <2>2, <2>3 DEF Succeed, Goes, Claims
    <3> QED
      BY <1>3, <1>4, <2>2, <2>3, <3>1 DEF Handles
  <2>4. CASE op[t] # "start"
    <3>1. Settle(t, "closed", NoSpan)
      BY <1>4, <2>4 DEF Succeed
    <3> QED
      BY <1>3, <1>4, <2>2, <3>1, CollectorAssumption DEF Free, Spans
  <2> QED
    BY <2>3, <2>4
<1>5. ASSUME NEW t \in Tasks, Succeed(t), pc'[t] # "idle" PROVE Handles'
  <2>1. Role(t) /\ Works(t) /\ UNCHANGED sessionLocals
    BY <1>5 DEF Succeed, Roles
  <2>2. /\ Goes(t) /\ Others(t) /\ op'[t] = op[t]
        /\ pc[t] # "identify" => target'[t] = target[t]
    BY <1>5, <2>1, WorkGoes
  <2>3. CASE pc[t] # "identify"
    BY <2>1, <2>2, <2>3 DEF Handles, Others, Before, Claims, Goes, sessionLocals
  <2>4. CASE pc[t] = "identify"
    <3>1. op[t] = "start" /\ pc'[t] = "upsert" /\ StartIdentify(t)
      BY <2>1, <2>2, <2>4 DEF Goes, Role, EndAt, FinishAt, Works, NextSequence, UpsertSpan, StartReread,
         StartRoot, EndRead, CloseRead, CloseList, CloseUpdate, CaptureRead, CaptureRecord,
         CaptureSkip
    <3>2. target'[t] \in Allocated \/ (target'[t] = target[t] /\ target[t] # NoSpan)
      BY <3>1 DEF StartIdentify, TypeOK
    <3>3. target'[t] \in Spans /\ (target'[t] \in Free => target'[t] = program.chosen[doing[t]])
      BY <2>4, <3>1, <3>2, CollectorAssumption DEF Handles, Before, TypeOK, Free, Spans
    <3> QED
      BY <2>1, <2>2, <3>1, <3>3 DEF Handles, Others, Before, Claims, sessionLocals
  <2> QED
    BY <2>3, <2>4
<1>6. ASSUME NEW t \in Tasks, Fail(t) PROVE Handles'
  <2>1. Others(t) /\ op'[t] = "start" /\ pc'[t] = "idle"
    BY <1>6, OthersStay DEF Fail, Reject, Step, Return, Goto, TypeOK
  <2> QED
    BY <1>3, <1>6, <2>1, CollectorAssumption DEF Fail, Free, Spans
<1>7. ASSUME NEW a \in AppSpans, OpenPlain(a) \/ CloseUnrecorded(a) \/ AttachFails(a)
      PROVE  Handles'
  <2>1. /\ UNCHANGED <<pc, op, target, doing, program>>
        /\ stage[a] \in {"new", "open"}
        /\ \A b \in AppSpans \ {a} : handle'[b] = handle[b] /\ stage'[b] = stage[b]
        /\ handle'[a] = NoSpan
    BY <1>7 DEF OpenPlain, CloseUnrecorded, AttachFails, MayStart, vars, SessionTypeOK, Handles
  <2>2. \A u \in Tasks : doing[u] # a
    BY <2>1, ProgramsAssumption DEF Roles, Role
  <2>3. \A u \in Tasks : op[u] = "end" => doing[u] \in AppSpans
    BY DEF Roles, Role
  <2> QED
    BY <2>1, <2>2, <2>3, CollectorAssumption DEF Handles, Before, Claims, Free, Spans
<1>8. CASE Die
  BY <1>8, CollectorAssumption DEF Die, Crash, Handles, Before, Claims, Free, Spans
<1>9. CASE Restart \/ UNCHANGED sessionVars
  BY <1>9 DEF Restart, Recover, sessionVars, sessionLocals, vars, localVars, Handles, Before, Claims
<1> QED
  BY <1>1, <1>2, <1>4, <1>5, <1>6, <1>7, <1>8, <1>9 DEF SessionNext

\* An id is being started by one request, or is the handle of one application
\* span, and its row exists from the time it is written, unless a failed read made
\* it look free.  A request that ends a span holds the row as it still is.
OwnIds ==
    /\ \A x \in Allocated : Exists(x) => x \in allocated
    /\ \A t \in Tasks : Claims(t) =>
          /\ \A u \in Tasks : Claims(u) /\ target[u] = target[t] => u = t
          /\ target[t] \in Allocated => target[t] \in allocated
          /\ pc[t] # "upsert" => Exists(target[t])
          /\ pc[t] = "upsert" => ReadErrors \/ ~Exists(target[t])
          /\ \A a \in AppSpans : handle[a] # target[t]
    /\ \A a \in AppSpans : handle[a] # NoSpan =>
          /\ Exists(handle[a])
          /\ \A b \in AppSpans : handle[b] = handle[a] => b = a
    /\ \A t \in Tasks : Ending(t) =>
          /\ Exists(target[t]) /\ ~Terminal(target[t])
          /\ copy[t].parent = spans[target[t]].parent
          /\ copy[t].seq = spans[target[t]].seq

LEMMA OwnQuiet ==
  ASSUME OwnIds, Handles, UNCHANGED <<spans, allocated>>,
         \A u \in Tasks : Claims(u)' =>
            /\ Claims(u) /\ target'[u] = target[u]
            /\ pc'[u] = "upsert" <=> pc[u] = "upsert",
         \A u \in Tasks : Ending(u)' =>
            Ending(u) /\ target'[u] = target[u] /\ copy'[u] = copy[u],
         \A a \in AppSpans : handle'[a] \in {handle[a], NoSpan}
  PROVE  OwnIds'
<1>1. \A t \in Tasks : Claims(t) => target[t] # NoSpan
  BY CollectorAssumption DEF Handles, Claims
<1> QED
  BY <1>1 DEF OwnIds, Exists, Terminal

LEMMA OwnStep ==
  ASSUME TypeOK, TypeOK', SessionTypeOK, Roles, IdentityInv, Handles, OwnIds,
         [SessionNext]_sessionVars
  PROVE  OwnIds'
<1>1. ASSUME NEW t \in Tasks, NEW a \in AppSpans, Open(t, a) \/ Close(t, a) PROVE OwnIds'
  BY <1>1, AskHandles, OwnQuiet DEF Others, Claims, Ending
<1>2. ASSUME NEW t \in Tasks, Finish(t) PROVE OwnIds'
  <2>1. /\ Others(t) /\ op'[t] = "finish"
        /\ UNCHANGED <<spans, allocated, handle>>
    BY <1>2 DEF Finish, Call, Goto, Others, TypeOK, dbVars
  <2> QED
    BY <2>1, OwnQuiet DEF Others, Claims, Ending
<1>3. ASSUME NEW t \in Tasks, NEW to, Settle(t, to, NoSpan), Others(t),
             UNCHANGED <<spans, allocated>>, pc'[t] = "idle"
      PROVE  OwnIds'
  BY <1>3, SettleHandles, OwnQuiet DEF Others, Claims, Ending
\* The id goes from the request to the application span.
<1>4. ASSUME NEW t \in Tasks, Succeed(t), pc'[t] = "idle" PROVE OwnIds'
  <2>1. Role(t) /\ Works(t)
    BY <1>4 DEF Succeed, Roles
  <2>2. Goes(t) /\ Others(t) /\ op'[t] = "start"
    BY <1>4, <2>1, WorkGoes
  <2>3. UNCHANGED <<spans, allocated>>
    BY <1>4, <2>1, <2>2
       DEF Goes, Works, NextSequence, StartIdentify, UpsertSpan, StartReread, StartRoot, EndRead,
           CloseRead, CloseList, CloseUpdate, CaptureRead, CaptureRecord, CaptureSkip, dbVars
  <2>4. CASE op[t] # "start"
    BY <1>3, <1>4, <2>2, <2>3, <2>4 DEF Succeed
  <2>5. CASE op[t] = "start"
    <3>1. Settle(t, "open", target[t]) /\ Claims(t) /\ pc[t] # "upsert"
      BY <1>4, <2>2, <2>5 DEF Succeed, Goes, Claims
    <3>2. /\ doing[t] \in AppSpans /\ handle'[doing[t]] = target[t]
          /\ \A a \in AppSpans : a # doing[t] => handle'[a] = handle[a]
      BY <2>1, <3>1, SettleHandles DEF Claims, Role, EndAt, FinishAt
    <3>3. /\ \A u \in Tasks : Claims(u)' => u # t /\ Claims(u)
          /\ \A u \in Tasks : Ending(u)' => u # t /\ Ending(u)
      BY <1>4, <2>2 DEF Others, Claims, Ending
    <3>4. \A u \in Tasks \ {t} : /\ target'[u] = target[u] /\ copy'[u] = copy[u]
                                 /\ pc'[u] = pc[u]
      BY <2>2 DEF Others
    <3>5. Exists(target[t]) /\ \A a \in AppSpans : handle[a] # target[t]
      BY <3>1 DEF OwnIds
    <3>6. \A u \in Tasks \ {t} : Claims(u) => target[u] # target[t]
      BY <3>1 DEF OwnIds
    <3> QED
      BY <2>3, <3>2, <3>3, <3>4, <3>5, <3>6 DEF OwnIds, Exists, Terminal
  <2> QED
    BY <2>4, <2>5
<1>5. ASSUME NEW t \in Tasks, Succeed(t), pc'[t] # "idle" PROVE OwnIds'
  <2>1. Role(t) /\ Works(t) /\ UNCHANGED sessionLocals
    BY <1>5 DEF Succeed, Roles
  <2>2. /\ Goes(t) /\ Others(t) /\ op'[t] = op[t]
        /\ pc[t] # "identify" => target'[t] = target[t]
    BY <1>5, <2>1, WorkGoes
  <2>3. handle' = handle
    BY <2>1 DEF sessionLocals
  \* An id that is free: nobody claims it and it is nobody's handle.
  <2>4. CASE StartIdentify(t)
    <3>1. /\ op[t] = "start" /\ pc[t] = "identify" /\ pc'[t] = "upsert" /\ spans' = spans
          /\ doing[t] \in AppSpans
          /\ allocated \subseteq allocated'
          /\ \/ target'[t] \in Allocated \ allocated /\ target'[t] \in allocated'
             \/ /\ target'[t] = target[t] /\ target[t] # NoSpan
                /\ ReadErrors \/ ~Exists(target[t])
          /\ handle[doing[t]] = NoSpan
      BY <2>1, <2>2, <2>4 DEF StartIdentify, Goes, Role, EndAt, FinishAt, TypeOK, Handles
    <3>2. target[t] = program.chosen[doing[t]] /\ program.chosen[doing[t]] \in Free \cup {NoSpan}
      BY <3>1, ProgramsAssumption DEF Handles, Before, SessionTypeOK, Free
    <3>3. ReadErrors \/ ~Exists(target'[t])
      BY <3>1 DEF OwnIds
    <3>4. ASSUME NEW u \in Tasks \ {t}, Claims(u) PROVE target[u] # target'[t]
      <4>1. CASE target'[t] \in Allocated \ allocated
        BY <3>4, <4>1 DEF OwnIds
      <4>2. CASE target'[t] = target[t] /\ target[t] # NoSpan
        <5>1. /\ doing[u] \in AppSpans /\ doing[u] # doing[t]
          BY <3>4, <3>1, ProgramsAssumption DEF Roles, Role, Claims, EndAt, FinishAt
        <5>2. target[t] \in Free
          BY <3>2, <4>2
        <5>3. target[u] = target[t] => target[u] = program.chosen[doing[u]]
          BY <3>4, <5>2 DEF Handles, Claims
        <5> QED
          BY <3>1, <3>2, <4>2, <5>1, <5>3, ProgramsAssumption DEF SessionTypeOK
      <4> QED
        BY <3>1, <4>1, <4>2
    <3>5. \A a \in AppSpans : handle[a] # target'[t]
      <4> SUFFICES ASSUME NEW a \in AppSpans, handle[a] = target'[t] PROVE FALSE
        OBVIOUS
      <4>1. handle[a] # NoSpan
        BY <3>1, CollectorAssumption DEF Spans
      <4>2. CASE target'[t] \in Allocated \ allocated
        BY <4>1, <4>2 DEF OwnIds
      <4>3. CASE target'[t] = target[t] /\ target[t] # NoSpan
        <5>1. handle[a] = program.chosen[a] /\ handle[a] = program.chosen[doing[t]]
          BY <3>2, <4>3 DEF Handles
        <5>2. program \in Programs /\ doing[t] \in AppSpans
              /\ program.chosen[a] = program.chosen[doing[t]] /\ program.chosen[a] # NoSpan
          BY <3>1, <4>1, <5>1 DEF SessionTypeOK
        <5>3. a = doing[t]
          BY <5>2, ProgramsAssumption
        <5> QED
          BY <3>1, <4>1, <5>3
      <4> QED
        BY <3>1, <4>2, <4>3
    <3>6. /\ \A u \in Tasks \ {t} : Claims(u)' = Claims(u) /\ Ending(u)' = Ending(u)
          /\ Claims(t)' /\ ~Ending(t)'
          /\ \A u \in Tasks \ {t} : /\ target'[u] = target[u] /\ copy'[u] = copy[u]
                                    /\ pc'[u] = pc[u]
      BY <2>2, <3>1 DEF Others, Claims, Ending
    <3>7. target'[t] \in Allocated => target'[t] \in allocated'
      BY <3>1, <3>2 DEF Free
    <3>8. /\ \A x : Exists(x)' = Exists(x)
          /\ \A x : Terminal(x)' = Terminal(x)
      BY <3>1 DEF Exists, Terminal
    <3> QED
      BY <2>3, <3>1, <3>3, <3>4, <3>5, <3>6, <3>7, <3>8 DEF OwnIds
  \* The row of the target is written: nobody else starts or ends this span.
  <2>5. CASE UpsertSpan(t)
    <3>1. /\ pc[t] = "upsert" /\ pc'[t] \in {"reread", "capture"}
          /\ UNCHANGED <<allocated, target>>
          /\ spans' = [spans EXCEPT ![target[t]] = copy[t]]
          /\ target[t] \in Spans
      BY <2>1, <2>2, <2>5 DEF UpsertSpan, Goes, Handles, Claims, Role, FinishAt
    <3>2. copy[t].status # "absent"
      BY <2>2, <3>1 DEF IdentityInv, Starting, Ending, Goes, SpanStatus, Outcomes
    <3>3. \A x \in Spans : x # target[t] => spans'[x] = spans[x]
      BY <3>1 DEF TypeOK
    <3>4. Exists(target[t])'
      BY <3>1, <3>2 DEF Exists, TypeOK
    <3>5. /\ \A u \in Tasks \ {t} : Claims(u)' = Claims(u) /\ Ending(u)' = Ending(u)
          /\ Claims(t)' = Claims(t) /\ ~Ending(t)'
          /\ \A u \in Tasks \ {t} : copy'[u] = copy[u] /\ pc'[u] = pc[u]
      BY <2>2, <3>1 DEF Others, Claims, Ending, Goes
    <3>6. ASSUME NEW u \in Tasks \ {t}, Claims(u) \/ Ending(u) PROVE target[u] # target[t]
      <4>1. CASE op[t] = "start"
        <5>1. Claims(t)
          BY <3>1, <4>1 DEF Claims
        <5>2. Ending(u) => target[u] = handle[doing[u]] /\ doing[u] \in AppSpans
          BY DEF Ending, Handles, Roles, Role
        <5> QED
          BY <3>6, <5>1, <5>2 DEF OwnIds
      <4>2. CASE op[t] = "end"
        <5>1. /\ doing[t] \in AppSpans /\ target[t] = handle[doing[t]] /\ target[t] # NoSpan
          BY <2>1, <3>1, <4>2, CollectorAssumption DEF Role, Handles
        <5>2. CASE Claims(u)
          BY <5>1, <5>2 DEF OwnIds
        <5>3. CASE Ending(u)
          <6>1. doing[u] \in AppSpans /\ doing[u] # doing[t] /\ target[u] = handle[doing[u]]
            BY <5>1, <5>3, ProgramsAssumption DEF Ending, Roles, Role, Handles
          <6> QED
            BY <5>1, <6>1 DEF OwnIds
        <5> QED
          BY <3>6, <5>2, <5>3
      <4> QED
        BY <2>2, <3>1, <4>1, <4>2 DEF Goes
    <3>7. \A u \in Tasks : Claims(u) \/ Ending(u) => target[u] \in Spans
      BY DEF Handles, Claims, Ending
    <3>8. \A a \in AppSpans : handle[a] # NoSpan => Exists(handle[a])'
      BY <2>3, <3>1, <3>3, <3>4 DEF OwnIds, Exists, SessionTypeOK
    <3>9. ASSUME NEW u \in Tasks, Claims(u)'
          PROVE  /\ pc'[u] # "upsert" => Exists(target[u])'
                 /\ pc'[u] = "upsert" => ReadErrors \/ ~Exists(target[u])'
      BY <3>9, <3>1, <3>3, <3>4, <3>5, <3>6, <3>7 DEF OwnIds, Exists
    <3>10. ASSUME NEW u \in Tasks, Ending(u)'
           PROVE  /\ Exists(target[u])' /\ ~Terminal(target[u])'
                  /\ copy'[u].parent = spans'[target[u]].parent
                  /\ copy'[u].seq = spans'[target[u]].seq
      BY <3>1, <3>10, <3>3, <3>5, <3>6, <3>7 DEF OwnIds, Terminal, Exists
    <3>11. ASSUME NEW x \in Allocated, Exists(x)' PROVE x \in allocated
      <4>1. x \in Spans /\ (x = target[t] \/ Exists(x))
        BY <3>3, <3>11 DEF Exists, Spans
      <4>2. Claims(t) \/ Ending(t)
        BY <2>2, <3>1 DEF Goes, Claims, Ending
      <4> QED
        BY <3>11, <4>1, <4>2 DEF OwnIds
    <3> QED
      BY <2>3, <3>1, <3>5, <3>8, <3>9, <3>10, <3>11 DEF OwnIds
  <2>6. CASE EndRead(t)
    <3>1. /\ op[t] = "end" /\ pc[t] = "read" /\ pc'[t] = "upsert"
          /\ UNCHANGED <<spans, allocated, target>>
          /\ Exists(target[t]) /\ ~Terminal(target[t]) /\ target[t] \in Spans
          /\ copy'[t].parent = spans[target[t]].parent
          /\ copy'[t].seq = spans[target[t]].seq
      BY <2>6 DEF EndRead, Goto, TypeOK, dbVars, SpanRecord
    <3>2. /\ \A u \in Tasks \ {t} : Claims(u)' = Claims(u) /\ Ending(u)' = Ending(u)
          /\ ~Claims(t)' /\ ~Claims(t)
          /\ \A u \in Tasks \ {t} : copy'[u] = copy[u] /\ pc'[u] = pc[u]
      BY <2>2, <3>1 DEF Others, Claims, Ending
    <3>3. /\ \A x : Exists(x)' = Exists(x)
          /\ \A x : Terminal(x)' = Terminal(x)
      BY <3>1 DEF Exists, Terminal
    <3> QED
      BY <2>3, <3>1, <3>2, <3>3 DEF OwnIds
  <2>7. CASE pc[t] \notin {"identify", "upsert"} /\ ~EndRead(t)
    <3>1. UNCHANGED <<spans, allocated>>
      BY <2>1, <2>7
         DEF Works, NextSequence, StartIdentify, UpsertSpan, StartReread, StartRoot,
             CloseRead, CloseList, CloseUpdate, CaptureRead, CaptureRecord, CaptureSkip, dbVars
    <3>2. ~(op[t] = "end" /\ pc'[t] = "upsert")
      BY <2>1, <2>2, <2>7
         DEF Goes, Works, NextSequence, StartIdentify, UpsertSpan, StartReread, StartRoot,
             CloseRead, CloseList, CloseUpdate, CaptureRead, CaptureRecord, CaptureSkip
    <3>3. pc'[t] # "upsert" /\ (Claims(t)' => Claims(t))
      BY <2>2, <2>7, <3>2 DEF Goes, Claims
    <3> QED
      BY <2>2, <2>3, <2>7, <3>1, <3>3, OwnQuiet DEF Others, Claims, Ending
  <2>8. StartIdentify(t) \/ UpsertSpan(t) \/ EndRead(t) \/ pc[t] \notin {"identify", "upsert"}
    BY <2>1
       DEF Works, NextSequence, StartReread, StartRoot, CloseRead, CloseList, CloseUpdate,
           CaptureRead, CaptureRecord, CaptureSkip
  <2> QED
    BY <2>4, <2>5, <2>6, <2>7, <2>8
<1>6. ASSUME NEW t \in Tasks, Fail(t) PROVE OwnIds'
  <2>1. Others(t) /\ pc'[t] = "idle" /\ UNCHANGED <<spans, allocated>>
    BY <1>6, OthersStay DEF Fail, Reject, Step, Return, Goto, TypeOK, dbVars
  <2> QED
    BY <1>3, <1>6, <2>1 DEF Fail
<1>7. ASSUME NEW a \in AppSpans, OpenPlain(a) \/ CloseUnrecorded(a) \/ AttachFails(a)
      PROVE  OwnIds'
  <2>1. /\ UNCHANGED <<spans, allocated, pc, op, target, copy>>
        /\ \A b \in AppSpans : handle'[b] \in {handle[b], NoSpan}
    BY <1>7 DEF OpenPlain, CloseUnrecorded, AttachFails, vars, SessionTypeOK
  <2> QED
    BY <2>1, OwnQuiet DEF Claims, Ending
<1>8. CASE Die
  BY <1>8, OwnQuiet DEF Die, Crash, dbVars, Claims, Ending
<1>9. CASE Restart \/ UNCHANGED sessionVars
  BY <1>9, OwnQuiet DEF Restart, Recover, sessionVars, sessionLocals, vars, localVars, Claims, Ending
<1> QED
  BY <1>1, <1>2, <1>4, <1>5, <1>6, <1>7, <1>8, <1>9 DEF SessionNext

\* A session's ids are its own in every state.
LEMMA OwnHolds ==
  SessionSpec => [](TypeOK /\ SessionTypeOK /\ SequenceInv /\ IdentityInv /\ Roles /\ Handles /\ OwnIds)
<1>1. SessionInit => Handles /\ OwnIds
  BY CollectorAssumption
     DEF SessionInit, Init, Handles, OwnIds, Before, Claims, Ending, Free, Spans, Exists, NoRecord
<1>2. /\ TypeOK /\ TypeOK' /\ SessionTypeOK /\ Roles /\ IdentityInv /\ Handles /\ OwnIds
      /\ [SessionNext]_sessionVars
      => Handles' /\ OwnIds'
  BY HandlesStep, OwnStep
<1> QED
  BY <1>1, <1>2, SessionInvariants, PTL DEF SessionSpec

----------------------------------------------------------------------------
(* A finished run is whole                                                 *)

\* finish_run has found this in list_spans.
AllEnded == \A x \in Existing : Terminal(x)

Counted(t) == op[t] = "finish" /\ pc[t] \in {"capture", "point", "update"}

\* Nobody finishes the run while spans can start, and what finish_run has found
\* stays true: whoever ends a span holds one that has not ended.
FinishInv ==
    /\ ~closing => run.status # "Completed" /\ \A t \in Tasks : row[t].status # "Completed"
    /\ \A t \in Tasks : Counted(t) => AllEnded /\ row[t].counted = Existing
    /\ FinishedRunComplete

\* Neither the run, nor its spans, nor a copy that finish_run holds change.
LEMMA FinishQuiet ==
  ASSUME FinishInv, UNCHANGED <<run, spans>>, closing => closing',
         \A u \in Tasks : row'[u] \in {row[u], NewRun},
         \A u \in Tasks : Counted(u)' => Counted(u) /\ row'[u] = row[u]
  PROVE  FinishInv'
  BY DEF FinishInv, AllEnded, FinishedRunComplete, Existing, Exists, Terminal, NewRun

LEMMA FinishStep ==
  ASSUME TypeOK, SessionTypeOK, Roles, Handles, OwnIds, FinishInv, [SessionNext]_sessionVars
  PROVE  FinishInv'
<1> USE DEF Counted
<1>1. ASSUME NEW t \in Tasks, NEW o, NEW x, NEW p, NEW first, Call(t, o, x, p, first),
             first \in {"sequence", "read"}, closing => closing'
      PROVE  FinishInv'
  <2>1. UNCHANGED <<run, spans, row>> /\ Others(t) /\ pc'[t] = first
    BY <1>1 DEF Call, dbVars, Others, Goto, TypeOK
  <2> QED
    BY <1>1, <2>1, FinishQuiet DEF Others
<1>2. ASSUME NEW t \in Tasks, NEW a \in AppSpans, Open(t, a) \/ Close(t, a) PROVE FinishInv'
  BY <1>1, <1>2 DEF Open, Close, Asks
<1>3. ASSUME NEW t \in Tasks, Finish(t) PROVE FinishInv'
  BY <1>1, <1>3 DEF Finish
\* The handler answers or goes on without touching the run or a span.
<1>4. ASSUME NEW t \in Tasks, Others(t), UNCHANGED <<run, spans, closing>>,
             \A u \in Tasks \ {t} : row'[u] = row[u],
             row'[t] \in {row[t], NewRun},
             Counted(t)' => Counted(t) /\ row'[t] = row[t]
      PROVE  FinishInv'
  BY <1>4, FinishQuiet DEF Others
<1>5. ASSUME NEW t \in Tasks, Fail(t) PROVE FinishInv'
  <2>1. /\ Others(t) /\ UNCHANGED <<run, spans, closing>>
        /\ \A u \in Tasks \ {t} : row'[u] = row[u]
        /\ row'[t] = NewRun /\ pc'[t] = "idle"
    BY <1>5 DEF Fail, Settle, Reject, Return, Goto, dbVars, Others, TypeOK
  <2> QED
    BY <1>4, <2>1
<1>6. ASSUME NEW t \in Tasks, Succeed(t) PROVE FinishInv'
  <2>1. /\ Role(t) /\ Goes(t) /\ Others(t)
        /\ \A u \in Tasks \ {t} : row'[u] = row[u]
        /\ pc'[t] # "idle" => op'[t] = op[t]
        /\ closing' = closing
    BY <1>6, WorkGoes DEF Succeed, Settle, sessionLocals, Roles
  <2>2. CASE NextSequence(t) \/ StartIdentify(t) \/ EndRead(t) \/ CaptureRead(t)
    <3>1. UNCHANGED <<run, spans, row>> /\ (Counted(t)' => Counted(t))
      BY <2>1, <2>2 DEF NextSequence, StartIdentify, EndRead, CaptureRead, dbVars, Goes
    <3> QED
      BY <1>4, <2>1, <3>1
  <2>3. CASE CaptureRecord(t) \/ CaptureSkip(t)
    <3>1. UNCHANGED <<run, spans>> /\ row'[t] \in {row[t], NewRun}
          /\ (Counted(t)' => Counted(t) /\ row'[t] = row[t])
      BY <2>1, <2>3 DEF CaptureRecord, CaptureSkip, AfterCapture, Return, Goto, dbVars, localVars,
                        TypeOK, Goes
    <3> QED
      BY <1>4, <2>1, <3>1
  <2>4. CASE UpsertSpan(t)
    <3>1. UNCHANGED <<run, row>> /\ pc[t] = "upsert" /\ op'[t] = op[t]
          /\ spans' = [spans EXCEPT ![target[t]] = copy[t]]
          /\ pc'[t] # "idle"
      BY <2>1, <2>4 DEF UpsertSpan, Goes
    <3>2. CASE op[t] = "start"
      <4>1. ~closing /\ (\A u \in Tasks : ~Counted(u)) /\ ~Counted(t)'
        BY <3>1, <3>2 DEF Roles, Role
      <4>2. \A u \in Tasks : ~Counted(u)'
        BY <2>1, <4>1 DEF Others
      <4> QED
        BY <2>1, <3>1, <4>1, <4>2 DEF FinishInv, FinishedRunComplete
    <3>3. CASE op[t] = "end"
      <4>1. Ending(t) /\ target[t] \in Spans
        BY <3>1, <3>3 DEF Ending, Handles
      <4>2. ~AllEnded
        BY <4>1 DEF OwnIds, AllEnded, Existing
      <4>3. \A u \in Tasks : ~Counted(u)'
        BY <2>1, <3>1, <3>3, <4>2 DEF FinishInv, Others
      <4>4. run.status # "Completed"
        BY <4>2 DEF FinishInv, FinishedRunComplete, AllEnded
      <4> QED
        BY <2>1, <3>1, <4>3, <4>4 DEF FinishInv, FinishedRunComplete
    <3> QED
      BY <2>1, <3>1, <3>2, <3>3 DEF Goes
  <2>5. CASE StartReread(t) \/ StartRoot(t)
    <3>1. ~closing /\ UNCHANGED spans /\ \A u \in Tasks : ~Counted(u)
      BY <2>1, <2>5 DEF StartReread, StartRoot, dbVars, Role, Roles, FinishAt, EndAt
    <3>2. run'.status # "Completed" /\ row'[t].status # "Completed"
      BY <2>5, <3>1 DEF StartReread, StartRoot, dbVars, FinishInv, NewRun, TypeOK, RunRecord
    <3>3. \A u \in Tasks : ~Counted(u)'
      BY <2>1, <2>5, <3>1 DEF StartReread, StartRoot, Goto, Others, TypeOK, Role, FinishAt, EndAt
    <3> QED
      BY <2>1, <3>1, <3>2, <3>3 DEF FinishInv, FinishedRunComplete
  <2>6. CASE CloseRead(t)
    <3>1. closing /\ UNCHANGED <<run, spans>> /\ ~Counted(t)'
      BY <2>1, <2>6 DEF CloseRead, Goto, dbVars, Role, StartAt, EndAt, TypeOK
    <3> QED
      BY <2>1, <3>1 DEF FinishInv, FinishedRunComplete, Existing, Exists, Terminal, AllEnded,
                        Others
  <2>7. CASE CloseList(t)
    <3>1. closing /\ UNCHANGED <<run, spans>> /\ op[t] = "finish"
      BY <2>1, <2>7 DEF CloseList, dbVars, Role, StartAt, EndAt
    <3>2. AllEnded /\ row'[t].counted = Existing
      <4>1. PICK s : row' = [row EXCEPT ![t].counted = Existing, ![t].status = s]
        BY <2>7 DEF CloseList
      <4>2. row'[t].counted = Existing
        BY <4>1 DEF TypeOK, RunRecord
      <4> QED
        BY <2>7, <3>1, <4>2 DEF CloseList, AllEnded
    <3> QED
      BY <2>1, <3>1, <3>2 DEF FinishInv, FinishedRunComplete, Existing, Exists, Terminal,
                              AllEnded, Others
  <2>8. CASE CloseUpdate(t)
    <3>1. /\ closing /\ UNCHANGED spans /\ Counted(t)
          /\ pc'[t] = "idle"
      BY <2>1, <2>8 DEF CloseUpdate, Return, Goto, Role, StartAt, EndAt, TypeOK
    <3>2. run'.counted = Existing /\ AllEnded
      BY <2>8, <3>1 DEF CloseUpdate, FinishInv, TypeOK, RunRecord
    <3> QED
      BY <2>1, <3>1, <3>2 DEF FinishInv, FinishedRunComplete, Existing, Exists, Terminal,
                              AllEnded, Others
  <2> QED
    BY <1>6, <2>2, <2>3, <2>4, <2>5, <2>6, <2>7, <2>8 DEF Succeed, Works
<1>7. ASSUME NEW a \in AppSpans, OpenPlain(a) \/ CloseUnrecorded(a) \/ AttachFails(a)
      PROVE  FinishInv'
  BY <1>7, FinishQuiet DEF OpenPlain, CloseUnrecorded, AttachFails, vars
<1>8. CASE Die
  BY <1>8, FinishQuiet DEF Die, Crash, dbVars
<1>9. CASE Restart
  <2>1. /\ UNCHANGED <<spans, pc, op, row, closing>>
        /\ run' = run \/ run'.status = "Interrupted"
    BY <1>9 DEF Restart, Recover, sessionLocals, localVars, TypeOK, RunRecord
  <2> QED
    BY <2>1 DEF FinishInv, FinishedRunComplete, Existing, Exists, Terminal, AllEnded
<1>10. CASE UNCHANGED sessionVars
  BY <1>10, FinishQuiet DEF sessionVars, sessionLocals, vars
<1> QED
  BY <1>2, <1>3, <1>5, <1>6, <1>7, <1>8, <1>9, <1>10 DEF SessionNext

\* The summary of a finished run counts all its spans, and all have ended.
THEOREM FinishedRunIsWhole == SessionSpec => []FinishedRunComplete
<1>1. SessionInit => FinishInv
  BY DEF SessionInit, Init, FinishInv, FinishedRunComplete, Counted, NewRun
<1>2. FinishInv => FinishedRunComplete
  BY DEF FinishInv
<1> QED
  BY <1>1, <1>2, FinishStep, OwnHolds, PTL DEF SessionSpec

----------------------------------------------------------------------------
(* What becomes of the rows of a session                                   *)

\* Rows are only written by upsert_span.
LEMMA OnlyUpsertWrites ==
  ASSUME [Next]_vars
  PROVE  spans' = spans \/ \E t \in Tasks : UpsertSpan(t)
<1>1. ASSUME NEW t \in Tasks, Calls(t) PROVE spans' = spans
  BY <1>1 DEF Calls, StartCall, EndCall, EventCall, CloseCall, Call, dbVars
<1>2. ASSUME NEW t \in Tasks, Step(t), ~UpsertSpan(t) PROVE spans' = spans
  BY <1>2 DEF Step, NextSequence, StartIdentify, StartReread, StartRoot, EndRead, EventInsert,
              CloseRead, CloseList, CloseUpdate, CaptureRead, CaptureRecord, CaptureSkip, Reject,
              dbVars
<1>3. CASE Crash \/ Recover \/ UNCHANGED vars
  BY <1>3 DEF Crash, Recover, vars, dbVars
<1> QED
  BY <1>1, <1>2, <1>3 DEF Next

\* A row that is written is a new one, or one that is still running and keeps its
\* place in the run.
LEMMA RowsKept ==
  ASSUME ~ReadErrors, TypeOK, SessionTypeOK, Roles, IdentityInv, Handles, OwnIds,
         [SessionNext]_sessionVars, NEW x \in Spans, Exists(x)
  PROVE  /\ Exists(x)' /\ spans'[x].parent = spans[x].parent /\ spans'[x].seq = spans[x].seq
         /\ Terminal(x) => spans'[x] = spans[x]
<1>1. CASE spans' = spans
  BY <1>1 DEF Exists
<1>2. ASSUME NEW t \in Tasks, UpsertSpan(t)
      PROVE  /\ Exists(x)' /\ spans'[x].parent = spans[x].parent
             /\ spans'[x].seq = spans[x].seq
             /\ Terminal(x) => spans'[x] = spans[x]
  <2>1. pc[t] = "upsert" /\ spans' = [spans EXCEPT ![target[t]] = copy[t]]
    BY <1>2 DEF UpsertSpan
  <2>2. Claims(t) \/ Ending(t)
    BY <2>1 DEF Roles, Role, Claims, Ending, FinishAt
  <2>3. CASE target[t] # x
    BY <2>1, <2>3 DEF Exists, TypeOK
  <2>4. CASE target[t] = x
    <3>1. Ending(t)
      BY <2>1, <2>2, <2>4 DEF OwnIds
    <3>2. spans'[x] = copy[t]
      BY <2>1, <2>4 DEF TypeOK
    <3> QED
      BY <2>4, <3>1, <3>2 DEF OwnIds, IdentityInv, Exists, SpanStatus, Outcomes
  <2> QED
    BY <2>3, <2>4
<1> QED
  BY <1>1, <1>2, OnlyUpsertWrites, SessionImplements

\* In a session a span that has ended keeps its row, unless a read that fails
\* makes its id look free.
THEOREM EndedForGood == ~ReadErrors => (SessionSpec => EndedSpansFinal)
<1> SUFFICES ASSUME ~ReadErrors PROVE SessionSpec => EndedSpansFinal
  OBVIOUS
<1>1. ASSUME TypeOK, SessionTypeOK, Roles, IdentityInv, Handles, OwnIds,
             [SessionNext]_sessionVars
      PROVE  \A x \in Spans : Terminal(x) => spans'[x] = spans[x]
  BY <1>1, RowsKept DEF Terminal, Exists, Outcomes
<1>2. TypeOK /\ SessionTypeOK /\ Roles /\ IdentityInv /\ Handles /\ OwnIds
        /\ [SessionNext]_sessionVars =>
      [\A x \in Spans : Terminal(x) => spans'[x] = spans[x]]_sessionVars
  BY <1>1
<1> QED
  BY <1>2, OwnHolds, PTL DEF SessionSpec, EndedSpansFinal

----------------------------------------------------------------------------
(* The rows form trees                                                     *)

\* A start adds a span below one that is there, and an end moves none.
LEMMA TreeStep ==
  ASSUME ~ReadErrors, TypeOK, SessionTypeOK, Roles, IdentityInv, Handles, OwnIds,
         SpansFormTrees, [SessionNext]_sessionVars
  PROVE  SpansFormTrees'
<1>1. CASE spans' = spans
  BY <1>1 DEF SpansFormTrees, Existing, Exists
<1>2. ASSUME NEW t \in Tasks, UpsertSpan(t) PROVE SpansFormTrees'
  <2>1. /\ pc[t] = "upsert" /\ spans' = [spans EXCEPT ![target[t]] = copy[t]]
        /\ copy[t].parent # target[t]
        /\ copy[t].parent # NoSpan => Exists(copy[t].parent)
    BY <1>2 DEF UpsertSpan
  <2>2. Claims(t) \/ Ending(t)
    BY <2>1 DEF Roles, Role, Claims, Ending, FinishAt
  <2>3. target[t] \in Spans /\ copy[t].status # "absent"
    BY <2>1, <2>2 DEF Handles, Claims, Ending, IdentityInv, Starting, SpanStatus, Outcomes
  <2>4. /\ Existing' = Existing \cup {target[t]}
        /\ \A x \in Spans : x # target[t] => spans'[x] = spans[x]
        /\ spans'[target[t]] = copy[t]
    BY <2>1, <2>3 DEF Existing, Exists, TypeOK
  <2>5. CASE Exists(target[t])
    <3>1. copy[t].parent = spans[target[t]].parent
      BY <2>1, <2>2, <2>5 DEF OwnIds
    <3>2. Existing' = Existing /\ \A x \in Spans : spans'[x].parent = spans[x].parent
      BY <2>3, <2>4, <2>5, <3>1 DEF Existing
    <3> QED
      BY <3>2 DEF SpansFormTrees, Existing
  <2>6. CASE ~Exists(target[t])
    <3>1. copy[t].parent \in Spans \cup {NoSpan}
      BY DEF TypeOK, SpanRecord
    <3>2. \A x \in Existing' : spans'[x].parent \in Existing' \cup {NoSpan}
      BY <2>1, <2>4, <2>6, <3>1 DEF SpansFormTrees, Existing
    <3>3. ASSUME NEW S \in SUBSET Existing', S # {} PROVE \E x \in S : spans'[x].parent \notin S
      <4> DEFINE old == S \ {target[t]}
      <4>1. CASE old = {}
        BY <2>1, <2>4, <3>3, <4>1
      <4>2. CASE old # {}
        <5>1. old \subseteq Existing
          BY <2>4
        <5>2. PICK x \in old : spans[x].parent \notin old
          BY <4>2, <5>1 DEF SpansFormTrees
        <5>3. spans[x].parent \in Existing \cup {NoSpan} /\ x \in Spans
          BY <5>1, <5>2 DEF SpansFormTrees, Existing
        <5>4. spans[x].parent # target[t]
          BY <2>3, <2>6, <5>3, CollectorAssumption DEF Existing
        <5> QED
          BY <2>4, <5>2, <5>3, <5>4
      <4> QED
        BY <4>1, <4>2
    <3> QED
      BY <3>2, <3>3 DEF SpansFormTrees
  <2> QED
    BY <2>5, <2>6
<1> QED
  BY <1>1, <1>2, OnlyUpsertWrites, SessionImplements

\* The rows of a session form trees, whatever parents the application names, unless
\* a read that fails makes a taken id look free.
THEOREM RowsFormTrees == ~ReadErrors => (SessionSpec => []SpansFormTrees)
<1> SUFFICES ASSUME ~ReadErrors PROVE SessionSpec => []SpansFormTrees
  OBVIOUS
<1>1. SessionInit => SpansFormTrees
  BY DEF SessionInit, Init, SpansFormTrees, Existing, Exists, NoRecord
<1> QED
  BY <1>1, TreeStep, OwnHolds, PTL DEF SessionSpec

----------------------------------------------------------------------------
(* The captures of a span                                                  *)

\* When the capture after a span is numbered, the one before it is recorded, and
\* nobody records another one before it.
CaptureInv ==
    /\ \A t \in Tasks : op[t] = "end" /\ pc[t] = "point" =>
          \A i \in DOMAIN points : points[i].by = "start" /\ points[i].span = target[t] =>
             points[i].ordinal < ordinal[t]
    /\ \A i \in DOMAIN points : points[i].by = "end" =>
          /\ points[i].span \in Spans /\ Exists(points[i].span)
          /\ \A t \in Tasks : Claims(t) => target[t] # points[i].span
    /\ BeforePrecedesAfter

\* Who starts a span whose row is there has been starting it.
LEMMA ClaimsStep ==
  ASSUME ~ReadErrors, TypeOK, SessionTypeOK, Roles, OwnIds', [SessionNext]_sessionVars,
         NEW u \in Tasks, Claims(u)', Exists(target[u])'
  PROVE  Claims(u) /\ target'[u] = target[u]
<1>1. pc'[u] # "upsert"
  BY DEF OwnIds
<1>2. ASSUME NEW t \in Tasks, NEW a \in AppSpans, Open(t, a) \/ Close(t, a)
      PROVE  Claims(u) /\ target'[u] = target[u]
  BY <1>2, AskHandles DEF Others, Claims
<1>3. ASSUME NEW t \in Tasks, Finish(t) PROVE Claims(u) /\ target'[u] = target[u]
  <2>1. Others(t) /\ op'[t] = "finish"
    BY <1>3 DEF Finish, Call, Goto, Others, TypeOK
  <2> QED
    BY <2>1 DEF Others, Claims
<1>4. ASSUME NEW t \in Tasks, Fail(t) PROVE Claims(u) /\ target'[u] = target[u]
  <2>1. Others(t) /\ pc'[t] = "idle"
    BY <1>4, OthersStay DEF Fail, Reject, Step, Return, Goto, TypeOK
  <2> QED
    BY <2>1 DEF Others, Claims
<1>5. ASSUME NEW t \in Tasks, Succeed(t) PROVE Claims(u) /\ target'[u] = target[u]
  <2>1. Role(t) /\ Works(t)
    BY <1>5 DEF Succeed, Roles
  <2>2. /\ Goes(t) /\ Others(t)
        /\ pc'[t] # "idle" => op'[t] = op[t]
        /\ pc'[t] # "idle" /\ pc[t] # "identify" => target'[t] = target[t]
    BY <2>1, WorkGoes
  <2> QED
    BY <1>1, <2>2 DEF Others, Goes, Claims
<1>6. ASSUME NEW a \in AppSpans, OpenPlain(a) \/ CloseUnrecorded(a) \/ AttachFails(a)
      PROVE  Claims(u) /\ target'[u] = target[u]
  BY <1>6 DEF OpenPlain, CloseUnrecorded, AttachFails, vars, Claims
<1>7. CASE Die
  BY <1>7 DEF Die, Crash, Claims
<1>8. CASE Restart \/ UNCHANGED sessionVars
  BY <1>8 DEF Restart, Recover, sessionVars, vars, localVars, Claims
<1> QED
  BY <1>2, <1>3, <1>4, <1>5, <1>6, <1>7, <1>8 DEF SessionNext

\* The capture of an end is numbered by CaptureRead.
LEMMA EndPoints ==
  ASSUME TypeOK, SessionTypeOK, Roles, [SessionNext]_sessionVars,
         NEW u \in Tasks, op'[u] = "end", pc'[u] = "point"
  PROVE  /\ op[u] = "end" /\ target'[u] = target[u]
         /\ \/ pc[u] = "point" /\ ordinal'[u] = ordinal[u]
            \/ CaptureRead(u)
<1> DEFINE Goal == /\ op[u] = "end" /\ target'[u] = target[u]
                   /\ \/ pc[u] = "point" /\ ordinal'[u] = ordinal[u]
                      \/ CaptureRead(u)
<1>1. ASSUME NEW t \in Tasks, NEW a \in AppSpans, Open(t, a) \/ Close(t, a) PROVE Goal
  BY <1>1, AskHandles DEF Others
<1>2. ASSUME NEW t \in Tasks, Finish(t) PROVE Goal
  <2>1. Others(t) /\ op'[t] = "finish" /\ ordinal' = ordinal
    BY <1>2 DEF Finish, Call, Goto, Others, TypeOK
  <2> QED
    BY <2>1 DEF Others
<1>3. ASSUME NEW t \in Tasks, Fail(t) PROVE Goal
  <2>1. Others(t) /\ pc'[t] = "idle" /\ \A v \in Tasks \ {t} : ordinal'[v] = ordinal[v]
    BY <1>3, OthersStay DEF Fail, Reject, Step, Return, Goto, TypeOK
  <2> QED
    BY <2>1 DEF Others
<1>4. ASSUME NEW t \in Tasks, Succeed(t) PROVE Goal
  <2>1. Role(t) /\ Works(t)
    BY <1>4 DEF Succeed, Roles
  <2>2. /\ Goes(t) /\ Others(t)
        /\ \A v \in Tasks \ {t} : ordinal'[v] = ordinal[v]
        /\ pc'[t] # "idle" => op'[t] = op[t]
        /\ pc'[t] # "idle" /\ pc[t] # "identify" => target'[t] = target[t]
    BY <2>1, WorkGoes
  <2>3. CASE t # u
    BY <2>2, <2>3 DEF Others
  <2>4. CASE t = u
    <3>1. op[u] = "end" /\ pc[u] = "capture" /\ target'[u] = target[u]
      BY <2>2, <2>4 DEF Goes
    <3>2. CaptureRead(u)
      BY <2>1, <2>4, <3>1
         DEF Works, NextSequence, StartIdentify, UpsertSpan, StartReread, StartRoot, EndRead,
             CloseRead, CloseList, CloseUpdate, CaptureRecord, CaptureSkip, AfterCapture, Return,
             Goto, TypeOK
    <3> QED
      BY <3>1, <3>2
  <2> QED
    BY <2>3, <2>4
<1>5. ASSUME NEW a \in AppSpans, OpenPlain(a) \/ CloseUnrecorded(a) \/ AttachFails(a)
      PROVE  Goal
  BY <1>5 DEF OpenPlain, CloseUnrecorded, AttachFails, vars
<1>6. CASE Die
  BY <1>6 DEF Die, Crash
<1>7. CASE Restart \/ UNCHANGED sessionVars
  BY <1>7 DEF Restart, Recover, sessionVars, vars, localVars
<1> QED
  BY <1>1, <1>2, <1>3, <1>4, <1>5, <1>6, <1>7 DEF SessionNext

\* Points are only added by capture_workspace.
LEMMA OnlyCaptureAdds ==
  ASSUME [Next]_vars
  PROVE  points' = points \/ \E t \in Tasks : CaptureRecord(t)
<1>1. ASSUME NEW t \in Tasks, Calls(t) PROVE points' = points
  BY <1>1 DEF Calls, StartCall, EndCall, EventCall, CloseCall, Call, dbVars
<1>2. ASSUME NEW t \in Tasks, Step(t), ~CaptureRecord(t) PROVE points' = points
  BY <1>2 DEF Step, NextSequence, StartIdentify, UpsertSpan, StartReread, StartRoot, EndRead,
              EventInsert, CloseRead, CloseList, CloseUpdate, CaptureRead, CaptureSkip, Reject,
              dbVars
<1>3. CASE Crash \/ Recover \/ UNCHANGED vars
  BY <1>3 DEF Crash, Recover, vars, dbVars
<1> QED
  BY <1>1, <1>2, <1>3 DEF Next

LEMMA CaptureStep ==
  ASSUME ~ReadErrors, TypeOK, TypeOK', SessionTypeOK, Roles, IdentityInv, Handles,
         OwnIds, OwnIds', CaptureInv, [SessionNext]_sessionVars
  PROVE  CaptureInv'
<1>1. \A x \in Spans : Exists(x) => Exists(x)'
  BY RowsKept
\* Who ends a span ends one that nobody starts.
<1>2. ASSUME NEW t \in Tasks, op[t] = "end"
      PROVE  /\ target[t] \in Spans /\ Exists(target[t])
             /\ \A u \in Tasks : Claims(u) => target[u] # target[t]
  <2>1. /\ target[t] \in Spans /\ target[t] # NoSpan
        /\ doing[t] \in AppSpans /\ target[t] = handle[doing[t]]
    BY <1>2, CollectorAssumption DEF Handles, Roles, Role
  <2> QED
    BY <2>1 DEF OwnIds
<1>3. ASSUME NEW x \in Spans, Exists(x), \A u \in Tasks : Claims(u) => target[u] # x
      PROVE  \A u \in Tasks : Claims(u)' => target'[u] # x
  <2> SUFFICES ASSUME NEW u \in Tasks, Claims(u)', target'[u] = x PROVE FALSE
    OBVIOUS
  <2>1. Exists(target[u])'
    BY <1>1, <1>3 DEF Exists
  <2> QED
    BY <1>3, <2>1, ClaimsStep
<1>4. CASE points' = points
  <2>1. ASSUME NEW u \in Tasks, op'[u] = "end", pc'[u] = "point", NEW i \in DOMAIN points,
               points[i].by = "start", points[i].span = target'[u]
        PROVE  points[i].ordinal < ordinal'[u]
    <3>1. CASE pc[u] = "point" /\ ordinal'[u] = ordinal[u]
      BY <2>1, <3>1, EndPoints DEF CaptureInv
    <3>2. CASE CaptureRead(u)
      BY <2>1, <3>2 DEF CaptureRead, NextOrdinal, TypeOK
    <3> QED
      BY <2>1, <3>1, <3>2, EndPoints
  <2>2. ASSUME NEW i \in DOMAIN points, points[i].by = "end"
        PROVE  /\ points[i].span \in Spans /\ Exists(points[i].span)'
               /\ \A u \in Tasks : Claims(u)' => target'[u] # points[i].span
    <3>1. /\ points[i].span \in Spans /\ Exists(points[i].span)
          /\ \A u \in Tasks : Claims(u) => target[u] # points[i].span
      BY <2>2 DEF CaptureInv
    <3> QED
      BY <1>1, <1>3, <1>4, <3>1 DEF Exists
  <2> QED
    BY <1>4, <2>1, <2>2 DEF CaptureInv, BeforePrecedesAfter
<1>5. ASSUME NEW t \in Tasks, CaptureRecord(t) PROVE CaptureInv'
  <2> DEFINE new == [span |-> target[t], by |-> op[t], ordinal |-> ordinal[t]]
             last == Len(points) + 1
  <2>1. /\ new \in Point /\ new.ordinal = ordinal[t] /\ new.span = target[t] /\ new.by = op[t]
        /\ pc[t] = "point"
    BY <1>5 DEF TypeOK, Point, CaptureRecord
  <2> HIDE DEF new
  <2>2. points' = Append(points, new)
    BY <1>5 DEF CaptureRecord, new
  <2>3. /\ \A i \in DOMAIN points : points'[i] = points[i] /\ i # last
        /\ points'[last] = new
        /\ DOMAIN points' = DOMAIN points \cup {last}
    BY <2>1, <2>2 DEF TypeOK
  <2> HIDE DEF last
  <2>4. op[t] = "start" => Claims(t)
    BY <2>1 DEF Claims
  <2>5. spans' = spans /\ pc'[t] # "point" /\ Others(t) /\ \A u \in Tasks : ~CaptureRead(u)
    <3>1. UNCHANGED spans /\ Append(points, new) # points
      BY <1>5, <2>2, <2>1 DEF CaptureRecord, TypeOK
    <3>2. pc'[t] # "point" /\ Others(t)
      BY <1>5, <2>1, OthersStay, ZenonT(40) DEF CaptureRecord, AfterCapture, Return, Goto, TypeOK, Step
    <3>3. \A u \in Tasks : CaptureRead(u) => points' = points
      BY DEF CaptureRead, dbVars
    <3> QED
      BY <2>2, <3>1, <3>2, <3>3
  <2>6. ASSUME NEW u \in Tasks, op'[u] = "end", pc'[u] = "point", NEW i \in DOMAIN points',
               points'[i].by = "start", points'[i].span = target'[u]
        PROVE  points'[i].ordinal < ordinal'[u]
    <3>1. /\ op[u] = "end" /\ target'[u] = target[u]
          /\ pc[u] = "point" /\ ordinal'[u] = ordinal[u]
      BY <2>5, <2>6, EndPoints
    <3>2. i # last
      BY <1>2, <2>1, <2>3, <2>4, <2>6, <3>1
    <3> QED
      BY <2>3, <2>6, <3>1, <3>2 DEF CaptureInv
  <2>7. ASSUME NEW i \in DOMAIN points', points'[i].by = "end"
        PROVE  /\ points'[i].span \in Spans /\ Exists(points[i].span)'
               /\ \A u \in Tasks : Claims(u)' => target'[u] # points'[i].span
    <3>1. CASE i # last
      <4>1. /\ i \in DOMAIN points /\ points'[i] = points[i]
        BY <2>3, <3>1
      <4>2. /\ points[i].span \in Spans /\ Exists(points[i].span)
            /\ \A u \in Tasks : Claims(u) => target[u] # points[i].span
        BY <2>7, <4>1 DEF CaptureInv
      <4> QED
        BY <1>3, <2>5, <4>1, <4>2 DEF Exists
    <3>2. CASE i = last
      <4>1. points'[i].span = target[t] /\ op[t] = "end"
        BY <2>1, <2>3, <2>7, <3>2
      <4> QED
        BY <1>2, <1>3, <2>5, <4>1 DEF Exists
    <3> QED
      BY <3>1, <3>2
  <2>8. ASSUME NEW i \in DOMAIN points', NEW j \in DOMAIN points',
               points'[i].span # NoSpan, points'[i].span = points'[j].span,
               points'[i].by = "start", points'[j].by = "end"
        PROVE  points'[i].ordinal < points'[j].ordinal
    <3>1. CASE i # last /\ j # last
      BY <2>3, <2>8, <3>1 DEF CaptureInv, BeforePrecedesAfter
    <3>2. CASE i = last
      <4>1. j # last /\ Claims(t) /\ points[j].by = "end" /\ points[j].span = target[t]
        BY <2>1, <2>3, <2>4, <2>8, <3>2
      <4> QED
        BY <2>3, <4>1 DEF CaptureInv
    <3>3. CASE i # last /\ j = last
      BY <2>1, <2>3, <2>8, <3>3 DEF CaptureInv
    <3> QED
      BY <3>1, <3>2, <3>3
  <2> QED
    BY <2>6, <2>7, <2>8 DEF CaptureInv, BeforePrecedesAfter
<1> QED
  BY <1>4, <1>5, OnlyCaptureAdds, SessionImplements

\* The capture before a span has the smaller ordinal.
THEOREM BeforeIsEarlier == ~ReadErrors => (SessionSpec => []BeforePrecedesAfter)
<1> SUFFICES ASSUME ~ReadErrors PROVE SessionSpec => []BeforePrecedesAfter
  OBVIOUS
<1>1. SessionInit => CaptureInv
  BY DEF SessionInit, Init, CaptureInv, BeforePrecedesAfter
<1>2. CaptureInv => BeforePrecedesAfter
  BY DEF CaptureInv
<1>3. /\ TypeOK /\ TypeOK' /\ SessionTypeOK /\ Roles /\ IdentityInv /\ Handles /\ OwnIds /\ OwnIds'
      /\ CaptureInv /\ [SessionNext]_sessionVars
      => CaptureInv'
  BY CaptureStep
<1> QED
  BY <1>1, <1>2, <1>3, OwnHolds, PTL DEF SessionSpec
=============================================================================
