--------------------------- MODULE WorkerTask_proofs ---------------------------
(***************************************************************************)
(* Proofs about the queue of test tasks, for any number of workers, tasks, *)
(* items and late requests: it is well typed, it implements the safety     *)
(* part of TaskLife, a closed report is final, a worker whose lease ran    *)
(* out writes nothing, a success was earned and a report adds up.          *)
(***************************************************************************)
EXTENDS WorkerTask, FiniteSetTheorems, TLAPS

-----------------------------------------------------------------------------
(* The strengthening: what a worker says fits what it is doing, and only a *)
(* worker that saw a stop request reports a cancellation.                  *)

Fits(op, t, i, say) ==
  /\ op # "idle" => t \in Tasks
  /\ op \in {"itemStart", "itemDone"} => i \in Items
  /\ op = "itemDone" => say \in Verdicts \cup {"skipped"}
  /\ op = "complete" => say \in Verdicts
  /\ op = "report" => say \in {"error", "canceled"}

Asked(op, t, say) ==
  op = "report" /\ say = "canceled" => status[t] \notin {"pending", "claimed", "running"}

ReportsFit ==
  /\ \A w \in Workers : Fits(worker[w].op, worker[w].task, worker[w].item, worker[w].say)
  /\ \A m \in wire : Fits(m.op, m.task, m.item, m.say)

StopsAsked ==
  /\ \A w \in Workers : Asked(worker[w].op, worker[w].task, worker[w].say)
  /\ \A m \in wire : Asked(m.op, m.task, m.say)

IInv == TypeOK /\ ReportsFit /\ StopsAsked

\* What one step may do to a task's status.
Edge(a, b) ==
  \/ a = b
  \/ a = "pending" /\ b \in {"claimed", "canceled", "failed"}
  \/ a \in {"claimed", "running"} /\ b \in {"running", "stopping", "success", "failed", "error"}
  \/ a = "stopping" /\ b \in {"canceled", "failed", "error"}
  \/ a \in Terminal /\ b = "gone"

Edges ==
  \/ UNCHANGED status
  \/ \E t \in Tasks : \E s \in Statuses :
       Edge(status[t], s) /\ status' = [status EXCEPT ![t] = s]

RowsOK ==
  /\ kind \in [Tasks -> Kinds]
  /\ status \in [Tasks -> Statuses]
  /\ holder \in [Tasks -> Workers \cup {NoWorker}]
  /\ lease \in [Tasks -> {"fresh", "due", "lapsed"}]
  /\ run \in [Tasks -> Statuses \cup {"queued"}]
  /\ item \in [Tasks -> [Items -> ItemStatuses]]
  /\ tally \in [Tasks -> [Counted -> 0 .. NItems]]

WorkersOK ==
  /\ worker \in [Workers -> WorkerState]
  /\ wire \subseteq Request
  /\ ReportsFit
  /\ StopsAsked

-----------------------------------------------------------------------------
(* The rows                                                                *)

\* The counts of a run's items are numbers of items.
LEMMA TallyType ==
  ASSUME NEW f \in [Items -> ItemStatuses]
  PROVE  Tally(f) \in [Counted -> 0 .. NItems]
<1>1. IsFiniteSet(Items) /\ Cardinality(Items) = NItems
  <2>1. 1 \in Int /\ NItems \in Int /\ NItems >= 1
    BY WorkerTaskAssumption
  <2> QED
    BY <2>1, FS_Interval DEF Items
<1>2. ASSUME NEW c \in Counted
      PROVE  Count(f, c) \in 0 .. NItems
  <2>1. {i \in Items : f[i] = c} \subseteq Items
    OBVIOUS
  <2>2. /\ IsFiniteSet({i \in Items : f[i] = c})
        /\ Cardinality({i \in Items : f[i] = c}) <= Cardinality(Items)
    BY <1>1, <2>1, FS_Subset
  <2>3. Cardinality({i \in Items : f[i] = c}) \in Nat
    BY <2>2, FS_CardinalityType
  <2> QED
    BY <1>1, <2>2, <2>3, WorkerTaskAssumption DEF Count
<1> QED
  BY <1>2 DEF Tally

\* Closing a run's items leaves them items.
LEMMA ItemsAfterType ==
  ASSUME RowsOK, NEW t \in Tasks, NEW cut \in {"error", "canceled"}
  PROVE  ItemsAfter(t, cut) \in [Items -> ItemStatuses]
BY DEF RowsOK, ItemsAfter, FinishStoppedItems, ItemStatuses, Terminal

\* A run ends with an end.
LEMMA RunVerdictType ==
  ASSUME NEW t, NEW v \in Terminal, NEW f
  PROVE  RunVerdict(t, v, f) \in Terminal
BY DEF RunVerdict, Terminal

LEMMA SetItemsType ==
  ASSUME RowsOK, NEW t \in Tasks, NEW f \in [Items -> ItemStatuses], SetItems(t, f)
  PROVE  /\ item' \in [Tasks -> [Items -> ItemStatuses]]
         /\ tally' \in [Tasks -> [Counted -> 0 .. NItems]]
BY TallyType DEF SetItems, RowsOK

LEMMA SetStatusType ==
  ASSUME RowsOK, NEW t \in Tasks, NEW s \in Statuses, NEW r \in Statuses \cup {"queued"},
         SetStatus(t, s, r)
  PROVE  /\ status' \in [Tasks -> Statuses]
         /\ run' \in [Tasks -> Statuses \cup {"queued"}]
BY DEF SetStatus, RowsOK

\* Lost access fails the task, whatever it was.
LEMMA FailAuthorizationRows ==
  ASSUME RowsOK, NEW t \in Tasks, FailAuthorization(t), UNCHANGED kind
  PROVE  /\ RowsOK'
         /\ status' = [status EXCEPT ![t] = "failed"]
<1>1. "failed" \in Statuses
  BY DEF Statuses, Terminal
<1>2. SetItems(t, ItemsAfter(t, "error")) /\ ItemsAfter(t, "error") \in [Items -> ItemStatuses]
  BY ItemsAfterType DEF FailAuthorization
<1>3. /\ item' \in [Tasks -> [Items -> ItemStatuses]]
      /\ tally' \in [Tasks -> [Counted -> 0 .. NItems]]
  BY <1>2, SetItemsType
<1>4. /\ status' \in [Tasks -> Statuses]
      /\ run' \in [Tasks -> Statuses \cup {"queued"}]
  BY <1>1, SetStatusType DEF FailAuthorization
<1>5. lease' \in [Tasks -> {"fresh", "due", "lapsed"}]
  BY DEF FailAuthorization, SetLease, RowsOK
<1>6. UNCHANGED holder
  BY DEF FailAuthorization
<1> QED
  BY <1>3, <1>4, <1>5, <1>6 DEF RowsOK, FailAuthorization, SetStatus

\* A task somebody holds may fail or end in error.
LEMMA HeldEdges ==
  ASSUME NEW a \in Held \cup {"pending"}
  PROVE  /\ Edge(a, "failed")
         /\ a # "pending" => Edge(a, "error")
         /\ a # "pending" /\ a # "stopping" =>
              \A v \in Verdicts \cup {"running", "stopping"} : Edge(a, v)
         /\ a = "stopping" => Edge(a, "canceled")
BY DEF Edge, Held, Verdicts

-----------------------------------------------------------------------------
(* What a worker says                                                      *)

FitsR(r) == Fits(r.op, r.task, r.item, r.say)

LEMMA IdleType == Idle \in WorkerState /\ FitsR(Idle)
<1>1. 0 \in 0 .. NItems
  BY WorkerTaskAssumption
<1> QED
  BY <1>1 DEF Idle, WorkerState, FitsR, Fits, Says, Verdicts, Calls

LEMMA ReportType ==
  ASSUME NEW r \in WorkerState, r.task \in Tasks, NEW v \in {"error", "canceled"}
  PROVE  /\ Report(r, v) \in WorkerState /\ FitsR(Report(r, v))
         /\ Report(r, v).say = v /\ Report(r, v).task = r.task
<1>1. 0 \in 0 .. NItems
  BY WorkerTaskAssumption
<1> QED
  BY <1>1 DEF Report, WorkerState, FitsR, Fits, Says, Verdicts, Calls

LEMMA FinishType ==
  ASSUME NEW r \in WorkerState, r.task \in Tasks, NEW v \in Verdicts
  PROVE  Finish(r, v) \in WorkerState /\ FitsR(Finish(r, v)) /\ Finish(r, v).op = "complete"
<1>1. 0 \in 0 .. NItems
  BY WorkerTaskAssumption
<1> QED
  BY <1>1 DEF Finish, WorkerState, FitsR, Fits, Says, Calls

LEMMA NextItemType ==
  ASSUME NEW r \in WorkerState, r.task \in Tasks
  PROVE  NextItem(r) \in WorkerState /\ FitsR(NextItem(r)) /\ NextItem(r).op # "report"
<1>0. r.item \in 0 .. NItems /\ r.worst \in Verdicts /\ NItems \in Nat
  BY WorkerTaskAssumption DEF WorkerState
<1> DEFINE p == r.item + 1
           skip == [r EXCEPT !.op = "itemDone", !.item = p, !.say = "skipped"]
           start == [r EXCEPT !.op = "itemStart", !.item = p, !.say = "none"]
<1>1. CASE p > NItems
  <2>1. NextItem(r) = Finish(r, r.worst)
    BY <1>0, <1>1 DEF NextItem
  <2> QED
    BY <1>0, <2>1, FinishType
<1>2. CASE ~(p > NItems)
  <2>1. p \in Items /\ p \in 0 .. NItems
    BY <1>0, <1>2 DEF Items
  <2>2. NextItem(r) \in {skip, start}
    BY <1>2 DEF NextItem
  <2> HIDE DEF p
  <2>3. skip \in WorkerState /\ FitsR(skip) /\ skip.op # "report"
    BY <2>1 DEF WorkerState, FitsR, Fits, Says, Calls
  <2>4. start \in WorkerState /\ FitsR(start) /\ start.op # "report"
    BY <2>1 DEF WorkerState, FitsR, Fits, Says, Calls
  <2> QED
    BY <2>2, <2>3, <2>4
<1> QED
  BY <1>1, <1>2

\* Going on after an answer, a worker never reports a cancellation.
LEMMA ProceedType ==
  ASSUME NEW r \in WorkerState, r.op \in Calls, FitsR(r)
  PROVE  Proceed(r) \in WorkerState /\ FitsR(Proceed(r)) /\ Proceed(r).op # "report"
<1>0. r.task \in Tasks
  BY DEF FitsR, Fits, Calls
<1> DEFINE load == [r EXCEPT !.op = "snapshot"]
           exec == [r EXCEPT !.op = "execute"]
<1>1. Proceed(r) \in {load, exec, NextItem(r), Idle}
  BY DEF Proceed
<1>2. load \in WorkerState /\ FitsR(load) /\ load.op # "report"
  BY <1>0 DEF WorkerState, FitsR, Fits, Calls
<1>3. exec \in WorkerState /\ FitsR(exec) /\ exec.op # "report"
  BY <1>0 DEF WorkerState, FitsR, Fits, Calls
<1>4. Idle.op # "report"
  BY DEF Idle
<1> QED
  BY <1>0, <1>1, <1>2, <1>3, <1>4, NextItemType, IdleType

\* Nor does it when something failed.
LEMMA FailType ==
  ASSUME NEW r \in WorkerState, r.op # "idle", FitsR(r)
  PROVE  Fail(r) \in WorkerState /\ FitsR(Fail(r)) /\ Fail(r).say # "canceled"
<1>0. r.task \in Tasks
  BY DEF FitsR, Fits
<1>1. Fail(r) \in {Idle, Finish(r, "error"), Report(r, "error")}
  BY DEF Fail
<1>2. Finish(r, "error").say # "canceled"
  BY DEF Finish, WorkerState
<1>3. Idle.say # "canceled"
  BY DEF Idle
<1>4. "error" \in Verdicts
  BY DEF Verdicts
<1> QED
  BY <1>0, <1>1, <1>2, <1>3, <1>4, IdleType, FinishType, ReportType

-----------------------------------------------------------------------------
(* The worker and the wire                                                 *)

\* A stop that was asked for stays asked for.
LEMMA AskedStays ==
  ASSUME RowsOK, Edges, NEW op, NEW t, NEW say, op = "report" => t \in Tasks, Asked(op, t, say)
  PROVE  Asked(op, t, say)'
<1> SUFFICES ASSUME op = "report", say = "canceled"
             PROVE  status'[t] \notin {"pending", "claimed", "running"}
  BY DEF Asked
<1>1. status[t] \in Statuses /\ status[t] \notin {"pending", "claimed", "running"}
  BY DEF Asked, RowsOK
<1>2. ASSUME NEW u \in Tasks, NEW s \in Statuses, Edge(status[u], s),
             status' = [status EXCEPT ![u] = s]
      PROVE  status'[t] \notin {"pending", "claimed", "running"}
  BY <1>1, <1>2 DEF RowsOK, Edge, Terminal, Statuses, Held
<1> QED
  BY <1>1, <1>2 DEF Edges

\* The worker state r is in order once the step is taken.
AskedNext(r) ==
  r.op = "report" /\ r.say = "canceled" => status'[r.task] \notin {"pending", "claimed", "running"}

LEMMA RequestOfType ==
  ASSUME NEW w \in Workers, NEW r \in WorkerState, FitsR(r)
  PROVE  /\ RequestOf(w, r) \subseteq Request
         /\ \A m \in RequestOf(w, r) :
              m.op = r.op /\ m.task = r.task /\ m.item = r.item /\ m.say = r.say
BY DEF RequestOf, Request, WorkerState, FitsR, Fits, Calls

\* Whatever way a worker moves on, it and its requests keep making sense.
LEMMA WorkersStay ==
  ASSUME RowsOK, WorkersOK, Edges, NEW w \in Workers, NEW r \in WorkerState,
         FitsR(r), AskedNext(r),
         worker' = [worker EXCEPT ![w] = r], wire' \subseteq wire \cup RequestOf(w, r)
  PROVE  WorkersOK'
<1>1. worker' \in [Workers -> WorkerState]
  BY DEF WorkersOK
<1>2. /\ wire' \subseteq Request
      /\ \A m \in wire' : Fits(m.op, m.task, m.item, m.say)
  BY RequestOfType DEF WorkersOK, ReportsFit, FitsR
<1>3. ReportsFit'
  BY <1>2 DEF ReportsFit, WorkersOK, FitsR, Fits
<1>4. \A v \in Workers : worker[v].op = "report" => worker[v].task \in Tasks
  BY DEF WorkersOK, ReportsFit, Fits
<1>5. \A m \in wire : m.op = "report" => m.task \in Tasks
  BY DEF WorkersOK, Request
<1>6. \A v \in Workers : Asked(worker[v].op, worker[v].task, worker[v].say)'
  <2> SUFFICES ASSUME NEW v \in Workers
               PROVE  Asked(worker[v].op, worker[v].task, worker[v].say)'
    OBVIOUS
  <2>1. CASE v = w
    <3>1. worker'[v] = r
      BY <2>1 DEF WorkersOK
    <3> QED
      BY <3>1 DEF Asked, AskedNext
  <2>2. CASE v # w
    <3>1. worker'[v] = worker[v]
      BY <2>2 DEF WorkersOK
    <3>2. Asked(worker[v].op, worker[v].task, worker[v].say)
      BY DEF WorkersOK, StopsAsked
    <3>3. /\ worker'[v].op = "report" => status'[worker'[v].task] = status'[worker[v].task]
          /\ worker[v].op = "report" => worker[v].task \in Tasks
      BY <1>4, <3>1
    <3>4. \A u \in Tasks : status[u] \notin {"pending", "claimed", "running"}
                        => status'[u] \notin {"pending", "claimed", "running"}
      BY AskedStays DEF Asked
    <3> QED
      BY <3>1, <3>2, <3>3, <3>4 DEF Asked
  <2> QED
    BY <2>1, <2>2
<1>7. \A m \in wire' : Asked(m.op, m.task, m.say)'
  <2>1. \A u \in Tasks : status[u] \notin {"pending", "claimed", "running"}
                      => status'[u] \notin {"pending", "claimed", "running"}
    BY AskedStays DEF Asked
  <2>2. ASSUME NEW m \in wire
        PROVE  Asked(m.op, m.task, m.say)'
    BY <1>5, <2>1 DEF Asked, WorkersOK, StopsAsked
  <2>3. ASSUME NEW m \in RequestOf(w, r)
        PROVE  Asked(m.op, m.task, m.say)'
    BY RequestOfType DEF Asked, AskedNext
  <2> QED
    BY <2>2, <2>3
<1> QED
  BY <1>1, <1>2, <1>3, <1>6, <1>7 DEF WorkersOK, StopsAsked

\* A step the workers take no part in.
LEMMA WorkersIdle ==
  ASSUME RowsOK, WorkersOK, Edges, UNCHANGED worker, wire' \subseteq wire
  PROVE  WorkersOK'
<1>1. \A u \in Tasks : status[u] \notin {"pending", "claimed", "running"}
                    => status'[u] \notin {"pending", "claimed", "running"}
  BY AskedStays DEF Asked
<1>2. \A v \in Workers : worker[v].op = "report" => worker[v].task \in Tasks
  BY DEF WorkersOK, ReportsFit, Fits
<1>3. \A m \in wire : m.op = "report" => m.task \in Tasks
  BY DEF WorkersOK, Request
<1>4. StopsAsked'
  BY <1>1, <1>2, <1>3 DEF WorkersOK, StopsAsked, Asked
<1>5. ReportsFit'
  BY DEF WorkersOK, ReportsFit, Fits
<1> QED
  BY <1>4, <1>5 DEF WorkersOK

LEMMA AbandonStays ==
  ASSUME RowsOK, WorkersOK, Edges, NEW w \in Workers, NEW r \in WorkerState,
         FitsR(r), AskedNext(r), Abandon(w, r)
  PROVE  WorkersOK'
<1>1. worker' = [worker EXCEPT ![w] = r] /\ wire' \subseteq wire \cup RequestOf(w, r)
  BY DEF Abandon
<1> QED
  BY <1>1, WorkersStay

LEMMA AnswerStays ==
  ASSUME RowsOK, WorkersOK, Edges, NEW m \in wire, NEW r,
         Awaited(m) => r \in WorkerState /\ FitsR(r) /\ AskedNext(r),
         Answer(m, r)
  PROVE  WorkersOK'
<1>1. m.by \in Workers
  BY DEF WorkersOK, Request
<1>2. CASE Awaited(m)
  BY <1>1, <1>2, WorkersStay DEF Answer
<1>3. CASE ~Awaited(m)
  BY <1>3, WorkersIdle DEF Answer
<1> QED
  BY <1>2, <1>3

-----------------------------------------------------------------------------
(* What each operation does to the rows                                    *)

SafeRows == RowsOK' /\ Edges

LEMMA UnchangedRows ==
  ASSUME RowsOK, UNCHANGED <<kind, rowVars>>
  PROVE  SafeRows
BY DEF RowsOK, rowVars, SafeRows, Edges

LEMMA FailAuthorizationSafe ==
  ASSUME RowsOK, NEW t \in Tasks, status[t] \in Held \cup {"pending"},
         FailAuthorization(t), UNCHANGED kind
  PROVE  SafeRows
<1>1. Edge(status[t], "failed") /\ "failed" \in Statuses
  BY HeldEdges DEF Statuses, Terminal
<1> QED
  BY <1>1, FailAuthorizationRows DEF SafeRows, Edges

\* A status change along an edge, with the rest of the rows typed.
LEMMA StatusStep ==
  ASSUME RowsOK, NEW t \in Tasks, NEW s \in Statuses, NEW r \in Statuses \cup {"queued"},
         Edge(status[t], s), SetStatus(t, s, r), UNCHANGED kind,
         holder' \in [Tasks -> Workers \cup {NoWorker}],
         lease' \in [Tasks -> {"fresh", "due", "lapsed"}],
         item' \in [Tasks -> [Items -> ItemStatuses]],
         tally' \in [Tasks -> [Counted -> 0 .. NItems]]
  PROVE  SafeRows
<1>1. /\ status' \in [Tasks -> Statuses]
      /\ run' \in [Tasks -> Statuses \cup {"queued"}]
  BY SetStatusType
<1>2. RowsOK'
  BY <1>1 DEF RowsOK
<1>3. status' = [status EXCEPT ![t] = s]
  BY DEF SetStatus
<1> QED
  BY <1>2, <1>3 DEF SafeRows, Edges

LEMMA LeaseType ==
  ASSUME RowsOK, NEW t \in Tasks, NEW l \in {"fresh", "due", "lapsed"}, SetLease(t, l)
  PROVE  lease' \in [Tasks -> {"fresh", "due", "lapsed"}]
BY DEF SetLease, RowsOK

LEMMA StartedSafe ==
  ASSUME RowsOK, NEW t \in Tasks, status[t] \in Held, Started(t), UNCHANGED kind
  PROVE  SafeRows
<1>1. CASE status[t] = "stopping"
  BY <1>1, UnchangedRows DEF Started, rowVars
<1>2. CASE status[t] # "stopping"
  <2>1. Edge(status[t], "running") /\ "running" \in Statuses
    BY <1>2 DEF Held, Edge, Statuses
  <2>2. SetStatus(t, "running", "running") /\ SetLease(t, "fresh")
    BY <1>2 DEF Started
  <2>3. lease' \in [Tasks -> {"fresh", "due", "lapsed"}]
    BY <2>2, LeaseType
  <2>4. UNCHANGED <<holder, item, tally>>
    BY DEF Started
  <2> QED
    BY <2>1, <2>2, <2>3, <2>4, StatusStep DEF RowsOK
<1> QED
  BY <1>1, <1>2

LEMMA StartItemSafe ==
  ASSUME RowsOK, NEW t \in Tasks, NEW i \in Items, StartItem(t, i), UNCHANGED kind
  PROVE  SafeRows
<1>1. [item[t] EXCEPT ![i] = "running"] \in [Items -> ItemStatuses]
  BY DEF RowsOK, ItemStatuses
<1>2. item' \in [Tasks -> [Items -> ItemStatuses]]
  BY <1>1 DEF RowsOK, StartItem
<1>3. UNCHANGED <<status, holder, lease, run, tally>>
  BY DEF StartItem
<1> QED
  BY <1>2, <1>3 DEF RowsOK, SafeRows, Edges

LEMMA CompleteItemSafe ==
  ASSUME RowsOK, NEW t \in Tasks, NEW i \in Items, NEW v \in Verdicts \cup {"skipped"},
         CompleteItem(t, i, v), UNCHANGED kind
  PROVE  SafeRows
<1>1. [item[t] EXCEPT ![i] = v] \in [Items -> ItemStatuses]
  BY DEF RowsOK, ItemStatuses, Verdicts, Terminal
<1>2. /\ item' \in [Tasks -> [Items -> ItemStatuses]]
      /\ tally' \in [Tasks -> [Counted -> 0 .. NItems]]
  <2>1. CASE UNCHANGED <<item, tally>>
    BY <2>1 DEF RowsOK
  <2>2. CASE SetItems(t, [item[t] EXCEPT ![i] = v])
    BY <1>1, <2>2, SetItemsType
  <2> QED
    BY <2>1, <2>2 DEF CompleteItem
<1>3. UNCHANGED <<status, holder, lease, run>>
  BY DEF CompleteItem
<1> QED
  BY <1>2, <1>3 DEF RowsOK, SafeRows, Edges

LEMMA CompleteSafe ==
  ASSUME RowsOK, NEW t \in Tasks, status[t] \in Held, NEW v \in Verdicts \cup {"canceled"},
         v = "canceled" => status[t] = "stopping", Complete(t, v), UNCHANGED kind
  PROVE  SafeRows
<1> DEFINE final == FinalStatus(t, v)
           f == IF final = "canceled" THEN ItemsAfter(t, "canceled") ELSE item[t]
<1>1. final \in Terminal /\ Edge(status[t], final)
  BY DEF FinalStatus, Held, Edge, Verdicts, Terminal
<1>2. f \in [Items -> ItemStatuses]
  BY ItemsAfterType DEF RowsOK
<1>3. RunVerdict(t, final, f) \in Terminal
  BY <1>1, RunVerdictType
<1>4. /\ SetStatus(t, final, RunVerdict(t, final, f))
      /\ SetLease(t, "fresh")
      /\ UNCHANGED holder
      /\ SetItems(t, f) \/ UNCHANGED <<item, tally>>
  BY DEF Complete
<1> HIDE DEF final, f
<1>5. /\ item' \in [Tasks -> [Items -> ItemStatuses]]
      /\ tally' \in [Tasks -> [Counted -> 0 .. NItems]]
  BY <1>2, <1>4, SetItemsType DEF RowsOK
<1>6. lease' \in [Tasks -> {"fresh", "due", "lapsed"}]
  BY <1>4, LeaseType
<1>7. final \in Statuses /\ RunVerdict(t, final, f) \in Statuses
  BY <1>1, <1>3 DEF Statuses
<1> QED
  BY <1>1, <1>4, <1>5, <1>6, <1>7, StatusStep DEF RowsOK

-----------------------------------------------------------------------------
(* Every step                                                              *)

LEMMA Typed ==
  ASSUME IInv
  PROVE  RowsOK /\ WorkersOK
BY DEF IInv, TypeOK, RowsOK, WorkersOK

Good ==
  /\ SafeRows
  /\ WorkersOK'
  /\ granted' \in [Tasks -> BOOLEAN]
  /\ done' \in [Tasks -> [Items -> Verdicts \cup {"none"}]]

LEMMA HandleGood ==
  ASSUME IInv, NEW m \in wire, Handle(m)
  PROVE  Good
<1>0. RowsOK /\ WorkersOK
  BY Typed
<1> DEFINE r == worker[m.by]
<1>1. /\ m.by \in Workers /\ m.task \in Tasks /\ r \in WorkerState /\ FitsR(r)
      /\ Fits(m.op, m.task, m.item, m.say) /\ m.op \in Calls /\ m.say \in Says
  BY <1>0 DEF WorkersOK, Request, ReportsFit, FitsR
<1>2. Awaited(m) => r.op \in Calls /\ r.op # "idle"
  BY DEF Awaited, RequestOf, Calls
<1>3. UNCHANGED <<kind, granted, done>>
  BY DEF Handle, Accept, Unauthorized, Refuse
<1> HIDE DEF r
<1>4. CASE Accept(m)
  <2>1. status[m.task] \in Held
    BY <1>4 DEF Accept, Accepted
  <2>2. SafeRows
    <3>1. CASE m.op = "started" /\ Started(m.task)
      BY <1>0, <1>1, <1>3, <2>1, <3>1, StartedSafe
    <3>2. CASE m.op = "snapshot" /\ UNCHANGED rowVars
      BY <1>0, <1>3, <3>2, UnchangedRows
    <3>3. CASE m.op = "itemStart" /\ StartItem(m.task, m.item)
      BY <1>0, <1>1, <1>3, <3>3, StartItemSafe DEF Fits
    <3>4. CASE m.op = "itemDone" /\ CompleteItem(m.task, m.item, m.say)
      <4>1. m.item \in Items /\ m.say \in Verdicts \cup {"skipped"}
        BY <1>1, <3>4 DEF Fits
      <4> QED
        BY <1>0, <1>1, <1>3, <3>4, <4>1, CompleteItemSafe
    <3>5. CASE m.op \in {"complete", "report"} /\ Complete(m.task, m.say)
      <4>1. m.say \in Verdicts \cup {"canceled"}
        BY <1>1, <3>5 DEF Fits, Verdicts
      <4>2. m.say = "canceled" => status[m.task] = "stopping"
        BY <1>0, <1>1, <2>1, <3>5 DEF WorkersOK, StopsAsked, Asked, Fits, Verdicts, Held
      <4> QED
        BY <1>0, <1>1, <1>3, <2>1, <3>5, <4>1, <4>2, CompleteSafe
    <3> QED
      BY <1>4, <3>1, <3>2, <3>3, <3>4, <3>5 DEF Accept
  <2>3. Awaited(m) => /\ Proceed(r) \in WorkerState /\ FitsR(Proceed(r))
                      /\ AskedNext(Proceed(r))
    BY <1>1, <1>2, ProceedType DEF AskedNext
  <2>4. Answer(m, Proceed(r))
    BY <1>4 DEF Accept, r
  <2>5. WorkersOK'
    BY <1>0, <2>2, <2>3, <2>4, AnswerStays DEF SafeRows
  <2> QED
    BY <1>3, <2>2, <2>5 DEF Good, IInv, TypeOK
<1>5. CASE Unauthorized(m) \/ Refuse(m)
  <2>1. SafeRows
    <3>1. CASE Unauthorized(m)
      BY <1>0, <1>1, <1>3, <3>1, FailAuthorizationSafe DEF Unauthorized
    <3>2. CASE Refuse(m)
      BY <1>0, <1>3, <3>2, UnchangedRows DEF Refuse
    <3> QED
      BY <1>5, <3>1, <3>2
  <2>2. Awaited(m) => /\ Fail(r) \in WorkerState /\ FitsR(Fail(r))
                      /\ AskedNext(Fail(r))
    BY <1>1, <1>2, FailType DEF AskedNext
  <2>3. Answer(m, Fail(r))
    BY <1>5 DEF Unauthorized, Refuse, r
  <2>4. WorkersOK'
    BY <1>0, <2>1, <2>2, <2>3, AnswerStays DEF SafeRows
  <2> QED
    BY <1>3, <2>1, <2>4 DEF Good, IInv, TypeOK
<1> QED
  BY <1>4, <1>5 DEF Handle

\* The steps about a task that no worker hears of.
LEMMA TaskGood ==
  ASSUME IInv, NEW t \in Tasks,
         \/ ClaimRefused(t) \/ ExpireLeases(t) \/ StopRun(t) \/ RevokeExecutions(t)
         \/ AccessChanges(t) \/ FinishDebug(t) \/ Age(t)
  PROVE  Good
<1>0. RowsOK /\ WorkersOK
  BY Typed
<1>1. UNCHANGED <<kind, worker, wire, done>>
  BY DEF ClaimRefused, ExpireLeases, StopRun, RevokeExecutions, AccessChanges, FinishDebug, Age
<1>2. granted' \in [Tasks -> BOOLEAN]
  BY DEF ClaimRefused, ExpireLeases, StopRun, RevokeExecutions, AccessChanges, FinishDebug, Age,
         IInv, TypeOK
<1>3. SafeRows
  <2>1. CASE ClaimRefused(t)
    BY <1>0, <2>1, FailAuthorizationSafe DEF ClaimRefused
  <2>2. CASE ExpireLeases(t)
    <3> DEFINE f == ItemsAfter(t, "error")
               v == RunVerdict(t, "error", f)
    <3>1. f \in [Items -> ItemStatuses]
      BY <1>0, ItemsAfterType
    <3>2. "error" \in Terminal /\ "error" \in Statuses /\ Edge(status[t], "error")
      BY <2>2 DEF ExpireLeases, Terminal, Statuses, Edge, Held
    <3>3. v \in Statuses
      BY <3>2, RunVerdictType DEF Statuses
    <3>4. SetItems(t, f) /\ SetStatus(t, "error", v) /\ SetLease(t, "fresh") /\ UNCHANGED holder
      BY <2>2 DEF ExpireLeases
    <3> HIDE DEF f, v
    <3>5. /\ item' \in [Tasks -> [Items -> ItemStatuses]]
          /\ tally' \in [Tasks -> [Counted -> 0 .. NItems]]
      BY <1>0, <3>1, <3>4, SetItemsType
    <3>6. lease' \in [Tasks -> {"fresh", "due", "lapsed"}]
      BY <1>0, <3>4, LeaseType
    <3> QED
      BY <1>0, <1>1, <3>2, <3>3, <3>4, <3>5, <3>6, StatusStep DEF RowsOK
  <2>3. CASE StopRun(t)
    <3>1. UNCHANGED <<lease, holder>>
      BY <2>3 DEF StopRun
    <3>2. CASE status[t] = "pending"
      <4>1. /\ SetStatus(t, "canceled", "canceled")
            /\ SetItems(t, [i \in Items |-> "skipped"]) \/ UNCHANGED <<item, tally>>
        BY <2>3, <3>2 DEF StopRun
      <4>2. [i \in Items |-> "skipped"] \in [Items -> ItemStatuses]
        BY DEF ItemStatuses
      <4>3. /\ item' \in [Tasks -> [Items -> ItemStatuses]]
            /\ tally' \in [Tasks -> [Counted -> 0 .. NItems]]
        BY <1>0, <4>1, <4>2, SetItemsType DEF RowsOK
      <4>4. Edge(status[t], "canceled") /\ "canceled" \in Statuses
        BY <3>2 DEF Edge, Statuses, Terminal
      <4> QED
        BY <1>0, <1>1, <3>1, <4>1, <4>3, <4>4, StatusStep DEF RowsOK
    <3>3. CASE status[t] # "pending"
      <4>1. /\ status[t] \in {"claimed", "running"}
            /\ SetStatus(t, "stopping", "stopping")
            /\ UNCHANGED <<item, tally>>
        BY <2>3, <3>3 DEF StopRun
      <4>2. Edge(status[t], "stopping") /\ "stopping" \in Statuses
        BY <4>1 DEF Edge, Statuses, Held
      <4> QED
        BY <1>0, <1>1, <3>1, <4>1, <4>2, StatusStep DEF RowsOK
    <3> QED
      BY <3>2, <3>3
  <2>4. CASE RevokeExecutions(t)
    <3>1. CASE status[t] \in {"pending", "claimed", "running"}
      BY <1>0, <1>1, <2>4, <3>1, FailAuthorizationSafe DEF RevokeExecutions, Held
    <3>2. CASE status[t] \notin {"pending", "claimed", "running"}
      BY <1>0, <1>1, <2>4, <3>2, UnchangedRows DEF RevokeExecutions
    <3> QED
      BY <3>1, <3>2
  <2>5. CASE AccessChanges(t)
    BY <1>0, <1>1, <2>5, UnchangedRows DEF AccessChanges
  <2>6. CASE FinishDebug(t)
    <3>1. SetStatus(t, "gone", "gone") /\ UNCHANGED <<holder, lease, item, tally>>
      BY <2>6 DEF FinishDebug
    <3>2. Edge(status[t], "gone") /\ "gone" \in Statuses
      BY <2>6 DEF FinishDebug, Edge, Statuses
    <3> QED
      BY <1>0, <1>1, <3>1, <3>2, StatusStep DEF RowsOK
  <2>7. CASE Age(t)
    <3>1. lease' \in [Tasks -> {"fresh", "due", "lapsed"}]
      BY <1>0, <2>7, LeaseType DEF Age
    <3> QED
      BY <1>0, <1>1, <2>7, <3>1 DEF Age, SafeRows, RowsOK, Edges
  <2> QED
    BY <2>1, <2>2, <2>3, <2>4, <2>5, <2>6, <2>7
<1>4. WorkersOK'
  BY <1>0, <1>1, <1>3, WorkersIdle DEF SafeRows
<1> QED
  BY <1>1, <1>2, <1>3, <1>4 DEF Good, IInv, TypeOK

LEMMA ClaimGood ==
  ASSUME IInv, NEW w \in Workers, NEW t \in Tasks, Claim(w, t)
  PROVE  Good
<1>0. RowsOK /\ WorkersOK
  BY Typed
<1> DEFINE queued == IF kind[t] = "suite" THEN run[t] ELSE "queued"
           r == [Idle EXCEPT !.task = t, !.op = "started"]
<1>1. UNCHANGED <<kind, item, tally, granted, done>>
  BY DEF Claim
<1>2. SafeRows
  <2>1. Edge(status[t], "claimed") /\ "claimed" \in Statuses
    BY DEF Claim, Edge, Statuses, Held
  <2>2. queued \in Statuses \cup {"queued"}
    BY <1>0 DEF RowsOK
  <2>3. SetStatus(t, "claimed", queued) /\ SetLease(t, "fresh")
    BY DEF Claim
  <2> HIDE DEF queued
  <2>4. lease' \in [Tasks -> {"fresh", "due", "lapsed"}]
    BY <1>0, <2>3, LeaseType
  <2>5. holder' \in [Tasks -> Workers \cup {NoWorker}]
    BY <1>0 DEF Claim, RowsOK
  <2> QED
    BY <1>0, <1>1, <2>1, <2>2, <2>3, <2>4, <2>5, StatusStep DEF RowsOK
<1>3. r \in WorkerState /\ FitsR(r) /\ r.op = "started"
  <2>1. 0 \in 0 .. NItems
    BY WorkerTaskAssumption
  <2> QED
    BY <2>1 DEF Idle, WorkerState, FitsR, Fits, Says, Verdicts, Calls
<1>4. WorkersOK'
  <2>1. CASE GoOn(w, r)
    <3>1. /\ worker' = [worker EXCEPT ![w] = r]
          /\ wire' = wire \cup RequestOf(w, r)
      BY <2>1 DEF GoOn
    <3> HIDE DEF r
    <3>2. AskedNext(r)
      BY <1>3 DEF AskedNext
    <3> QED
      BY <1>0, <1>2, <1>3, <3>1, <3>2, WorkersStay DEF SafeRows
  <2>2. CASE UNCHANGED <<worker, wire>>
    BY <1>0, <1>2, <2>2, WorkersIdle DEF SafeRows
  <2> QED
    BY <2>1, <2>2 DEF Claim
<1> QED
  BY <1>1, <1>2, <1>4 DEF Good, IInv, TypeOK

LEMMA ExecuteGood ==
  ASSUME IInv, NEW w \in Workers, NEW v \in Verdicts, Execute(w, v)
  PROVE  Good
<1>0. RowsOK /\ WorkersOK
  BY Typed
<1> DEFINE r == worker[w]
           next == [r EXCEPT !.op = "itemDone", !.say = v, !.worst = Worse(r.worst, v),
                             !.halted = r.halted \/ (v # "success" /\ r.item \notin Continues)]
<1>1. UNCHANGED <<kind, rowVars, granted>> /\ r.op = "execute"
  BY DEF Execute
<1>2. SafeRows
  BY <1>0, <1>1, UnchangedRows
<1>3. r \in WorkerState /\ r.task \in Tasks /\ r.item \in 0 .. NItems
  BY <1>0, <1>1 DEF WorkersOK, ReportsFit, Fits, WorkerState
<1>4. CASE r.item = 0
  <2>1. GoOn(w, Finish(r, v)) /\ UNCHANGED done
    BY <1>4 DEF Execute
  <2> HIDE DEF r
  <2>2. Finish(r, v) \in WorkerState /\ FitsR(Finish(r, v)) /\ Finish(r, v).op = "complete"
    BY <1>3, FinishType
  <2>3. WorkersOK'
    BY <1>0, <1>2, <2>1, <2>2, WorkersStay DEF GoOn, SafeRows, AskedNext
  <2> QED
    BY <1>1, <1>2, <2>1, <2>3 DEF Good, IInv, TypeOK
<1>5. CASE r.item # 0
  <2>1. GoOn(w, next) /\ done' = [done EXCEPT ![r.task] = [done[r.task] EXCEPT ![r.item] = v]]
    BY <1>5 DEF Execute
  <2> HIDE DEF r
  <2>2. r.item \in Items
    BY <1>3, <1>5, WorkerTaskAssumption DEF Items
  <2>3. Worse(r.worst, v) \in Verdicts
    BY <1>3 DEF Worse, WorkerState
  <2>4. next \in WorkerState
    BY <1>3, <2>3 DEF WorkerState, Says, Calls
  <2>5. FitsR(next) /\ next.op = "itemDone"
    BY <1>3, <2>2 DEF FitsR, Fits, WorkerState
  <2> HIDE DEF next
  <2>6. WorkersOK'
    BY <1>0, <1>2, <2>1, <2>4, <2>5, WorkersStay DEF GoOn, SafeRows, AskedNext
  <2>7. done' \in [Tasks -> [Items -> Verdicts \cup {"none"}]]
    <3>1. [done[r.task] EXCEPT ![r.item] = v] \in [Items -> Verdicts \cup {"none"}]
      BY <1>3, <2>2 DEF IInv, TypeOK
    <3> QED
      BY <1>3, <2>1, <3>1 DEF IInv, TypeOK
  <2> QED
    BY <1>1, <1>2, <2>6, <2>7 DEF Good, IInv, TypeOK
<1> QED
  BY <1>4, <1>5

LEMMA HeartbeatGood ==
  ASSUME IInv, NEW w \in Workers, Heartbeat(w)
  PROVE  Good
<1>0. RowsOK /\ WorkersOK
  BY Typed
<1> DEFINE t == worker[w].task
<1>1. UNCHANGED <<kind, granted, worker, wire, done>>
  BY DEF Heartbeat
<1>2. t \in Tasks
  BY <1>0 DEF Heartbeat, WorkersOK, ReportsFit, Fits
<1>3. SafeRows
  <2>1. CASE FailAuthorization(t) /\ status[t] \in Held
    BY <1>0, <1>1, <1>2, <2>1, FailAuthorizationSafe
  <2>2. CASE SetLease(t, "fresh") /\ UNCHANGED <<status, holder, run, item, tally>>
    <3>1. lease' \in [Tasks -> {"fresh", "due", "lapsed"}]
      BY <1>0, <1>2, <2>2, LeaseType
    <3> QED
      BY <1>0, <1>1, <2>2, <3>1 DEF SafeRows, RowsOK, Edges
  <2> QED
    BY <2>1, <2>2 DEF Heartbeat
<1>4. WorkersOK'
  BY <1>0, <1>1, <1>3, WorkersIdle DEF SafeRows
<1> QED
  BY <1>1, <1>3, <1>4 DEF Good, IInv, TypeOK

\* The worker leaves what it is doing.
LEMMA LeaveGood ==
  ASSUME IInv, NEW w \in Workers,
         SeeStop(w) \/ SeeLeaseLost(w) \/ GiveUp(w) \/ Shutdown(w) \/ Crash(w)
  PROVE  Good
<1>0. RowsOK /\ WorkersOK
  BY Typed
<1> DEFINE r == worker[w]
<1>1. UNCHANGED <<kind, granted, done>> /\ r.op # "idle"
  BY DEF SeeStop, SeeLeaseLost, GiveUp, Shutdown, Crash, Running
<1>2. r \in WorkerState /\ r.task \in Tasks /\ FitsR(r)
  BY <1>0, <1>1 DEF WorkersOK, ReportsFit, Fits, FitsR
<1>3. Idle.op # "report" /\ Idle \in WorkerState /\ FitsR(Idle)
  BY IdleType DEF Idle
<1>4. CASE SeeStop(w)
  <2>1. SafeRows
    BY <1>0, <1>1, <1>4, UnchangedRows DEF SeeStop
  <2>2. status'[r.task] = "stopping" /\ Abandon(w, Report(r, "canceled"))
    BY <1>4 DEF SeeStop, rowVars
  <2> HIDE DEF r
  <2>3. /\ Report(r, "canceled") \in WorkerState /\ FitsR(Report(r, "canceled"))
        /\ Report(r, "canceled").task = r.task
    BY <1>2, ReportType
  <2>4. AskedNext(Report(r, "canceled"))
    BY <2>2, <2>3 DEF AskedNext
  <2>5. WorkersOK'
    BY <1>0, <2>1, <2>2, <2>3, <2>4, AbandonStays DEF SafeRows
  <2> QED
    BY <1>1, <2>1, <2>5 DEF Good, IInv, TypeOK
<1>5. CASE SeeLeaseLost(w)
  <2>1. SafeRows
    <3>1. CASE FailAuthorization(r.task) /\ status[r.task] \in Held
      BY <1>0, <1>1, <1>2, <3>1, FailAuthorizationSafe
    <3>2. CASE UNCHANGED rowVars
      BY <1>0, <1>1, <3>2, UnchangedRows
    <3> QED
      BY <1>5, <3>1, <3>2 DEF SeeLeaseLost
  <2>2. Abandon(w, Idle)
    BY <1>5 DEF SeeLeaseLost
  <2>3. WorkersOK'
    BY <1>0, <1>3, <2>1, <2>2, AbandonStays DEF SafeRows, AskedNext
  <2> QED
    BY <1>1, <2>1, <2>3 DEF Good, IInv, TypeOK
<1>6. CASE GiveUp(w) \/ Shutdown(w) \/ Crash(w)
  <2>1. SafeRows
    BY <1>0, <1>1, <1>6, UnchangedRows DEF GiveUp, Shutdown, Crash
  <2>2. Abandon(w, Fail(r)) \/ Abandon(w, Report(r, "error")) \/ Abandon(w, Idle)
    BY <1>6 DEF GiveUp, Shutdown, Crash
  <2> HIDE DEF r
  <2>3. Fail(r) \in WorkerState /\ FitsR(Fail(r)) /\ Fail(r).say # "canceled"
    BY <1>1, <1>2, FailType
  <2>4. /\ Report(r, "error") \in WorkerState /\ FitsR(Report(r, "error"))
        /\ Report(r, "error").say = "error"
    BY <1>2, ReportType
  <2>5. WorkersOK'
    <3>1. CASE Abandon(w, Fail(r))
      BY <1>0, <2>1, <2>3, <3>1, AbandonStays DEF SafeRows, AskedNext
    <3>2. CASE Abandon(w, Report(r, "error"))
      BY <1>0, <2>1, <2>4, <3>2, AbandonStays DEF SafeRows, AskedNext
    <3>3. CASE Abandon(w, Idle)
      BY <1>0, <1>3, <2>1, <3>3, AbandonStays DEF SafeRows, AskedNext
    <3> QED
      BY <2>2, <3>1, <3>2, <3>3
  <2> QED
    BY <1>1, <2>1, <2>5 DEF Good, IInv, TypeOK
<1> QED
  BY <1>4, <1>5, <1>6

\* Every step keeps the invariant and moves a task's status along an edge.
LEMMA StepGood ==
  ASSUME IInv, [Next]_vars
  PROVE  IInv' /\ Edges
<1>1. ASSUME Good
      PROVE  IInv' /\ Edges
  BY <1>1 DEF Good, SafeRows, RowsOK, WorkersOK, IInv, TypeOK
<1>2. ASSUME NEW t \in Tasks, TaskNext(t)
      PROVE  Good
  BY <1>2, ClaimGood, TaskGood DEF TaskNext
<1>3. ASSUME NEW w \in Workers, WorkerNext(w)
      PROVE  Good
  BY <1>3, ExecuteGood, HeartbeatGood, LeaveGood DEF WorkerNext
<1>4. CASE UNCHANGED vars
  <2>1. RowsOK /\ WorkersOK
    BY Typed
  <2>2. SafeRows
    BY <1>4, <2>1, UnchangedRows DEF vars, rowVars
  <2>3. WorkersOK'
    BY <1>4, <2>1, <2>2, WorkersIdle DEF vars, SafeRows
  <2>4. Good
    BY <1>4, <2>2, <2>3 DEF Good, vars, IInv, TypeOK
  <2> QED
    BY <1>1, <2>4
<1> QED
  BY <1>1, <1>2, <1>3, <1>4, HandleGood DEF Next

LEMMA InitGood ==
  ASSUME Init
  PROVE  IInv
<1>1. 0 \in 0 .. NItems
  BY WorkerTaskAssumption
<1>2. TypeOK
  BY <1>1, IdleType DEF Init, TypeOK, Statuses, ItemStatuses
<1>3. ReportsFit /\ StopsAsked
  BY DEF Init, ReportsFit, StopsAsked, Fits, Asked, Idle
<1> QED
  BY <1>2, <1>3 DEF IInv

-----------------------------------------------------------------------------
(* What a step may do to one task's rows *)

Kept(t) ==
  /\ status'[t] = status[t] /\ lease'[t] = lease[t] /\ run'[t] = run[t]
  /\ item'[t] = item[t] /\ tally'[t] = tally[t]

Final(t) ==
  status[t] \in Terminal /\ status'[t] # "gone" =>
    item'[t] = item[t] /\ tally'[t] = tally[t] /\ run'[t] = run[t]

Fenced(t) ==
  status[t] \in Held /\ lease[t] = "lapsed" =>
    \/ status'[t] \in Held /\ item'[t] = item[t] /\ lease'[t] = "lapsed"
    \/ status'[t] \in {"error", "failed"} /\ \A i \in ItemsOf(t) : item'[t][i] \notin Open

Orderly == \A t \in Tasks : Final(t) /\ Fenced(t)

\* A step that touches one task at most is orderly if it is for that task.
LEMMA OneTask ==
  ASSUME RowsOK, NEW t \in Tasks, \A u \in Tasks : u # t => Kept(u), Final(t), Fenced(t)
  PROVE  Orderly
BY DEF Orderly, Kept, Final, Fenced

LEMMA NoTouch ==
  ASSUME UNCHANGED rowVars
  PROVE  Orderly
BY DEF rowVars, Orderly, Final, Fenced

\* Closing the items leaves none open.
LEMMA ItemsAfterClosed ==
  ASSUME RowsOK, NEW t \in Tasks, NEW cut \in {"error", "canceled"}
  PROVE  \A i \in ItemsOf(t) : ItemsAfter(t, cut)[i] \notin Open
BY DEF RowsOK, ItemsOf, ItemsAfter, FinishStoppedItems, Open

\* Lost access ends a task that has not ended.
LEMMA FailAuthorizationOrderly ==
  ASSUME RowsOK, NEW t \in Tasks, FailAuthorization(t), status[t] \notin Terminal
  PROVE  Orderly
<1>1. /\ item' = [item EXCEPT ![t] = ItemsAfter(t, "error")]
      /\ tally' = [tally EXCEPT ![t] = Tally(ItemsAfter(t, "error"))]
      /\ status' = [status EXCEPT ![t] = "failed"]
      /\ run' = [run EXCEPT ![t] = "failed"]
      /\ lease' = [lease EXCEPT ![t] = "lapsed"]
  BY DEF FailAuthorization, SetItems, SetStatus, SetLease
<1>2. \A i \in ItemsOf(t) : ItemsAfter(t, "error")[i] \notin Open
  BY ItemsAfterClosed
<1>3. \A u \in Tasks : u # t => Kept(u)
  BY <1>1 DEF RowsOK, Kept
<1>4. item'[t] = ItemsAfter(t, "error") /\ status'[t] = "failed"
  BY <1>1 DEF RowsOK
<1>5. Final(t)
  BY DEF Final
<1>6. Fenced(t)
  BY <1>2, <1>4 DEF Fenced
<1> QED
  BY <1>3, <1>5, <1>6, OneTask

\* An accepted call finds its task held and, if it writes, its lease valid.
LEMMA AcceptOrderly ==
  ASSUME RowsOK, wire \subseteq Request, NEW m \in wire, Accept(m)
  PROVE  Orderly
<1> DEFINE t == m.task
<1>1. t \in Tasks /\ status[t] \in Held /\ status[t] \notin Terminal
  BY DEF Accept, Accepted, Request, Held, Terminal
<1>2. CASE m.op = "snapshot" /\ UNCHANGED rowVars
  BY <1>2, NoTouch
<1>3. CASE m.op # "snapshot"
  <2>1. lease[t] # "lapsed"
    BY <1>3 DEF Accept, Accepted, EnsureWorkerMatch
  <2>2. Final(t) /\ Fenced(t)
    BY <1>1, <2>1 DEF Final, Fenced
  <2>3. ASSUME NEW u \in Tasks, u # t
        PROVE  Kept(u)
    <3>1. CASE Started(t)
      BY <2>3, <3>1 DEF Started, SetStatus, SetLease, RowsOK, Kept
    <3>2. CASE StartItem(t, m.item)
      BY <2>3, <3>2 DEF StartItem, RowsOK, Kept
    <3>3. CASE CompleteItem(t, m.item, m.say)
      BY <2>3, <3>3 DEF CompleteItem, SetItems, RowsOK, Kept
    <3>4. CASE Complete(t, m.say)
      BY <2>3, <3>4 DEF Complete, SetItems, SetStatus, SetLease, RowsOK, Kept
    <3> QED
      BY <1>3, <3>1, <3>2, <3>3, <3>4 DEF Accept
  <2> QED
    BY <1>1, <2>2, <2>3, OneTask
<1> QED
  BY <1>2, <1>3 DEF Accept

LEMMA HandleOrderly ==
  ASSUME RowsOK, wire \subseteq Request, NEW m \in wire, Handle(m)
  PROVE  Orderly
<1>1. CASE Accept(m)
  BY <1>1, AcceptOrderly
<1>2. CASE Unauthorized(m)
  <2>1. m.task \in Tasks /\ status[m.task] \notin Terminal /\ FailAuthorization(m.task)
    BY <1>2 DEF Unauthorized, Request, Held, Terminal
  <2> QED
    BY <2>1, FailAuthorizationOrderly
<1>3. CASE Refuse(m)
  BY <1>3, NoTouch DEF Refuse
<1> QED
  BY <1>1, <1>2, <1>3 DEF Handle

LEMMA TaskOrderly ==
  ASSUME RowsOK, NEW t \in Tasks, TaskNext(t)
  PROVE  Orderly
<1>1. ASSUME NEW w \in Workers, Claim(w, t)
      PROVE  Orderly
  <2>1. \A u \in Tasks : u # t => Kept(u)
    BY <1>1 DEF Claim, SetStatus, SetLease, RowsOK, Kept
  <2>2. Final(t) /\ Fenced(t)
    BY <1>1 DEF Claim, Final, Fenced, Held, Terminal
  <2> QED
    BY <2>1, <2>2, OneTask
<1>2. CASE ClaimRefused(t)
  BY <1>2, FailAuthorizationOrderly DEF ClaimRefused, Terminal
<1>3. CASE ExpireLeases(t)
  <2> DEFINE f == ItemsAfter(t, "error")
             v == RunVerdict(t, "error", f)
  <2>1. \A i \in ItemsOf(t) : f[i] \notin Open
    BY ItemsAfterClosed
  <2> HIDE DEF f, v
  <2>2. /\ item' = [item EXCEPT ![t] = f]
        /\ tally' = [tally EXCEPT ![t] = Tally(f)]
        /\ status' = [status EXCEPT ![t] = "error"]
        /\ run' = [run EXCEPT ![t] = v]
        /\ lease' = [lease EXCEPT ![t] = "fresh"]
    BY <1>3 DEF ExpireLeases, SetItems, SetStatus, SetLease, f, v
  <2>3. \A u \in Tasks : u # t => Kept(u)
    BY <2>2 DEF RowsOK, Kept
  <2>4. item'[t] = f /\ status'[t] = "error"
    BY <2>2 DEF RowsOK
  <2>5. Final(t) /\ Fenced(t)
    BY <1>3, <2>1, <2>4 DEF ExpireLeases, Final, Fenced, Held, Terminal
  <2> QED
    BY <2>3, <2>5, OneTask
<1>4. CASE StopRun(t)
  <2>1. \A u \in Tasks : u # t => Kept(u)
    BY <1>4 DEF StopRun, SetItems, SetStatus, RowsOK, Kept
  <2>2. Final(t) /\ Fenced(t)
    BY <1>4 DEF StopRun, SetStatus, RowsOK, Final, Fenced, Held, Terminal
  <2> QED
    BY <2>1, <2>2, OneTask
<1>5. CASE RevokeExecutions(t)
  BY <1>5, FailAuthorizationOrderly, NoTouch DEF RevokeExecutions, Terminal
<1>6. CASE AccessChanges(t)
  BY <1>6, NoTouch DEF AccessChanges
<1>7. CASE FinishDebug(t)
  <2>1. \A u \in Tasks : u # t => Kept(u)
    BY <1>7 DEF FinishDebug, SetStatus, RowsOK, Kept
  <2>2. Final(t) /\ Fenced(t)
    BY <1>7 DEF FinishDebug, SetStatus, RowsOK, Final, Fenced, Held, Terminal
  <2> QED
    BY <2>1, <2>2, OneTask
<1>8. CASE Age(t)
  <2>1. \A u \in Tasks : u # t => Kept(u)
    BY <1>8 DEF Age, SetLease, RowsOK, Kept
  <2>2. Final(t) /\ Fenced(t)
    BY <1>8 DEF Age, Final, Fenced
  <2> QED
    BY <2>1, <2>2, OneTask
<1> QED
  BY <1>1, <1>2, <1>3, <1>4, <1>5, <1>6, <1>7, <1>8 DEF TaskNext

LEMMA WorkerOrderly ==
  ASSUME RowsOK, WorkersOK, NEW w \in Workers, WorkerNext(w)
  PROVE  Orderly
<1> DEFINE t == worker[w].task
<1>1. worker[w].op # "idle" => t \in Tasks
  BY DEF WorkersOK, ReportsFit, Fits
<1>2. CASE \E v \in Verdicts : Execute(w, v)
  BY <1>2, NoTouch DEF Execute
<1>3. CASE Heartbeat(w)
  <2>1. CASE FailAuthorization(t) /\ status[t] \in Held
    BY <1>1, <1>3, <2>1, FailAuthorizationOrderly DEF Heartbeat, Held, Terminal
  <2>2. CASE /\ status[t] \in Held /\ EnsureWorkerMatch(w, t) /\ SetLease(t, "fresh")
             /\ UNCHANGED <<status, holder, run, item, tally>>
    <3>1. t \in Tasks
      BY <1>1, <1>3 DEF Heartbeat
    <3>2. \A u \in Tasks : u # t => Kept(u)
      BY <2>2 DEF SetLease, RowsOK, Kept
    <3>3. Final(t) /\ Fenced(t)
      BY <2>2 DEF EnsureWorkerMatch, Final, Fenced
    <3> QED
      BY <3>1, <3>2, <3>3, OneTask
  <2> QED
    BY <1>3, <2>1, <2>2 DEF Heartbeat
<1>4. CASE SeeLeaseLost(w)
  <2>1. CASE FailAuthorization(t) /\ status[t] \in Held
    BY <1>1, <1>4, <2>1, FailAuthorizationOrderly DEF SeeLeaseLost, Running, Held, Terminal
  <2> QED
    BY <1>4, <2>1, NoTouch DEF SeeLeaseLost
<1>5. CASE SeeStop(w) \/ GiveUp(w) \/ Shutdown(w) \/ Crash(w)
  BY <1>5, NoTouch DEF SeeStop, GiveUp, Shutdown, Crash
<1> QED
  BY <1>2, <1>3, <1>4, <1>5 DEF WorkerNext

LEMMA StepOrderly ==
  ASSUME IInv, [Next]_vars
  PROVE  Orderly
<1>1. RowsOK /\ WorkersOK
  BY Typed
<1>2. CASE UNCHANGED vars
  BY <1>2, NoTouch DEF vars, rowVars
<1> QED
  BY <1>1, <1>2, TaskOrderly, WorkerOrderly, HandleOrderly DEF Next, WorkersOK

-----------------------------------------------------------------------------
(* The results                                                             *)

\* Every row, worker and request keeps its type, whatever is lost or late.
THEOREM TypeCorrect == SafeSpec => []TypeOK
<1>1. Init => IInv
  BY InitGood
<1>2. IInv /\ [Next]_vars => IInv'
  BY StepGood
<1>3. IInv => TypeOK
  BY DEF IInv
<1> QED
  BY <1>1, <1>2, <1>3, PTL DEF SafeSpec

\* The queue implements the safety part of TaskLife: a task is taken once,
\* a stop is final, only a stop cancels, an end is an end.
THEOREM ImplementsLife == SafeSpec => Life!SafeSpec
<1> DEFINE Seen(s) == CASE s = "pending" -> "waiting"
                        [] s \in {"claimed", "running"} -> "executing"
                        [] OTHER -> s
           seen == [t \in Tasks |-> CASE status[t] = "pending" -> "waiting"
                                      [] status[t] \in {"claimed", "running"} -> "executing"
                                      [] OTHER -> status[t]]
<1>1. Init => IInv /\ Life!Init
  <2>1. Init => Life!Init
    BY DEF Init, Life!Init
  <2> QED
    BY <2>1, InitGood
<1>2. IInv /\ [Next]_vars => IInv' /\ [Life!Next]_(seen)
  <2> SUFFICES ASSUME IInv, [Next]_vars
               PROVE  IInv' /\ [Life!Next]_(seen)
    OBVIOUS
  <2>1. IInv' /\ Edges
    BY StepGood
  <2>2. CASE UNCHANGED status
    BY <2>1, <2>2
  <2>3. ASSUME NEW t \in Tasks, NEW s \in Statuses, Edge(status[t], s),
               status' = [status EXCEPT ![t] = s]
        PROVE  [Life!Next]_(seen)
    <3>0. status \in [Tasks -> Statuses]
      BY DEF IInv, TypeOK
    <3>1. seen' = [seen EXCEPT ![t] = Seen(s)]
      BY <2>3, <3>0
    <3>2. seen[t] = Seen(status[t])
      OBVIOUS
    <3>3. \/ Seen(s) = seen[t]
          \/ seen[t] = "waiting" /\ Seen(s) \in {"executing", "canceled", "failed"}
          \/ seen[t] = "executing" /\ Seen(s) \in {"stopping", "success", "failed", "error"}
          \/ seen[t] = "stopping" /\ Seen(s) \in {"canceled", "failed", "error"}
          \/ seen[t] \in Terminal /\ Seen(s) = "gone"
      BY <2>3, <3>2 DEF Edge, Terminal
    <3> HIDE DEF Seen
    <3>4. CASE Seen(s) = seen[t]
      BY <3>1, <3>4
    <3>5. CASE Seen(s) # seen[t]
      <4> HIDE DEF seen
      <4>1. \/ Life!Take(t) \/ Life!Withdraw(t) \/ Life!AskStop(t) \/ Life!End(t)
            \/ Life!Forget(t)
        BY <3>1, <3>3, <3>5
           DEF Life!Take, Life!Withdraw, Life!AskStop, Life!End, Life!Forget, Life!Become,
               Life!Finished, Life!Stopped, Terminal, seen
      <4> QED
        BY <4>1 DEF Life!Next
    <3> QED
      BY <3>4, <3>5
  <2> QED
    BY <2>1, <2>2, <2>3 DEF Edges
<1> QED
  BY <1>1, <1>2, PTL DEF SafeSpec, Life!SafeSpec

\* The report of an ended task is closed: no late start, item result or
\* completion changes its items, counts or run.
THEOREM ReportClosed == SafeSpec => ReportIsFinal
<1>1. IInv /\ [Next]_vars => Orderly
  BY StepOrderly
<1>2. Orderly => \A t \in Tasks : status[t] \in Terminal /\ status'[t] # "gone" =>
                   /\ item'[t] = item[t]
                   /\ tally'[t] = tally[t]
                   /\ run'[t] = run[t]
  BY DEF Orderly, Final
<1>3. Init => IInv
  BY InitGood
<1>4. IInv /\ [Next]_vars => IInv'
  BY StepGood
<1> QED
  BY <1>1, <1>2, <1>3, <1>4, PTL DEF SafeSpec, ReportIsFinal

\* A worker whose lease ran out records nothing, renews nothing and settles
\* nothing.
THEOREM LapsedWritesNothing == SafeSpec => LapsedHolderWritesNothing
<1>1. IInv /\ [Next]_vars => Orderly
  BY StepOrderly
<1>2. Orderly =>
        \A t \in Tasks : status[t] \in Held /\ lease[t] = "lapsed" =>
          \/ status'[t] \in Held /\ item'[t] = item[t] /\ lease'[t] = "lapsed"
          \/ status'[t] \in {"error", "failed"} /\ \A i \in ItemsOf(t) : item'[t][i] \notin Open
  BY DEF Orderly, Fenced
<1>3. Init => IInv
  BY InitGood
<1>4. IInv /\ [Next]_vars => IInv'
  BY StepGood
<1> QED
  BY <1>1, <1>2, <1>3, <1>4, PTL DEF SafeSpec, LapsedHolderWritesNothing

-----------------------------------------------------------------------------
(* A report is earned and adds up: one task's rows                         *)

RowGood(t) ==
  /\ status[t] = "pending" => \A i \in Items : done[t][i] = "none" /\ item[t][i] = "pending"
  /\ Underway(t) => run[t] \notin Terminal
  /\ \A i \in ItemsOf(t) :
       /\ item[t][i] \in {"success", "failed"} => done[t][i] = item[t][i]
       /\ status[t] = "success" => Earned(t, i)
  /\ kind[t] # "debug" => tally[t] = Tally(item[t])
  /\ status[t] \in Terminal \ {"error"} => \A i \in ItemsOf(t) : item[t][i] \notin Open
  /\ status[t] \in {"pending", "running", "stopping", "canceled", "failed", "gone"} =>
       run[t] = status[t]
  /\ status[t] \in Terminal => run[t] \in Terminal
  /\ kind[t] # "collection" /\ status[t] \in Terminal => run[t] = status[t]

RowsGood == \A t \in Tasks : RowGood(t)

LEMMA RowsTogether == RowsGood <=> RowsInv /\ TaskIsEarned /\ ReportAddsUp
<1>1. ASSUME NEW t \in Tasks, RowGood(t)
      PROVE  /\ status[t] = "pending" => \A i \in Items : done[t][i] = "none" /\ item[t][i] = "pending"
             /\ Underway(t) => run[t] \notin Terminal
  BY <1>1 DEF RowGood
<1>2. ASSUME NEW t \in Tasks, RowGood(t), NEW i \in ItemsOf(t)
      PROVE  /\ item[t][i] \in {"success", "failed"} => done[t][i] = item[t][i]
             /\ status[t] = "success" => Earned(t, i)
  BY <1>2 DEF RowGood
<1>3. RowsGood => ReportAddsUp
  BY DEF RowsGood, RowGood, ReportAddsUp
<1>4. ASSUME RowsInv, TaskIsEarned, ReportAddsUp, NEW t \in Tasks PROVE RowGood(t)
  <2>1. \A i \in ItemsOf(t) :
          /\ item[t][i] \in {"success", "failed"} => done[t][i] = item[t][i]
          /\ status[t] = "success" => Earned(t, i)
    BY <1>4 DEF TaskIsEarned, Earned
  <2>2. /\ status[t] = "pending" => \A i \in Items : done[t][i] = "none" /\ item[t][i] = "pending"
        /\ Underway(t) => run[t] \notin Terminal
    BY <1>4 DEF RowsInv
  <2>3. /\ kind[t] # "debug" => tally[t] = Tally(item[t])
        /\ status[t] \in Terminal \ {"error"} => \A i \in ItemsOf(t) : item[t][i] \notin Open
        /\ status[t] \in {"pending", "running", "stopping", "canceled", "failed", "gone"} =>
             run[t] = status[t]
        /\ status[t] \in Terminal => run[t] \in Terminal
        /\ kind[t] # "collection" /\ status[t] \in Terminal => run[t] = status[t]
    BY <1>4 DEF ReportAddsUp
  <2> QED
    BY ONLY <2>1, <2>2, <2>3 DEF RowGood
<1>5. RowsGood => RowsInv
  BY <1>1 DEF RowsGood, RowsInv
<1>6. RowsGood => TaskIsEarned
  BY <1>2 DEF RowsGood, TaskIsEarned, Earned
<1> QED
  BY <1>3, <1>4, <1>5, <1>6 DEF RowsGood

Still(t) ==
  /\ status'[t] = status[t] /\ run'[t] = run[t] /\ item'[t] = item[t] /\ tally'[t] = tally[t]
  /\ holder'[t] = holder[t]

LEMMA StillGood ==
  ASSUME NEW t \in Tasks, RowGood(t), Still(t), kind'[t] = kind[t], done'[t] = done[t]
  PROVE  RowGood(t)'
BY DEF RowGood, Still, Underway, Earned, ItemsOf

\* A task that ends other than by a success, with its items closed or after an error.
LEMMA EndGood ==
  ASSUME NEW t \in Tasks, RowGood(t), kind'[t] = kind[t], done'[t] = done[t],
         status'[t] \in {"failed", "error", "canceled"},
         \A i \in ItemsOf(t) : item'[t][i] = item[t][i] \/ item'[t][i] \in {"skipped", "error", "canceled"},
         status'[t] # "error" => \A i \in ItemsOf(t) : item'[t][i] \notin Open,
         kind[t] # "debug" => tally'[t] = Tally(item'[t]),
         run'[t] \in Terminal, status'[t] # "error" \/ kind[t] # "collection" => run'[t] = status'[t]
  PROVE  RowGood(t)'
BY DEF RowGood, Underway, Earned, ItemsOf, Tally, Count, Terminal

\* Closing an item's status gives it no result.
LEMMA ItemsAfterKeep ==
  ASSUME NEW t \in Tasks, NEW cut
  PROVE  \A i \in ItemsOf(t) :
           ItemsAfter(t, cut)[i] = item[t][i] \/ ItemsAfter(t, cut)[i] \in {"skipped", cut}
BY DEF ItemsOf, ItemsAfter, FinishStoppedItems

\* Nothing a task has been told or has reported is undone while it runs.
Steady(t) == status[t] # "pending" => status'[t] # "pending" /\ holder'[t] = holder[t]

Calm(t) ==
  /\ Steady(t)
  /\ status[t] # "pending" /\ status'[t] \in Held => status[t] \in Held /\ item'[t] = item[t]
  /\ status[t] # "pending" /\ status'[t] \in {"claimed", "running"} => Underway(t)

QuietStep == (\A t \in Tasks : RowGood(t)') /\ (\A t \in Tasks : Calm(t))

LEMMA StillCalm == ASSUME NEW t, Still(t) PROVE Calm(t)
BY DEF Still, Calm, Steady, Underway

LEMMA OneRow ==
  ASSUME RowsGood, UNCHANGED <<kind, done>>, NEW t \in Tasks, RowGood(t)', Calm(t),
         \A u \in Tasks : u # t => Still(u)
  PROVE  QuietStep
BY StillGood, StillCalm DEF RowsGood, QuietStep

LEMMA NoRow ==
  ASSUME RowsGood, UNCHANGED <<kind, done, rowVars>>
  PROVE  QuietStep
<1>1. \A u \in Tasks : Still(u)
  BY DEF Still, rowVars
<1> QED
  BY <1>1, StillGood, StillCalm DEF RowsGood, QuietStep

LEMMA FailAuthorizationQuiet ==
  ASSUME RowsOK, RowsGood, NEW t \in Tasks, FailAuthorization(t),
         status[t] \in Held \cup {"pending"}, UNCHANGED <<kind, done>>
  PROVE  QuietStep
<1> DEFINE f == ItemsAfter(t, "error")
<1>1. /\ item' = [item EXCEPT ![t] = f] /\ tally' = [tally EXCEPT ![t] = Tally(f)]
      /\ status' = [status EXCEPT ![t] = "failed"] /\ run' = [run EXCEPT ![t] = "failed"]
      /\ holder' = holder
  BY DEF FailAuthorization, SetItems, SetStatus
<1>2. /\ \A i \in ItemsOf(t) : f[i] \notin Open
      /\ \A i \in ItemsOf(t) : f[i] = item[t][i] \/ f[i] \in {"skipped", "error"}
  BY ItemsAfterClosed, ItemsAfterKeep
<1> HIDE DEF f
<1>3. \A u \in Tasks : u # t => Still(u)
  BY <1>1 DEF RowsOK, Still
<1>4. item'[t] = f /\ tally'[t] = Tally(f) /\ status'[t] = "failed" /\ run'[t] = "failed"
  BY <1>1 DEF RowsOK
<1>5. RowGood(t)'
  BY <1>2, <1>4, EndGood DEF RowsGood, Terminal
<1>6. Calm(t)
  BY <1>1, <1>4 DEF Calm, Steady, Held
<1> QED
  BY <1>3, <1>5, <1>6, OneRow

\* What happens to a task that no worker is told of.
LEMMA TaskQuiet ==
  ASSUME RowsOK, RowsGood, NEW t \in Tasks,
         \/ ClaimRefused(t) \/ ExpireLeases(t) \/ StopRun(t) \/ RevokeExecutions(t)
         \/ AccessChanges(t) \/ FinishDebug(t) \/ Age(t) \/ \E w \in Workers : Claim(w, t)
  PROVE  QuietStep
<1>0. UNCHANGED <<kind, done>> /\ RowGood(t)
  BY DEF ClaimRefused, ExpireLeases, StopRun, RevokeExecutions, AccessChanges, FinishDebug, Age,
         Claim, RowsGood
<1>1. CASE ClaimRefused(t)
  BY <1>0, <1>1, FailAuthorizationQuiet DEF ClaimRefused
<1>2. CASE ExpireLeases(t)
  <2> DEFINE f == ItemsAfter(t, "error")
             v == RunVerdict(t, "error", f)
  <2>1. /\ item' = [item EXCEPT ![t] = f] /\ tally' = [tally EXCEPT ![t] = Tally(f)]
        /\ status' = [status EXCEPT ![t] = "error"] /\ run' = [run EXCEPT ![t] = v]
        /\ holder' = holder /\ status[t] \in Held
    BY <1>2 DEF ExpireLeases, SetItems, SetStatus
  <2>2. \A i \in ItemsOf(t) : f[i] = item[t][i] \/ f[i] \in {"skipped", "error"}
    BY ItemsAfterKeep
  <2>3. v \in Terminal /\ (kind[t] # "collection" => v = "error")
    BY RunVerdictType DEF RunVerdict, Terminal
  <2> HIDE DEF f, v
  <2>4. \A u \in Tasks : u # t => Still(u)
    BY <2>1 DEF RowsOK, Still
  <2>5. item'[t] = f /\ tally'[t] = Tally(f) /\ status'[t] = "error" /\ run'[t] = v
    BY <2>1 DEF RowsOK
  <2>6. RowGood(t)'
    BY <1>0, <2>2, <2>3, <2>5, EndGood
  <2>7. Calm(t)
    BY <2>1, <2>5 DEF Calm, Steady, Held
  <2> QED
    BY <1>0, <2>4, <2>6, <2>7, OneRow
<1>3. CASE StopRun(t) /\ status[t] = "pending"
  <2>1. /\ status' = [status EXCEPT ![t] = "canceled"] /\ run' = [run EXCEPT ![t] = "canceled"]
        /\ holder' = holder
        /\ IF kind[t] = "debug" THEN UNCHANGED <<item, tally>>
           ELSE SetItems(t, [i \in Items |-> "skipped"])
    BY <1>3 DEF StopRun, SetStatus
  <2>2. \A u \in Tasks : u # t => Still(u)
    BY <2>1 DEF RowsOK, Still, SetItems
  <2>3. status'[t] = "canceled" /\ run'[t] = "canceled"
    BY <2>1 DEF RowsOK
  <2>4. /\ \A i \in ItemsOf(t) : item'[t][i] = "skipped"
        /\ kind[t] # "debug" => tally'[t] = Tally(item'[t])
    BY <2>1 DEF RowsOK, SetItems, ItemsOf
  <2>5. RowGood(t)'
    BY <1>0, <2>3, <2>4, EndGood DEF Terminal, Open
  <2>6. Calm(t)
    BY <1>3 DEF Calm, Steady
  <2> QED
    BY <1>0, <2>2, <2>5, <2>6, OneRow
<1>4. CASE StopRun(t) /\ status[t] # "pending"
  <2>1. /\ status' = [status EXCEPT ![t] = "stopping"] /\ run' = [run EXCEPT ![t] = "stopping"]
        /\ UNCHANGED <<holder, item, tally>> /\ status[t] \in {"claimed", "running"}
    BY <1>4 DEF StopRun, SetStatus
  <2>2. \A u \in Tasks : u # t => Still(u)
    BY <2>1 DEF RowsOK, Still
  <2>3. status'[t] = "stopping" /\ run'[t] = "stopping"
    BY <2>1 DEF RowsOK
  <2>4. RowGood(t)'
    BY <1>0, <2>1, <2>3 DEF RowGood, Underway, Earned, ItemsOf, Terminal
  <2>5. Calm(t)
    BY <2>1, <2>3 DEF Calm, Steady, Held
  <2> QED
    BY <1>0, <2>2, <2>4, <2>5, OneRow
<1>5. CASE RevokeExecutions(t)
  <2>1. CASE status[t] \in {"pending", "claimed", "running"}
    BY <1>0, <1>5, <2>1, FailAuthorizationQuiet DEF RevokeExecutions, Held
  <2>2. CASE status[t] \notin {"pending", "claimed", "running"}
    BY <1>0, <1>5, <2>2, NoRow DEF RevokeExecutions
  <2> QED
    BY <2>1, <2>2
<1>6. CASE AccessChanges(t)
  BY <1>0, <1>6, NoRow DEF AccessChanges
<1>7. CASE FinishDebug(t)
  <2>1. /\ status' = [status EXCEPT ![t] = "gone"] /\ run' = [run EXCEPT ![t] = "gone"]
        /\ UNCHANGED <<holder, item, tally>> /\ kind[t] = "debug" /\ status[t] \in Terminal
    BY <1>7 DEF FinishDebug, SetStatus
  <2>2. \A u \in Tasks : u # t => Still(u)
    BY <2>1 DEF RowsOK, Still
  <2>3. status'[t] = "gone" /\ run'[t] = "gone"
    BY <2>1 DEF RowsOK
  <2>4. RowGood(t)'
    BY <1>0, <2>1, <2>3 DEF RowGood, Underway, Earned, ItemsOf, Terminal
  <2>5. Calm(t)
    BY <2>1, <2>3 DEF Calm, Steady, Held
  <2> QED
    BY <1>0, <2>2, <2>4, <2>5, OneRow
<1>8. CASE Age(t)
  <2>1. \A u \in Tasks : Still(u)
    BY <1>8 DEF Age, Still
  <2> QED
    BY <1>0, <2>1, StillCalm, OneRow, StillGood DEF RowsGood, QuietStep
<1>9. ASSUME NEW w \in Workers, Claim(w, t) PROVE QuietStep
  <2>1. /\ status' = [status EXCEPT ![t] = "claimed"]
        /\ run' = [run EXCEPT ![t] = IF kind[t] = "suite" THEN run[t] ELSE "queued"]
        /\ holder' = [holder EXCEPT ![t] = w] /\ UNCHANGED <<item, tally>> /\ status[t] = "pending"
    BY <1>9 DEF Claim, SetStatus
  <2>2. \A u \in Tasks : u # t => Still(u)
    BY <2>1 DEF RowsOK, Still
  <2>3. status'[t] = "claimed" /\ run'[t] \in {run[t], "queued"} /\ run[t] = "pending"
    BY <1>0, <2>1 DEF RowsOK, RowGood
  <2>4. RowGood(t)'
    BY <1>0, <2>1, <2>3 DEF RowGood, Underway, Earned, ItemsOf, Terminal
  <2>5. Calm(t)
    BY <2>1 DEF Calm, Steady
  <2> QED
    BY <1>0, <2>2, <2>4, <2>5, OneRow
<1> QED
  BY <1>1, <1>2, <1>3, <1>4, <1>5, <1>6, <1>7, <1>8, <1>9

LEMMA WorkerQuiet ==
  ASSUME RowsOK, WorkersOK, RowsGood, NEW w \in Workers,
         Heartbeat(w) \/ SeeStop(w) \/ SeeLeaseLost(w) \/ GiveUp(w) \/ Shutdown(w) \/ Crash(w)
  PROVE  QuietStep
<1> DEFINE t == worker[w].task
<1>0. UNCHANGED <<kind, done>>
  BY DEF Heartbeat, SeeStop, SeeLeaseLost, GiveUp, Shutdown, Crash
<1>1. worker[w].op # "idle" /\ t \in Tasks
  BY DEF Heartbeat, SeeStop, SeeLeaseLost, GiveUp, Shutdown, Crash, Running, WorkersOK,
         ReportsFit, Fits
<1>2. CASE status[t] \in Held /\ FailAuthorization(t)
  BY <1>0, <1>1, <1>2, FailAuthorizationQuiet
<1>3. CASE UNCHANGED rowVars
  BY <1>0, <1>3, NoRow
<1>4. CASE UNCHANGED <<status, holder, run, item, tally>>
  <2>1. \A u \in Tasks : Still(u)
    BY <1>4 DEF Still
  <2> QED
    BY <1>0, <2>1, StillCalm, StillGood DEF RowsGood, QuietStep
<1> QED
  BY <1>2, <1>3, <1>4 DEF Heartbeat, SeeStop, SeeLeaseLost, GiveUp, Shutdown, Crash

\* What a call under way says of its task.
CallGood(m) ==
  LET t == m.task IN
  /\ status[t] # "pending" /\ holder[t] = m.by
  /\ m.op = "itemDone" /\ m.say \in Verdicts => done[t][m.item] = m.say
  /\ m.op = "itemStart" /\ status[t] \in Held => item[t][m.item] \in Open
  /\ m.op = "complete" /\ m.say # "error" /\ Underway(t) =>
       \A i \in ItemsOf(t) : item[t][i] \notin Open /\ (m.say = "success" => Earned(t, i))

OneForward == \A m, n \in wire : Forward(m) /\ Forward(n) /\ m.task = n.task => m = n

LEMMA CallsTogether == CallsInv <=> (\A m \in wire : CallGood(m)) /\ OneForward
BY DEF CallsInv, CallGood, OneForward

LEMMA StartedQuiet ==
  ASSUME RowsOK, RowsGood, NEW t \in Tasks, status[t] \in Held, Started(t), UNCHANGED <<kind, done>>
  PROVE  QuietStep
<1>0. RowGood(t)
  BY DEF RowsGood
<1>1. CASE status[t] = "stopping"
  <2>1. \A u \in Tasks : Still(u)
    BY <1>1 DEF Started, Still
  <2> QED
    BY <2>1, StillCalm, StillGood DEF RowsGood, QuietStep
<1>2. CASE status[t] # "stopping"
  <2>1. /\ status' = [status EXCEPT ![t] = "running"] /\ run' = [run EXCEPT ![t] = "running"]
        /\ UNCHANGED <<holder, item, tally>>
    BY <1>2 DEF Started, SetStatus
  <2>2. \A u \in Tasks : u # t => Still(u)
    BY <2>1 DEF RowsOK, Still
  <2>3. status'[t] = "running" /\ run'[t] = "running"
    BY <2>1 DEF RowsOK
  <2>4. RowGood(t)'
    BY <1>0, <2>1, <2>3 DEF RowGood, Underway, Earned, ItemsOf, Terminal
  <2>5. Calm(t)
    BY <1>2, <2>1, <2>3 DEF Calm, Steady, Held, Underway
  <2> QED
    BY <2>2, <2>4, <2>5, OneRow
<1> QED
  BY <1>1, <1>2

LEMMA RunVerdictPlain ==
  ASSUME NEW t, NEW v, NEW f, kind[t] # "collection" \/ v \in {"canceled", "failed"}
  PROVE  RunVerdict(t, v, f) = v
BY DEF RunVerdict

LEMMA CompleteQuiet ==
  ASSUME RowsOK, WorkersOK, RowsGood, NEW m \in wire, CallGood(m), m.op \in {"complete", "report"},
         status[m.task] \in Held, Complete(m.task, m.say), UNCHANGED <<kind, done>>
  PROVE  QuietStep
<1> DEFINE t == m.task
           v == m.say
           final == FinalStatus(t, v)
           f == IF final = "canceled" THEN ItemsAfter(t, "canceled") ELSE item[t]
<1>0. t \in Tasks /\ RowGood(t) /\ Fits(m.op, t, m.item, v) /\ Asked(m.op, t, v)
  BY DEF WorkersOK, Request, RowsGood, ReportsFit, StopsAsked
<1>1. /\ final = "canceled" => status[t] = "stopping"
      /\ final # "canceled" => Underway(t) /\ final = v /\ v \in Verdicts
      /\ final \in Terminal
  BY <1>0 DEF FinalStatus, Fits, Asked, Held, Underway, Verdicts, Terminal
<1>2. final \in {"success", "failed"} => m.op = "complete"
  BY <1>0, <1>1 DEF Fits
<1>3. /\ status' = [status EXCEPT ![t] = final]
      /\ run' = [run EXCEPT ![t] = RunVerdict(t, final, f)]
      /\ IF final = "canceled" \/ kind[t] = "collection" THEN SetItems(t, f)
         ELSE UNCHANGED <<item, tally>>
      /\ holder' = holder
  BY DEF Complete, SetStatus
<1>4. /\ RunVerdict(t, final, f) \in Terminal
      /\ kind[t] # "collection" \/ final \in {"canceled", "failed"} =>
           RunVerdict(t, final, f) = final
  <2> HIDE DEF t, f, final
  <2> QED
    BY <1>1, RunVerdictType, RunVerdictPlain
<1>5. final = "canceled" =>
        /\ \A i \in ItemsOf(t) : f[i] \notin Open
        /\ \A i \in ItemsOf(t) : f[i] = item[t][i] \/ f[i] \in {"skipped", "canceled"}
  BY <1>0, ItemsAfterClosed, ItemsAfterKeep
<1>6. final # "canceled" => f = item[t]
  OBVIOUS
<1>7. final \in {"success", "failed"} =>
        \A i \in ItemsOf(t) : item[t][i] \notin Open /\ (final = "success" => Earned(t, i))
  BY <1>1, <1>2 DEF CallGood
<1> HIDE DEF f, final
<1>8. \A u \in Tasks : u # t => Still(u)
  BY <1>0, <1>3 DEF RowsOK, Still, SetItems
<1>9. /\ status'[t] = final /\ run'[t] = RunVerdict(t, final, f)
      /\ item'[t] = f
      /\ kind[t] # "debug" => tally'[t] = Tally(f)
  BY <1>0, <1>3, <1>6 DEF RowsOK, SetItems, RowGood
<1>10. RowGood(t)'
  <2>1. CASE final = "success"
    BY <1>0, <1>4, <1>6, <1>7, <1>9, <2>1 DEF RowGood, Underway, Earned, ItemsOf, Terminal
  <2>2. CASE final # "success"
    <3>1. final \in {"failed", "error", "canceled"}
      BY <1>1, <2>2 DEF Terminal
    <3>2. \A i \in ItemsOf(t) : f[i] = item[t][i] \/ f[i] \in {"skipped", "canceled"}
      BY <1>5, <1>6
    <3>3. final # "error" => \A i \in ItemsOf(t) : f[i] \notin Open
      BY <1>5, <1>6, <1>7, <3>1
    <3>4. /\ run'[t] \in Terminal
          /\ final # "error" \/ kind[t] # "collection" => run'[t] = final
      BY <1>4, <1>9, <3>1
    <3> QED
      BY <1>0, <1>9, <3>1, <3>2, <3>3, <3>4, EndGood
  <2> QED
    BY <2>1, <2>2
<1>11. Calm(t)
  BY <1>1, <1>3, <1>9 DEF Calm, Steady, Held, Terminal
<1> QED
  BY <1>0, <1>8, <1>10, <1>11, OneRow

\* A call that writes an item moves nothing else.
WriteStep(t) ==
  /\ \A u \in Tasks : RowGood(u)'
  /\ \A u \in Tasks : u # t => Calm(u)
  /\ UNCHANGED <<status, holder>>

LEMMA StartItemStep ==
  ASSUME RowsOK, RowsGood, NEW t \in Tasks, NEW i \in Items, status[t] \in Held,
         item[t][i] \in Open, StartItem(t, i), UNCHANGED <<kind, done>>
  PROVE  WriteStep(t) /\ item'[t] = [item[t] EXCEPT ![i] = "running"]
<1> DEFINE f == [item[t] EXCEPT ![i] = "running"]
<1>0. RowGood(t) /\ item[t] \in [Items -> ItemStatuses]
  BY DEF RowsGood, RowsOK
<1>1. item' = [item EXCEPT ![t] = f] /\ UNCHANGED <<status, holder, run, tally>>
  BY DEF StartItem
<1>2. item'[t] = f
  BY <1>1 DEF RowsOK
<1>3. Tally(f) = Tally(item[t])
  <2>1. ASSUME NEW s \in Counted PROVE {k \in Items : f[k] = s} = {k \in Items : item[t][k] = s}
    BY <1>0 DEF Open, Counted
  <2> QED
    BY <2>1 DEF Tally, Count
<1>4. \A k \in Items : f[k] = item[t][k] \/ f[k] = "running"
  BY <1>0
<1> HIDE DEF f
<1>5. \A u \in Tasks : u # t => Still(u)
  BY <1>1 DEF RowsOK, Still
<1>6. RowGood(t)'
  <2>1. status[t] # "pending" /\ status[t] \notin Terminal
    BY DEF Held, Terminal
  <2>2. \A k \in ItemsOf(t) : f[k] = item[t][k] \/ f[k] = "running"
    BY <1>4 DEF ItemsOf
  <2>3. ItemsOf(t)' = ItemsOf(t)
    BY DEF ItemsOf
  <2>4. status[t] # "success"
    BY DEF Held
  <2> QED
    BY <1>0, <1>1, <1>2, <1>3, <2>1, <2>2, <2>3, <2>4 DEF RowGood, Underway
<1> QED
  BY <1>1, <1>2, <1>5, <1>6, StillGood, StillCalm DEF RowsGood, WriteStep, f

LEMMA CompleteItemStep ==
  ASSUME RowsOK, RowsGood, NEW t \in Tasks, NEW i \in Items, NEW v \in Verdicts \cup {"skipped"},
         status[t] \in Held, v \in Verdicts => done[t][i] = v,
         CompleteItem(t, i, v), UNCHANGED <<kind, done>>
  PROVE  /\ WriteStep(t)
         /\ IF status[t] = "stopping" \/ item[t][i] \notin Open THEN item'[t] = item[t]
            ELSE item'[t] = [item[t] EXCEPT ![i] = v]
<1> DEFINE f == [item[t] EXCEPT ![i] = v]
<1>0. RowGood(t) /\ item[t] \in [Items -> ItemStatuses]
  BY DEF RowsGood, RowsOK
<1>1. status[t] = "stopping" \/ Underway(t)
  BY DEF Held, Underway
<1>2. CASE status[t] = "stopping" \/ item[t][i] \notin Open
  <2>1. \A u \in Tasks : Still(u)
    BY <1>2 DEF CompleteItem, Closed, Still
  <2>2. UNCHANGED <<status, holder>>
    BY DEF CompleteItem
  <2> QED
    BY <1>2, <2>1, <2>2, StillGood, StillCalm DEF RowsGood, WriteStep, Still
<1>3. CASE ~(status[t] = "stopping" \/ item[t][i] \notin Open)
  <2>1. status[t] \notin Closed /\ run[t] \notin Terminal
    BY <1>0, <1>1, <1>3 DEF RowGood, Closed, Terminal, Underway
  <2>2. /\ item' = [item EXCEPT ![t] = f] /\ tally' = [tally EXCEPT ![t] = Tally(f)]
        /\ UNCHANGED <<status, holder, run>>
    BY <1>3, <2>1 DEF CompleteItem, SetItems
  <2>3. f[i] = v /\ \A k \in Items : k # i => f[k] = item[t][k]
    BY <1>0
  <2> HIDE DEF f
  <2>4. item'[t] = f /\ tally'[t] = Tally(f)
    BY <2>2 DEF RowsOK
  <2>5. \A u \in Tasks : u # t => Still(u)
    BY <2>2 DEF RowsOK, Still
  <2>6. status[t] # "pending" /\ status[t] \notin Terminal /\ status[t] # "success"
    BY DEF Held, Terminal
  <2>7. \A k \in ItemsOf(t) : f[k] \in {"success", "failed"} => done[t][k] = f[k]
    BY <1>0, <2>3 DEF RowGood, ItemsOf, Verdicts
  <2>8. ItemsOf(t)' = ItemsOf(t)
    BY DEF ItemsOf
  <2>9. RowGood(t)'
    BY <1>0, <2>2, <2>4, <2>6, <2>7, <2>8 DEF RowGood, Underway
  <2> QED
    BY <1>3, <2>2, <2>4, <2>5, <2>9, StillGood, StillCalm DEF RowsGood, WriteStep, f
<1> QED
  BY <1>2, <1>3

-----------------------------------------------------------------------------
(* A report is earned and adds up: the runners and the calls under way     *)

Doing == {"started", "snapshot", "itemStart", "itemDone", "execute"}

\* A runner halted or not, on an item it may execute, with what it will say of it.
Sensible(r) ==
  /\ r.halted => r.worst # "success"
  /\ r.op \in {"started", "snapshot"} => r.item = 0 /\ r.worst = "success"
  /\ r.op = "execute" /\ r.item = 0 => kind[r.task] = "debug"
  /\ r.op \in {"itemStart", "execute"} => r.item \notin Disabled
  /\ r.op = "itemDone" /\ r.worst = "success" =>
       r.say = IF r.item \in Disabled THEN "skipped" ELSE "success"

Runner(w, r) ==
  /\ r.op # "idle" => status[r.task] # "pending" /\ holder[r.task] = w
  /\ r.op \in Doing =>
       /\ \A m \in wire : m.task = r.task => m \in RequestOf(w, r)
       /\ Progress(r.task, r)
       /\ Sensible(r)

LEMMA RunnersTogether == RunnersInv <=> \A w \in Workers : Runner(w, worker[w])
BY DEF RunnersInv, Runner, Sensible, Doing

\* The same after a step, of a runner in the state r.
UnderwayAfter(t) == status'[t] \in {"claimed", "running"}
EarnedAfter(t, i) == item'[t][i] = IF i \in Disabled THEN "skipped" ELSE "success"

ProgressAfter(t, r) ==
  /\ \A i \in Items : i > r.item \/ (i = r.item /\ r.op # "itemDone") => done'[t][i] = "none"
  /\ status'[t] \in Held => \A i \in Items :
       /\ i > r.item => item'[t][i] = "pending"
       /\ i = r.item => item'[t][i] \in Open
  /\ UnderwayAfter(t) => \A i \in Items :
       i < r.item => item'[t][i] \notin Open /\ (r.worst = "success" => EarnedAfter(t, i))

RunnerAfter(w, r) ==
  /\ r.op # "idle" => status'[r.task] # "pending" /\ holder'[r.task] = w
  /\ r.op \in Doing =>
       /\ \A m \in wire' : m.task = r.task => m \in RequestOf(w, r)
       /\ ProgressAfter(r.task, r)
       /\ Sensible(r)

CallAfter(m) ==
  LET t == m.task IN
  /\ status'[t] # "pending" /\ holder'[t] = m.by
  /\ m.op = "itemDone" /\ m.say \in Verdicts => done'[t][m.item] = m.say
  /\ m.op = "itemStart" /\ status'[t] \in Held => item'[t][m.item] \in Open
  /\ m.op = "complete" /\ m.say # "error" /\ UnderwayAfter(t) =>
       \A i \in ItemsOf(t) : item'[t][i] \notin Open /\ (m.say = "success" => EarnedAfter(t, i))

OneForwardAfter == \A m, n \in wire' : Forward(m) /\ Forward(n) /\ m.task = n.task => m = n

After ==
  /\ \A w \in Workers : RunnerAfter(w, worker'[w])
  /\ \A m \in wire' : CallAfter(m)
  /\ OneForwardAfter

LEMMA AfterIsPrimed == ASSUME After, kind' = kind PROVE RunnersInv' /\ CallsInv'
<1>1. CallsInv'
  BY DEF After, CallAfter, OneForwardAfter, CallsInv, Forward, UnderwayAfter, Underway, EarnedAfter,
         Earned, ItemsOf
<1>2. ASSUME NEW w \in Workers
      PROVE  LET r == worker'[w]
                 t == r.task IN
        /\ r.op # "idle" => status'[t] # "pending" /\ holder'[t] = w
        /\ r.op \in {"started", "snapshot", "itemStart", "itemDone", "execute"} =>
             /\ \A m \in wire' : m.task = t => m \in RequestOf(w, r)
             /\ ProgressAfter(t, r)
             /\ Sensible(r)
  BY DEF After, RunnerAfter, Doing
<1>3. RunnersInv'
  BY <1>2 DEF RunnersInv, Progress, ProgressAfter, Underway, UnderwayAfter, Earned, EarnedAfter,
              Sensible, RequestOf
<1> QED
  BY <1>1, <1>3

\* A call that was under way, while nothing forward of its task is handled.
LEMMA OldCall ==
  ASSUME NEW m \in wire, CallGood(m), done'[m.task] = done[m.task], kind' = kind,
         Steady(m.task), Calm(m.task) \/ ~Forward(m)
  PROVE  CallAfter(m)
<1>1. Calm(m.task) \/ (m.op # "itemStart" /\ ~(m.op = "complete" /\ m.say # "error"))
  BY DEF Forward
<1> QED
  BY <1>1 DEF CallGood, CallAfter, Steady, Calm, UnderwayAfter, Underway, EarnedAfter, Earned, Held

\* A runner that the step is not about.
LEMMA OldRunner ==
  ASSUME NEW w \in Workers, NEW r, Runner(w, r), r.op # "idle" => Steady(r.task),
         r.op \in Doing => /\ done'[r.task] = done[r.task] /\ Calm(r.task)
                           /\ \A m \in wire' : m.task = r.task => m \in wire
  PROVE  RunnerAfter(w, r)
<1>1. ASSUME r.op \in Doing PROVE ProgressAfter(r.task, r)
  <2>1. r.op # "idle"
    BY <1>1 DEF Doing
  <2> QED
    BY <1>1, <2>1 DEF Runner, Progress, ProgressAfter, Calm, UnderwayAfter, Underway,
                      EarnedAfter, Earned, Held
<1> QED
  BY <1>1 DEF Runner, RunnerAfter, Steady

ReportGood ==
  /\ IInv /\ RowsGood
  /\ \A w \in Workers : Runner(w, worker[w])
  /\ \A m \in wire : CallGood(m)
  /\ OneForward

LEMMA RequestFacts ==
  ASSUME NEW w, NEW r
  PROVE  /\ \A n \in RequestOf(w, r) : /\ n.by = w /\ n.op = r.op /\ n.task = r.task
                                       /\ n.item = r.item /\ n.say = r.say /\ r.op \in Calls
         /\ \A n, k \in RequestOf(w, r) : n = k
BY DEF RequestOf

\* No worker hears of the step: a call nobody waits for is handled, or none is.
LEMMA NobodyHears ==
  ASSUME ReportGood, UNCHANGED <<kind, done, worker>>, wire' \subseteq wire,
         \A t \in Tasks : Steady(t),
         \/ \A t \in Tasks : Calm(t)
         \/ \E m \in wire \ wire' : Forward(m) /\ ~Awaited(m) /\ \A t \in Tasks : t # m.task => Calm(t)
  PROVE  After
<1>0. WorkersOK
  BY Typed DEF ReportGood
<1>1. OneForwardAfter
  BY DEF ReportGood, OneForward, OneForwardAfter
<1>2. ASSUME NEW n \in wire' PROVE CallAfter(n)
  <2>1. n \in wire /\ n.task \in Tasks /\ CallGood(n)
    BY <1>0, <1>2 DEF WorkersOK, Request, ReportGood
  <2>2. Calm(n.task) \/ ~Forward(n)
    BY <1>2, <2>1 DEF ReportGood, OneForward
  <2> QED
    BY <2>1, <2>2, OldCall
<1>3. ASSUME NEW w \in Workers PROVE RunnerAfter(w, worker'[w])
  <2> DEFINE r == worker[w]
  <2>1. Runner(w, r) /\ worker'[w] = r /\ (r.op # "idle" => r.task \in Tasks)
    BY <1>0 DEF ReportGood, WorkersOK, ReportsFit, Fits
  <2>2. r.op \in Doing => r.op # "idle"
    BY DEF Doing
  <2> HIDE DEF r
  <2>3. ASSUME r.op \in Doing PROVE Calm(r.task)
    <3>1. ASSUME NEW m \in wire, ~Awaited(m), m.task = r.task PROVE FALSE
      <4>1. m \in RequestOf(w, r)
        BY <2>1, <2>3, <3>1 DEF Runner
      <4>2. m.by = w
        BY <4>1, RequestFacts
      <4> QED
        BY <3>1, <4>1, <4>2 DEF Awaited, r
    <3> QED
      BY <2>1, <2>2, <2>3, <3>1
  <2> QED
    BY <2>1, <2>2, <2>3, OldRunner
<1> QED
  BY <1>1, <1>2, <1>3 DEF After

\* Two workers are never busy with one task.
LEMMA OneWorker ==
  ASSUME ReportGood, NEW v \in Workers, NEW w \in Workers, worker[v].op # "idle",
         worker[w].op # "idle", worker[v].task = worker[w].task
  PROVE  v = w
BY DEF ReportGood, Runner

\* A worker stops going forward: what it still sends is an error or a stop.
LEMMA StopsForward ==
  ASSUME ReportGood, UNCHANGED <<kind, done>>, \A t \in Tasks : Calm(t),
         NEW w \in Workers, worker[w].op # "idle",
         NEW q, q.op \in {"idle", "complete", "report"}, q.op = "complete" => q.say = "error",
         q.op # "idle" => q.task = worker[w].task,
         worker'[w] = q, \A v \in Workers : v # w => worker'[v] = worker[v],
         \A n \in wire' : n \in wire \/ n \in RequestOf(w, q)
  PROVE  After
<1> DEFINE t == worker[w].task
<1>0. WorkersOK /\ worker \in [Workers -> WorkerState]
  BY Typed DEF ReportGood, WorkersOK
<1>1. t \in Tasks /\ status[t] # "pending" /\ holder[t] = w /\ Steady(t)
  BY <1>0 DEF WorkersOK, ReportsFit, Fits, ReportGood, Runner, Calm
<1>2. \A n \in RequestOf(w, q) : /\ ~Forward(n) /\ n.op \in {"complete", "report"}
                                 /\ n.task = t /\ n.by = w /\ (n.op = "complete" => n.say = "error")
  BY RequestFacts DEF Forward, Calls
<1> HIDE DEF t
<1>3. OneForwardAfter
  BY <1>2 DEF ReportGood, OneForward, OneForwardAfter
<1>4. ASSUME NEW n \in wire' PROVE CallAfter(n)
  <2>1. CASE n \in RequestOf(w, q)
    BY <1>1, <1>2, <2>1 DEF CallAfter, Steady
  <2>2. CASE n \in wire
    <3>1. n.task \in Tasks /\ CallGood(n)
      BY <1>0, <2>2 DEF WorkersOK, Request, ReportGood
    <3> QED
      BY <2>2, <3>1, OldCall DEF Calm
  <2> QED
    BY <1>4, <2>1, <2>2
<1>5. RunnerAfter(w, q)
  BY <1>1 DEF RunnerAfter, Doing, Steady, t
<1>6. ASSUME NEW v \in Workers, v # w PROVE RunnerAfter(v, worker[v])
  <2> DEFINE r == worker[v]
  <2>1. Runner(v, r) /\ (r.op # "idle" => r.task \in Tasks)
    BY <1>0 DEF ReportGood, WorkersOK, ReportsFit, Fits
  <2>2. r.op \in Doing => r.op # "idle"
    BY DEF Doing
  <2>3. r.op # "idle" => r.task # t
    BY <1>6, OneWorker DEF t
  <2> SUFFICES RunnerAfter(v, r)
    OBVIOUS
  <2> HIDE DEF r
  <2>4. r.op \in Doing => \A m \in wire' : m.task = r.task => m \in wire
    BY <1>2, <2>2, <2>3
  <2>5. r.op # "idle" => Steady(r.task)
    BY <2>1 DEF Calm
  <2> QED
    BY <2>1, <2>2, <2>4, <2>5, OldRunner
<1> QED
  BY <1>0, <1>3, <1>4, <1>5, <1>6 DEF After

\* A worker goes forward with a task that is its own.
LEMMA GoesForward ==
  ASSUME ReportGood, kind' = kind, NEW w \in Workers, NEW q, q.op # "idle",
         \A u \in Tasks : u # q.task => Calm(u) /\ done'[u] = done[u],
         \A v \in Workers : v # w /\ worker[v].op # "idle" => worker[v].task # q.task,
         worker'[w] = q, \A v \in Workers : v # w => worker'[v] = worker[v],
         \A n \in wire' : n \in RequestOf(w, q) \/ (n \in wire /\ n.task # q.task),
         status'[q.task] # "pending", holder'[q.task] = w,
         q.op \in Doing => ProgressAfter(q.task, q) /\ Sensible(q),
         \A n \in RequestOf(w, q) : CallAfter(n)
  PROVE  After
<1>0. WorkersOK /\ worker \in [Workers -> WorkerState]
  BY Typed DEF ReportGood, WorkersOK
<1>1. /\ \A n \in RequestOf(w, q) : n.task = q.task
      /\ \A n, k \in RequestOf(w, q) : n = k
  BY RequestFacts
<1>2. OneForwardAfter
  BY <1>1 DEF ReportGood, OneForward, OneForwardAfter
<1>3. ASSUME NEW n \in wire' PROVE CallAfter(n)
  <2>1. CASE n \in wire /\ n.task # q.task
    <3>1. n.task \in Tasks /\ CallGood(n)
      BY <1>0, <2>1 DEF WorkersOK, Request, ReportGood
    <3> QED
      BY <2>1, <3>1, OldCall DEF Calm
  <2> QED
    BY <1>3, <2>1
<1>4. RunnerAfter(w, q)
  BY <1>1 DEF RunnerAfter
<1>5. ASSUME NEW v \in Workers, v # w PROVE RunnerAfter(v, worker[v])
  <2> DEFINE r == worker[v]
  <2>1. Runner(v, r) /\ (r.op # "idle" => r.task \in Tasks /\ r.task # q.task)
    BY <1>0, <1>5 DEF ReportGood, WorkersOK, ReportsFit, Fits
  <2>2. r.op \in Doing => r.op # "idle"
    BY DEF Doing
  <2> SUFFICES RunnerAfter(v, r)
    OBVIOUS
  <2> HIDE DEF r
  <2>3. r.op \in Doing => \A m \in wire' : m.task = r.task => m \in wire
    BY <1>1, <2>1, <2>2
  <2>4. r.op # "idle" => Steady(r.task)
    BY <2>1 DEF Calm
  <2> QED
    BY <2>1, <2>2, <2>3, <2>4, OldRunner
<1> QED
  BY <1>0, <1>2, <1>3, <1>4, <1>5 DEF After

\* The items a runner has left behind are reported, and its next ones not begun.
ReportedAfter(t, r) ==
  /\ \A i \in Items : i > r.item => done'[t][i] = "none"
  /\ status'[t] \in Held => \A i \in Items : i > r.item => item'[t][i] = "pending"
  /\ UnderwayAfter(t) => \A i \in Items : i <= r.item =>
       item'[t][i] \notin Open /\ (r.worst = "success" => EarnedAfter(t, i))

\* A runner between two items goes on in order, and with what they gave.
LEMMA NextRound ==
  ASSUME NEW w \in Workers, NEW r \in WorkerState, r.task \in Tasks, ReportedAfter(r.task, r),
         r.halted => r.worst # "success", status'[r.task] # "pending", holder'[r.task] = w
  PROVE  LET q == NextItem(r) IN
         /\ q.op # "idle" /\ q.task = r.task
         /\ q.op \in Doing => ProgressAfter(r.task, q) /\ Sensible(q)
         /\ \A n \in RequestOf(w, q) : CallAfter(n)
<1>0. r.item \in 0 .. NItems /\ r.worst \in Verdicts /\ NItems \in Nat
  BY WorkerTaskAssumption DEF WorkerState
<1> DEFINE p == r.item + 1
           t == r.task
           skip == [r EXCEPT !.op = "itemDone", !.item = p, !.say = "skipped"]
           start == [r EXCEPT !.op = "itemStart", !.item = p, !.say = "none"]
<1>1. /\ \A i \in Items : i \in Nat
      /\ p > NItems => \A i \in Items : i <= r.item
      /\ ~(p > NItems) => p \in Items
      /\ \A i \in Items : /\ i > p => i > r.item
                          /\ i = p => i > r.item
                          /\ i < p => i <= r.item
  BY <1>0 DEF Items
<1>2. CASE p > NItems
  <2> DEFINE q == Finish(r, r.worst)
  <2>1. NextItem(r) = q
    BY <1>0, <1>2 DEF NextItem
  <2>2. q.op = "complete" /\ q.task = t /\ q.say = r.worst
    BY DEF Finish, WorkerState
  <2> HIDE DEF q
  <2>3. q.op \notin Doing /\ q.op # "idle"
    BY <2>2 DEF Doing
  <2>4. ASSUME NEW n \in RequestOf(w, q) PROVE CallAfter(n)
    <3>1. n.op = "complete" /\ n.task = t /\ n.say = r.worst /\ n.by = w
      BY <2>2, RequestFacts
    <3>2. \A i \in ItemsOf(t) : i \in Items
      BY DEF ItemsOf
    <3>3. UnderwayAfter(t) =>
            \A i \in ItemsOf(t) : item'[t][i] \notin Open
                                 /\ (r.worst = "success" => EarnedAfter(t, i))
      BY <1>1, <1>2, <3>2 DEF ReportedAfter
    <3> QED
      BY <3>1, <3>3 DEF CallAfter
  <2> QED
    BY <2>1, <2>2, <2>3, <2>4
<1>3. CASE ~(p > NItems) /\ (r.halted \/ p \in Disabled)
  <2>1. NextItem(r) = skip
    BY <1>0, <1>3 DEF NextItem
  <2>2. /\ skip.op = "itemDone" /\ skip.task = t /\ skip.say = "skipped" /\ skip.item = p
        /\ skip.worst = r.worst /\ skip.halted = r.halted
    BY DEF WorkerState
  <2> HIDE DEF skip
  <2>3. ProgressAfter(t, skip)
    BY <1>1, <1>3, <2>2 DEF ProgressAfter, ReportedAfter, Open
  <2>4. Sensible(skip)
    BY <1>3, <2>2 DEF Sensible
  <2>5. ASSUME NEW n \in RequestOf(w, skip) PROVE CallAfter(n)
    <3>1. n.op = "itemDone" /\ n.task = t /\ n.say = "skipped" /\ n.by = w
      BY <2>2, RequestFacts
    <3> QED
      BY <3>1 DEF CallAfter, Verdicts
  <2> QED
    BY <2>1, <2>2, <2>3, <2>4, <2>5
<1>4. CASE ~(p > NItems) /\ ~(r.halted \/ p \in Disabled)
  <2>1. NextItem(r) = start
    BY <1>0, <1>4 DEF NextItem
  <2>2. /\ start.op = "itemStart" /\ start.task = t /\ start.item = p
        /\ start.worst = r.worst /\ start.halted = r.halted
    BY DEF WorkerState
  <2> HIDE DEF start
  <2>3. ProgressAfter(t, start)
    BY <1>1, <1>4, <2>2 DEF ProgressAfter, ReportedAfter, Open
  <2>4. Sensible(start)
    BY <1>4, <2>2 DEF Sensible
  <2>5. ASSUME NEW n \in RequestOf(w, start) PROVE CallAfter(n)
    <3>1. n.op = "itemStart" /\ n.task = t /\ n.item = p /\ n.by = w
      BY <2>2, RequestFacts
    <3>2. status'[t] \in Held => item'[t][p] \in Open
      BY <1>1, <1>4 DEF ReportedAfter, Open
    <3> QED
      BY <3>1, <3>2 DEF CallAfter
  <2> QED
    BY <2>1, <2>2, <2>3, <2>4, <2>5
<1> QED
  BY <1>2, <1>3, <1>4

\* A worker that fails says nothing but an error.
LEMMA FailStops ==
  ASSUME NEW r \in WorkerState
  PROVE  LET q == Fail(r) IN
         /\ q.op \in {"idle", "complete", "report"} /\ (q.op = "complete" => q.say = "error")
         /\ q.op # "idle" => q.task = r.task
<1>1. Fail(r) \in {Idle, Finish(r, "error"), Report(r, "error")}
  BY DEF Fail
<1>2. /\ Idle.op = "idle"
      /\ Finish(r, "error").op = "complete" /\ Finish(r, "error").say = "error"
      /\ Finish(r, "error").task = r.task
      /\ Report(r, "error").op = "report" /\ Report(r, "error").task = r.task
  BY DEF Idle, Finish, Report, WorkerState
<1> QED
  BY <1>1, <1>2

\* The call a runner waits for is the only one of its task.
LEMMA AwaitedFacts ==
  ASSUME ReportGood, NEW m \in wire, Awaited(m)
  PROVE  LET r == worker[m.by] IN
         /\ r \in WorkerState /\ m.by \in Workers /\ r.task \in Tasks /\ r.op # "idle"
         /\ r.op = m.op /\ r.task = m.task /\ r.item = m.item /\ r.say = m.say
         /\ r.op \in Doing => /\ Runner(m.by, r) /\ Progress(r.task, r) /\ Sensible(r)
                              /\ \A n \in wire : n.task = r.task => n = m
<1> DEFINE r == worker[m.by]
<1>1. /\ m.by \in Workers /\ r \in WorkerState /\ m \in RequestOf(m.by, r) /\ m.op \in Calls
      /\ m.task \in Tasks
  BY Typed DEF ReportGood, WorkersOK, Request, Awaited
<1>2. /\ r.op = m.op /\ r.task = m.task /\ r.item = m.item /\ r.say = m.say /\ r.op # "idle"
  BY <1>1, RequestFacts DEF Calls
<1>3. Runner(m.by, r)
  BY <1>1 DEF ReportGood
<1> HIDE DEF r
<1>4. \A n \in RequestOf(m.by, r) : n = m
  BY <1>1, RequestFacts
<1> QED
  BY <1>1, <1>2, <1>3, <1>4 DEF Runner, r

LEMMA AnswerForward ==
  ASSUME ReportGood, UNCHANGED <<kind, done>>, NEW m \in wire, Awaited(m), m.op \in Doing, NEW q,
         Answer(m, q), q.op # "idle", q.task = m.task, \A u \in Tasks : u # m.task => Calm(u),
         status'[m.task] # "pending", holder'[m.task] = m.by,
         q.op \in Doing => ProgressAfter(q.task, q) /\ Sensible(q),
         \A n \in RequestOf(m.by, q) : CallAfter(n)
  PROVE  After
<1>1. /\ worker' = [worker EXCEPT ![m.by] = q]
      /\ wire' = (wire \ {m}) \cup RequestOf(m.by, q)
  BY DEF Answer
<1>2. /\ m.by \in Workers /\ worker[m.by].op # "idle" /\ worker[m.by].task = m.task
      /\ \A n \in wire : n.task = m.task => n = m
  BY AwaitedFacts
<1>3. \A n \in wire' : n \in RequestOf(m.by, q) \/ (n \in wire /\ n.task # q.task)
  BY <1>1, <1>2
<1>4. \A v \in Workers : v # m.by /\ worker[v].op # "idle" => worker[v].task # q.task
  BY <1>2, OneWorker
<1>5. worker'[m.by] = q /\ \A v \in Workers : v # m.by => worker'[v] = worker[v]
  BY <1>1, <1>2, Typed DEF ReportGood, WorkersOK
<1> QED
  BY <1>2, <1>3, <1>4, <1>5, GoesForward

RowsAfter == \A t \in Tasks : RowGood(t)'

\* A call handled after its caller gave up on it, or refused.
LEMMA HandleRefused ==
  ASSUME ReportGood, NEW m \in wire, Unauthorized(m) \/ Refuse(m)
  PROVE  After /\ RowsAfter
<1> DEFINE q == Fail(worker[m.by])
<1>0. RowsOK /\ WorkersOK /\ RowsGood /\ m.task \in Tasks
  BY Typed DEF ReportGood, WorkersOK, Request
<1>1. UNCHANGED <<kind, done>> /\ Answer(m, q)
  BY DEF Unauthorized, Refuse
<1>2. QuietStep
  <2>1. CASE Unauthorized(m)
    BY <1>0, <1>1, <2>1, FailAuthorizationQuiet DEF Unauthorized
  <2>2. CASE Refuse(m)
    BY <1>0, <1>1, <2>2, NoRow DEF Refuse
  <2> QED
    BY <2>1, <2>2
<1>3. CASE Awaited(m)
  <2>1. /\ m.by \in Workers /\ worker[m.by] \in WorkerState /\ worker[m.by].op # "idle"
    BY <1>3, AwaitedFacts
  <2>2. /\ q.op \in {"idle", "complete", "report"} /\ (q.op = "complete" => q.say = "error")
        /\ q.op # "idle" => q.task = worker[m.by].task
    BY <2>1, FailStops
  <2> HIDE DEF q
  <2>3. /\ worker'[m.by] = q /\ \A v \in Workers : v # m.by => worker'[v] = worker[v]
        /\ \A n \in wire' : n \in wire \/ n \in RequestOf(m.by, q)
    BY <1>0, <1>1, <1>3, <2>1 DEF Answer, WorkersOK
  <2>4. (\A t \in Tasks : Calm(t)) /\ RowsAfter
    BY <1>2 DEF QuietStep, RowsAfter
  <2>5. After
    BY <1>1, <2>1, <2>2, <2>3, <2>4, StopsForward
  <2> QED
    BY <2>4, <2>5
<1>4. CASE ~Awaited(m)
  <2>1. worker' = worker /\ wire' \subseteq wire
    BY <1>1, <1>4 DEF Answer
  <2> QED
    BY <1>1, <1>2, <2>1, NobodyHears DEF QuietStep, RowsAfter, Calm
<1> QED
  BY <1>3, <1>4

\* A start, a load or an end: no item is written behind a runner's back.
LEMMA HandleRound ==
  ASSUME ReportGood, NEW m \in wire, Accept(m), m.op \notin {"itemStart", "itemDone"}
  PROVE  After /\ RowsAfter
<1> DEFINE r == worker[m.by]
           t == m.task
           q == Proceed(r)
<1>0. RowsOK /\ WorkersOK /\ RowsGood /\ t \in Tasks /\ CallGood(m) /\ m.op \in Calls
  BY Typed DEF ReportGood, WorkersOK, Request
<1>1. UNCHANGED <<kind, done>> /\ Answer(m, q) /\ status[t] \in Held
  BY DEF Accept, Accepted
<1>2. QuietStep
  <2>1. CASE m.op = "started" /\ Started(t)
    BY <1>0, <1>1, <2>1, StartedQuiet
  <2>2. CASE UNCHANGED rowVars
    BY <1>0, <1>1, <2>2, NoRow
  <2>3. CASE m.op \in {"complete", "report"} /\ Complete(t, m.say)
    BY <1>0, <1>1, <2>3, CompleteQuiet
  <2> QED
    BY <2>1, <2>2, <2>3 DEF Accept
<1>3. CASE ~Awaited(m)
  <2>1. worker' = worker /\ wire' \subseteq wire
    BY <1>1, <1>3 DEF Answer
  <2> QED
    BY <1>1, <1>2, <2>1, NobodyHears DEF QuietStep, RowsAfter, Calm
<1>4. CASE Awaited(m)
  <2>1. /\ m.by \in Workers /\ r \in WorkerState /\ r.op # "idle" /\ r.op = m.op
        /\ r.task = t /\ r.item = m.item
        /\ r.op \in Doing => Progress(r.task, r) /\ Sensible(r)
    BY <1>4, AwaitedFacts
  <2>2. /\ status'[t] # "pending" /\ holder'[t] = m.by /\ status[t] # "pending"
        /\ Calm(t) /\ \A u \in Tasks : Calm(u)
    BY <1>0, <1>2 DEF CallGood, QuietStep, Calm, Steady
  <2>3. CASE m.op \in {"complete", "report"}
    <3>1. q = Idle /\ Idle.op = "idle"
      BY <2>1, <2>3 DEF Proceed, Idle
    <3>2. /\ worker'[m.by] = Idle /\ \A v \in Workers : v # m.by => worker'[v] = worker[v]
          /\ \A n \in wire' : n \in wire \/ n \in RequestOf(m.by, Idle)
      BY <1>0, <1>1, <1>4, <2>1, <3>1 DEF Answer, WorkersOK
    <3>3. (\A u \in Tasks : Calm(u)) /\ RowsAfter
      BY <1>2 DEF QuietStep, RowsAfter
    <3>4. worker[m.by].op # "idle" /\ Idle.op \in {"idle", "complete", "report"}
      BY <2>1, <3>1
    <3> HIDE DEF q, r
    <3>5. After
      BY <1>1, <2>1, <3>1, <3>2, <3>3, <3>4, StopsForward
    <3> QED
      BY <3>3, <3>5
  <2>4. CASE m.op = "started"
    <3> DEFINE n == [r EXCEPT !.op = "snapshot"]
    <3>1. q = n
      BY <2>1, <2>4 DEF Proceed
    <3>2. /\ n.op = "snapshot" /\ n.task = t /\ n.item = r.item /\ n.worst = r.worst
          /\ n.halted = r.halted
      BY <2>1 DEF WorkerState
    <3>3. r.item = 0 /\ r.worst = "success" /\ ~r.halted
      BY <2>1, <2>4 DEF Doing, Sensible, WorkerState
    <3> HIDE DEF n, q, r
    <3>4. ProgressAfter(t, n) /\ Sensible(n)
      <4>1. Progress(t, r)
        BY <2>1, <2>4 DEF Doing
      <4>2. /\ status'[t] \in Held => status[t] \in Held /\ item'[t] = item[t]
            /\ status'[t] \in {"claimed", "running"} => Underway(t)
        BY <2>2 DEF Calm
      <4>3. done'[t] = done[t]
        BY <1>1
      <4>4. ProgressAfter(t, n)
        BY <2>1, <2>4, <3>2, <4>1, <4>2, <4>3
           DEF Progress, ProgressAfter, UnderwayAfter, EarnedAfter, Earned, Held
      <4> QED
        BY <3>2, <3>3, <4>4 DEF Sensible
    <3>5. ASSUME NEW k \in RequestOf(m.by, n) PROVE CallAfter(k)
      <4>1. k.op = "snapshot" /\ k.task = t /\ k.by = m.by
        BY <3>2, RequestFacts
      <4> QED
        BY <2>2, <4>1 DEF CallAfter
    <3>6. After
      BY <1>1, <1>4, <2>2, <2>4, <3>1, <3>2, <3>4, <3>5, AnswerForward DEF Doing
    <3> QED
      BY <1>2, <3>6 DEF QuietStep, RowsAfter
  <2>5. CASE m.op = "snapshot"
    <3>1. r.item = 0 /\ r.worst = "success" /\ ~r.halted
      BY <2>1, <2>5 DEF Doing, Sensible, WorkerState
    <3>2. ReportedAfter(t, r)
      <4>1. Progress(t, r)
        BY <2>1, <2>5 DEF Doing
      <4>2. /\ status'[t] \in Held => status[t] \in Held /\ item'[t] = item[t]
        BY <2>2 DEF Calm
      <4>3. done'[t] = done[t]
        BY <1>1
      <4>4. \A i \in Items : i > r.item /\ ~(i <= r.item)
        BY <3>1, WorkerTaskAssumption DEF Items
      <4> HIDE DEF r
      <4> QED
        BY <4>1, <4>2, <4>3, <4>4 DEF Progress, ReportedAfter
    <3>3. CASE kind[t] # "debug"
      <4>1. q = NextItem(r)
        BY <2>1, <2>5, <3>3 DEF Proceed
      <4> HIDE DEF q, r
      <4>2. /\ q.op # "idle" /\ q.task = t
            /\ q.op \in Doing => ProgressAfter(t, q) /\ Sensible(q)
            /\ \A k \in RequestOf(m.by, q) : CallAfter(k)
        BY <1>0, <2>1, <2>2, <3>1, <3>2, <4>1, NextRound
      <4>3. After
        BY <1>1, <1>4, <2>2, <2>5, <4>2, AnswerForward DEF Doing
      <4> QED
        BY <1>2, <4>3 DEF QuietStep, RowsAfter
    <3>4. CASE kind[t] = "debug"
      <4> DEFINE n == [r EXCEPT !.op = "execute"]
      <4>1. q = n
        BY <2>1, <2>5, <3>4 DEF Proceed
      <4>2. /\ n.op = "execute" /\ n.task = t /\ n.item = 0 /\ n.worst = "success"
            /\ ~n.halted
        BY <2>1, <3>1 DEF WorkerState
      <4> HIDE DEF n, q
      <4>3. Sensible(n)
        <5>1. 0 \notin Disabled
          BY WorkerTaskAssumption DEF Items
        <5> QED
          BY <3>4, <4>2, <5>1 DEF Sensible
      <4>4. ProgressAfter(t, n)
        <5>1. \A i \in Items : i > 0 /\ i # 0 /\ ~(i < 0)
          BY WorkerTaskAssumption DEF Items
        <5> QED
          BY <3>1, <3>2, <4>2, <5>1 DEF ReportedAfter, ProgressAfter
      <4>5. \A k \in RequestOf(m.by, n) : CallAfter(k)
        BY <4>2, RequestFacts DEF Calls
      <4>6. After
        BY <1>1, <1>4, <2>2, <2>5, <4>1, <4>2, <4>3, <4>4, <4>5, AnswerForward DEF Doing
      <4> QED
        BY <1>2, <4>6 DEF QuietStep, RowsAfter
    <3> QED
      BY <3>3, <3>4
  <2> QED
    BY <1>0, <2>3, <2>4, <2>5 DEF Calls
<1> QED
  BY <1>3, <1>4

\* The items of a task are written by its runner in turn, or after the runner has left.
LEMMA HandleWrite ==
  ASSUME ReportGood, NEW m \in wire, Accept(m), m.op \in {"itemStart", "itemDone"}
  PROVE  After /\ RowsAfter
<1> DEFINE r == worker[m.by]
           t == m.task
           i == m.item
           q == Proceed(r)
<1>0. /\ RowsOK /\ WorkersOK /\ RowsGood /\ t \in Tasks /\ CallGood(m) /\ i \in Items
      /\ m.op = "itemDone" => m.say \in Verdicts \cup {"skipped"}
  BY Typed DEF ReportGood, WorkersOK, Request, ReportsFit, Fits
<1>1. UNCHANGED <<kind, done>> /\ Answer(m, q) /\ status[t] \in Held
  BY DEF Accept, Accepted
<1>2. /\ WriteStep(t)
      /\ m.op = "itemStart" => item'[t] = [item[t] EXCEPT ![i] = "running"]
      /\ m.op = "itemDone" =>
           IF status[t] = "stopping" \/ item[t][i] \notin Open THEN item'[t] = item[t]
           ELSE item'[t] = [item[t] EXCEPT ![i] = m.say]
  <2>1. CASE m.op = "itemStart"
    <3>1. StartItem(t, i) /\ item[t][i] \in Open
      BY <1>0, <1>1, <2>1 DEF Accept, CallGood
    <3> QED
      BY <1>0, <1>1, <2>1, <3>1, StartItemStep
  <2>2. CASE m.op = "itemDone"
    <3>1. /\ CompleteItem(t, i, m.say) /\ m.say \in Verdicts \cup {"skipped"}
          /\ m.say \in Verdicts => done[t][i] = m.say
      BY <1>0, <1>1, <2>2 DEF Accept, CallGood
    <3> QED
      BY <1>0, <1>1, <2>2, <3>1, CompleteItemStep
  <2> QED
    BY <2>1, <2>2
<1>3. /\ RowsAfter /\ (\A u \in Tasks : u # t => Calm(u)) /\ status' = status
      /\ \A u \in Tasks : Steady(u)
      /\ holder'[t] = m.by /\ status'[t] # "pending"
  BY <1>0, <1>2 DEF WriteStep, RowsAfter, Steady, CallGood
<1>4. CASE ~Awaited(m)
  <2>1. worker' = worker /\ wire' = wire \ {m} /\ Forward(m)
    BY <1>1, <1>4 DEF Answer, Forward
  <2> QED
    BY <1>1, <1>3, <1>4, <2>1, NobodyHears
<1>5. CASE Awaited(m)
  <2>1. /\ m.by \in Workers /\ r \in WorkerState /\ r.op = m.op /\ r.task = t /\ r.item = i
        /\ r.say = m.say /\ Progress(t, r) /\ Sensible(r)
    BY <1>5, AwaitedFacts DEF Doing
  <2>2. item[t] \in [Items -> ItemStatuses] /\ done'[t] = done[t] /\ i \in Nat
        /\ \A k \in Items : k \in Nat
    BY <1>0, <1>1, WorkerTaskAssumption DEF RowsOK, Items
  <2>3. CASE m.op = "itemStart"
    <3> DEFINE n == [r EXCEPT !.op = "execute"]
    <3>1. q = n
      BY <2>1, <2>3 DEF Proceed
    <3>2. /\ n.op = "execute" /\ n.task = t /\ n.item = i /\ n.worst = r.worst
          /\ n.halted = r.halted
      BY <2>1 DEF WorkerState
    <3> HIDE DEF n, q, r
    <3>3. Sensible(n)
      <4>1. i # 0
        BY <1>0 DEF Items
      <4> QED
        BY <2>1, <2>3, <3>2, <4>1 DEF Sensible
    <3>4. ProgressAfter(t, n)
      <4>1. item'[t][i] = "running" /\ \A k \in Items : k # i => item'[t][k] = item[t][k]
        BY <1>0, <1>2, <2>2, <2>3
      <4>2. \A k \in Items : (k > i \/ k < i) => k # i
        BY <2>2
      <4> QED
        BY <1>3, <2>1, <2>2, <2>3, <3>2, <4>1, <4>2
           DEF Progress, ProgressAfter, UnderwayAfter, Underway, EarnedAfter, Earned, Open
    <3>5. \A k \in RequestOf(m.by, n) : CallAfter(k)
      BY <3>2, RequestFacts DEF Calls
    <3>6. After
      BY <1>1, <1>3, <1>5, <2>3, <3>1, <3>2, <3>3, <3>4, <3>5, AnswerForward DEF Doing
    <3> QED
      BY <1>3, <3>6
  <2>4. CASE m.op = "itemDone"
    <3>1. q = NextItem(r)
      BY <2>1, <2>4 DEF Proceed
    <3> HIDE DEF q, r
    <3>2. status[t] \in Held /\ item[t][i] \in Open
      BY <1>0, <1>1, <2>1 DEF Progress
    <3>3. ReportedAfter(t, r)
      <4>1. \A k \in Items : k > r.item => done'[t][k] = "none"
        BY <2>1, <2>2 DEF Progress
      <4>2. \A k \in Items : k > i => item'[t][k] = "pending"
        BY <1>0, <1>2, <2>1, <2>2, <2>4, <3>2 DEF Progress
      <4>3. ASSUME UnderwayAfter(t), NEW k \in Items, k <= i
            PROVE  item'[t][k] \notin Open /\ (r.worst = "success" => EarnedAfter(t, k))
        <5>1. Underway(t) /\ item'[t] = [item[t] EXCEPT ![i] = m.say]
          BY <1>2, <1>3, <2>4, <3>2, <4>3 DEF UnderwayAfter, Underway
        <5>2. CASE k = i
          <6>1. item'[t][k] = m.say
            BY <2>2, <5>1, <5>2
          <6>2. m.say \notin Open
            BY <1>0, <2>4 DEF Open, Verdicts
          <6>3. r.worst = "success" => m.say = IF k \in Disabled THEN "skipped" ELSE "success"
            BY <2>1, <2>4, <5>2 DEF Sensible
          <6> QED
            BY <6>1, <6>2, <6>3 DEF EarnedAfter
        <5>3. CASE k # i
          <6>1. item'[t][k] = item[t][k]
            BY <2>2, <5>1, <5>3
          <6>2. k < i
            BY <2>2, <4>3, <5>3
          <6> QED
            BY <2>1, <5>1, <6>1, <6>2 DEF Progress, EarnedAfter, Earned
        <5> QED
          BY <5>2, <5>3
      <4> QED
        BY <2>1, <4>1, <4>2, <4>3 DEF ReportedAfter
    <3>4. /\ q.op # "idle" /\ q.task = t
          /\ q.op \in Doing => ProgressAfter(t, q) /\ Sensible(q)
          /\ \A k \in RequestOf(m.by, q) : CallAfter(k)
      <4>1. r.halted => r.worst # "success"
        BY <2>1 DEF Sensible
      <4> QED
        BY <1>0, <1>3, <2>1, <3>1, <3>3, <4>1, NextRound
    <3>5. After
      BY <1>1, <1>3, <1>5, <2>4, <3>4, AnswerForward DEF Doing
    <3> QED
      BY <1>3, <3>5
  <2> QED
    BY <2>3, <2>4
<1> QED
  BY <1>4, <1>5

LEMMA LeaveReport ==
  ASSUME ReportGood, NEW w \in Workers,
         SeeStop(w) \/ SeeLeaseLost(w) \/ GiveUp(w) \/ Shutdown(w) \/ Crash(w)
  PROVE  After /\ RowsAfter
<1> DEFINE r == worker[w]
<1>0. RowsOK /\ WorkersOK /\ RowsGood /\ r \in WorkerState
  BY Typed DEF ReportGood, WorkersOK
<1>1. QuietStep /\ UNCHANGED <<kind, done>> /\ r.op # "idle"
  BY <1>0, WorkerQuiet DEF SeeStop, SeeLeaseLost, GiveUp, Shutdown, Crash, Running
<1>2. (\A t \in Tasks : Calm(t)) /\ RowsAfter
  BY <1>1 DEF QuietStep, RowsAfter
<1>3. PICK q \in {Fail(r), Report(r, "canceled"), Report(r, "error"), Idle} : Abandon(w, q)
  BY DEF SeeStop, SeeLeaseLost, GiveUp, Shutdown, Crash
<1>4. /\ q.op \in {"idle", "complete", "report"} /\ (q.op = "complete" => q.say = "error")
      /\ q.op # "idle" => q.task = r.task
  <2>1. CASE q = Fail(r)
    BY <1>0, <2>1, FailStops
  <2>2. CASE q \in {Report(r, "canceled"), Report(r, "error")}
    BY <1>0, <2>2 DEF Report, WorkerState
  <2>3. CASE q = Idle
    BY <2>3 DEF Idle
  <2> QED
    BY <2>1, <2>2, <2>3
<1>5. /\ worker'[w] = q /\ \A v \in Workers : v # w => worker'[v] = worker[v]
      /\ \A n \in wire' : n \in wire \/ n \in RequestOf(w, q)
  BY <1>0, <1>3 DEF Abandon, WorkersOK
<1>6. After
  BY <1>1, <1>2, <1>4, <1>5, StopsForward
<1> QED
  BY <1>2, <1>6

LEMMA UnheardReport ==
  ASSUME ReportGood,
         \/ \E w \in Workers : Heartbeat(w)
         \/ \E t \in Tasks : \/ ClaimRefused(t) \/ ExpireLeases(t) \/ StopRun(t)
                             \/ RevokeExecutions(t) \/ AccessChanges(t) \/ FinishDebug(t) \/ Age(t)
         \/ \E t \in Tasks, w \in Workers : Claim(w, t) /\ UNCHANGED <<worker, wire>>
         \/ UNCHANGED vars
  PROVE  After /\ RowsAfter
<1>0. RowsOK /\ WorkersOK /\ RowsGood
  BY Typed DEF ReportGood
<1>1. QuietStep
  <2>1. CASE UNCHANGED vars
    BY <1>0, <2>1, NoRow DEF vars, rowVars
  <2> QED
    BY <1>0, <2>1, WorkerQuiet, TaskQuiet
<1>2. UNCHANGED <<kind, done, worker, wire>>
  BY DEF Heartbeat, ClaimRefused, ExpireLeases, StopRun, RevokeExecutions, AccessChanges,
         FinishDebug, Age, Claim, vars
<1>3. (\A t \in Tasks : Calm(t)) /\ RowsAfter
  BY <1>1 DEF QuietStep, RowsAfter
<1>4. \A t \in Tasks : Steady(t)
  BY <1>3 DEF Calm
<1>5. After
  BY <1>2, <1>3, <1>4, NobodyHears
<1> QED
  BY <1>3, <1>5

\* A task that was taken is begun from its first item.
LEMMA ClaimReport ==
  ASSUME ReportGood, NEW w \in Workers, NEW t \in Tasks, Claim(w, t)
  PROVE  After /\ RowsAfter
<1> DEFINE q == [Idle EXCEPT !.task = t, !.op = "started"]
<1>0. RowsOK /\ WorkersOK /\ RowsGood /\ RowGood(t)
  BY Typed DEF ReportGood, RowsGood
<1>1. CASE UNCHANGED <<worker, wire>>
  BY <1>1, UnheardReport
<1>2. CASE GoOn(w, q)
  <2>1. QuietStep
    BY <1>0, TaskQuiet
  <2>2. (\A u \in Tasks : Calm(u)) /\ RowsAfter
    BY <2>1 DEF QuietStep, RowsAfter
  <2>3. /\ UNCHANGED <<kind, done, item>> /\ status[t] = "pending"
        /\ status'[t] = "claimed" /\ holder'[t] = w
        /\ \A i \in Items : done[t][i] = "none" /\ item[t][i] = "pending"
    BY <1>0 DEF Claim, SetStatus, RowsOK, RowGood
  <2>4. /\ q.op = "started" /\ q.task = t /\ q.item = 0 /\ q.worst = "success" /\ ~q.halted
    BY DEF Idle
  <2>5. /\ worker'[w] = q /\ \A v \in Workers : v # w => worker'[v] = worker[v]
        /\ wire' = wire \cup RequestOf(w, q)
    BY <1>0, <1>2 DEF GoOn, WorkersOK
  <2> HIDE DEF q
  <2>6. \A v \in Workers : worker[v].op # "idle" => worker[v].task # t
    BY <2>3 DEF ReportGood, Runner
  <2>7. \A n \in wire : n.task # t
    BY <2>3 DEF ReportGood, CallGood
  <2>8. ProgressAfter(t, q)
    <3>1. \A i \in Items : ~(i < 0) /\ i # 0
      BY DEF Items
    <3> QED
      BY <2>3, <2>4, <3>1 DEF ProgressAfter
  <2>9. Sensible(q)
    BY <2>4 DEF Sensible
  <2>10. ASSUME NEW n \in RequestOf(w, q) PROVE CallAfter(n)
    <3>1. n.op = "started" /\ n.task = t /\ n.by = w
      BY <2>4, RequestFacts
    <3> QED
      BY <2>3, <3>1 DEF CallAfter
  <2>11. After
    BY <2>2, <2>3, <2>4, <2>5, <2>6, <2>7, <2>8, <2>9, <2>10, GoesForward
  <2> QED
    BY <2>2, <2>11
<1> QED
  BY <1>1, <1>2 DEF Claim

\* What the worker really did is what it will say.
LEMMA ExecuteReport ==
  ASSUME ReportGood, NEW w \in Workers, NEW v \in Verdicts, Execute(w, v)
  PROVE  After /\ RowsAfter
<1> DEFINE r == worker[w]
           t == r.task
           i == r.item
<1>0. /\ RowsOK /\ WorkersOK /\ RowsGood /\ r \in WorkerState /\ Runner(w, r)
      /\ worker \in [Workers -> WorkerState] /\ r.op = "execute"
      /\ done \in [Tasks -> [Items -> Verdicts \cup {"none"}]]
  BY Typed DEF ReportGood, WorkersOK, Execute, IInv, TypeOK
<1>1. /\ t \in Tasks /\ i \in 0 .. NItems /\ UNCHANGED <<kind, rowVars>> /\ r.worst \in Verdicts
  BY <1>0 DEF WorkersOK, ReportsFit, Fits, WorkerState, Execute
<1>2. /\ status[t] # "pending" /\ holder[t] = w /\ Progress(t, r) /\ Sensible(r)
      /\ \A n \in wire : n.task # t
  <2>1. RequestOf(w, r) = {}
    BY <1>0 DEF RequestOf, Calls
  <2> QED
    BY <1>0, <2>1 DEF Runner, Doing
<1>3. /\ \A u \in Tasks : Calm(u) /\ Still(u)
      /\ \A x \in Workers : x # w /\ worker[x].op # "idle" => worker[x].task # t
  BY <1>0, <1>1, OneWorker, StillCalm DEF Still, rowVars
<1>4. status'[t] # "pending" /\ holder'[t] = w
  BY <1>1, <1>2, <1>3 DEF Still
<1>5. CASE i = 0
  <2> DEFINE q == Finish(r, v)
  <2>1. /\ worker'[w] = q /\ \A x \in Workers : x # w => worker'[x] = worker[x]
        /\ wire' = wire \cup RequestOf(w, q) /\ done' = done
    BY <1>0, <1>5 DEF Execute, GoOn
  <2>2. q.op = "complete" /\ q.task = t /\ kind[t] = "debug"
    BY <1>0, <1>2, <1>5 DEF Finish, WorkerState, Sensible
  <2> HIDE DEF q, r
  <2>3. ASSUME NEW n \in RequestOf(w, q) PROVE CallAfter(n)
    <3>1. n.op = "complete" /\ n.task = t /\ n.by = w /\ ItemsOf(t) = {}
      BY <2>2, RequestFacts DEF ItemsOf
    <3> QED
      BY <1>4, <3>1 DEF CallAfter
  <2>4. After
    BY <1>1, <1>2, <1>3, <1>4, <2>1, <2>2, <2>3, GoesForward DEF Doing
  <2>5. RowsAfter
    BY <1>0, <1>1, <1>3, <2>1, StillGood DEF RowsGood, RowsAfter
  <2> QED
    BY <2>4, <2>5
<1>6. CASE i # 0
  <2> DEFINE q == [r EXCEPT !.op = "itemDone", !.say = v, !.worst = Worse(r.worst, v),
                     !.halted = r.halted \/ (v # "success" /\ r.item \notin Continues)]
  <2>1. /\ worker'[w] = q /\ \A x \in Workers : x # w => worker'[x] = worker[x]
        /\ wire' = wire \cup RequestOf(w, q)
        /\ done' = [done EXCEPT ![t] = [done[t] EXCEPT ![i] = v]]
    BY <1>0, <1>6 DEF Execute, GoOn
  <2>2. /\ q.op = "itemDone" /\ q.task = t /\ q.item = i /\ q.say = v
        /\ q.worst = Worse(r.worst, v)
        /\ q.halted => r.halted \/ v # "success"
    BY <1>0 DEF WorkerState
  <2>3. Worse(r.worst, v) = "success" => r.worst = "success" /\ v = "success"
    BY <1>1 DEF Worse, Severity, Verdicts
  <2>4. i \in Items /\ (\A k \in Items : k \in Nat) /\ i \in Nat
    BY <1>1, <1>6, WorkerTaskAssumption DEF Items
  <2> HIDE DEF q, r
  <2>5. /\ done'[t][i] = v /\ \A k \in Items : k # i => done'[t][k] = done[t][k]
        /\ \A u \in Tasks : u # t => done'[u] = done[u]
    BY <1>0, <1>1, <2>1, <2>4
  <2>6. done[t][i] = "none"
    BY <1>0, <1>2, <2>4 DEF Progress
  <2>7. ProgressAfter(t, q)
    <3>1. \A k \in Items : k > i => k # i
      BY <2>4
    <3>2. item'[t] = item[t] /\ status'[t] = status[t]
      BY <1>1, <1>3 DEF Still
    <3> QED
      BY <1>0, <1>2, <2>2, <2>3, <2>5, <3>1, <3>2
         DEF Progress, ProgressAfter, UnderwayAfter, Underway, EarnedAfter, Earned
  <2>8. Sensible(q)
    BY <1>0, <1>2, <2>2, <2>3 DEF Sensible
  <2>9. ASSUME NEW n \in RequestOf(w, q) PROVE CallAfter(n)
    <3>1. n.op = "itemDone" /\ n.task = t /\ n.by = w /\ n.item = i /\ n.say = v
      BY <2>2, RequestFacts
    <3> QED
      BY <1>4, <2>5, <3>1 DEF CallAfter
  <2>10. After
    BY <1>1, <1>2, <1>3, <1>4, <2>1, <2>2, <2>5, <2>7, <2>8, <2>9, GoesForward
  <2>11. ASSUME NEW u \in Tasks, u = t PROVE RowGood(u)'
    <3>1. RowGood(u) /\ Still(u) /\ kind' = kind
      BY <1>0, <1>1, <1>3 DEF RowsGood
    <3>2. \A k \in ItemsOf(u) : item[u][k] \in {"success", "failed"} => done'[u][k] = item[u][k]
      BY <2>5, <2>6, <2>11, <3>1 DEF RowGood, ItemsOf
    <3>3. status'[u] # "pending"
      BY <1>4, <2>11
    <3> QED
      BY <3>1, <3>2, <3>3 DEF RowGood, Still, Underway, Earned, ItemsOf
  <2>12. ASSUME NEW u \in Tasks, u # t PROVE RowGood(u)'
    BY <1>0, <1>1, <1>3, <2>5, <2>12, StillGood DEF RowsGood
  <2> QED
    BY <2>10, <2>11, <2>12 DEF RowsAfter
<1> QED
  BY <1>5, <1>6

-----------------------------------------------------------------------------
(* Every step keeps the reports earned and adding up                       *)

\* What a run promises of its reports, with all that it rests on.
ReportSafe == IInv /\ ReportInv /\ TaskIsEarned /\ ReportAddsUp

LEMMA RowsTogetherAfter == RowsGood' <=> (RowsInv /\ TaskIsEarned /\ ReportAddsUp)'
BY RowsTogether, PTL

LEMMA StepReport ==
  ASSUME ReportSafe, [Next]_vars
  PROVE  ReportSafe'
<1>1. ReportGood
  BY RowsTogether, RunnersTogether, CallsTogether DEF ReportSafe, ReportInv, ReportGood
<1>2. kind' = kind /\ After /\ RowsAfter
  <2>1. CASE UNCHANGED vars
    BY <1>1, <2>1, UnheardReport DEF vars
  <2>2. ASSUME NEW t \in Tasks, TaskNext(t)
        PROVE  kind' = kind /\ After /\ RowsAfter
    <3>1. kind' = kind
      BY <2>2 DEF TaskNext, Claim, ClaimRefused, ExpireLeases, StopRun, RevokeExecutions,
                  AccessChanges, FinishDebug, Age
    <3>2. CASE \E w \in Workers : Claim(w, t)
      BY <1>1, <3>1, <3>2, ClaimReport
    <3>3. CASE ~\E w \in Workers : Claim(w, t)
      BY <1>1, <2>2, <3>1, <3>3, UnheardReport DEF TaskNext
    <3> QED
      BY <3>2, <3>3
  <2>3. ASSUME NEW w \in Workers, WorkerNext(w)
        PROVE  kind' = kind /\ After /\ RowsAfter
    <3>1. kind' = kind
      BY <2>3 DEF WorkerNext, Execute, Heartbeat, SeeStop, SeeLeaseLost, GiveUp, Shutdown, Crash
    <3>2. CASE Heartbeat(w)
      BY <1>1, <3>1, <3>2, UnheardReport
    <3> QED
      BY <1>1, <2>3, <3>1, <3>2, ExecuteReport, LeaveReport DEF WorkerNext
  <2>4. ASSUME NEW m \in wire, Handle(m)
        PROVE  kind' = kind /\ After /\ RowsAfter
    <3>1. kind' = kind
      BY <2>4 DEF Handle, Accept, Unauthorized, Refuse
    <3>2. CASE Accept(m)
      BY <1>1, <3>1, <3>2, HandleRound, HandleWrite
    <3> QED
      BY <1>1, <2>4, <3>1, <3>2, HandleRefused DEF Handle
  <2> QED
    BY <2>1, <2>2, <2>3, <2>4 DEF Next
<1>3. IInv'
  BY <1>1, StepGood DEF ReportGood
<1>4. RowsGood'
  BY <1>2 DEF RowsAfter, RowsGood
<1>5. RunnersInv' /\ CallsInv'
  BY <1>2, AfterIsPrimed
<1> QED
  BY <1>3, <1>4, <1>5, RowsTogetherAfter DEF ReportSafe, ReportInv

LEMMA InitReport ==
  ASSUME Init
  PROVE  ReportSafe
<1>1. IInv
  BY InitGood
<1>2. ASSUME NEW s \in Counted
      PROVE  Count([i \in Items |-> "pending"], s) = 0
  <2>1. {i \in Items : [k \in Items |-> "pending"][i] = s} = {}
    BY DEF Counted
  <2> QED
    BY <2>1, FS_EmptySet DEF Count
<1>3. Tally([i \in Items |-> "pending"]) = [s \in Counted |-> 0]
  BY <1>2 DEF Tally
<1>4. RowsInv /\ TaskIsEarned
  BY DEF Init, RowsInv, TaskIsEarned, Underway, ItemsOf
<1>5. ReportAddsUp
  <2> SUFFICES ASSUME NEW t \in Tasks
               PROVE  /\ tally[t] = Tally(item[t]) /\ status[t] = "pending" /\ run[t] = "pending"
    BY DEF ReportAddsUp, Terminal
  <2> QED
    BY <1>3 DEF Init
<1>6. RunnersInv /\ CallsInv
  BY DEF Init, RunnersInv, CallsInv, Idle
<1> QED
  BY <1>1, <1>4, <1>5, <1>6 DEF ReportSafe, ReportInv

\* The whole invariant holds in every reachable state.
LEMMA AlwaysReportSafe == SafeSpec => []ReportSafe
BY InitReport, StepReport, PTL DEF SafeSpec

\* A runner takes its items in order, one call at a time, and every call of a task
\* under way is its holder's: whatever is lost or late, no two calls that carry one
\* task forward are ever under way together.
THEOREM ReportsHold == SafeSpec => []ReportInv
<1>1. ReportSafe => ReportInv
  BY DEF ReportSafe
<1> QED
  BY <1>1, AlwaysReportSafe, PTL

-----------------------------------------------------------------------------
(* What a run shows: success only for what its task or its items earned     *)

\* A run takes a verdict only when its task ends, and then from the items it ends with.
Verdict(t) ==
  \/ run'[t] = run[t] /\ (status[t] \in Terminal => status'[t] = status[t] /\ item'[t] = item[t])
  \/ run'[t] # "success"
  \/ status'[t] \in Verdicts /\ run'[t] = RunVerdict(t, status'[t], item'[t])

LEMMA SameVerdict ==
  ASSUME NEW t \in Tasks, run'[t] = run[t], status'[t] = status[t], item'[t] = item[t]
  PROVE  Verdict(t)
BY DEF Verdict

LEMMA OtherVerdict == ASSUME NEW t \in Tasks, run'[t] # "success" PROVE Verdict(t)
BY DEF Verdict

LEMMA UntouchedVerdict == ASSUME UNCHANGED rowVars, NEW u \in Tasks PROVE Verdict(u)
BY SameVerdict DEF rowVars

\* A row that is written: its own verdict, the other rows are left alone.
LEMMA OneVerdict ==
  ASSUME RowsOK, NEW t \in Tasks, NEW s, NEW r, SetStatus(t, s, r),
         \A v \in Tasks : v # t => item'[v] = item[v],
         Verdict(t), NEW u \in Tasks
  PROVE  Verdict(u)
<1>1. CASE u = t
  BY <1>1
<1>2. CASE u # t
  BY <1>2, SameVerdict DEF SetStatus, RowsOK
<1> QED
  BY <1>1, <1>2

LEMMA LostAccessVerdict ==
  ASSUME RowsOK, NEW t \in Tasks, FailAuthorization(t), NEW u \in Tasks
  PROVE  Verdict(u)
<1>1. SetStatus(t, "failed", "failed") /\ SetItems(t, ItemsAfter(t, "error"))
  BY DEF FailAuthorization
<1>2. run'[t] = "failed"
  BY <1>1 DEF SetStatus, RowsOK
<1>3. \A v \in Tasks : v # t => item'[v] = item[v]
  BY <1>1 DEF SetItems, RowsOK
<1> QED
  BY <1>1, <1>2, <1>3, OtherVerdict, OneVerdict

LEMMA AcceptVerdict ==
  ASSUME RowsOK, WorkersOK, NEW m \in wire, Accept(m), NEW u \in Tasks
  PROVE  Verdict(u)
<1> DEFINE t == m.task
<1>1. t \in Tasks /\ status[t] \in Held
  BY DEF WorkersOK, Request, Accept, Accepted
<1>2. CASE Started(t)
  <2>1. CASE UNCHANGED <<status, run, item>>
    BY <2>1, SameVerdict
  <2>2. CASE SetStatus(t, "running", "running") /\ item' = item
    <3>1. run'[t] # "success"
      BY <1>1, <2>2 DEF SetStatus, RowsOK
    <3> QED
      BY <1>1, <2>2, <3>1, OtherVerdict, OneVerdict
  <2> QED
    BY <1>2, <2>1, <2>2 DEF Started
<1>3. CASE UNCHANGED rowVars
  BY <1>3, UntouchedVerdict
<1>4. CASE StartItem(t, m.item) \/ CompleteItem(t, m.item, m.say)
  <2>1. run' = run /\ status' = status /\ \A v \in Tasks : v # t => item'[v] = item[v]
    BY <1>4 DEF StartItem, CompleteItem, SetItems, RowsOK
  <2>2. status[t] \notin Terminal
    BY <1>1 DEF Held, Terminal
  <2> QED
    BY <2>1, <2>2 DEF Verdict
<1>5. CASE m.op \in {"complete", "report"} /\ Complete(t, m.say)
  <2> DEFINE final == FinalStatus(t, m.say)
             f == IF final = "canceled" THEN ItemsAfter(t, "canceled") ELSE item[t]
             v == RunVerdict(t, final, f)
  <2>1. /\ SetStatus(t, final, v)
        /\ SetItems(t, f) \/ (item' = item /\ final # "canceled")
    BY <1>5 DEF Complete
  <2>2. item'[t] = f /\ \A k \in Tasks : k # t => item'[k] = item[k]
    BY <1>1, <2>1 DEF SetItems, RowsOK
  <2>3. final = "canceled" => v = "canceled"
    BY DEF RunVerdict
  <2>4. final = "canceled" \/ final \in Verdicts
    <3>1. Fits(m.op, m.task, m.item, m.say)
      BY DEF WorkersOK, ReportsFit
    <3> QED
      BY <1>5, <3>1 DEF Fits, FinalStatus, Verdicts
  <2> HIDE DEF final, f, v
  <2>5. status'[t] = final /\ run'[t] = v
    BY <1>1, <2>1 DEF SetStatus, RowsOK
  <2>6. Verdict(t)
    <3>1. CASE final = "canceled"
      BY <1>1, <2>3, <2>5, <3>1, OtherVerdict
    <3>2. CASE final # "canceled"
      <4>1. run'[t] = RunVerdict(t, status'[t], item'[t])
        BY <2>2, <2>5 DEF v
      <4> QED
        BY <2>4, <2>5, <3>2, <4>1 DEF Verdict
    <3> QED
      BY <3>1, <3>2
  <2> QED
    BY <1>1, <2>1, <2>2, <2>6, OneVerdict
<1> QED
  BY <1>2, <1>3, <1>4, <1>5 DEF Accept

LEMMA HandleVerdict ==
  ASSUME RowsOK, WorkersOK, NEW m \in wire, Handle(m), NEW u \in Tasks
  PROVE  Verdict(u)
<1>1. CASE Unauthorized(m)
  <2>1. m.task \in Tasks /\ FailAuthorization(m.task)
    BY <1>1 DEF WorkersOK, Request, Unauthorized
  <2> QED
    BY <2>1, LostAccessVerdict
<1>2. CASE Refuse(m)
  BY <1>2, UntouchedVerdict DEF Refuse
<1> QED
  BY <1>1, <1>2, AcceptVerdict DEF Handle

LEMMA TaskVerdict ==
  ASSUME RowsOK, RowsGood, NEW t \in Tasks, TaskNext(t), NEW u \in Tasks
  PROVE  Verdict(u)
<1>1. ASSUME NEW w \in Workers, Claim(w, t) PROVE Verdict(u)
  <2>1. /\ SetStatus(t, "claimed", IF kind[t] = "suite" THEN run[t] ELSE "queued")
        /\ status[t] = "pending" /\ item' = item
    BY <1>1 DEF Claim
  <2>2. run[t] = "pending"
    BY <2>1 DEF RowsGood, RowGood
  <2>3. run'[t] # "success"
    BY <2>1, <2>2 DEF SetStatus, RowsOK
  <2> QED
    BY <2>1, <2>3, OtherVerdict, OneVerdict
<1>2. CASE ClaimRefused(t)
  BY <1>2, LostAccessVerdict DEF ClaimRefused
<1>3. CASE ExpireLeases(t)
  <2> DEFINE f == ItemsAfter(t, "error")
             v == RunVerdict(t, "error", f)
  <2>1. SetStatus(t, "error", v) /\ SetItems(t, f)
    BY <1>3 DEF ExpireLeases
  <2>2. item'[t] = f /\ \A k \in Tasks : k # t => item'[k] = item[k]
    BY <2>1 DEF SetItems, RowsOK
  <2> HIDE DEF f, v
  <2>3. status'[t] = "error" /\ run'[t] = v
    BY <2>1 DEF SetStatus, RowsOK
  <2>4. Verdict(t)
    BY <2>2, <2>3 DEF Verdict, Verdicts, v
  <2> QED
    BY <2>1, <2>2, <2>4, OneVerdict
<1>4. CASE StopRun(t)
  <2> DEFINE s == IF status[t] = "pending" THEN "canceled" ELSE "stopping"
  <2>1. SetStatus(t, s, s)
    BY <1>4 DEF StopRun
  <2>2. \A k \in Tasks : k # t => item'[k] = item[k]
    BY <1>4 DEF StopRun, SetItems, RowsOK
  <2>3. run'[t] # "success"
    BY <2>1 DEF SetStatus, RowsOK
  <2> QED
    BY <2>1, <2>2, <2>3, OtherVerdict, OneVerdict
<1>5. CASE RevokeExecutions(t)
  BY <1>5, LostAccessVerdict, UntouchedVerdict DEF RevokeExecutions
<1>6. CASE AccessChanges(t)
  BY <1>6, UntouchedVerdict DEF AccessChanges
<1>7. CASE FinishDebug(t)
  <2>1. SetStatus(t, "gone", "gone") /\ item' = item
    BY <1>7 DEF FinishDebug
  <2>2. run'[t] # "success"
    BY <2>1 DEF SetStatus, RowsOK
  <2> QED
    BY <2>1, <2>2, OtherVerdict, OneVerdict
<1>8. CASE Age(t)
  BY <1>8, SameVerdict DEF Age
<1> QED
  BY <1>1, <1>2, <1>3, <1>4, <1>5, <1>6, <1>7, <1>8 DEF TaskNext

LEMMA WorkerVerdict ==
  ASSUME RowsOK, WorkersOK, NEW w \in Workers, WorkerNext(w), NEW u \in Tasks
  PROVE  Verdict(u)
<1> DEFINE t == worker[w].task
<1>1. worker[w].op # "idle" => t \in Tasks
  BY DEF WorkersOK, ReportsFit, Fits
<1>2. CASE Heartbeat(w)
  <2>1. CASE FailAuthorization(t)
    BY <1>1, <1>2, <2>1, LostAccessVerdict DEF Heartbeat
  <2>2. CASE UNCHANGED <<status, run, item>>
    BY <2>2, SameVerdict
  <2> QED
    BY <1>2, <2>1, <2>2 DEF Heartbeat
<1>3. CASE SeeLeaseLost(w)
  <2>1. CASE FailAuthorization(t)
    BY <1>1, <1>3, <2>1, LostAccessVerdict DEF SeeLeaseLost, Running
  <2> QED
    BY <1>3, <2>1, UntouchedVerdict DEF SeeLeaseLost
<1>4. CASE \/ \E v \in Verdicts : Execute(w, v)
           \/ SeeStop(w) \/ GiveUp(w) \/ Shutdown(w) \/ Crash(w)
  BY <1>4, UntouchedVerdict DEF Execute, SeeStop, GiveUp, Shutdown, Crash
<1> QED
  BY <1>2, <1>3, <1>4 DEF WorkerNext

\* A verdict of success taken from the items has a success among them, and no failure.
LEMMA CountedSuccess ==
  ASSUME NEW t \in Tasks, NEW s \in Verdicts, NEW f \in [Items -> ItemStatuses],
         RunVerdict(t, s, f) = "success", s # "success"
  PROVE  /\ kind[t] = "collection" /\ s = "error"
         /\ \E i \in Items : f[i] = "success"
         /\ \A i \in Items : f[i] \notin {"failed", "error"}
<1>1. kind[t] = "collection" /\ s = "error"
  BY DEF RunVerdict, Verdicts
<1>2. /\ ~\A c \in {"success", "failed", "error"} : Count(f, c) = 0
      /\ ~(Count(f, "error") > 0) /\ ~(Count(f, "failed") > 0)
  BY <1>1 DEF RunVerdict
<1>3. ASSUME NEW c
      PROVE  Count(f, c) \in Nat /\ (Count(f, c) = 0 <=> \A i \in Items : f[i] # c)
  <2>1. IsFiniteSet(Items)
    BY WorkerTaskAssumption, FS_Interval DEF Items
  <2>2. {i \in Items : f[i] = c} \subseteq Items
    OBVIOUS
  <2>3. IsFiniteSet({i \in Items : f[i] = c})
    BY <2>1, <2>2, FS_Subset
  <2>4. /\ Cardinality({i \in Items : f[i] = c}) \in Nat
        /\ Cardinality({i \in Items : f[i] = c}) = 0 <=> {i \in Items : f[i] = c} = {}
    BY <2>3, FS_CardinalityType, FS_EmptySet
  <2> QED
    BY <2>4 DEF Count
<1>4. Count(f, "error") = 0 /\ Count(f, "failed") = 0
  BY <1>2, <1>3
<1>5. Count(f, "success") # 0
  BY <1>2, <1>4
<1> QED
  BY <1>1, <1>3, <1>4, <1>5

\* No step makes a run show a success that its items or its task have not earned.
LEMMA StepRun ==
  ASSUME ReportSafe, RunIsEarned, [Next]_vars
  PROVE  RunIsEarned'
<1>1. RowsOK /\ WorkersOK /\ RowsGood
  BY Typed, RowsTogether DEF ReportSafe, ReportInv
<1>2. \A u \in Tasks : Verdict(u)
  <2>1. CASE UNCHANGED vars
    BY <2>1, SameVerdict DEF vars
  <2> QED
    BY <1>1, <2>1, TaskVerdict, WorkerVerdict, HandleVerdict DEF Next
<1>3. kind' = kind
  BY DEF Next, vars, TaskNext, Claim, ClaimRefused, ExpireLeases, StopRun, RevokeExecutions,
         AccessChanges, FinishDebug, Age, WorkerNext, Execute, Heartbeat, SeeStop, SeeLeaseLost,
         GiveUp, Shutdown, Crash, Handle, Accept, Unauthorized, Refuse
<1>4. item' \in [Tasks -> [Items -> ItemStatuses]] /\ run' \in [Tasks -> Statuses \cup {"queued"}]
  BY StepGood DEF ReportSafe, IInv, TypeOK
<1> SUFFICES ASSUME NEW t \in Tasks, run'[t] = "success"
             PROVE  \/ status'[t] = "success"
                    \/ /\ kind'[t] = "collection" /\ status'[t] = "error"
                       /\ \E i \in Items : item'[t][i] = "success"
                       /\ \A i \in Items : item'[t][i] \notin {"failed", "error"}
  BY DEF RunIsEarned
<1>5. CASE run[t] = "success" /\ run'[t] = run[t]
           /\ (status[t] \in Terminal => status'[t] = status[t] /\ item'[t] = item[t])
  BY <1>3, <1>5 DEF RunIsEarned, Terminal
<1>6. CASE status'[t] \in Verdicts /\ run'[t] = RunVerdict(t, status'[t], item'[t])
  <2>1. CASE status'[t] = "success"
    BY <2>1
  <2>2. CASE status'[t] # "success"
    BY <1>3, <1>4, <1>6, <2>2, CountedSuccess
  <2> QED
    BY <2>1, <2>2
<1> QED
  BY <1>2, <1>5, <1>6 DEF Verdict

\* Success is earned: a task succeeds only when every enabled item was really executed
\* with success, every recorded result is the one the worker obtained, and a run that
\* shows success for less is a collection whose task ended in an error, of which an
\* item succeeded and none failed.
THEOREM SuccessEarned == SafeSpec => []SuccessIsEarned
<1>1. Init => RunIsEarned
  BY DEF Init, RunIsEarned
<1>2. ReportSafe /\ RunIsEarned /\ [Next]_vars => RunIsEarned'
  BY StepRun
<1>3. ReportSafe /\ RunIsEarned => SuccessIsEarned
  BY DEF ReportSafe, SuccessIsEarned
<1> QED
  BY <1>1, <1>2, <1>3, AlwaysReportSafe, PTL DEF SafeSpec

\* A run's counts are those of its items, an end other than an error leaves no item
\* open, and the run shows the state of its task.
THEOREM ReportsAddUp == SafeSpec => []ReportAddsUp
<1>1. ReportSafe => ReportAddsUp
  BY DEF ReportSafe
<1> QED
  BY <1>1, AlwaysReportSafe, PTL

=============================================================================
