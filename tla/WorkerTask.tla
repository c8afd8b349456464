----------------------------- MODULE WorkerTask -----------------------------
(***************************************************************************)
(* The queue of API and UI test tasks: the rows the control plane keeps    *)
(* (services/worker_task.py, worker_domains, worker_authorization.py,      *)
(* test_run_stop.py, worker_lease_monitor.py, live_debug_cleanup.py) and   *)
(* the workers that execute them (apps/api-ui-worker: task_poller.py,      *)
(* collection_runner.py, suite_runner.py, client.py).                      *)
(*                                                                         *)
(* Every handler of the control plane locks the task row, decides and      *)
(* commits, so it is one step.  A worker's call is two: the request enters *)
(* "wire" when it is sent and is handled later, or never.  A worker that   *)
(* gives up on a call (timeout, cancellation, crash) leaves its request on *)
(* the wire, where it is handled after everything the worker did since.    *)
(***************************************************************************)
EXTENDS Naturals, FiniteSets

CONSTANTS
  Workers,     \* worker processes
  Tasks,       \* queued tasks, one run each
  NItems,      \* items of a collection or suite run
  Continues,   \* items with continueOnFailure
  Disabled,    \* items whose case is not enabled
  MaxLate,     \* requests nobody waits for that may still arrive
  NoWorker, NoTask

Items == 1 .. NItems

ASSUME WorkerTaskAssumption ==
  /\ NItems \in Nat \ {0}
  /\ Continues \subseteq Items
  /\ Disabled \subseteq Items
  /\ MaxLate \in Nat
  /\ NoWorker \notin Workers
  /\ NoTask \notin Tasks

VARIABLES
  kind,     \* worker_tasks.task_type, fixed when the task is queued: a "collection"
            \* of API cases, a "suite" of UI cases or one live "debug" API case
  status,   \* worker_tasks.status; "gone" once the row is deleted
  holder,   \* worker_tasks.worker_id
  lease,    \* worker_tasks.lease_expires_at: "fresh", "due" for renewal, "lapsed"
  run,      \* status of the run the task executes
  item,     \* statuses of the run's items
  tally,    \* the run's success, failed, error and skipped counts
  granted,  \* the run's actor still has the project and its own variables
  worker,   \* what each worker process is doing
  wire,     \* requests sent and not handled yet
  done      \* history: what the worker really did with each item

rowVars == <<status, holder, lease, run, item, tally>>
vars == <<kind, status, holder, lease, run, item, tally, granted, worker, wire, done>>

-----------------------------------------------------------------------------
(* Rows *)

Kinds == {"collection", "suite", "debug"}
Held == {"claimed", "running", "stopping"}
Terminal == {"success", "failed", "error", "canceled"}
Closed == Terminal \cup {"stopping"}
Statuses == {"pending", "gone"} \cup Held \cup Terminal
ItemStatuses == {"pending", "running", "skipped"} \cup Terminal
Open == {"pending", "running"}
Counted == {"success", "failed", "error", "skipped"}

ItemsOf(t) == IF kind[t] = "debug" THEN {} ELSE Items

Count(f, s) == Cardinality({i \in Items : f[i] = s})
Tally(f) == [s \in Counted |-> Count(f, s)]

\* Mutant: only the items not begun are closed.
FinishStoppedPending(f, cut) ==
  [i \in Items |-> IF f[i] = "pending" THEN "skipped" ELSE f[i]]

\* Items not begun are skipped, the one being executed gets "cut".
FinishStoppedItems(f, cut) ==
  [i \in Items |-> IF f[i] = "pending" THEN "skipped"
                   ELSE IF f[i] = "running" THEN cut ELSE f[i]]

ItemsAfter(t, cut) ==
  IF kind[t] = "debug" THEN item[t] ELSE FinishStoppedItems(item[t], cut)

\* An API collection run takes its verdict from its items unless the task
\* was canceled or failed; every other run takes the task's.
RunVerdict(t, v, f) ==
  CASE kind[t] # "collection" \/ v \in {"canceled", "failed"} -> v
    [] OTHER -> IF v = "error" /\ \A s \in {"success", "failed", "error"} : Count(f, s) = 0
                THEN "error"
                ELSE IF Count(f, "error") > 0 THEN "error"
                ELSE IF Count(f, "failed") > 0 THEN "failed" ELSE "success"

SetItems(t, f) ==
  /\ item' = [item EXCEPT ![t] = f]
  /\ tally' = [tally EXCEPT ![t] = Tally(f)]

SetStatus(t, s, r) ==
  /\ status' = [status EXCEPT ![t] = s]
  /\ run' = [run EXCEPT ![t] = r]

SetLease(t, l) == lease' = [lease EXCEPT ![t] = l]

\* The actor lost access: the task and its run fail and the items close.  The
\* run is always found: the authority is resolved from it and its container,
\* foreign keys keep a run's collection, suite or case, and what deletes a run
\* deletes its task first, in the same transaction (repositories/deletion.py).
FailAuthorization(t) ==
  /\ SetItems(t, ItemsAfter(t, "error"))
  /\ SetStatus(t, "failed", "failed")
  /\ SetLease(t, "lapsed")
  /\ UNCHANGED holder

\* Mutant: the lease is not looked at.
EnsureHolder(w, t) == holder[t] = w /\ status[t] \in Held

EnsureWorkerMatch(w, t) ==
  /\ holder[t] = w
  /\ status[t] \in Held
  /\ lease[t] # "lapsed"

-----------------------------------------------------------------------------
(* The worker: one task at a time, its items in order, one call at a time. *)

Verdicts == {"success", "failed", "error"}
Calls == {"started", "snapshot", "itemStart", "itemDone", "complete", "report"}
Says == {"none", "skipped", "canceled"} \cup Verdicts

Request == [op : Calls, by : Workers, task : Tasks, item : 0 .. NItems, say : Says]

WorkerState ==
  [task : Tasks \cup {NoTask}, op : Calls \cup {"idle", "execute"},
   item : 0 .. NItems, say : Says, worst : Verdicts, halted : BOOLEAN]

Idle == [task |-> NoTask, op |-> "idle", item |-> 0, say |-> "none",
         worst |-> "success", halted |-> FALSE]

RequestOf(w, r) ==
  IF r.op \in Calls
  THEN {[op |-> r.op, by |-> w, task |-> r.task, item |-> r.item, say |-> r.say]}
  ELSE {}

Awaited(m) == m \in RequestOf(m.by, worker[m.by])
Late == {m \in wire : ~Awaited(m)}

Report(r, v) == [r EXCEPT !.op = "report", !.item = 0, !.say = v]
Finish(r, v) == [r EXCEPT !.op = "complete", !.item = 0, !.say = v]

\* Mutant: one item too many.
NextItemUnbounded(r) == [r EXCEPT !.op = "itemStart", !.item = r.item + 1, !.say = "none"]

\* What the runner does after item r.item: the next item, reported as skipped
\* when it is disabled or an earlier one halted the run; else the verdict.
NextItem(r) ==
  LET p == r.item + 1 IN
  CASE p > NItems -> Finish(r, r.worst)
    [] p <= NItems /\ (r.halted \/ p \in Disabled) ->
         [r EXCEPT !.op = "itemDone", !.item = p, !.say = "skipped"]
    [] OTHER -> [r EXCEPT !.op = "itemStart", !.item = p, !.say = "none"]

\* The call came back.
Proceed(r) ==
  CASE r.op = "started" -> [r EXCEPT !.op = "snapshot"]
    [] r.op = "snapshot" /\ kind[r.task] # "debug" -> NextItem(r)
    [] r.op = "itemDone" -> NextItem(r)
    [] r.op \in {"complete", "report"} -> Idle
    [] OTHER -> [r EXCEPT !.op = "execute"]

\* Mutant: a suite whose item report failed ends with what its items gave.
FailKeepingVerdict(r) ==
  IF r.op \in {"started", "report"} THEN Idle
  ELSE IF kind[r.task] = "suite" /\ r.op \in {"itemStart", "itemDone"} THEN Finish(r, r.worst)
  ELSE Report(r, "error")

\* A call or the runner raised: refused, timed out, no connection, no page.
\* A suite runner turns it into its verdict, everything else into an error
\* report; before the start, and after that report, the task is dropped.
Fail(r) ==
  CASE r.op \in {"started", "report"} -> Idle
    [] r.op \in {"itemStart", "itemDone", "execute"} /\ kind[r.task] = "suite" -> Finish(r, "error")
    [] OTHER -> Report(r, "error")

Severity == [v \in Verdicts |-> CASE v = "success" -> 0 [] v = "failed" -> 1 [] OTHER -> 2]
Worse(a, b) == IF Severity[a] >= Severity[b] THEN a ELSE b

\* The worker that waits for m moves on; nobody waits for a late one.
Answer(m, r) ==
  IF Awaited(m)
  THEN /\ worker' = [worker EXCEPT ![m.by] = r]
       /\ wire' = (wire \ {m}) \cup RequestOf(m.by, r)
  ELSE /\ wire' = wire \ {m}
       /\ UNCHANGED worker

\* The worker goes on by itself.
GoOn(w, r) ==
  /\ worker' = [worker EXCEPT ![w] = r]
  /\ wire' = wire \cup RequestOf(w, r)

\* The worker stops waiting: what it sent is lost or arrives later.
Abandon(w, r) ==
  LET sent == wire \cap RequestOf(w, worker[w]) IN
  \E kept \in SUBSET sent :
    /\ kept # {} => Cardinality(Late) < MaxLate
    /\ worker' = [worker EXCEPT ![w] = r]
    /\ wire' = (wire \ sent) \cup kept \cup RequestOf(w, r)

-----------------------------------------------------------------------------
(* The control plane's handlers *)

Started(t) ==
  /\ IF status[t] = "stopping"
     THEN UNCHANGED <<status, run, lease>>
     ELSE SetStatus(t, "running", "running") /\ SetLease(t, "fresh")
  /\ UNCHANGED <<holder, item, tally>>

\* No status is asked for: only the task's own.
StartItem(t, i) ==
  /\ item' = [item EXCEPT ![t] = [item[t] EXCEPT ![i] = "running"]]
  /\ UNCHANGED <<status, holder, lease, run, tally>>

CompleteItem(t, i, v) ==
  /\ IF status[t] \in Closed \/ item[t][i] \notin Open \/ run[t] \in Terminal
     THEN UNCHANGED <<item, tally>>
     ELSE SetItems(t, [item[t] EXCEPT ![i] = v])
  /\ UNCHANGED <<status, holder, lease, run>>

\* Mutant: what the worker reports decides.
FinalAsReported(t, v) == v

\* A task that was asked to stop is canceled whatever its worker reports.
FinalStatus(t, v) == IF status[t] = "stopping" THEN "canceled" ELSE v

Complete(t, v) ==
  LET final == FinalStatus(t, v)
      f == IF final = "canceled" THEN ItemsAfter(t, "canceled") ELSE item[t] IN
  /\ IF final = "canceled" \/ kind[t] = "collection"
     THEN SetItems(t, f) ELSE UNCHANGED <<item, tally>>
  /\ SetStatus(t, final, RunVerdict(t, final, f))
  /\ SetLease(t, "fresh")
  /\ UNCHANGED holder

\* A report may be refused for what it carries: screenshots or a trace that
\* are not attached to the task, or an extracted variable of somebody else.
ContentRefused(m) ==
  \/ m.op = "complete" /\ kind[m.task] # "collection"
  \/ m.op = "itemDone" /\ m.say # "skipped"

\* Mutant: the task may have ended meanwhile.
AcceptedAnyTime(m) ==
  /\ granted[m.task]
  /\ m.op = "snapshot" \/ (holder[m.task] = m.by /\ lease[m.task] # "lapsed")

Accepted(m) ==
  /\ status[m.task] \in Held
  /\ granted[m.task]
  /\ m.op = "snapshot" \/ EnsureWorkerMatch(m.by, m.task)

Accept(m) ==
  /\ Accepted(m)
  /\ \/ m.op = "started" /\ Started(m.task)
     \/ m.op = "snapshot" /\ UNCHANGED rowVars
     \/ m.op = "itemStart" /\ StartItem(m.task, m.item)
     \/ m.op = "itemDone" /\ CompleteItem(m.task, m.item, m.say)
     \/ m.op \in {"complete", "report"} /\ Complete(m.task, m.say)
  /\ Answer(m, Proceed(worker[m.by]))
  /\ UNCHANGED <<kind, granted, done>>

\* authorize_execution runs before anything else and records lost access.
Unauthorized(m) ==
  /\ status[m.task] \in Held
  /\ ~granted[m.task]
  /\ FailAuthorization(m.task)
  /\ Answer(m, Fail(worker[m.by]))
  /\ UNCHANGED <<kind, granted, done>>

Refuse(m) ==
  /\ \/ status[m.task] \notin Held
     \/ granted[m.task] /\ (~Accepted(m) \/ ContentRefused(m))
  /\ Answer(m, Fail(worker[m.by]))
  /\ UNCHANGED <<kind, rowVars, granted, done>>

Handle(m) == Accept(m) \/ Unauthorized(m) \/ Refuse(m)

\* The oldest pending row another claim has not locked: any of them.
Claim(w, t) ==
  /\ worker[w].op = "idle"
  /\ status[t] = "pending"
  /\ granted[t]
  /\ SetStatus(t, "claimed", IF kind[t] = "suite" THEN run[t] ELSE "queued")
  /\ SetLease(t, "fresh")
  /\ holder' = [holder EXCEPT ![t] = w]
  /\ \/ GoOn(w, [Idle EXCEPT !.task = t, !.op = "started"])
     \/ UNCHANGED <<worker, wire>>   \* the answer is lost
  /\ UNCHANGED <<kind, item, tally, granted, done>>

\* The task offered to a worker belongs to an actor without access.
ClaimRefused(t) ==
  /\ \E w \in Workers : worker[w].op = "idle"
  /\ status[t] = "pending"
  /\ ~granted[t]
  /\ FailAuthorization(t)
  /\ UNCHANGED <<kind, granted, worker, wire, done>>

\* The monitor ends what nobody kept alive.
ExpireLeases(t) ==
  /\ status[t] \in Held
  /\ lease[t] = "lapsed"
  /\ SetItems(t, ItemsAfter(t, "error"))
  /\ SetStatus(t, "error", RunVerdict(t, "error", ItemsAfter(t, "error")))
  /\ SetLease(t, "fresh")
  /\ UNCHANGED <<kind, holder, granted, worker, wire, done>>

StopRun(t) ==
  /\ \/ /\ status[t] = "pending"
        /\ SetStatus(t, "canceled", "canceled")
        /\ IF kind[t] = "debug" THEN UNCHANGED <<item, tally>>
           ELSE SetItems(t, [i \in Items |-> "skipped"])
     \/ /\ status[t] \in {"claimed", "running"}
        /\ SetStatus(t, "stopping", "stopping")
        /\ UNCHANGED <<item, tally>>
  /\ UNCHANGED <<kind, lease, holder, granted, worker, wire, done>>

\* Access ends in the transaction that also fails the actor's tasks; those
\* already asked to stop are left to their worker or to the monitor.
RevokeExecutions(t) ==
  /\ granted[t]
  /\ granted' = [granted EXCEPT ![t] = FALSE]
  /\ IF status[t] \in {"pending", "claimed", "running"}
     THEN FailAuthorization(t) ELSE UNCHANGED rowVars
  /\ UNCHANGED <<kind, worker, wire, done>>

\* Access ends, or comes back, in a way that is only noticed when it is
\* checked: an environment variable passes to another owner.
AccessChanges(t) ==
  /\ granted' = [granted EXCEPT ![t] = ~granted[t]]
  /\ UNCHANGED <<kind, rowVars, worker, wire, done>>

\* A live debug run is delivered and its rows are removed.
FinishDebug(t) ==
  /\ kind[t] = "debug"
  /\ status[t] \in Terminal
  /\ SetStatus(t, "gone", "gone")
  /\ UNCHANGED <<kind, holder, lease, item, tally, granted, worker, wire, done>>

Age(t) ==
  /\ status[t] \in Held
  /\ lease[t] # "lapsed"
  /\ SetLease(t, IF lease[t] = "fresh" THEN "due" ELSE "lapsed")
  /\ UNCHANGED <<kind, status, holder, run, item, tally, granted, worker, wire, done>>

-----------------------------------------------------------------------------
(* The worker's own steps *)

\* An item, or the single case of a debug task, has been executed.
Execute(w, v) ==
  LET r == worker[w] IN
  /\ r.op = "execute"
  /\ IF r.item = 0
     THEN /\ GoOn(w, Finish(r, v))
          /\ UNCHANGED done
     ELSE /\ GoOn(w, [r EXCEPT !.op = "itemDone", !.say = v, !.worst = Worse(r.worst, v),
                                   !.halted = r.halted \/ (v # "success" /\ r.item \notin Continues)])
          /\ done' = [done EXCEPT ![r.task] = [done[r.task] EXCEPT ![r.item] = v]]
  /\ UNCHANGED <<kind, rowVars, granted>>

Heartbeat(w) ==
  LET t == worker[w].task IN
  /\ worker[w].op \notin {"idle", "started", "complete", "report"}
  /\ \/ /\ status[t] \in Held /\ granted[t]
        /\ EnsureWorkerMatch(w, t)
        /\ SetLease(t, "fresh")
        /\ UNCHANGED <<status, holder, run, item, tally>>
     \/ /\ status[t] \in Held /\ ~granted[t]
        /\ FailAuthorization(t)
  /\ UNCHANGED <<kind, granted, worker, wire, done>>

\* The runner is under way: the span of _run_until_stopped.
Running(w) == worker[w].op \in {"itemStart", "execute", "itemDone"}

\* The stop watch sees the request, cancels the runner and reports.
SeeStop(w) ==
  LET t == worker[w].task IN
  /\ Running(w)
  /\ status[t] = "stopping"
  /\ granted[t] /\ EnsureWorkerMatch(w, t)
  /\ Abandon(w, Report(worker[w], "canceled"))
  /\ UNCHANGED <<kind, rowVars, granted, done>>

\* The stop watch, or a step report, is refused: the worker drops the task.
SeeLeaseLost(w) ==
  LET t == worker[w].task IN
  /\ Running(w)
  /\ \/ /\ status[t] \in Held /\ ~granted[t]
        /\ FailAuthorization(t)
     \/ /\ status[t] \notin Held \/ (granted[t] /\ ~EnsureWorkerMatch(w, t))
        /\ UNCHANGED rowVars
  /\ Abandon(w, Idle)
  /\ UNCHANGED <<kind, granted, done>>

\* A call times out, its connection breaks, or what is executed raises.
GiveUp(w) ==
  /\ worker[w].op # "idle"
  /\ Abandon(w, Fail(worker[w]))
  /\ UNCHANGED <<kind, rowVars, granted, done>>

\* The process is told to end: it reports an error for the task it executes.
Shutdown(w) ==
  /\ worker[w].op \in {"snapshot", "itemStart", "itemDone", "execute", "complete"}
  /\ Abandon(w, Report(worker[w], "error"))
  /\ UNCHANGED <<kind, rowVars, granted, done>>

\* The process dies; another one starts with nothing to do.
Crash(w) ==
  /\ worker[w].op # "idle"
  /\ Abandon(w, Idle)
  /\ UNCHANGED <<kind, rowVars, granted, done>>

-----------------------------------------------------------------------------

Init ==
  /\ kind \in [Tasks -> Kinds]
  /\ status = [t \in Tasks |-> "pending"]
  /\ holder = [t \in Tasks |-> NoWorker]
  /\ lease = [t \in Tasks |-> "fresh"]
  /\ run = [t \in Tasks |-> "pending"]
  /\ item = [t \in Tasks |-> [i \in Items |-> "pending"]]
  /\ tally = [t \in Tasks |-> [s \in Counted |-> 0]]
  /\ granted = [t \in Tasks |-> TRUE]
  /\ worker = [w \in Workers |-> Idle]
  /\ wire = {}
  /\ done = [t \in Tasks |-> [i \in Items |-> "none"]]

TaskNext(t) ==
  \/ \E w \in Workers : Claim(w, t)
  \/ ClaimRefused(t)
  \/ ExpireLeases(t)
  \/ StopRun(t)
  \/ RevokeExecutions(t)
  \/ AccessChanges(t)
  \/ FinishDebug(t)
  \/ Age(t)

WorkerNext(w) ==
  \/ \E v \in Verdicts : Execute(w, v)
  \/ Heartbeat(w)
  \/ SeeStop(w)
  \/ SeeLeaseLost(w)
  \/ GiveUp(w)
  \/ Shutdown(w)
  \/ Crash(w)

Next ==
  \/ \E t \in Tasks : TaskNext(t)
  \/ \E w \in Workers : WorkerNext(w)
  \/ \E m \in wire : Handle(m)

\* A live worker executes what it has and hears, or stops waiting, for each
\* call; time passes; the monitor sweeps every five seconds.
MovesOn(w) ==
  \/ \E v \in Verdicts : Execute(w, v)
  \/ \E m \in wire : m \in RequestOf(w, worker[w]) /\ Handle(m)
  \/ GiveUp(w)

Fairness ==
  /\ \A w \in Workers : WF_vars(MovesOn(w))
  /\ \A t \in Tasks : WF_vars(Age(t)) /\ WF_vars(ExpireLeases(t))

SafeSpec == Init /\ [][Next]_vars
Spec == SafeSpec /\ Fairness

-----------------------------------------------------------------------------
(* Properties *)

\* Every row, every worker and every request has its type.
TypeOK ==
  /\ kind \in [Tasks -> Kinds]
  /\ status \in [Tasks -> Statuses]
  /\ holder \in [Tasks -> Workers \cup {NoWorker}]
  /\ lease \in [Tasks -> {"fresh", "due", "lapsed"}]
  /\ run \in [Tasks -> Statuses \cup {"queued"}]
  /\ item \in [Tasks -> [Items -> ItemStatuses]]
  /\ tally \in [Tasks -> [Counted -> 0 .. NItems]]
  /\ granted \in [Tasks -> BOOLEAN]
  /\ worker \in [Workers -> WorkerState]
  /\ wire \subseteq Request
  /\ done \in [Tasks -> [Items -> Verdicts \cup {"none"}]]

\* Once a task has ended its report is closed: a start, an item result or a
\* completion that was under way when the task expired, was stopped or was
\* revoked changes neither its items, nor its counts, nor its run.
ReportIsFinal ==
  [][\A t \in Tasks : status[t] \in Terminal /\ status'[t] # "gone" =>
       /\ item'[t] = item[t]
       /\ tally'[t] = tally[t]
       /\ run'[t] = run[t]]_vars

\* A worker whose lease ran out can neither record a result nor renew the
\* lease nor settle the task: only the monitor or lost access ends it.
LapsedHolderWritesNothing ==
  [][\A t \in Tasks : status[t] \in Held /\ lease[t] = "lapsed" =>
       \/ status'[t] \in Held /\ item'[t] = item[t] /\ lease'[t] = "lapsed"
       \/ status'[t] \in {"error", "failed"} /\ \A i \in ItemsOf(t) : item'[t][i] \notin Open]_vars

\* The result an item has in a task that succeeded.
Earned(t, i) == item[t][i] = IF i \in Disabled THEN "skipped" ELSE "success"

\* Every recorded result is the one the worker obtained, and a task is a
\* success only if its worker really executed every enabled item with success.
TaskIsEarned ==
  \A t \in Tasks : \A i \in ItemsOf(t) :
    /\ item[t][i] \in {"success", "failed"} => done[t][i] = item[t][i]
    /\ status[t] = "success" => Earned(t, i)

\* What a run that shows success stands for: its task succeeded, or it is a
\* collection whose task ended in an error (lost worker, error report) when
\* some item had succeeded and none had failed.
RunIsEarned ==
  \A t \in Tasks : run[t] = "success" =>
    \/ status[t] = "success"
    \/ /\ kind[t] = "collection" /\ status[t] = "error"
       /\ \E i \in Items : item[t][i] = "success"
       /\ \A i \in Items : item[t][i] \notin {"failed", "error"}

\* Success is earned, whichever calls were lost, late or refused as the task
\* was stopping.  A task that succeeded had every enabled item executed with
\* success.  A run may show success for less only if it is a collection and its
\* task ended in an error: items of it may then be skipped or still open, but
\* one really succeeded and none failed.
SuccessIsEarned == TaskIsEarned /\ RunIsEarned

\* The report adds up: the run's counts are those of its items, a task that
\* ended other than by an error leaves no open item, and the run shows the
\* state of its task.  A collection run may show the verdict of its items
\* instead, and after an error of its task that may be a success with open items.
ReportAddsUp ==
  \A t \in Tasks :
    /\ kind[t] # "debug" => tally[t] = Tally(item[t])
    /\ status[t] \in Terminal \ {"error"} => \A i \in ItemsOf(t) : item[t][i] \notin Open
    /\ status[t] \in {"pending", "running", "stopping", "canceled", "failed", "gone"} =>
         run[t] = status[t]
    /\ status[t] \in Terminal => run[t] \in Terminal
    /\ kind[t] # "collection" /\ status[t] \in Terminal => run[t] = status[t]

\* The inductive invariant behind the last two.  Calls that carry a run forward: a
\* runner makes them one after the other, so at most one of a task is ever under way,
\* and none that was given up is followed by another.
Forward(m) ==
  \/ m.op \in {"started", "snapshot", "itemStart", "itemDone"}
  \/ m.op = "complete" /\ m.say # "error"

Underway(t) == status[t] \in {"claimed", "running"}

RowsInv ==
  \A t \in Tasks :
    /\ status[t] = "pending" => \A i \in Items : done[t][i] = "none" /\ item[t][i] = "pending"
    /\ Underway(t) => run[t] \notin Terminal

\* A runner has reported the items before its own, and not begun those behind it.
Progress(t, r) ==
  /\ \A i \in Items : i > r.item \/ (i = r.item /\ r.op # "itemDone") => done[t][i] = "none"
  /\ status[t] \in Held => \A i \in Items :
       /\ i > r.item => item[t][i] = "pending"
       /\ i = r.item => item[t][i] \in Open
  /\ Underway(t) => \A i \in Items :
       i < r.item => item[t][i] \notin Open /\ (r.worst = "success" => Earned(t, i))

RunnersInv ==
  \A w \in Workers : LET r == worker[w]
                         t == r.task IN
    /\ r.op # "idle" => status[t] # "pending" /\ holder[t] = w
    /\ r.op \in {"started", "snapshot", "itemStart", "itemDone", "execute"} =>
         /\ \A m \in wire : m.task = t => m \in RequestOf(w, r)
         /\ Progress(t, r)
         /\ r.halted => r.worst # "success"
         /\ r.op \in {"started", "snapshot"} => r.item = 0 /\ r.worst = "success"
         /\ r.op = "execute" /\ r.item = 0 => kind[t] = "debug"
         /\ r.op \in {"itemStart", "execute"} => r.item \notin Disabled
         /\ r.op = "itemDone" /\ r.worst = "success" =>
              r.say = IF r.item \in Disabled THEN "skipped" ELSE "success"

CallsInv ==
  /\ \A m \in wire : LET t == m.task IN
       /\ status[t] # "pending" /\ holder[t] = m.by
       /\ m.op = "itemDone" /\ m.say \in Verdicts => done[t][m.item] = m.say
       /\ m.op = "itemStart" /\ status[t] \in Held => item[t][m.item] \in Open
       /\ m.op = "complete" /\ m.say # "error" /\ Underway(t) =>
            \A i \in ItemsOf(t) : item[t][i] \notin Open /\ (m.say = "success" => Earned(t, i))
  /\ \A m, n \in wire : Forward(m) /\ Forward(n) /\ m.task = n.task => m = n

ReportInv == RowsInv /\ RunnersInv /\ CallsInv

\* The queue does what TaskLife promises, its liveness included.
Life == INSTANCE TaskLife WITH
  life <- [t \in Tasks |-> CASE status[t] = "pending" -> "waiting"
                              [] status[t] \in {"claimed", "running"} -> "executing"
                              [] OTHER -> status[t]]

Promise == Life!Spec
=============================================================================
