---------------------------- MODULE IntegrationJob ----------------------------
(***************************************************************************)
(* The control plane's ledger of integration jobs: the queue, the lease,   *)
(* the persisted write intents, the result receipts and the local Zentao   *)
(* records that they project onto                                          *)
(* (control-plane services/integration_job.py and the callbacks that       *)
(* services/integration_bug.py plugs into it).                             *)
(*                                                                         *)
(* Each action is one committed transaction under the project lock, so it  *)
(* is atomic.  Who sends the requests is left open: any worker may present *)
(* any claim generation at any time, as after a crash, a delay or a retry; *)
(* only the writes of one job are prepared one at a time (OneAtATime).     *)
(* A rejected request (HTTP 403, 404, 409) changes nothing and is a        *)
(* disabled guard.  IntegrationWorker composes these actions with the      *)
(* worker process that sends them.                                         *)
(***************************************************************************)
EXTENDS Integers, FiniteSets

CONSTANTS
  Job,          \* submissions, each with its own request id
  Bug,          \* platform bugs
  Target,       \* Zentao instances (target_key)
  StepKey,      \* step keys of the plans
  Worker,       \* worker identities
  Request,      \* prepare request ids
  Event,        \* result and failure event ids
  BugOf,        \* job -> its bug
  TargetOf,     \* job -> its frozen target
  PlanOf,       \* job -> the keys of its steps
  DepsOf,       \* key -> the keys it depends on
  KindOf,       \* key -> its kind
  Linked,       \* bugs already linked to a Zentao bug (import, older push)
  LeaseSeconds, \* lease length, in ticks
  MaxClaims,    \* bound on claim generations of one job
  None

Kind == {"create_bug", "upload_attachment", "update_description", "update_fields"}

ASSUME JobAssumption ==
  /\ BugOf \in [Job -> Bug]
  /\ TargetOf \in [Job -> Target]
  /\ Linked \subseteq Bug
  /\ None \notin Job \cup Worker \cup Request

\* The planners (build_sync, build_fields) emit create_bug first and list every
\* step a step needs, so the dependencies are transitively closed.
ASSUME PlanAssumption ==
  /\ KindOf \in [StepKey -> Kind]
  /\ PlanOf \in [Job -> SUBSET StepKey]
  /\ DepsOf \in [StepKey -> SUBSET StepKey]
  /\ \A k \in StepKey : k \notin DepsOf[k] /\ \A d \in DepsOf[k] : DepsOf[d] \subseteq DepsOf[k]
  /\ \A k \in StepKey : KindOf[k] = "create_bug" <=> k = "create_bug"
  /\ "create_bug" \in StepKey

\* A plan is finite, its first step (create_bug, or the one field update) needs no
\* other and uploads nothing, and it has at most one step for the text.
ASSUME PlannerAssumption ==
  /\ IsFiniteSet(StepKey)
  /\ \A j \in Job : \E k \in PlanOf[j] : DepsOf[k] = {} /\ KindOf[k] # "upload_attachment"
  /\ \A j \in Job : \A k, l \in PlanOf[j] :
       KindOf[k] = "update_description" /\ KindOf[l] = "update_description" => k = l

ASSUME BoundAssumption == LeaseSeconds \in Nat \ {0} /\ MaxClaims \in Nat

-----------------------------------------------------------------------------
(* A step is a job's copy of a key; what it writes is the bug's slot.       *)

Step == {s \in Job \X StepKey : s[2] \in PlanOf[s[1]]}
Slot == Bug \X StepKey

ASSUME NoStepIsNone == None \notin Step

StepsOf(j) == {s \in Step : s[1] = j}
Deps(s)    == {d \in StepsOf(s[1]) : d[2] \in DepsOf[s[2]]}
SlotOf(s)  == <<BugOf[s[1]], s[2]>>
KindOfStep(s) == KindOf[s[2]]

\* Bugs are created and files uploaded once; fields and text may be rewritten.
OneShot == {"create_bug", "upload_attachment"}

Active     == {"queued", "claimed", "running"}
Leased     == {"claimed", "running"}
JobStatus  == Active \cup {"new", "succeeded", "partial", "failed", "unknown", "canceled"}
Success    == {"succeeded", "noop"}
Unresolved == {"write_intent", "unknown"}
Resolved   == {"succeeded", "noop", "failed", "blocked", "canceled"}
StepStatus == {"pending"} \cup Unresolved \cup Resolved
Verdict    == {"succeeded", "failed", "unknown"}

VARIABLES
  job,     \* integration_jobs, with mapping_json and the flag activityWritten
  step,    \* integration_job_steps
  record,  \* the local Zentao rows: push, attachments, description, fields
  receipt  \* the stored answer to each worker's current claim request

ledger == <<job, step, record, receipt>>

JobRow ==
  [status : JobStatus, scope : BOOLEAN, target : BOOLEAN, worker : Worker \cup {None},
   gen : Nat, lease : 0..LeaseSeconds, canceled : BOOLEAN, mapping : SUBSET StepKey,
   previous : Step \cup {None}, told : BOOLEAN, activities : Nat]
StepRow ==
  [status : StepStatus, worker : Worker \cup {None}, gen : Nat, request : Request \cup {None},
   receipts : SUBSET (Event \X Verdict)]
RecordRow  == [status : {"none", "writing"} \cup Verdict, owner : Step \cup {None}]
ReceiptRow == [known : BOOLEAN, job : Job \cup {None}, gen : Nat]

TypeOK ==
  /\ job \in [Job -> JobRow]
  /\ step \in [Step -> StepRow]
  /\ record \in [Slot -> RecordRow]
  /\ receipt \in [Worker -> ReceiptRow]

Init ==
  /\ job = [j \in Job |->
       [status |-> "new", scope |-> FALSE, target |-> FALSE, worker |-> None, gen |-> 0,
        lease |-> 0, canceled |-> FALSE, mapping |-> {}, previous |-> None,
        told |-> FALSE, activities |-> 0]]
  /\ step = [s \in Step |->
       [status |-> "pending", worker |-> None, gen |-> 0, request |-> None, receipts |-> {}]]
  /\ record = [x \in Slot |->
       [status |-> IF x[1] \in Linked /\ x[2] = "create_bug" THEN "succeeded" ELSE "none",
        owner |-> None]]
  /\ receipt = [w \in Worker |-> [known |-> FALSE, job |-> None, gen |-> 0]]

-----------------------------------------------------------------------------
(* finish: block what can no longer run, aggregate, release, project.       *)

\* Mutant: unknown writes no longer stop the steps that come after them.
BlockedIgnoringUnknown(j, st) ==
  {s \in StepsOf(j) : st[s].status = "pending" /\
     \E d \in Deps(s) : st[d].status \in {"failed", "blocked", "canceled"}}

\* Mutant: a failed step no longer stops the steps that need it.
BlockedIgnoringFailure(j, st) ==
  {s \in StepsOf(j) : st[s].status = "pending" /\ \E u \in StepsOf(j) : st[u].status = "unknown"}

\* finish walks the steps in order and sees the steps it just blocked; with
\* transitively closed dependencies one look at the old states is the same.
Blocked(j, st) ==
  {s \in StepsOf(j) : st[s].status = "pending" /\
     \/ \E d \in Deps(s) : st[d].status \in {"failed", "blocked", "canceled"}
     \/ \E u \in StepsOf(j) : st[u].status = "unknown"}

Blocking(j, st) ==
  [s \in Step |-> IF s \in Blocked(j, st) THEN [st[s] EXCEPT !.status = "blocked"] ELSE st[s]]

Aggregate(states, canceled) ==
  CASE "unknown" \in states -> "unknown"
    [] "unknown" \notin states /\ "write_intent" \in states -> "running"
    [] states \cap Unresolved = {} /\ canceled -> "canceled"
    [] states \cap Unresolved = {} /\ ~canceled /\ "pending" \in states -> "running"
    [] OTHER -> IF states # {} /\ states \subseteq Success THEN "succeeded"
                ELSE IF states \cap Success # {} THEN "partial" ELSE "failed"

IsFieldsJob(j) == \E k \in PlanOf[j] : KindOf[k] = "update_fields"

\* sync: one activity per finished job; a field update that changed nothing has none.
Told(j, jb, states, status) ==
  IF status \in Active \/ jb.told THEN jb
  ELSE [jb EXCEPT !.told = TRUE,
                  !.activities = IF IsFieldsJob(j) /\ states \subseteq {"noop"} THEN @ ELSE @ + 1]

Closing(j, jb, st) ==
  LET states == {st[s].status : s \in StepsOf(j)}
      status == Aggregate(states, jb.canceled)
  IN Told(j,
          IF status \in Active THEN [jb EXCEPT !.status = status]
          ELSE [jb EXCEPT !.status = status, !.scope = FALSE, !.target = FALSE, !.lease = 0],
          states, status)

\* apply copies a step's status to the local row the step still owns.
Mirror(rec, st, S) ==
  [x \in Slot |-> IF rec[x].owner \in S /\ SlotOf(rec[x].owner) = x
                  THEN [rec[x] EXCEPT !.status = st[rec[x].owner].status] ELSE rec[x]]

\* Mutant: a canceled or expired write is not projected onto its row.
NothingDoubtful(j, st) == {}

\* sync re-applies every step left unknown with an operation id.
Doubtful(j, st) == {s \in StepsOf(j) : st[s].status = "unknown" /\ st[s].worker # None}

\* The whole of finish(job) on jobs jbs, steps st and rows rec; S are the steps
\* whose result this transaction applied before.
Finish(j, jbs, st, rec, S) ==
  LET final == Blocking(j, st) IN
  /\ step' = final
  /\ job' = [jbs EXCEPT ![j] = Closing(j, jbs[j], final)]
  /\ record' = Mirror(rec, final, S \cup Doubtful(j, final))

-----------------------------------------------------------------------------
(* Submission                                                               *)

RowOf(j) == record[<<BugOf[j], "create_bug">>]

\* Mutant: a submission does not look at the outcome of earlier writes.
AdmissibleBlindly(j) == IsFieldsJob(j) => RowOf(j).status = "succeeded"

\* build_sync and build_fields refuse a bug whose earlier outcome is open.
Admissible(j) ==
  \A k \in PlanOf[j] : LET old == record[<<BugOf[j], k>>].status IN
    CASE KindOf[k] = "create_bug"         -> old \in {"none", "failed", "succeeded"}
      [] KindOf[k] = "upload_attachment"  -> TRUE
      [] KindOf[k] = "update_description" -> old # "writing"
      [] KindOf[k] = "update_fields"      -> /\ old \notin {"writing", "unknown"}
                                             /\ RowOf(j).status = "succeeded"

\* An upload whose earlier outcome is open is planned, but blocked at once.
HistoricalUnknown(s) ==
  KindOfStep(s) = "upload_attachment" /\ record[SlotOf(s)].status \in {"writing", "unknown"}

ScopeFree(j) == \A k \in Job : BugOf[k] = BugOf[j] => ~job[k].scope

Submit(j) ==
  /\ job[j].status = "new"
  /\ ScopeFree(j)
  /\ Admissible(j)
  /\ job' = [job EXCEPT ![j] =
       [@ EXCEPT
         !.status = "queued", !.scope = TRUE,
         !.mapping = {k \in PlanOf[j] \cup {"create_bug"} :
                        KindOf[k] \in OneShot /\ record[<<BugOf[j], k>>].status = "succeeded"},
         !.previous = LET doubts == {k \in PlanOf[j] : /\ KindOf[k] = "update_description"
                                                       /\ record[<<BugOf[j], k>>].status = "unknown"}
                      IN IF doubts = {} THEN None
                         ELSE record[<<BugOf[j], CHOOSE k \in doubts : TRUE>>].owner]]
  /\ step' = [s \in Step |-> IF s \in StepsOf(j) /\ HistoricalUnknown(s)
                             THEN [step[s] EXCEPT !.status = "blocked"] ELSE step[s]]
  /\ UNCHANGED <<record, receipt>>

-----------------------------------------------------------------------------
(* Claim and lease                                                          *)

\* Mutant: the unique constraint on active_target is missing.
TargetNeverBusy(j) == FALSE

TargetBusy(j) == \E k \in Job : TargetOf[k] = TargetOf[j] /\ job[k].target

\* Candidates come oldest first, but rows locked by another transaction are
\* skipped, so any queued job whose target is free may be the one taken.
Claim(j, w) ==
  /\ ~receipt[w].known
  /\ job[j].status = "queued"
  /\ ~TargetBusy(j)
  /\ job[j].gen < MaxClaims
  /\ job' = [job EXCEPT ![j] = [@ EXCEPT !.status = "claimed", !.target = TRUE, !.worker = w,
                                         !.gen = job[j].gen + 1, !.lease = LeaseSeconds]]
  /\ receipt' = [receipt EXCEPT ![w] = [known |-> TRUE, job |-> j, gen |-> job[j].gen + 1]]
  /\ UNCHANGED <<step, record>>

\* Claiming is disabled, or every candidate is locked or its target busy.
ClaimNothing(w) ==
  /\ ~receipt[w].known
  /\ receipt' = [receipt EXCEPT ![w] = [known |-> TRUE, job |-> None, gen |-> 0]]
  /\ UNCHANGED <<job, step, record>>

\* The worker moves on to a new claim request id.
NewClaimRequest(w) ==
  /\ receipt[w].known
  /\ receipt' = [receipt EXCEPT ![w] = [known |-> FALSE, job |-> None, gen |-> 0]]
  /\ UNCHANGED <<job, step, record>>

Owned(j, w, g) ==
  /\ job[j].worker = w /\ job[j].gen = g
  /\ job[j].status \in Leased /\ job[j].lease > 0

Heartbeat(j, w, g) ==
  /\ Owned(j, w, g)
  /\ job' = [job EXCEPT ![j].lease = LeaseSeconds]
  /\ UNCHANGED <<step, record, receipt>>

-----------------------------------------------------------------------------
(* prepare: the write permit                                                *)

Intent(s, w, g) == step[s].worker = w /\ step[s].gen = g

\* Mutant: a step may be prepared before the steps it needs.
ReadyTooEarly(s) == step[s].status = "pending"

Ready(s) == step[s].status = "pending" /\ \A d \in Deps(s) : step[d].status \in Success

\* The earlier text write that was unknown at submission has not turned out failed.
PreviousConfirmable(j) ==
  job[j].previous # None => step[job[j].previous].status \in {"unknown", "succeeded"}

\* Mutant: the earlier outcome is not consulted before a write is permitted.
WritableUnseen(s) == TRUE

\* validate: the local row must not hold an outcome this write could repeat.
Writable(s) ==
  /\ KindOfStep(s) \in OneShot => /\ s[2] \notin job[s[1]].mapping
                                  /\ record[SlotOf(s)].status \in {"none", "failed"}
  /\ KindOfStep(s) = "update_description" => PreviousConfirmable(s[1])

\* current: a job bound to a remote bug needs that link to be still there.
LinkUnchanged(j) == "create_bug" \in job[j].mapping => RowOf(j).status = "succeeded"

Prepared(st, s, w, g, r, status) ==
  [st EXCEPT ![s] = [@ EXCEPT !.status = status, !.worker = w, !.gen = g, !.request = r]]

CanPrepare(s, w, g) == Owned(s[1], w, g) /\ Ready(s) /\ LinkUnchanged(s[1])

\* An earlier text write of unknown outcome is settled as succeeded once the
\* new job has read the remote text and found it there (record_verified_recovery).
Settles(s) ==
  /\ KindOfStep(s) = "update_description" /\ job[s[1]].previous # None
  /\ step[job[s[1]].previous].status = "unknown"

SettledSteps(s) ==
  IF Settles(s) THEN [step EXCEPT ![job[s[1]].previous].status = "succeeded"] ELSE step

\* The earlier job has ended already: no step of it is pending any more.
SettledJobs(s) ==
  LET p == job[s[1]].previous IN
  IF Settles(s) THEN [job EXCEPT ![p[1]] = Closing(p[1], @, SettledSteps(s))] ELSE job

\* decision "write": the intent is stored, and the row reserved, before the permit is given.
PrepareWrite(s, w, g, r) ==
  /\ CanPrepare(s, w, g) /\ Writable(s)
  /\ step' = Prepared(SettledSteps(s), s, w, g, r, "write_intent")
  /\ job' = [SettledJobs(s) EXCEPT ![s[1]].status = "running"]
  /\ record' = [record EXCEPT ![SlotOf(s)] = [status |-> "writing", owner |-> s]]
  /\ UNCHANGED receipt

Skippable(s) ==
  CASE KindOfStep(s) \in OneShot -> s[2] \in job[s[1]].mapping
    [] KindOfStep(s) = "update_description" -> PreviousConfirmable(s[1])
    [] KindOfStep(s) = "update_fields" -> TRUE

\* The text is confirmed without a write; with no image and no earlier text
\* write there is nothing to confirm, and the row stays as it is.
ConfirmedRecord(s) ==
  IF KindOfStep(s) # "update_description" THEN {record}
  ELSE {[record EXCEPT ![SlotOf(s)].status = "succeeded"]}
       \cup {rec \in {record} : rec[SlotOf(s)].status = "none"}

\* decision "noop": the remote side already holds the desired state.
PrepareNoop(s, w, g, r) ==
  /\ CanPrepare(s, w, g) /\ Skippable(s)
  /\ \E rec \in ConfirmedRecord(s) :
       Finish(s[1], SettledJobs(s), Prepared(SettledSteps(s), s, w, g, r, "noop"), rec, {})
  /\ UNCHANGED receipt

\* decision "failed": the preflight found a safe, final reason not to write.
PrepareFailed(s, w, g, r) ==
  /\ CanPrepare(s, w, g)
  /\ Finish(s[1], job, Prepared(step, s, w, g, r, "failed"), record, {})
  /\ UNCHANGED receipt

\* The answer to a repeated prepare: the stored intent, and never a second permit.
PrepareReplayed(s, w, g, r) ==
  step[s].status # "pending" /\ Intent(s, w, g) /\ step[s].request = r

-----------------------------------------------------------------------------
(* Results, late evidence, failures before the write                        *)

Heard(s, e) == \E v \in Verdict : <<e, v>> \in step[s].receipts

\* The stored answer to a repeated event with the same content.
ResultReplayed(s, w, g, e, v) == Intent(s, w, g) /\ <<e, v>> \in step[s].receipts

Recorded(s, e, v) ==
  [step EXCEPT ![s] = [@ EXCEPT !.status = v, !.receipts = step[s].receipts \cup {<<e, v>>}]]

Mapped(s, v) ==
  IF v = "succeeded" /\ KindOfStep(s) \in OneShot
  THEN [job EXCEPT ![s[1]].mapping = @ \cup {s[2]}] ELSE job

CanReport(s, w, g, e) ==
  /\ Intent(s, w, g) /\ ~Heard(s, e)
  /\ Owned(s[1], w, g)
  /\ step[s].status \in Unresolved

Result(s, w, g, e, v) ==
  /\ CanReport(s, w, g, e)
  /\ Finish(s[1], Mapped(s, v), Recorded(s, e, v), record, {s})
  /\ UNCHANGED receipt

\* Mutant: late evidence may settle a step that is still being written or settled.
LateForAnything(s) == TRUE

\* Mutant: evidence is refused once the job has ended.
LateWhileActive(s) == step[s].status = "unknown" /\ job[s[1]].status \in Active

\* Late evidence only settles the original unknown step.
Late(s) == step[s].status = "unknown"

\* The user settled the step before the worker's own report of the same facts.
CanConfirm(s, w, g, e, v) ==
  /\ Intent(s, w, g) /\ ~Heard(s, e)
  /\ step[s].status = "succeeded" /\ v = "succeeded"

EvidenceConfirmed(s, w, g, e, v) ==
  /\ CanConfirm(s, w, g, e, v)
  /\ step' = [step EXCEPT ![s].receipts = @ \cup {<<e, v>>}]
  /\ UNCHANGED <<job, record, receipt>>

CanSettle(s, w, g, e) == Intent(s, w, g) /\ ~Heard(s, e) /\ Late(s)

EvidenceSettles(s, w, g, e, v) ==
  /\ CanSettle(s, w, g, e)
  /\ ~CanConfirm(s, w, g, e, v)
  /\ Finish(s[1], Mapped(s, v), Recorded(s, e, v), record, {s})
  /\ UNCHANGED receipt

PreflightFailure(s, w, g, e) ==
  /\ ~Heard(s, e)
  /\ Owned(s[1], w, g)
  /\ step[s].status = "pending" /\ step[s].worker = None
  /\ Finish(s[1], job, Recorded(s, e, "failed"), record, {})
  /\ UNCHANGED receipt

\* The worker found nothing more to run.
Completed(j, w, g) ==
  /\ Owned(j, w, g)
  /\ Finish(j, job, step, record, {})
  /\ UNCHANGED receipt

-----------------------------------------------------------------------------
(* Cancel, expiry, reconciliation, time                                     *)

\* Mutant: a write that was cut off is tried again.
CutOffRetried == "pending"

\* What cancel and expire make of a write that may have happened.
CutOff == "unknown"

\* Access revoked, target changed, bug archived, or an old runtime at claim time.
Cancel(j) ==
  /\ job[j].status \in Active
  /\ Finish(j,
       [job EXCEPT ![j] = [@ EXCEPT !.status = "canceled", !.canceled = TRUE]],
       [s \in Step |->
          IF s \in StepsOf(j) /\ step[s].status \in {"write_intent", "pending"}
          THEN [step[s] EXCEPT !.status = IF @ = "write_intent" THEN CutOff ELSE "canceled"]
          ELSE step[s]],
       record, {})
  /\ UNCHANGED receipt

\* Mutant: only running jobs expire.
ExpiredWhileRunning(j) == job[j].status = "running" /\ job[j].lease = 0

Expired(j) == job[j].status \in Leased /\ job[j].lease = 0

\* Mutant: expiry puts the job back in the queue without looking at its writes.
NoneUnresolved(j) == FALSE

AnyUnresolved(j) == \E s \in StepsOf(j) : step[s].status \in Unresolved

AnyPending(j) == \E s \in StepsOf(j) : step[s].status = "pending"

\* A write may have happened: the step becomes unknown and the job ends.
ExpireFinish(j) ==
  /\ Expired(j)
  /\ AnyUnresolved(j) \/ ~AnyPending(j)
  /\ Finish(j, job,
       [s \in Step |-> IF s \in StepsOf(j) /\ step[s].status = "write_intent"
                       THEN [step[s] EXCEPT !.status = CutOff] ELSE step[s]],
       record, {})
  /\ UNCHANGED receipt

\* No write was started: the job waits for another claim.
ExpireRequeue(j) ==
  /\ Expired(j) /\ ~AnyUnresolved(j) /\ AnyPending(j)
  /\ job' = [job EXCEPT ![j] = [@ EXCEPT !.status = "queued", !.target = FALSE, !.lease = 0]]
  /\ UNCHANGED <<step, record, receipt>>

\* A user, with no job active on the bug, read the remote side and confirmed the
\* unknown write: the row and the original step become succeeded together.
Reconcile(s) ==
  /\ KindOfStep(s) # "update_description"
  /\ ScopeFree(s[1])
  /\ record[SlotOf(s)] = [status |-> "unknown", owner |-> s]
  /\ KindOfStep(s) # "create_bug" => RowOf(s[1]).status = "succeeded"
  /\ step[s].status = "unknown"
  /\ Finish(s[1], Mapped(s, "succeeded"), [step EXCEPT ![s].status = "succeeded"],
            record, {s})
  /\ UNCHANGED receipt

\* Mutant: the lease keeps counting when it has run out.
TickBelowZero ==
  /\ \E j \in Job : job[j].status \in Leased
  /\ job' = [j \in Job |-> [job[j] EXCEPT !.lease = @ - 1]]
  /\ UNCHANGED <<step, record, receipt>>

Tick ==
  /\ \E j \in Job : job[j].lease > 0
  /\ job' = [j \in Job |-> [job[j] EXCEPT !.lease = IF @ > 0 THEN @ - 1 ELSE 0]]
  /\ UNCHANGED <<step, record, receipt>>

-----------------------------------------------------------------------------
Claiming ==
  \E w \in Worker : ClaimNothing(w) \/ NewClaimRequest(w) \/ \E j \in Job : Claim(j, w)

\* The one thing the ledger asks of its callers: a worker reports the write of
\* one step before it prepares the next (BugWorkflow.run is sequential).
OneAtATime(s) == \A t \in StepsOf(s[1]) : step[t].status # "write_intent"

Working ==
  \E w \in Worker, g \in 1..MaxClaims :
    \/ \E j \in Job : Heartbeat(j, w, g) \/ Completed(j, w, g)
    \/ \E s \in Step, r \in Request :
         \/ OneAtATime(s) /\ PrepareWrite(s, w, g, r)
         \/ PrepareNoop(s, w, g, r)
         \/ PrepareFailed(s, w, g, r)

Reporting ==
  \E w \in Worker, g \in 1..MaxClaims, s \in Step, e \in Event :
    \/ PreflightFailure(s, w, g, e)
    \/ \E v \in Verdict : \/ Result(s, w, g, e, v)
                          \/ EvidenceConfirmed(s, w, g, e, v)
                          \/ EvidenceSettles(s, w, g, e, v)

Supervising ==
  \/ \E j \in Job : Submit(j) \/ Cancel(j) \/ ExpireFinish(j) \/ ExpireRequeue(j)
  \/ \E s \in Step : Reconcile(s)

Next == Claiming \/ Working \/ Reporting \/ Supervising \/ Tick

Spec == Init /\ [][Next]_ledger

-----------------------------------------------------------------------------
(* Properties                                                               *)

\* The inductive invariant behind the safety properties.  A job holds its target
\* while it is leased and its bug while it is active; a canceled job has ended; an
\* ended job has nothing left to run or in progress; an unknown write has ended
\* its job; and the one write in progress belongs to the claim of a running job.
Ended(jb) == jb.status \notin Active \cup {"new"}

JobInv(j, jb, st) ==
  /\ jb.status \in Leased => jb.target
  /\ jb.status \in Active => jb.scope
  /\ jb.canceled => Ended(jb)
  /\ \A s \in StepsOf(j) :
       /\ Ended(jb) => st[s].status \notin {"pending", "write_intent"}
       /\ st[s].status = "unknown" => Ended(jb)
       /\ st[s].status = "write_intent" =>
            jb.status = "running" /\ st[s].worker = jb.worker /\ st[s].gen = jb.gen
  /\ \A s, t \in StepsOf(j) :
       st[s].status = "write_intent" /\ st[t].status = "write_intent" => s = t

Exclusive(jobs) ==
  \A j, k \in Job :
    /\ TargetOf[j] = TargetOf[k] /\ jobs[j].target /\ jobs[k].target => j = k
    /\ BugOf[j] = BugOf[k] /\ jobs[j].scope /\ jobs[k].scope => j = k

LedgerInv == (\A j \in Job : JobInv(j, job[j], step)) /\ Exclusive(job)

\* Two replicas never hold leased jobs on the same Zentao instance
\* (active_target is claimed, and released with the lease it stands for).
OneJobPerTarget ==
  \A j, k \in Job :
    TargetOf[j] = TargetOf[k] /\ job[j].status \in Leased /\ job[k].status \in Leased => j = k

\* A bug has one active job (active_scope is held exactly as long as the job is active).
OneJobPerBug ==
  \A j, k \in Job :
    BugOf[j] = BugOf[k] /\ job[j].status \in Active /\ job[k].status \in Active => j = k

\* Two submissions for one bug, and two claims for one Zentao instance, never both win.
OneJobAtATime == OneJobPerTarget /\ OneJobPerBug

\* A job that waits for a claim has no write whose outcome is open: an expired
\* lease never leads to the same write being executed by another claim.
NoBlindRetry ==
  \A s \in Step : job[s[1]].status \in {"new", "queued", "claimed"} =>
                    step[s].status \notin Unresolved

\* A stored write intent belongs to the current claim of a running job; a worker
\* of an earlier claim generation can no longer obtain a permit.
IntentBelongsToClaim ==
  \A s \in Step : step[s].status = "write_intent" =>
    /\ job[s[1]].status = "running"
    /\ Intent(s, job[s[1]].worker, job[s[1]].gen)

\* No claim other than the one that stored an intent comes near the write it stands for.
OpenWritesFenced == NoBlindRetry /\ IntentBelongsToClaim

\* Across all jobs of a bug, at most one write to the same remote object has an
\* open outcome: nothing is written over a write that may still have happened.
SlotFence ==
  \A s, t \in Step :
    /\ SlotOf(s) = SlotOf(t)
    /\ step[s].status \in Unresolved /\ step[t].status \in Unresolved
    => s = t

\* A Zentao bug is created, and a file uploaded, by at most one confirmed write.
OneShotOnce ==
  \A s, t \in Step :
    /\ SlotOf(s) = SlotOf(t) /\ KindOfStep(s) \in OneShot
    /\ step[s].status = "succeeded" /\ step[t].status = "succeeded"
    => s = t

\* A finished job has told the bug's activity log exactly once, however often
\* evidence or a reconciliation finishes it again.
OneActivity ==
  \A j \in Job :
    /\ job[j].activities <= 1
    /\ job[j].told <=> Ended(job[j])

\* A write whose outcome is open holds its row, and a row that a step has written
\* says what the step says; only a text may be confirmed by a later step.
RowsFollow(rec, st) ==
  /\ \A s \in Step : st[s].status \in Unresolved =>
       rec[SlotOf(s)] =
         [status |-> IF st[s].status = "unknown" THEN "unknown" ELSE "writing", owner |-> s]
  /\ \A x \in Slot : LET o == rec[x].owner IN o # None =>
       /\ SlotOf(o) = x
       /\ \/ rec[x].status = "writing" /\ st[o].status = "write_intent"
          \/ rec[x].status \in Verdict /\ st[o].status = rec[x].status
          \/ rec[x].status = "succeeded" /\ KindOf[x[2]] = "update_description"

\* The local Zentao row says of its last write what the ledger says of the step,
\* whichever path (result, evidence, cancel, expiry, reconcile) settled it; and the
\* bug's activity log says once that the job has ended.
RecordFollowsOwner == RowsFollow(record, step) /\ OneActivity

\* Nothing was written, and nothing was confirmed, before everything it depends on.
DependencyOrder ==
  \A s \in Step : step[s].status \in Unresolved \cup Success =>
    \A d \in Deps(s) : step[d].status \in Success

\* A leased job always has a step to run or in progress: nobody waits for a job
\* that can neither go on nor end (finish sees to it after every step).
LeasedHasWork ==
  \A j \in Job : job[j].status \in Leased =>
    \E s \in StepsOf(j) : Ready(s) \/ step[s].status = "write_intent"

\* The inductive invariant behind the properties of rows, dependencies and work.
\* Rows: a confirmed creation or upload keeps its row, and an open write its worker.
RowsInv(rec, st) ==
  /\ RowsFollow(rec, st)
  /\ \A s \in Step :
       /\ st[s].status = "succeeded" /\ KindOfStep(s) \in OneShot =>
            rec[SlotOf(s)] = [status |-> "succeeded", owner |-> s]
       /\ st[s].status \in Unresolved => st[s].worker # None

\* What a submission saw stays true while it is active: no write to its objects is
\* open but its own, and the earlier write of the text that it knows of.
SubmissionInv ==
  \A j \in Job :
    /\ job[j].status = "new" => \A s \in StepsOf(j) : step[s].status = "pending"
    /\ job[j].previous # None =>
         \E k \in PlanOf[j] : /\ KindOf[k] = "update_description"
                              /\ SlotOf(job[j].previous) = <<BugOf[j], k>>
    /\ job[j].status \in Active =>
         \A s \in StepsOf(j), t \in Step :
           /\ KindOfStep(s) \notin OneShot /\ SlotOf(t) = SlotOf(s) /\ t # s
           /\ step[t].status \in Unresolved
           => KindOfStep(s) = "update_description" /\ t = job[j].previous

\* An active job has a first step to do or in progress, or else something to do and
\* nothing that waits for a step that will never succeed.
WorkLeft(j, st) ==
  \/ \E s \in StepsOf(j) : Deps(s) = {} /\ st[s].status \in {"pending", "write_intent"}
  \/ /\ \E s \in StepsOf(j) : st[s].status \in {"pending", "write_intent"}
     /\ \A s \in StepsOf(j) : st[s].status = "pending" =>
          \A d \in Deps(s) : st[d].status \notin {"failed", "blocked", "canceled"}

ActivityInv(jb) ==
  /\ jb.told <=> Ended(jb)
  /\ jb.activities <= IF jb.told THEN 1 ELSE 0

RecordInv ==
  /\ RowsInv(record, step)
  /\ SubmissionInv
  /\ \A j \in Job : job[j].status \in Active => WorkLeft(j, step)
  /\ \A j \in Job : ActivityInv(job[j])
  /\ DependencyOrder

\* A finished job is never active again: late evidence cannot make steps runnable.
FinishedStaysFinished ==
  [][\A j \in Job : Ended(job[j]) => Ended(job'[j])]_ledger

\* A settled step never changes, and an unknown write is never permitted again:
\* it can only be settled, under the identity of its original intent.
SettledStaysSettled ==
  [][\A s \in Step :
       /\ step[s].status \in Resolved => step'[s].status = step[s].status
       /\ step[s].status = "unknown" =>
            /\ step'[s].status \in {"unknown", "succeeded", "failed"}
            /\ step'[s].worker = step[s].worker /\ step'[s].gen = step[s].gen]_ledger

=============================================================================
