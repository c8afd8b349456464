------------------------ MODULE IntegrationWorker_proofs ------------------------
(***************************************************************************)
(* Proofs about the integration workers, for any number of hosts, jobs,    *)
(* restarts and delayed calls: they are well typed, they use the ledger as *)
(* IntegrationJob promises (every step of WorkerSpec is a step of its Next *)
(* or leaves the ledger alone), and a claim generation is in the hands of  *)
(* one request loop at a time (ThreadInv).                                 *)
(***************************************************************************)
EXTENDS IntegrationWorker, IntegrationRecords_proofs

-----------------------------------------------------------------------------
(* What one transaction of the control plane may do to the ledger, as far   *)
(* as the workers depend on it.                                             *)

\* A job keeps its claim and, once submitted, what its submission saw.
JobsKept ==
  \A k \in Job :
    /\ job'[k].gen = job[k].gen /\ job'[k].worker = job[k].worker
    /\ job'[k].status = "new" => job[k].status = "new"
    /\ job[k].status # "new" => job'[k].previous = job[k].previous

\* Only the steps of S newly get a status.
Newly(status, S) ==
  \A t \in Step : step'[t].status = status => step[t].status = status \/ t \in S

\* A receipt comes with the verdict it reports.
HeardWithVerdict ==
  \A t \in Step, e \in Event : Heard(t, e)' => Heard(t, e) \/ step'[t].status \in Verdict

\* The writes W become permitted, the steps G succeed and the steps B fail.
Effect(W, G, B) ==
  /\ JobsKept
  /\ Newly("write_intent", W) /\ Newly("succeeded", G) /\ Newly("failed", B)
  /\ HeardWithVerdict

\* finish adds nothing to the effect of the transaction that calls it.
LEMMA FinishEffect ==
  ASSUME NEW j \in Job, NEW jbs \in [Job -> JobRow], NEW st \in [Step -> StepRow],
         NEW rec, NEW S, Finish(j, jbs, st, rec, S),
         \A k \in Job : /\ jbs[k].gen = job[k].gen /\ jbs[k].worker = job[k].worker
                        /\ jbs[k].previous = job[k].previous,
         \A k \in Job \ {j} : jbs[k].status = "new" => job[k].status = "new",
         NEW W, NEW G, NEW B,
         \A t \in Step :
           /\ st[t].status = "write_intent" => step[t].status = "write_intent" \/ t \in W
           /\ st[t].status = "succeeded" => step[t].status = "succeeded" \/ t \in G
           /\ st[t].status = "failed" => step[t].status = "failed" \/ t \in B
           /\ st[t].receipts = step[t].receipts \/ st[t].status \in Verdict
  PROVE  Effect(W, G, B)
<1>1. /\ step' = Blocking(j, st)
      /\ job' = [jbs EXCEPT ![j] = Closing(j, jbs[j], Blocking(j, st))]
  BY DEF Finish
<1>2. /\ step' \in [Step -> StepRow]
      /\ \A t \in Step : /\ \/ step'[t] = st[t]
                            \/ step'[t].status = "blocked" /\ st[t].status = "pending"
                         /\ step'[t].receipts = st[t].receipts
  <2>1. \A t \in Step : step'[t].receipts = st[t].receipts
    BY <1>1 DEF Blocking, StepRow
  <2>2. /\ step' \in [Step -> StepRow]
        /\ \A t \in Step : \/ step'[t] = st[t]
                           \/ step'[t].status = "blocked" /\ st[t].status = "pending"
    BY FinishSteps, ZenonT(60)
  <2> QED
    BY <2>1, <2>2
<1>3. Newly("write_intent", W) /\ Newly("succeeded", G) /\ Newly("failed", B)
  BY <1>2 DEF Newly
<1>4. HeardWithVerdict
  <2> SUFFICES ASSUME NEW t \in Step, NEW e \in Event, Heard(t, e)'
               PROVE  Heard(t, e) \/ step'[t].status \in Verdict
    BY DEF HeardWithVerdict
  <2>1. CASE st[t].receipts = step[t].receipts
    BY <1>2, <2>1 DEF Heard
  <2>2. CASE st[t].status \in Verdict
    BY <1>2, <2>2 DEF Verdict
  <2> QED
    BY <2>1, <2>2
<1>5. JobsKept
  <2> DEFINE final == Blocking(j, st)
             new == Closing(j, jbs[j], final)
             states == {final[s].status : s \in StepsOf(j)}
  <2>0. final \in [Step -> StepRow] /\ jbs[j] \in JobRow
    BY <1>1, <1>2
  <2>4. job'[j] = new /\ \A k \in Job \ {j} : job'[k] = jbs[k]
    BY <1>1
  <2> HIDE DEF final
  <2>1. /\ new.status = Aggregate(states, jbs[j].canceled)
        /\ new.worker = jbs[j].worker /\ new.gen = jbs[j].gen /\ new.previous = jbs[j].previous
    <3> DEFINE jb == jbs[j]
    <3>1. jb \in JobRow
      BY <2>0
    <3> HIDE DEF jb
    <3>2. /\ Closing(j, jb, final).status = Aggregate({final[s].status : s \in StepsOf(j)}, jb.canceled)
          /\ Closing(j, jb, final).worker = jb.worker /\ Closing(j, jb, final).gen = jb.gen
          /\ Closing(j, jb, final).previous = jb.previous
      BY <2>0, <3>1, ClosingFacts
    <3> QED
      BY <3>2 DEF jb
  <2>2. jbs[j].canceled \in BOOLEAN
    BY DEF JobRow
  <2> HIDE DEF new, states
  <2>3. new.status # "new"
    BY <2>1, <2>2, AggregateFacts
  <2> QED
    BY <2>1, <2>3, <2>4 DEF JobsKept
<1> QED
  BY <1>3, <1>4, <1>5 DEF Effect

\* Settling an earlier text write leaves every job its claim.
LEMMA SettledKept ==
  ASSUME TypeOK, LedgerInv, RecordInv, NEW s \in Step, job[s[1]].status \in Leased
  PROVE  /\ \A k \in Job : /\ SettledJobs(s)[k].gen = job[k].gen
                           /\ SettledJobs(s)[k].worker = job[k].worker
                           /\ SettledJobs(s)[k].previous = job[k].previous
                           /\ SettledJobs(s)[k].status = "new" => job[k].status = "new"
         /\ \A t \in Step : SettledSteps(s)[t].receipts = step[t].receipts
<1>1. /\ SettledSteps(s) \in [Step -> StepRow]
      /\ Settles(s) => /\ job[s[1]].previous \in Step
                       /\ job[s[1]].previous[1] \in Job
  BY SettledType
<1>2. \A k \in Job : /\ SettledJobs(s)[k].status = job[k].status \/ Ended(SettledJobs(s)[k])
                     /\ SettledJobs(s)[k].previous = job[k].previous
  <2>1. \A k \in Job : JobMoved(k, job[k], SettledJobs(s)[k])
    BY SettledMoved
  <2>2. \A k \in Job : \/ SettledJobs(s)[k].status = job[k].status
                       \/ Ended(SettledJobs(s)[k]) /\ Ended(job[k])
    BY SettledMoved
  <2> QED
    BY <2>1, <2>2 DEF JobMoved
<1>3. \A t \in Step : SettledSteps(s)[t].receipts = step[t].receipts
  BY <1>1 DEF SettledSteps, TypeOK, StepRow
<1>4. \A k \in Job : SettledJobs(s)[k].gen = job[k].gen /\ SettledJobs(s)[k].worker = job[k].worker
  <2>1. CASE ~Settles(s)
    BY <2>1 DEF SettledJobs
  <2>2. CASE Settles(s)
    <3> DEFINE p == job[s[1]].previous[1]
               new == Closing(p, job[p], SettledSteps(s))
    <3>1. p \in Job /\ job \in [Job -> JobRow] /\ job[p] \in JobRow
      BY <1>1, <2>2 DEF TypeOK
    <3>2. SettledJobs(s) = [job EXCEPT ![p] = new]
      BY <2>2 DEF SettledJobs
    <3> HIDE DEF p
    <3>3. new.gen = job[p].gen /\ new.worker = job[p].worker
      BY <1>1, <3>1, ClosingFacts, ZenonT(60)
    <3> HIDE DEF new
    <3> QED
      BY <3>1, <3>2, <3>3
  <2> QED
    BY <2>1, <2>2
<1> QED
  BY <1>2, <1>3, <1>4 DEF Ended

\* A submission, a cancellation, an expired lease and time permit and settle nothing.
LEMMA QuietEffect ==
  ASSUME TypeOK, LedgerInv,
         NEW j \in Job, Submit(j) \/ Cancel(j) \/ ExpireFinish(j) \/ ExpireRequeue(j) \/ Tick
  PROVE  Effect({}, {}, {}) /\ receipt' = receipt
<1> USE DEF TypeOK
<1>1. CASE Submit(j)
  <2>1. \A t \in Step : /\ step'[t].receipts = step[t].receipts
                        /\ step'[t].status = step[t].status \/ step'[t].status = "blocked"
    BY <1>1 DEF Submit, StepRow
  <2>2. \A k \in Job : /\ job'[k].gen = job[k].gen /\ job'[k].worker = job[k].worker
                       /\ job'[k] = job[k] \/ (k = j /\ job'[k].status = "queued")
    BY <1>1 DEF Submit, JobRow
  <2>3. job[j].status = "new" /\ receipt' = receipt
    BY <1>1 DEF Submit
  <2> QED
    BY <2>1, <2>2, <2>3 DEF Effect, JobsKept, Newly, HeardWithVerdict, Heard
<1>2. CASE Cancel(j)
  <2> DEFINE jbs == [job EXCEPT ![j] = [@ EXCEPT !.status = "canceled", !.canceled = TRUE]]
             st == [s \in Step |->
                     IF s \in StepsOf(j) /\ step[s].status \in {"write_intent", "pending"}
                     THEN [step[s] EXCEPT !.status = IF @ = "write_intent" THEN CutOff ELSE "canceled"]
                     ELSE step[s]]
  <2>1. Finish(j, jbs, st, record, {}) /\ receipt' = receipt
    BY <1>2 DEF Cancel
  <2>2. jbs \in [Job -> JobRow]
    <3>1. [job[j] EXCEPT !.status = "canceled", !.canceled = TRUE] \in JobRow
      BY ZenonT(60) DEF JobRow, JobStatus
    <3> QED
      BY <3>1
  <2>3. st \in [Step -> StepRow] /\ \A t \in Step :
          /\ st[t].receipts = step[t].receipts
          /\ st[t].status = step[t].status \/ st[t].status \in {"unknown", "canceled"}
    BY DEF StepRow, StepStatus, Resolved, Unresolved, CutOff
  <2>4. \A k \in Job : /\ jbs[k].gen = job[k].gen /\ jbs[k].worker = job[k].worker
                       /\ jbs[k].previous = job[k].previous
                       /\ k # j => jbs[k].status = job[k].status
    BY DEF JobRow
  <2> HIDE DEF jbs, st
  <2>6. \A t \in Step :
          /\ st[t].status = "write_intent" => step[t].status = "write_intent" \/ t \in {}
          /\ st[t].status = "succeeded" => step[t].status = "succeeded" \/ t \in {}
          /\ st[t].status = "failed" => step[t].status = "failed" \/ t \in {}
          /\ st[t].receipts = step[t].receipts \/ st[t].status \in Verdict
    BY <2>3
  <2>7. \A k \in Job \ {j} : jbs[k].status = "new" => job[k].status = "new"
    BY <2>4
  <2>8. \A k \in Job : /\ jbs[k].gen = job[k].gen /\ jbs[k].worker = job[k].worker
                       /\ jbs[k].previous = job[k].previous
    BY <2>4
  <2>9. st \in [Step -> StepRow]
    BY <2>3
  <2>5. Effect({}, {}, {})
    BY ONLY <2>1, <2>2, <2>6, <2>7, <2>8, <2>9, FinishEffect
  <2> QED
    BY <2>1, <2>5
<1>3. CASE ExpireFinish(j)
  <2> DEFINE st == [s \in Step |-> IF s \in StepsOf(j) /\ step[s].status = "write_intent"
                                   THEN [step[s] EXCEPT !.status = CutOff] ELSE step[s]]
  <2>1. Finish(j, job, st, record, {}) /\ receipt' = receipt
    BY <1>3 DEF ExpireFinish
  <2>2. st \in [Step -> StepRow] /\ \A t \in Step :
          /\ st[t].receipts = step[t].receipts
          /\ st[t].status = step[t].status \/ st[t].status = "unknown"
    BY SMTT(60) DEF StepRow, StepStatus, Resolved, Unresolved, CutOff
  <2> HIDE DEF st
  <2> QED
    BY <2>1, <2>2, FinishEffect, SMTT(60)
<1>4. CASE ExpireRequeue(j)
  BY <1>4 DEF ExpireRequeue, JobRow, Effect, JobsKept, Newly, HeardWithVerdict, Heard
<1>5. CASE Tick
  BY <1>5, ZenonT(60) DEF Tick, JobRow, Effect, JobsKept, Newly, HeardWithVerdict, Heard
<1> QED
  BY <1>1, <1>2, <1>3, <1>4, <1>5

\* The earlier text write that preparing s settles.
SettledBy(s) == {p \in {job[s[1]].previous} : Settles(s)}

\* A permit makes the write of its step possible and may settle an earlier text write.
LEMMA PrepareWriteEffect ==
  ASSUME TypeOK, LedgerInv, RecordInv, NEW s \in Step, NEW w \in Worker, NEW g \in Nat,
         NEW r \in Request, PrepareWrite(s, w, g, r)
  PROVE  /\ Effect({s}, SettledBy(s), {}) /\ receipt' = receipt
         /\ step[s].status = "pending" /\ step'[s].status = "write_intent"
         /\ step'[s].worker = w /\ step'[s].gen = g
<1> DEFINE st == Prepared(SettledSteps(s), s, w, g, r, "write_intent")
<1>1. /\ step' = st /\ receipt' = receipt
      /\ job' = [SettledJobs(s) EXCEPT ![s[1]].status = "running"]
      /\ job[s[1]].status \in Leased /\ s[1] \in Job
      /\ step[s].status = "pending"
  BY StepFacts DEF PrepareWrite, CanPrepare, Owned, Ready
<1>2. SettledSteps(s) \in [Step -> StepRow] /\ SettledJobs(s) \in [Job -> JobRow]
  BY SettledType
<1>3. /\ st[s].status = "write_intent" /\ st[s].worker = w /\ st[s].gen = g
      /\ st[s].receipts = step[s].receipts
      /\ \A t \in Step : t # s => st[t] = SettledSteps(s)[t]
  BY <1>1, <1>2, SettledKept DEF Prepared, StepRow
<1>4. \A t \in Step :
        \/ SettledSteps(s)[t] = step[t]
        \/ t \in SettledBy(s) /\ SettledSteps(s)[t].status = "succeeded"
  BY <1>1, SettledMoved DEF SettledBy
<1>5. \A t \in Step : SettledSteps(s)[t].receipts = step[t].receipts
  BY <1>1, SettledKept
<1> HIDE DEF st
<1>6. Newly("write_intent", {s}) /\ Newly("succeeded", SettledBy(s)) /\ Newly("failed", {})
  BY <1>1, <1>3, <1>4 DEF Newly
<1>7. HeardWithVerdict
  BY <1>1, <1>3, <1>5 DEF HeardWithVerdict, Heard
<1>8. JobsKept
  <2> DEFINE jbs == SettledJobs(s)
  <2>1. \A k \in Job : /\ jbs[k].gen = job[k].gen /\ jbs[k].worker = job[k].worker
                       /\ jbs[k].previous = job[k].previous
                       /\ jbs[k].status = "new" => job[k].status = "new"
    BY <1>1, SettledKept
  <2>2. \A k \in Job : /\ job'[k].gen = jbs[k].gen /\ job'[k].worker = jbs[k].worker
                       /\ job'[k].previous = jbs[k].previous
                       /\ job'[k].status = jbs[k].status \/ job'[k].status = "running"
    BY <1>1, <1>2 DEF JobRow
  <2> HIDE DEF jbs
  <2> QED
    BY <2>1, <2>2 DEF JobsKept
<1> QED
  BY <1>1, <1>3, <1>6, <1>7, <1>8 DEF Effect

\* A confirmation without a write permits nothing.
LEMMA PrepareNoopEffect ==
  ASSUME TypeOK, LedgerInv, RecordInv, NEW s \in Step, NEW w \in Worker, NEW g \in Nat,
         NEW r \in Request, PrepareNoop(s, w, g, r)
  PROVE  /\ Effect({}, SettledBy(s), {}) /\ receipt' = receipt
         /\ step'[s].status # "write_intent"
<1> DEFINE st == Prepared(SettledSteps(s), s, w, g, r, "noop")
           jbs == SettledJobs(s)
<1>1. PICK rec : Finish(s[1], jbs, st, rec, {}) /\ receipt' = receipt
  BY DEF PrepareNoop
<1>2. job[s[1]].status \in Leased /\ s[1] \in Job /\ step[s].status = "pending"
  BY StepFacts DEF PrepareNoop, CanPrepare, Owned, Ready
<1>3. SettledSteps(s) \in [Step -> StepRow] /\ jbs \in [Job -> JobRow]
  BY SettledType
<1>4. st \in [Step -> StepRow]
  BY <1>3, PreparedType DEF StepStatus, Resolved
<1>5. /\ st[s].status = "noop"
      /\ st[s].receipts = step[s].receipts
      /\ \A t \in Step : t # s => st[t] = SettledSteps(s)[t]
  BY <1>2, <1>3, SettledKept DEF Prepared, StepRow
<1>6. \A t \in Step : SettledSteps(s)[t].receipts = step[t].receipts
  BY <1>2, SettledKept
<1>7. \A t \in Step :
        \/ SettledSteps(s)[t] = step[t]
        \/ t \in SettledBy(s) /\ SettledSteps(s)[t].status = "succeeded"
  BY <1>2, SettledMoved DEF SettledBy
<1>8. \A t \in Step :
        /\ st[t].status = "write_intent" => step[t].status = "write_intent" \/ t \in {}
        /\ st[t].status = "succeeded" => step[t].status = "succeeded" \/ t \in SettledBy(s)
        /\ st[t].status = "failed" => step[t].status = "failed" \/ t \in {}
        /\ st[t].receipts = step[t].receipts \/ st[t].status \in Verdict
  <2> HIDE DEF st
  <2> QED
    BY <1>5, <1>6, <1>7
<1>9. \A k \in Job : /\ jbs[k].gen = job[k].gen /\ jbs[k].worker = job[k].worker
                     /\ jbs[k].previous = job[k].previous
                     /\ jbs[k].status = "new" => job[k].status = "new"
  BY <1>2, SettledKept
<1> HIDE DEF st, jbs
<1>10. Effect({}, SettledBy(s), {})
  BY ONLY <1>1, <1>2, <1>3, <1>4, <1>8, <1>9, FinishEffect
<1>11. step'[s].status # "write_intent"
  BY <1>1, <1>2, <1>4, <1>5, FinishSteps
<1> QED
  BY <1>1, <1>10, <1>11

\* A result, late evidence or a reconciliation settles its own step.
LEMMA ReportEffect ==
  ASSUME TypeOK, NEW s \in Step, NEW v \in Verdict, NEW rec, NEW S,
         NEW st \in [Step -> StepRow], st[s].status = v,
         \A t \in Step : t # s => st[t] = step[t],
         Finish(s[1], Mapped(s, v), st, rec, S)
  PROVE  /\ Effect({}, {t \in {s} : v = "succeeded"}, {t \in {s} : v = "failed"})
         /\ step'[s].status = v
<1> DEFINE jbs == Mapped(s, v)
           G == {t \in {s} : v = "succeeded"}
           B == {t \in {s} : v = "failed"}
<1>1. s[1] \in Job
  BY StepFacts
<1>2. jbs \in [Job -> JobRow]
  BY MappedType
<1>3. /\ \A k \in Job : Kept(job[k], jbs[k])
      /\ \A k \in Job : JobMoved(k, job[k], jbs[k])
  BY MappedKept, MappedMoved
<1>4. \A k \in Job : /\ jbs[k].gen = job[k].gen /\ jbs[k].worker = job[k].worker
                     /\ jbs[k].previous = job[k].previous
                     /\ jbs[k].status = "new" => job[k].status = "new"
  BY <1>3 DEF Kept, JobMoved
<1>5. \A t \in Step :
        /\ st[t].status = "write_intent" => step[t].status = "write_intent" \/ t \in {}
        /\ st[t].status = "succeeded" => step[t].status = "succeeded" \/ t \in G
        /\ st[t].status = "failed" => step[t].status = "failed" \/ t \in B
        /\ st[t].receipts = step[t].receipts \/ st[t].status \in Verdict
  BY DEF Verdict
<1>6. Finish(s[1], jbs, st, rec, S)
  OBVIOUS
<1> HIDE DEF jbs, G, B
<1>7. Effect({}, G, B)
  BY ONLY <1>1, <1>2, <1>4, <1>5, <1>6, FinishEffect, st \in [Step -> StepRow]
<1>8. step'[s].status = v
  BY <1>1, <1>6, FinishSteps DEF Verdict
<1> QED
  BY <1>7, <1>8 DEF G, B

\* What the requests that settle a step do, in the words of the worker's actions.
LEMMA SettlingEffect ==
  ASSUME TypeOK, NEW s \in Step, NEW w, NEW g, NEW e \in Event, NEW v \in Verdict,
         \/ Result(s, w, g, e, v)
         \/ EvidenceSettles(s, w, g, e, v)
  PROVE  /\ Effect({}, {t \in {s} : v = "succeeded"}, {t \in {s} : v = "failed"})
         /\ receipt' = receipt
         /\ step'[s].status = v
         /\ step[s].status \in Unresolved
<1> DEFINE st == Recorded(s, e, v)
<1>1. /\ Finish(s[1], Mapped(s, v), st, record, {s})
      /\ receipt' = receipt /\ step[s].status \in Unresolved
  BY DEF Result, CanReport, EvidenceSettles, CanSettle, Late, Unresolved
<1>2. /\ st \in [Step -> StepRow]
      /\ st[s].status = v
      /\ \A t \in Step : t # s => st[t] = step[t]
  BY RecordedMoved
<1> HIDE DEF st
<1>3. /\ Effect({}, {t \in {s} : v = "succeeded"}, {t \in {s} : v = "failed"})
      /\ step'[s].status = v
  BY <1>1, <1>2, ReportEffect, ZenonT(60)
<1> QED
  BY <1>1, <1>3

\* A reconciliation settles its step as succeeded.
LEMMA ReconcileEffect ==
  ASSUME TypeOK, NEW s \in Step, Reconcile(s)
  PROVE  Effect({}, {s}, {}) /\ receipt' = receipt
<1> DEFINE st == [step EXCEPT ![s].status = "succeeded"]
<1>1. Finish(s[1], Mapped(s, "succeeded"), st, record, {s}) /\ receipt' = receipt
  BY DEF Reconcile
<1>2. [step[s] EXCEPT !.status = "succeeded"] \in StepRow
  BY DEF TypeOK, StepRow, StepStatus, Resolved
<1>3. /\ st \in [Step -> StepRow] /\ st[s].status = "succeeded"
      /\ \A t \in Step : t # s => st[t] = step[t]
  BY <1>2 DEF TypeOK, StepRow
<1> HIDE DEF st
<1>4. "succeeded" \in Verdict
  BY DEF Verdict
<1>5. Effect({}, {t \in {s} : "succeeded" = "succeeded"}, {t \in {s} : "succeeded" = "failed"})
  BY <1>1, <1>3, <1>4, ReportEffect
<1>6. /\ {t \in {s} : "succeeded" = "succeeded"} = {s}
      /\ {t \in {s} : "succeeded" = "failed"} = {}
  OBVIOUS
<1> QED
  BY <1>1, <1>5, <1>6

\* A preflight that failed settles its step, which no write was permitted for.
LEMMA PreflightEffect ==
  ASSUME TypeOK, NEW s \in Step, NEW w, NEW g, NEW e \in Event, PreflightFailure(s, w, g, e)
  PROVE  /\ Effect({}, {}, {s}) /\ receipt' = receipt
         /\ step[s].status = "pending" /\ step'[s].status = "failed"
<1> DEFINE st == Recorded(s, e, "failed")
<1>1. /\ Finish(s[1], job, st, record, {}) /\ receipt' = receipt
      /\ step[s].status = "pending"
  BY DEF PreflightFailure
<1>2. "failed" \in Verdict /\ s[1] \in Job /\ job \in [Job -> JobRow]
  BY StepFacts DEF Verdict, TypeOK
<1>3. /\ st \in [Step -> StepRow]
      /\ st[s].status = "failed"
      /\ \A t \in Step : t # s => st[t] = step[t]
  BY <1>2, RecordedMoved
<1> HIDE DEF st
<1>4. \A t \in Step :
        /\ st[t].status = "write_intent" => step[t].status = "write_intent" \/ t \in {}
        /\ st[t].status = "succeeded" => step[t].status = "succeeded" \/ t \in {}
        /\ st[t].status = "failed" => step[t].status = "failed" \/ t \in {s}
        /\ st[t].receipts = step[t].receipts \/ st[t].status \in Verdict
  BY <1>2, <1>3
<1>5. Effect({}, {}, {s})
  BY ONLY <1>1, <1>2, <1>3, <1>4, FinishEffect
<1>6. step'[s].status = "failed"
  BY <1>1, <1>2, <1>3, FinishSteps
<1> QED
  BY <1>1, <1>5, <1>6

\* A heartbeat, evidence of what is known, and a step that leaves jobs and steps alone.
LEMMA IdleEffect ==
  ASSUME TypeOK,
         \/ \E j \in Job : \E w, g : Heartbeat(j, w, g)
         \/ \E s \in Step, e \in Event : \E w, g, v : EvidenceConfirmed(s, w, g, e, v)
         \/ UNCHANGED <<job, step, receipt>>
  PROVE  /\ Effect({}, {}, {}) /\ receipt' = receipt
         /\ \A t \in Step : step'[t].status = step[t].status
<1>1. CASE \E j \in Job : \E w, g : Heartbeat(j, w, g)
  <2>1. PICK j \in Job : /\ job' = [job EXCEPT ![j].lease = LeaseSeconds]
                         /\ UNCHANGED <<step, record, receipt>>
    BY <1>1 DEF Heartbeat
  <2>2. \A k \in Job : /\ job'[k].gen = job[k].gen /\ job'[k].worker = job[k].worker
                       /\ job'[k].status = job[k].status /\ job'[k].previous = job[k].previous
    BY <2>1 DEF TypeOK, JobRow
  <2> QED
    BY <2>1, <2>2 DEF Effect, JobsKept, Newly, HeardWithVerdict, Heard
<1>2. CASE \E s \in Step, e \in Event : \E w, g, v : EvidenceConfirmed(s, w, g, e, v)
  <2>a. PICK s \in Step, e \in Event : \E w, g, v : EvidenceConfirmed(s, w, g, e, v)
    BY <1>2
  <2> PICK w, g, v : EvidenceConfirmed(s, w, g, e, v)
    BY <2>a
  <2>1. /\ step' = [step EXCEPT ![s].receipts = @ \cup {<<e, v>>}]
        /\ step[s].status = "succeeded" /\ UNCHANGED <<job, record, receipt>>
    BY DEF EvidenceConfirmed, CanConfirm
  <2>2. /\ \A t \in Step : step'[t].status = step[t].status
        /\ \A t \in Step : t # s => step'[t] = step[t]
    BY <2>1 DEF TypeOK, StepRow
  <2>3. step'[s].status \in Verdict
    BY <2>1, <2>2 DEF Verdict
  <2> QED
    BY <2>1, <2>2, <2>3 DEF Effect, JobsKept, Newly, HeardWithVerdict, Heard
<1>3. CASE UNCHANGED <<job, step, receipt>>
  BY <1>3 DEF Effect, JobsKept, Newly, HeardWithVerdict, Heard
<1> QED
  BY <1>1, <1>2, <1>3

-----------------------------------------------------------------------------
(* The workers keep to the ledger's terms.                                  *)

LedgerGood == TypeOK /\ LedgerInv /\ RecordInv
WorkerInv  == LedgerGood /\ WorkerTypeOK /\ ThreadInv

\* A host is a row of its own, under an identity of its own.
LEMMA HostFacts ==
  ASSUME WorkerTypeOK, NEW h \in Host
  PROVE  /\ host[h] \in HostRow
         /\ Me(h) \in Worker /\ Me(h)[1] = h /\ Me(h)[2] = host[h].life
         /\ host[h].life \in 0..MaxRestarts
BY HostAssumption DEF WorkerTypeOK, HostRow, Me

\* A busy host has a claim of a submitted job, and a step of that job once it chose one.
LEMMA BusyFacts ==
  ASSUME WorkerInv, NEW h \in Host, ~At(h, Idle)
  PROVE  LET me == host[h] IN
         /\ me.job \in Job /\ me.gen \in 1..MaxClaims /\ me.gen \in Nat
         /\ me.gen <= job[me.job].gen /\ job[me.job].status # "new"
         /\ ~At(h, "working") => /\ me.step \in Step /\ me.step[1] = me.job
                                 /\ me.step \in StepsOf(me.job)
         /\ At(h, "working") => me.step = None
         /\ ~receipt[Me(h)].known
         /\ OnlyWrite(me.job, Me(h), me.gen, me.step)
         /\ me.pc \in {"decided", "asking"} => me.decision \in Decision
         /\ me.pc \in {"reporting", "sending", "evidencing"} => me.verdict \in Verdict
<1>1. /\ host[h].job \in Job /\ Claimed(host[h].job, host[h].gen)
      /\ IF At(h, "working") THEN host[h].step = None ELSE host[h].step \in StepsOf(host[h].job)
      /\ ~receipt[Me(h)].known
      /\ OnlyWrite(host[h].job, Me(h), host[h].gen, host[h].step)
      /\ host[h].pc \in {"decided", "asking"} => host[h].decision \in Decision
      /\ host[h].pc \in {"reporting", "sending", "evidencing"} => host[h].verdict \in Verdict
  BY DEF WorkerInv, ThreadInv
<1>2. /\ job[host[h].job].gen \in Nat /\ job[host[h].job].gen <= MaxClaims
      /\ job[host[h].job].status = "new" => job[host[h].job].gen = 0
  BY <1>1 DEF WorkerInv, ThreadInv, LedgerGood, TypeOK, JobRow
<1>3. /\ host[h].gen \in 1..MaxClaims /\ host[h].gen \in Nat
      /\ host[h].gen <= job[host[h].job].gen /\ job[host[h].job].status # "new"
  BY <1>1, <1>2, BoundAssumption DEF Claimed
<1> QED
  BY <1>1, <1>3 DEF StepsOf

\* A worker that knows of the only write in progress prepares one write at a time.
LEMMA OneWrite ==
  ASSUME LedgerInv, NEW s \in Step, NEW w, NEW g, NEW r, OnlyWrite(s[1], w, g, s),
         PrepareWrite(s, w, g, r)
  PROVE  OneAtATime(s)
<1> SUFFICES ASSUME NEW t \in StepsOf(s[1]), step[t].status = "write_intent" PROVE FALSE
  BY DEF OneAtATime
<1>1. /\ job[s[1]].worker = w /\ job[s[1]].gen = g /\ step[s].status = "pending"
  BY DEF PrepareWrite, CanPrepare, Owned, Ready
<1>2. s[1] \in Job
  BY StepFacts
<1>3. step[t].worker = job[s[1]].worker /\ step[t].gen = job[s[1]].gen
  BY <1>2 DEF LedgerInv, JobInv
<1>4. t = s
  BY <1>1, <1>3 DEF OnlyWrite, Intent
<1> QED
  BY <1>1, <1>4

\* Every request a worker sends is one the ledger knows.
LEMMA RequestIsNext ==
  ASSUME LedgerInv, NEW s \in Step, NEW w \in Worker, NEW g \in 1..MaxClaims,
         NEW v \in Verdict
  PROVE  /\ OnlyWrite(s[1], w, g, s) /\ PrepareWrite(s, w, g, "prepare") => Next
         /\ PrepareNoop(s, w, g, "prepare") => Next
         /\ Result(s, w, g, "result", v) => Next
         /\ EvidenceConfirmed(s, w, g, "result", v) => Next
         /\ EvidenceSettles(s, w, g, "result", v) => Next
         /\ PreflightFailure(s, w, g, "failure") => Next
<1>1. "prepare" \in Request /\ "result" \in Event /\ "failure" \in Event
  BY HostAssumption
<1>2. OnlyWrite(s[1], w, g, s) /\ PrepareWrite(s, w, g, "prepare") => OneAtATime(s)
  BY OneWrite
<1> QED
  BY <1>1, <1>2 DEF Next, Working, Reporting

\* The item a host reports, and the call it may leave behind, name its own claim.
LEMMA ItemFacts ==
  ASSUME WorkerInv, NEW h \in Host, host[h].pc \in {"reporting", "sending", "evidencing"}
  PROVE  /\ ItemOf(h) \in Evidence
         /\ ItemOf(h).step = host[h].step /\ ItemOf(h).worker = Me(h)
         /\ ItemOf(h).gen = host[h].gen /\ ItemOf(h).verdict = host[h].verdict
<1>1. ~At(h, Idle) /\ ~At(h, "working")
  BY DEF At, Idle
<1>2. /\ host[h].step \in Step /\ host[h].gen \in 1..MaxClaims /\ host[h].verdict \in Verdict
  BY <1>1, BusyFacts
<1>3. Me(h) \in Worker
  BY HostFacts DEF WorkerInv
<1>4. host[h].gen \in 0..MaxClaims
  BY <1>2, BoundAssumption
<1> QED
  BY <1>2, <1>3, <1>4 DEF ItemOf, Evidence

LEMMA EvidenceFacts ==
  ASSUME WorkerInv, NEW h \in Host, NEW it \in outbox[h]
  PROVE  /\ it \in Evidence /\ it.step \in Step /\ it.worker \in Worker
         /\ it.gen \in 1..MaxClaims /\ it.verdict \in Verdict
<1>1. it \in Evidence /\ it.gen > 0
  BY DEF WorkerInv, WorkerTypeOK, ThreadInv
<1> QED
  BY <1>1, BoundAssumption DEF Evidence

LEMMA LateFacts ==
  ASSUME WorkerInv, NEW q \in late
  PROVE  /\ q \in Call /\ q.step \in Step /\ q.step[1] \in Job /\ q.worker \in Worker
         /\ q.gen \in 1..MaxClaims /\ q.gen \in Nat
         /\ q.gen <= job[q.step[1]].gen /\ job[q.step[1]].status # "new"
         /\ OnlyWrite(q.step[1], q.worker, q.gen, q.step)
         /\ q.kind = "result" => q.with \in Verdict
<1>1. /\ q \in Call /\ Claimed(q.step[1], q.gen)
      /\ q.kind = "result" => q.with \in Verdict
      /\ OnlyWrite(q.step[1], q.worker, q.gen, q.step)
  BY DEF WorkerInv, WorkerTypeOK, ThreadInv
<1>2. q.step \in Step /\ q.worker \in Worker
  BY <1>1 DEF Call
<1>3. q.step[1] \in Job
  BY <1>2, StepFacts
<1>4. /\ job[q.step[1]].gen \in Nat /\ job[q.step[1]].gen <= MaxClaims
      /\ job[q.step[1]].status = "new" => job[q.step[1]].gen = 0
  BY <1>3 DEF WorkerInv, ThreadInv, LedgerGood, TypeOK, JobRow
<1> QED
  BY <1>1, <1>2, <1>3, <1>4, BoundAssumption DEF Claimed

\* Every step of the workers is a step of the ledger, or leaves it alone.
LEMMA WorkerRefines == WorkerInv /\ [WorkerNext]_vars => [Next]_ledger
<1> SUFFICES ASSUME WorkerInv, [WorkerNext]_vars PROVE [Next]_ledger
  OBVIOUS
<1>0. LedgerInv
  BY DEF WorkerInv, LedgerGood
<1>1. CASE UNCHANGED vars
  BY <1>1 DEF vars, ledger
<1>2. ASSUME NEW h \in Host, Loop(h) PROVE [Next]_ledger
  <2>0. Me(h) \in Worker
    BY HostFacts DEF WorkerInv
  <2> DEFINE me == host[h]
  <2>1. CASE ServeClaim(h)
    BY <2>0, <2>1 DEF ServeClaim, Next, Claiming
  <2>2. CASE ReadClaim(h)
    BY <2>0, <2>2 DEF ReadClaim, Next, Claiming
  <2>3. CASE ServeWritePermit(h)
    <3>1. /\ ~At(h, Idle) /\ ~At(h, "working")
          /\ PrepareWrite(me.step, Me(h), me.gen, "prepare")
      BY <2>3 DEF ServeWritePermit, At, Idle
    <3>2. /\ me.step \in Step /\ me.gen \in 1..MaxClaims /\ me.step[1] = me.job
          /\ OnlyWrite(me.job, Me(h), me.gen, me.step)
      BY <3>1, BusyFacts
    <3> HIDE DEF me
    <3>3. "unknown" \in Verdict
      BY DEF Verdict
    <3> QED
      BY <1>0, <2>0, <3>1, <3>2, <3>3, RequestIsNext
  <2>4. CASE ServeNoop(h)
    <3>1. /\ ~At(h, Idle) /\ ~At(h, "working")
          /\ PrepareNoop(me.step, Me(h), me.gen, "prepare")
      BY <2>4 DEF ServeNoop, At, Idle
    <3>2. me.step \in Step /\ me.gen \in 1..MaxClaims
      BY <3>1, BusyFacts
    <3> HIDE DEF me
    <3>3. "unknown" \in Verdict
      BY DEF Verdict
    <3> QED
      BY <1>0, <2>0, <3>1, <3>2, <3>3, RequestIsNext
  <2>5. CASE ServeResult(h) \/ ServeEvidence(h)
    <3>1. /\ ~At(h, Idle) /\ ~At(h, "working")
          /\ me.pc \in {"reporting", "sending", "evidencing"}
          /\ ResultServed(ItemOf(h)) \/ EvidenceServed(ItemOf(h))
      BY <2>5 DEF ServeResult, ServeEvidence, At, Idle
    <3>2. me.step \in Step /\ me.gen \in 1..MaxClaims /\ me.verdict \in Verdict
      BY <3>1, BusyFacts
    <3>3. /\ ItemOf(h).step = me.step /\ ItemOf(h).worker = Me(h)
          /\ ItemOf(h).gen = me.gen /\ ItemOf(h).verdict = me.verdict
      BY <3>1, ItemFacts
    <3> HIDE DEF me
    <3>4. \/ Result(me.step, Me(h), me.gen, "result", me.verdict)
          \/ EvidenceConfirmed(me.step, Me(h), me.gen, "result", me.verdict)
          \/ EvidenceSettles(me.step, Me(h), me.gen, "result", me.verdict)
          \/ UNCHANGED ledger
      BY <3>1, <3>3 DEF ResultServed, EvidenceServed
    <3> QED
      BY <1>0, <2>0, <3>2, <3>4, RequestIsNext
  <2>6. CASE ServeFailure(h)
    <3>1. /\ ~At(h, Idle) /\ ~At(h, "working")
          /\ PreflightFailure(me.step, Me(h), me.gen, "failure") \/ UNCHANGED ledger
      BY <2>6 DEF ServeFailure, At, Idle
    <3>2. me.step \in Step /\ me.gen \in 1..MaxClaims
      BY <3>1, BusyFacts
    <3> HIDE DEF me
    <3>3. "unknown" \in Verdict
      BY DEF Verdict
    <3> QED
      BY <1>0, <2>0, <3>1, <3>2, <3>3, RequestIsNext
  <2>7. CASE \/ SendClaim(h) \/ Look(h) \/ Lapse(h) \/ GiveUp(h) \/ Ask(h)
             \/ ServePrepareAgain(h) \/ RefusePrepare(h) \/ StartWrite(h) \/ NoWrite(h)
             \/ EndWrite(h) \/ RecordEvidence(h) \/ RefuseResult(h) \/ RefuseEvidence(h)
             \/ SendFailure(h)
    BY <2>7 DEF SendClaim, Look, Lapse, GiveUp, Ask, ServePrepareAgain, RefusePrepare, StartWrite,
                NoWrite, EndWrite, RecordEvidence, RefuseResult, RefuseEvidence, SendFailure
  <2> QED
    BY <1>2, <2>1, <2>2, <2>3, <2>4, <2>5, <2>6, <2>7 DEF Loop
<1>3. ASSUME NEW h \in Host, Beating(h) PROVE [Next]_ledger
  <2>0. Me(h) \in Worker
    BY HostFacts DEF WorkerInv
  <2>1. CASE ServeHeartbeat(h)
    <3>1. Heartbeat(host[h].job, Me(h), host[h].gen)
      BY <2>1 DEF ServeHeartbeat
    <3>2. ~At(h, Idle)
      BY <2>1 DEF ServeHeartbeat, WorkerInv, ThreadInv
    <3>3. host[h].job \in Job /\ host[h].gen \in 1..MaxClaims
      BY <3>2, BusyFacts
    <3> QED
      BY <2>0, <3>1, <3>3 DEF Next, Working
  <2>2. CASE SendHeartbeat(h) \/ LoseHeartbeat(h)
    BY <2>2 DEF SendHeartbeat, LoseHeartbeat
  <2> QED
    BY <1>3, <2>1, <2>2 DEF Beating
<1>4. ASSUME NEW h \in Host, Crash(h) PROVE [Next]_ledger
  BY <1>4 DEF Crash
<1>5. ASSUME NEW h \in Host, NEW it \in outbox[h], Replay(h, it) PROVE [Next]_ledger
  <2>1. /\ it.step \in Step /\ it.worker \in Worker
        /\ it.gen \in 1..MaxClaims /\ it.verdict \in Verdict
    BY EvidenceFacts
  <2>2. \/ EvidenceConfirmed(it.step, it.worker, it.gen, "result", it.verdict)
        \/ EvidenceSettles(it.step, it.worker, it.gen, "result", it.verdict)
        \/ UNCHANGED ledger
    BY <1>5 DEF Replay, EvidenceServed
  <2> QED
    BY <1>0, <2>1, <2>2, RequestIsNext
<1>6. ASSUME NEW q \in late, ServeLate(q) PROVE [Next]_ledger
  <2>1. /\ q \in Call /\ q.step \in Step /\ q.worker \in Worker
        /\ q.gen \in 1..MaxClaims
        /\ q.kind = "result" => q.with \in Verdict
        /\ OnlyWrite(q.step[1], q.worker, q.gen, q.step)
    BY LateFacts
  <2>2. \/ PrepareWrite(q.step, q.worker, q.gen, "prepare")
        \/ PrepareNoop(q.step, q.worker, q.gen, "prepare")
        \/ \E v \in Verdict : Result(q.step, q.worker, q.gen, "result", v)
        \/ PreflightFailure(q.step, q.worker, q.gen, "failure")
    <3>1. \/ PrepareWrite(q.step, q.worker, q.gen, "prepare")
          \/ PrepareNoop(q.step, q.worker, q.gen, "prepare")
          \/ q.kind = "result" /\ Result(q.step, q.worker, q.gen, "result", q.with)
          \/ PreflightFailure(q.step, q.worker, q.gen, "failure")
      BY <1>6 DEF ServeLate, Delivered
    <3> DEFINE v == q.with
    <3>2. q.kind = "result" => v \in Verdict
      BY <2>1
    <3>3. q.kind = "result" /\ Result(q.step, q.worker, q.gen, "result", v)
            => \E x \in Verdict : Result(q.step, q.worker, q.gen, "result", x)
      <4> HIDE DEF v
      <4> QED
        BY <3>2
    <3> QED
      BY <3>1, <3>3
  <2> DEFINE s == q.step
             w == q.worker
             g == q.gen
  <2> HIDE DEF s, w, g
  <2>3. ASSUME NEW v \in Verdict
        PROVE  /\ PrepareWrite(s, w, g, "prepare") => Next
               /\ PrepareNoop(s, w, g, "prepare") => Next
               /\ Result(s, w, g, "result", v) => Next
               /\ PreflightFailure(s, w, g, "failure") => Next
    <3>1. s \in Step /\ w \in Worker /\ g \in 1..MaxClaims /\ OnlyWrite(s[1], w, g, s)
      BY <2>1 DEF s, w, g
    <3> QED
      BY <1>0, <3>1, RequestIsNext
  <2>4. "unknown" \in Verdict
    BY DEF Verdict
  <2> QED
    BY <2>2, <2>3, <2>4 DEF s, w, g
<1>7. ASSUME NEW s \in Step, Land(s) PROVE [Next]_ledger
  BY <1>7 DEF Land
<1>8. CASE Supervise
  BY <1>8 DEF Supervise, ExpireJob, Next, Supervising
<1>9. CASE Elapse
  BY <1>9 DEF Elapse, HostsOnly, Next
<1> QED
  BY <1>1, <1>2, <1>3, <1>4, <1>5, <1>6, <1>7, <1>8, <1>9 DEF WorkerNext

-----------------------------------------------------------------------------
(* Types.                                                                   *)

\* Times stay within a lease.
LEMMA TimeFacts ==
  /\ \A x \in 0..LeaseSeconds, y \in 0..LeaseSeconds : Left(x, y) \in 0..LeaseSeconds
  /\ \A x \in 0..LeaseSeconds : Less(x) \in 0..LeaseSeconds /\ More(x) \in 0..LeaseSeconds
  /\ 0 \in 0..LeaseSeconds /\ LeaseSeconds \in 0..LeaseSeconds
BY BoundAssumption, HostAssumption DEF Left, Less, More

LEMMA RestingType ==
  ASSUME NEW life \in 0..MaxRestarts
  PROVE  Resting(life) \in HostRow
BY TimeFacts, BoundAssumption DEF Resting, HostRow

LEMMA BecomeType ==
  ASSUME WorkerTypeOK, NEW h \in Host, NEW r \in HostRow, Become(h, r)
  PROVE  host' \in [Host -> HostRow]
BY DEF WorkerTypeOK, Become

\* A host that goes on, or that goes back to its claim loop, stays a host.
LEMMA GoOnType ==
  ASSUME WorkerTypeOK, NEW h \in Host, NextStep(h) \/ Leave(h) \/ UNCHANGED host
  PROVE  host' \in [Host -> HostRow]
<1>1. CASE NextStep(h)
  <2>1. [host[h] EXCEPT !.pc = "working", !.timer = 0, !.step = None, !.decision = None,
                        !.limit = 0, !.verdict = None] \in HostRow
    <3>1. host[h] \in HostRow /\ 0 \in 0..LeaseSeconds
      BY HostFacts, TimeFacts
    <3> QED
      BY <3>1 DEF HostRow, Busy, Calling
  <2> QED
    BY <1>1, <2>1, BecomeType DEF NextStep
<1>2. CASE Leave(h)
  BY <1>2, HostFacts, RestingType, BecomeType DEF Leave
<1> QED
  BY <1>1, <1>2 DEF WorkerTypeOK

LEMMA GotoType ==
  ASSUME WorkerTypeOK, NEW h \in Host, NEW pc \in Busy, Goto(h, pc)
  PROVE  host' \in [Host -> HostRow]
<1>1. [host[h] EXCEPT !.pc = pc] \in HostRow
  BY HostFacts DEF HostRow
<1> QED
  BY <1>1, BecomeType DEF Goto

\* A call left behind is a call of a claim the host had.
LEMMA LeftoverFacts ==
  ASSUME WorkerInv, NEW h \in Host, NEW q \in Leftover(h)
  PROVE  /\ ~At(h, Idle)
         /\ q \in Call /\ q.step = host[h].step /\ q.worker = Me(h) /\ q.gen = host[h].gen
         /\ q.kind = "result" => q.with = host[h].verdict /\ At(h, "sending")
         /\ q.kind = "prepare" => At(h, "asking")
         /\ Leftover(h) = {q}
<1>1. host[h].pc \in {"asking", "sending", "failing"}
  BY DEF Leftover
<1>2. ~At(h, Idle) /\ ~At(h, "working")
  BY <1>1 DEF At, Idle
<1>3. /\ host[h].step \in Step /\ host[h].gen \in 1..MaxClaims
      /\ host[h].pc = "asking" => host[h].decision \in Decision
      /\ host[h].pc = "sending" => host[h].verdict \in Verdict
  BY <1>2, BusyFacts
<1>4. Me(h) \in Worker /\ host[h].gen \in 0..MaxClaims
  BY <1>3, HostFacts, BoundAssumption DEF WorkerInv
<1>5. CASE host[h].pc = "asking"
  BY <1>2, <1>3, <1>4, <1>5 DEF Leftover, Call, At
<1>6. CASE host[h].pc = "sending"
  BY <1>2, <1>3, <1>4, <1>6 DEF Leftover, Call, At
<1>7. CASE host[h].pc = "failing"
  BY <1>2, <1>3, <1>4, <1>7 DEF Leftover, Call, Verdict, At
<1> QED
  BY <1>1, <1>5, <1>6, <1>7

\* The stored answer that a host reads is to a claim of a job.
LEMMA AnswerFacts ==
  ASSUME WorkerInv, NEW w \in Worker, receipt[w].known, receipt[w].job # None
  PROVE  /\ receipt[w].job \in Job /\ receipt[w].gen \in 0..MaxClaims
         /\ Claimed(receipt[w].job, receipt[w].gen)
<1>1. receipt[w].job \in Job /\ Claimed(receipt[w].job, receipt[w].gen)
  BY DEF WorkerInv, ThreadInv, LedgerGood, TypeOK, ReceiptRow
<1>2. job[receipt[w].job].gen \in Nat /\ job[receipt[w].job].gen <= MaxClaims
  BY <1>1 DEF WorkerInv, ThreadInv, LedgerGood, TypeOK, JobRow
<1> QED
  BY <1>1, <1>2, BoundAssumption DEF Claimed

LEMMA HostTypeStep ==
  ASSUME WorkerInv, NEW h \in Host, Loop(h) \/ Beating(h) \/ Crash(h)
  PROVE  host' \in [Host -> HostRow]
<1> DEFINE me == host[h]
<1>0. WorkerTypeOK /\ me \in HostRow /\ me.life \in 0..MaxRestarts
  BY HostFacts DEF WorkerInv
<1> USE TimeFacts
<1>1. CASE SendClaim(h)
  <2>1. [me EXCEPT !.waiting = TRUE, !.timer = 0] \in HostRow
    BY <1>0 DEF HostRow
  <2> QED
    BY <1>0, <1>1, <2>1, BecomeType DEF SendClaim
<1>2. CASE ReadClaim(h)
  <2>1. CASE receipt[Me(h)].job = None
    BY <1>0, <1>2, <2>1, GoOnType DEF ReadClaim
  <2>2. CASE receipt[Me(h)].job # None
    <3> DEFINE answer == receipt[Me(h)]
               new == [Resting(me.life) EXCEPT !.pc = "working", !.job = answer.job,
                         !.gen = answer.gen, !.window = Left(LeaseSeconds, me.timer)]
    <3>1. answer.job \in Job /\ answer.gen \in 0..MaxClaims
      BY <1>0, <1>2, <2>2, AnswerFacts, HostFacts DEF ReadClaim
    <3>2. Left(LeaseSeconds, me.timer) \in 0..LeaseSeconds
      BY <1>0 DEF HostRow
    <3>3. Become(h, new)
      BY <1>2, <2>2 DEF ReadClaim
    <3>4. Resting(me.life) \in HostRow
      BY <1>0, RestingType
    <3> HIDE DEF answer
    <3>5. new \in HostRow
      BY <3>1, <3>2, <3>4 DEF HostRow, Busy, Calling
    <3> QED
      BY <1>0, <3>3, <3>5, BecomeType
  <2> QED
    BY <2>1, <2>2
<1>3. CASE Look(h)
  <2>1. PICK s \in Runnable(me.job) :
          \/ Become(h, [me EXCEPT !.pc = "preflight_failed", !.step = s])
          \/ \E d \in Decisions(s) :
               Become(h, [me EXCEPT !.pc = "decided", !.step = s, !.decision = d])
    BY <1>3 DEF Look
  <2>2. s \in Step
    BY DEF Runnable, StepsOf
  <2>3. \A d \in Decisions(s) : d \in Decision
    BY DEF Decisions, Decision
  <2>4. [me EXCEPT !.pc = "preflight_failed", !.step = s] \in HostRow
    BY <1>0, <2>2 DEF HostRow, Busy, Calling
  <2>5. \A d \in Decision : [me EXCEPT !.pc = "decided", !.step = s, !.decision = d] \in HostRow
    BY <1>0, <2>2 DEF HostRow, Busy, Calling
  <2> QED
    BY <1>0, <2>1, <2>3, <2>4, <2>5, BecomeType
<1>4. CASE \/ Lapse(h) \/ GiveUp(h) \/ ServeClaim(h) \/ ServeNoop(h) \/ ServeResult(h)
           \/ ServeEvidence(h) \/ ServeFailure(h)
  <2>1. NextStep(h) \/ Leave(h) \/ UNCHANGED host
    BY <1>4 DEF Lapse, GiveUp, ServeClaim, ServeNoop, ServeResult, ServeEvidence, ServeFailure,
                Acknowledged, Continue, ReplyLost
  <2> QED
    BY <1>0, <2>1, GoOnType
<1>5. CASE Ask(h)
  <2>1. [me EXCEPT !.pc = "asking", !.timer = 0] \in HostRow
    BY <1>0 DEF HostRow, Busy, Calling
  <2> QED
    BY <1>0, <1>5, <2>1, BecomeType DEF Ask
<1>6. CASE ServeWritePermit(h)
  <2> DEFINE permitted == Left(job[me.job].lease, me.timer)
             limit == IF permitted < me.window THEN permitted ELSE me.window
             new == [me EXCEPT !.pc = "permitted", !.timer = 0, !.limit = limit]
  <2>1. At(h, "asking") /\ (UNCHANGED host \/ Become(h, new))
    BY <1>6 DEF ServeWritePermit, ReplyLost
  <2>2. me.job \in Job
    BY <2>1, BusyFacts DEF At, Idle
  <2>3. permitted \in 0..LeaseSeconds
    BY <1>0, <2>2 DEF WorkerInv, LedgerGood, TypeOK, JobRow, HostRow
  <2> HIDE DEF permitted
  <2>4. limit \in 0..LeaseSeconds
    BY <1>0, <2>3 DEF HostRow
  <2> HIDE DEF limit
  <2>5. new \in HostRow
    BY <1>0, <2>4 DEF HostRow, Busy, Calling
  <2> QED
    BY <1>0, <2>1, <2>5, BecomeType DEF WorkerTypeOK
<1>7. CASE ServePrepareAgain(h)
  <2>1. AnsweredAgain(h) \/ Leave(h) \/ NextStep(h)
    BY <1>7 DEF ServePrepareAgain
  <2>2. [me EXCEPT !.pc = "reporting", !.timer = 0, !.verdict = "unknown"] \in HostRow
    BY <1>0 DEF HostRow, Busy, Calling, Verdict
  <2> QED
    BY <1>0, <2>1, <2>2, BecomeType, GoOnType DEF AnsweredAgain
<1>8. CASE RefusePrepare(h)
  <2>1. [me EXCEPT !.pc = "preflight_failed", !.timer = 0] \in HostRow
    BY <1>0 DEF HostRow, Busy, Calling
  <2> QED
    BY <1>0, <1>8, <2>1, BecomeType DEF RefusePrepare
<1>9. CASE StartWrite(h)
  <2>1. [me EXCEPT !.pc = "writing", !.limit = 0] \in HostRow
    BY <1>0 DEF HostRow, Busy, Calling
  <2> QED
    BY <1>0, <1>9, <2>1, BecomeType DEF StartWrite
<1>10. CASE NoWrite(h)
  <2>1. \A v \in {"failed", "unknown"} :
          [me EXCEPT !.pc = "reporting", !.limit = 0, !.verdict = v] \in HostRow
    BY <1>0 DEF HostRow, Busy, Calling, Verdict
  <2> QED
    BY <1>0, <1>10, <2>1, BecomeType DEF NoWrite
<1>11. CASE EndWrite(h)
  <2>1. \A v \in Verdict : [me EXCEPT !.pc = "reporting", !.verdict = v] \in HostRow
    BY <1>0 DEF HostRow, Busy, Calling
  <2>2. \A v \in Outcomes(me.step) : v \in Verdict
    BY DEF Outcomes, Verdict
  <2> QED
    BY <1>0, <1>11, <2>1, <2>2, BecomeType DEF EndWrite
<1>12. CASE RecordEvidence(h) \/ RefuseResult(h) \/ SendFailure(h)
  BY <1>0, <1>12, GotoType DEF RecordEvidence, RefuseResult, SendFailure, Busy, Calling
<1>13. CASE RefuseEvidence(h)
  <2>1. [me EXCEPT !.pc = "preflight_failed", !.verdict = None] \in HostRow
    BY <1>0 DEF HostRow, Busy, Calling
  <2> QED
    BY <1>0, <1>13, <2>1, BecomeType DEF RefuseEvidence
<1>14. CASE SendHeartbeat(h)
  <2>1. [me EXCEPT !.beating = TRUE, !.beat = 0] \in HostRow
    BY <1>0 DEF HostRow
  <2> QED
    BY <1>0, <1>14, <2>1, BecomeType DEF SendHeartbeat
<1>15. CASE ServeHeartbeat(h)
  <2> DEFINE n == IF me.window = 0 THEN 0 ELSE Left(LeaseSeconds, me.beat)
             new == [me EXCEPT !.beating = FALSE, !.beat = 0, !.window = n]
  <2>1. UNCHANGED host \/ Become(h, new)
    BY <1>15 DEF ServeHeartbeat, ReplyLost
  <2>2. n \in 0..LeaseSeconds
    BY <1>0 DEF HostRow
  <2> HIDE DEF n
  <2>3. new \in HostRow
    BY <1>0, <2>2 DEF HostRow
  <2> QED
    BY <1>0, <2>1, <2>3, BecomeType DEF WorkerTypeOK
<1>16. CASE LoseHeartbeat(h)
  <2>1. [me EXCEPT !.beating = FALSE, !.beat = 0, !.window = 0] \in HostRow
    BY <1>0 DEF HostRow
  <2> QED
    BY <1>0, <1>16, <2>1, BecomeType DEF LoseHeartbeat
<1>17. CASE Crash(h)
  <2>1. me.life + 1 \in 0..MaxRestarts /\ Become(h, Resting(me.life + 1))
    <3>1. me.life < MaxRestarts /\ Become(h, Resting(me.life + 1))
      BY <1>17 DEF Crash
    <3> QED
      BY ONLY <1>0, <3>1, HostAssumption
  <2> QED
    BY <1>0, <2>1, RestingType, BecomeType
<1> QED
  BY <1>1, <1>2, <1>3, <1>4, <1>5, <1>6, <1>7, <1>8, <1>9, <1>10, <1>11, <1>12, <1>13, <1>14,
     <1>15, <1>16, <1>17 DEF Loop, Beating

\* An evidence file gains only the item that its host reports, and loses what was heard.
LEMMA OutboxMoves ==
  ASSUME [WorkerNext]_vars
  PROVE  \/ outbox' = outbox
         \/ \E h \in Host : \E it : outbox' = [outbox EXCEPT ![h] = @ \ {it}]
         \/ \E h \in Host : /\ host[h].pc = "reporting"
                            /\ outbox' = [outbox EXCEPT ![h] = @ \cup {ItemOf(h)}]
<1>1. ASSUME NEW h \in Host, Loop(h)
      PROVE  \/ outbox' = outbox
             \/ \E it : outbox' = [outbox EXCEPT ![h] = @ \ {it}]
             \/ /\ host[h].pc = "reporting"
                /\ outbox' = [outbox EXCEPT ![h] = @ \cup {ItemOf(h)}]
  BY <1>1 DEF Loop, SendClaim, ServeClaim, ReadClaim, Look, Lapse, GiveUp, Ask, ServeWritePermit,
       ServeNoop, ServePrepareAgain, RefusePrepare, StartWrite, NoWrite, EndWrite,
       RecordEvidence, ServeResult, RefuseResult, ServeEvidence, RefuseEvidence, SendFailure,
       ServeFailure, Acknowledged, At
<1>2. ASSUME NEW h \in Host, Beating(h) \/ Crash(h) PROVE outbox' = outbox
  BY <1>2 DEF Beating, Crash, SendHeartbeat, ServeHeartbeat, LoseHeartbeat
<1> QED
  BY <1>1, <1>2 DEF WorkerNext, Replay, ServeLate, Land, Supervise, Elapse, vars

LEMMA WorkerTypeStep == WorkerInv /\ [WorkerNext]_vars => WorkerTypeOK'
<1> SUFFICES ASSUME WorkerInv, [WorkerNext]_vars PROVE WorkerTypeOK'
  OBVIOUS
<1>0. WorkerTypeOK
  BY DEF WorkerInv
<1>1. host' \in [Host -> HostRow]
  <2>1. CASE \E h \in Host : Loop(h) \/ Beating(h) \/ Crash(h)
    BY <2>1, HostTypeStep
  <2>2. CASE Elapse
    <3> SUFFICES ASSUME NEW h \in Host
                 PROVE  [host[h] EXCEPT !.window = Less(@), !.limit = Less(@),
                           !.timer = IF Timed(h) THEN More(@) ELSE @,
                           !.beat = IF host[h].beating THEN More(@) ELSE @] \in HostRow
      BY <2>2 DEF Elapse
    <3> DEFINE me == host[h]
               timer == IF Timed(h) THEN More(me.timer) ELSE me.timer
               beat == IF me.beating THEN More(me.beat) ELSE me.beat
    <3>1. me \in HostRow
      BY <1>0, HostFacts
    <3>2. /\ Less(me.window) \in 0..LeaseSeconds /\ Less(me.limit) \in 0..LeaseSeconds
          /\ timer \in 0..LeaseSeconds /\ beat \in 0..LeaseSeconds
      BY <3>1, TimeFacts DEF HostRow
    <3> HIDE DEF timer, beat
    <3>3. [me EXCEPT !.window = Less(me.window), !.limit = Less(me.limit),
                     !.timer = timer, !.beat = beat] \in HostRow
      BY <3>1, <3>2 DEF HostRow
    <3> QED
      BY <3>3 DEF timer, beat
  <2>3. CASE UNCHANGED host
    BY <1>0, <2>3 DEF WorkerTypeOK
  <2> QED
    BY <2>1, <2>2, <2>3 DEF WorkerNext, Replay, ServeLate, Land, Supervise, vars
<1>2. outbox' \in [Host -> SUBSET Evidence]
  <2>1. outbox \in [Host -> SUBSET Evidence]
    BY <1>0 DEF WorkerTypeOK
  <2> QED
    BY <2>1, OutboxMoves, ItemFacts
<1>3. late' \subseteq Call
  <2>1. late' \subseteq late \/ \E h \in Host : late' = late \cup Leftover(h)
    <3>1. ASSUME NEW h \in Host, Loop(h)
          PROVE  late' = late \/ late' = late \cup Leftover(h)
      BY <3>1 DEF Loop, SendClaim, ServeClaim, ReadClaim, Look, Lapse, GiveUp, Ask, ServeWritePermit,
           ServeNoop, ServePrepareAgain, RefusePrepare, StartWrite, NoWrite, EndWrite,
           RecordEvidence, ServeResult, RefuseResult, ServeEvidence, RefuseEvidence, SendFailure,
           ServeFailure, Abandon
    <3>2. ASSUME NEW h \in Host, Beating(h) \/ Crash(h)
          PROVE  late' = late \/ late' = late \cup Leftover(h)
      BY <3>2 DEF Beating, Crash, SendHeartbeat, ServeHeartbeat, LoseHeartbeat, Abandon
    <3> QED
      BY <3>1, <3>2 DEF WorkerNext, Replay, ServeLate, Land, Supervise, Elapse, vars
  <2>2. late \subseteq Call
    BY <1>0 DEF WorkerTypeOK
  <2> QED
    BY <2>1, <2>2, LeftoverFacts
<1>4. /\ wire' \subseteq Step /\ sent' \in [Step -> Nat]
      /\ effect' \in [Step -> {"none", "applied", "rejected"}]
  <2>0. /\ wire \subseteq Step /\ sent \in [Step -> Nat]
        /\ effect \in [Step -> {"none", "applied", "rejected"}]
    BY <1>0 DEF WorkerTypeOK
  <2>1. CASE \E h \in Host : StartWrite(h)
    <3> PICK h \in Host : StartWrite(h)
      BY <2>1
    <3>1. At(h, "permitted") /\ wire' = wire \cup {host[h].step} /\ effect' = effect
          /\ sent' = [sent EXCEPT ![host[h].step] = @ + 1]
      BY DEF StartWrite
    <3>2. host[h].step \in Step
      BY <3>1, BusyFacts DEF At, Idle
    <3> QED
      BY <2>0, <3>1, <3>2
  <2>2. CASE \E s \in Step : Land(s)
    BY <2>0, <2>2 DEF Land
  <2>3. CASE UNCHANGED remote
    BY <2>0, <2>3 DEF remote
  <2>4. (\E h \in Host : StartWrite(h)) \/ (\E s \in Step : Land(s)) \/ UNCHANGED remote
    <3>1. ASSUME NEW h \in Host, Loop(h), ~StartWrite(h) PROVE UNCHANGED remote
      BY <3>1 DEF Loop, SendClaim, ServeClaim, ReadClaim, Look, Lapse, GiveUp, Ask, ServeWritePermit,
           ServeNoop, ServePrepareAgain, RefusePrepare, NoWrite, EndWrite,
           RecordEvidence, ServeResult, RefuseResult, ServeEvidence, RefuseEvidence, SendFailure,
           ServeFailure
    <3>2. ASSUME NEW h \in Host, Beating(h) \/ Crash(h) PROVE UNCHANGED remote
      BY <3>2 DEF Beating, Crash, SendHeartbeat, ServeHeartbeat, LoseHeartbeat
    <3>3. UNCHANGED vars => UNCHANGED remote
      BY DEF vars, remote
    <3> QED
      BY <3>1, <3>2, <3>3 DEF WorkerNext, Replay, ServeLate, Supervise, Elapse
  <2> QED
    BY <2>1, <2>2, <2>3, <2>4
<1> QED
  BY <1>1, <1>2, <1>3, <1>4 DEF WorkerTypeOK

-----------------------------------------------------------------------------
(* Threads.                                                                 *)

\* OnlyWrite after the step.
OnlyAfter(j, w, g, s) ==
  \A t \in StepsOf(j) :
    step'[t].status = "write_intent" /\ step'[t].worker = w /\ step'[t].gen = g => t = s

\* A host rests, or goes on with its claim and knows of the only write of it.
HostMove(i) ==
  \/ host'[i].pc = Idle /\ ~host'[i].beating /\ host'[i].life >= host[i].life
  \/ /\ ~At(i, Idle) /\ host'[i].pc # Idle
     /\ host'[i].life = host[i].life /\ host'[i].job = host[i].job /\ host'[i].gen = host[i].gen
     /\ IF host'[i].pc = "working" THEN host'[i].step = None
        ELSE host'[i].step \in StepsOf(host[i].job)
     /\ host'[i].pc \in {"decided", "asking"} => host'[i].decision \in Decision
     /\ host'[i].pc \in {"reporting", "sending", "evidencing"} => host'[i].verdict \in Verdict
     /\ OnlyAfter(host[i].job, Me(i), host[i].gen, host'[i].step)

\* Who does not permit a write of a claim still knows of the only one.
LEMMA OnlyStays ==
  ASSUME NEW W, Newly("write_intent", W), \A t \in Step : StepEdge(t),
         NEW j, NEW w, NEW g, NEW x, OnlyWrite(j, w, g, x),
         \A s \in W : ~(s \in StepsOf(j) /\ step'[s].worker = w /\ step'[s].gen = g)
  PROVE  OnlyAfter(j, w, g, x)
<1> SUFFICES ASSUME NEW t \in StepsOf(j), step'[t].status = "write_intent",
                    step'[t].worker = w, step'[t].gen = g
             PROVE  t = x
  BY DEF OnlyAfter
<1>1. t \in Step /\ step[t].status = "write_intent"
  BY DEF StepsOf, Newly
<1>2. Intent(t, w, g)
  BY <1>1 DEF StepEdge, SameStep, Intent
<1> QED
  BY <1>1, <1>2 DEF OnlyWrite

LEMMA HostStays ==
  ASSUME WorkerInv, NEW W, Newly("write_intent", W), \A t \in Step : StepEdge(t),
         NEW i \in Host, host'[i] = host[i],
         ~At(i, Idle) => \A s \in W : ~(/\ s \in StepsOf(host[i].job)
                                        /\ step'[s].worker = Me(i) /\ step'[s].gen = host[i].gen)
  PROVE  HostMove(i)
<1>1. CASE At(i, Idle)
  <2>1. ~host[i].beating
    BY <1>1 DEF WorkerInv, ThreadInv
  <2>2. host[i].life >= host[i].life
    BY HostFacts DEF WorkerInv
  <2> QED
    BY <1>1, <2>1, <2>2 DEF HostMove, At
<1>2. CASE ~At(i, Idle)
  <2>1. /\ IF At(i, "working") THEN host[i].step = None ELSE host[i].step \in StepsOf(host[i].job)
        /\ OnlyWrite(host[i].job, Me(i), host[i].gen, host[i].step)
        /\ host[i].pc \in {"decided", "asking"} => host[i].decision \in Decision
        /\ host[i].pc \in {"reporting", "sending", "evidencing"} => host[i].verdict \in Verdict
    BY <1>2, BusyFacts
  <2>2. OnlyAfter(host[i].job, Me(i), host[i].gen, host[i].step)
    BY <1>2, <2>1, OnlyStays
  <2> QED
    BY <1>2, <2>1, <2>2 DEF HostMove, At
<1> QED
  BY <1>1, <1>2

\* No receipt appears for a step that is still to be done or being done.
LEMMA HeardStays ==
  ASSUME ThreadInv, HeardWithVerdict, \A t \in Step : StepEdge(t)
  PROVE  \A s \in Step, e \in Event : Heard(s, e)' => step'[s].status \notin {"pending", "write_intent"}
<1> SUFFICES ASSUME NEW s \in Step, NEW e \in Event, Heard(s, e)'
             PROVE  step'[s].status \notin {"pending", "write_intent"}
  OBVIOUS
<1>1. CASE step'[s].status \in Verdict
  BY <1>1 DEF Verdict
<1>2. CASE Heard(s, e)
  <2>1. step[s].status \notin {"pending", "write_intent"}
    BY <1>2 DEF ThreadInv
  <2> QED
    BY <2>1 DEF StepEdge, SameStep, Verdict
<1> QED
  BY <1>1, <1>2 DEF HeardWithVerdict

\* What every step has to show of the hosts, the receipts and the calls left behind,
\* when it claims nothing: only the writes W of one claim become permitted, the hosts
\* move on as HostMove says, and a call is left behind by a host that rests.
LEMMA ThreadFrame ==
  ASSUME WorkerInv, WorkerTypeOK', \A t \in Step : StepEdge(t), receipt' = receipt,
         NEW W, NEW G, NEW B, Effect(W, G, B), NEW w, NEW g,
         \A s \in W : step'[s].worker = w /\ step'[s].gen = g,
         \A s \in W, v \in Worker : receipt[v].known =>
           ~SameClaim(receipt[v].job, v, receipt[v].gen, s[1], w, g),
         \A s \in W, q \in late' : ~SameClaim(q.step[1], q.worker, q.gen, s[1], w, g),
         \A i \in Host : HostMove(i),
         NEW h \in Host,
         \A q \in late' : q \in late \/ (q \in Leftover(h) /\ host'[h].pc = Idle),
         \A i \in Host : \A it \in outbox'[i] : it.gen > 0
  PROVE  ThreadInv'
<1> USE DEF Effect
<1>1. \A j \in Job : /\ job'[j].gen = job[j].gen
                     /\ job'[j].gen <= MaxClaims /\ (job'[j].status = "new" => job'[j].gen = 0)
  BY DEF JobsKept, WorkerInv, ThreadInv
<1>2. \A j \in Job : \A i : Claimed(j, i)' <=> Claimed(j, i)
  BY <1>1 DEF Claimed
<1>3. \A i \in Host : host'[i].pc # Idle =>
        /\ ~At(i, Idle) /\ Me(i)' = Me(i)
        /\ host'[i].job = host[i].job /\ host'[i].gen = host[i].gen
  BY DEF HostMove, Me
<1>4. \A i \in Host : host'[i].life >= host[i].life
  <2> TAKE i \in Host
  <2>1. host[i].life >= host[i].life
    BY HostFacts DEF WorkerInv
  <2> QED
    BY <2>1 DEF HostMove
<1>5. \A v \in Worker : v[1] \in Host /\ v[2] \in Nat
  BY HostAssumption
<1>6. \A i \in Host : host[i].life \in Nat /\ host'[i].life \in Nat
  BY HostAssumption DEF WorkerInv, WorkerTypeOK, HostRow
<1>7. \A j, v, i, x : OnlyAfter(j, v, i, x) <=> OnlyWrite(j, v, i, x)'
  BY DEF OnlyAfter, OnlyWrite, Intent
<1>8. \A v \in Worker : \A j, i : Held(v, j, i)' => Held(v, j, i)
  <2> SUFFICES ASSUME NEW v \in Worker, NEW j, NEW i, Held(v, j, i)' PROVE Held(v, j, i)
    OBVIOUS
  <2>1. CASE receipt[v].known /\ receipt[v].job = j /\ receipt[v].gen = i
    BY <2>1 DEF Held
  <2>2. CASE \E k \in Host : /\ host'[k].pc # Idle
                             /\ SameClaim(host'[k].job, Me(k)', host'[k].gen, j, v, i)
    BY <1>3, <2>2 DEF Held, SameClaim
  <2> QED
    BY <2>1, <2>2 DEF Held, At
<1>9. \A q \in late : /\ q \in Call /\ q.step \in Step /\ q.step[1] \in Job /\ q.worker \in Worker
                      /\ Claimed(q.step[1], q.gen) /\ q.worker[2] <= host[q.worker[1]].life
                      /\ OnlyWrite(q.step[1], q.worker, q.gen, q.step)
                      /\ ~Held(q.worker, q.step[1], q.gen)
                      /\ q.kind = "result" => q.with \in Verdict
  BY LateFacts DEF WorkerInv, ThreadInv
<1>10. \A q \in Leftover(h) :
         /\ ~At(h, Idle)
         /\ q.step \in Step /\ q.worker \in Worker /\ q.step[1] = host[h].job
         /\ q.worker = Me(h) /\ q.gen = host[h].gen
         /\ Claimed(q.step[1], q.gen) /\ q.worker[2] <= host[q.worker[1]].life
         /\ OnlyWrite(q.step[1], q.worker, q.gen, q.step)
         /\ q.kind = "result" => q.with \in Verdict
         /\ Leftover(h) = {q}
  <2> TAKE q \in Leftover(h)
  <2>1. /\ ~At(h, Idle) /\ q.step = host[h].step /\ q.worker = Me(h) /\ q.gen = host[h].gen
        /\ q.kind = "result" => q.with = host[h].verdict /\ At(h, "sending")
        /\ Leftover(h) = {q}
    BY LeftoverFacts
  <2>2. ~At(h, "working") /\ (At(h, "sending") => host[h].pc \in {"reporting", "sending", "evidencing"})
    BY DEF Leftover, At
  <2>3. /\ q.step \in Step /\ q.step[1] = host[h].job
        /\ OnlyWrite(host[h].job, Me(h), host[h].gen, host[h].step)
        /\ host[h].pc \in {"reporting", "sending", "evidencing"} => host[h].verdict \in Verdict
    BY <2>1, <2>2, BusyFacts
  <2>4. Claimed(host[h].job, host[h].gen)
    BY <2>1 DEF WorkerInv, ThreadInv
  <2>5. Me(h) \in Worker /\ Me(h)[1] = h /\ Me(h)[2] <= host[h].life
    BY <1>6, HostFacts DEF WorkerInv
  <2> QED
    BY <2>1, <2>2, <2>3, <2>4, <2>5
<1>11. \A i \in Host : host'[i].beating => host'[i].pc # Idle
  <2> SUFFICES ASSUME NEW i \in Host, host'[i].pc = Idle PROVE ~host'[i].beating
    OBVIOUS
  <2> QED
    BY DEF HostMove
<1>12. \A i \in Host : host'[i].pc # Idle =>
         /\ host'[i].job \in Job /\ Claimed(host[i].job, host[i].gen)'
         /\ IF host'[i].pc = "working" THEN host'[i].step = None
            ELSE host'[i].step \in StepsOf(host'[i].job)
         /\ host'[i].pc \in {"decided", "asking"} => host'[i].decision \in Decision
         /\ host'[i].pc \in {"reporting", "sending", "evidencing"} => host'[i].verdict \in Verdict
         /\ ~receipt'[Me(i)'].known
         /\ OnlyWrite(host[i].job, Me(i), host[i].gen, host[i].step)'
  <2> SUFFICES ASSUME NEW i \in Host, host'[i].pc # Idle
               PROVE  /\ host'[i].job \in Job /\ Claimed(host[i].job, host[i].gen)'
                      /\ IF host'[i].pc = "working" THEN host'[i].step = None
                         ELSE host'[i].step \in StepsOf(host'[i].job)
                      /\ host'[i].pc \in {"decided", "asking"} => host'[i].decision \in Decision
                      /\ host'[i].pc \in {"reporting", "sending", "evidencing"} =>
                           host'[i].verdict \in Verdict
                      /\ ~receipt'[Me(i)'].known
                      /\ OnlyWrite(host[i].job, Me(i), host[i].gen, host[i].step)'
    OBVIOUS
  <2>1. /\ host[i].job \in Job /\ Claimed(host[i].job, host[i].gen) /\ ~receipt[Me(i)].known
    BY <1>3 DEF WorkerInv, ThreadInv
  <2>2. Claimed(host[i].job, host[i].gen)'
    BY <1>2, <1>3, <2>1
  <2>3. OnlyAfter(host[i].job, Me(i), host[i].gen, host'[i].step)
    BY DEF HostMove
  <2>4. OnlyAfter(host'[i].job, Me(i)', host'[i].gen, host'[i].step)
    BY <1>3, <2>3
  <2>5. OnlyWrite(host[i].job, Me(i), host[i].gen, host[i].step)'
    BY <2>4 DEF OnlyAfter, OnlyWrite, Intent
  <2> QED
    BY <1>3, <2>1, <2>2, <2>5 DEF HostMove
<1>13. \A v \in Worker : receipt'[v].known =>
         /\ v[2] <= host'[v[1]].life
         /\ receipt'[v].job # None =>
              /\ Claimed(receipt[v].job, receipt[v].gen)'
              /\ OnlyWrite(receipt[v].job, v, receipt[v].gen, None)'
  <2> SUFFICES ASSUME NEW v \in Worker, receipt[v].known
               PROVE  /\ v[2] <= host'[v[1]].life
                      /\ receipt[v].job # None =>
                           /\ Claimed(receipt[v].job, receipt[v].gen)'
                           /\ OnlyWrite(receipt[v].job, v, receipt[v].gen, None)'
    OBVIOUS
  <2>1. v[2] <= host[v[1]].life
    BY DEF WorkerInv, ThreadInv
  <2>2. v[2] <= host'[v[1]].life
    BY <1>4, <1>5, <1>6, <2>1
  <2>3. ASSUME receipt[v].job # None
        PROVE  /\ Claimed(receipt[v].job, receipt[v].gen)'
               /\ OnlyWrite(receipt[v].job, v, receipt[v].gen, None)'
    <3>1. /\ receipt[v].job \in Job /\ Claimed(receipt[v].job, receipt[v].gen)
          /\ OnlyWrite(receipt[v].job, v, receipt[v].gen, None)
      BY <2>3, AnswerFacts DEF WorkerInv, ThreadInv
    <3>2. \A s \in W : ~(/\ s \in StepsOf(receipt[v].job)
                         /\ step'[s].worker = v /\ step'[s].gen = receipt[v].gen)
      BY DEF SameClaim, StepsOf
    <3>3. OnlyAfter(receipt[v].job, v, receipt[v].gen, None)
      BY <3>1, <3>2, OnlyStays
    <3>4. OnlyWrite(receipt[v].job, v, receipt[v].gen, None)'
      BY <3>3 DEF OnlyAfter, OnlyWrite, Intent
    <3>5. Claimed(receipt[v].job, receipt[v].gen)'
      BY <1>2, <3>1
    <3> QED
      BY <3>4, <3>5
  <2> QED
    BY <2>2, <2>3
<1>14. \A q \in late' :
         /\ Claimed(q.step[1], q.gen)' /\ q.worker[2] <= host'[q.worker[1]].life
         /\ OnlyWrite(q.step[1], q.worker, q.gen, q.step)'
         /\ ~Held(q.worker, q.step[1], q.gen)'
         /\ q.kind = "result" => q.with \in Verdict
  <2> SUFFICES ASSUME NEW q \in late'
               PROVE  /\ Claimed(q.step[1], q.gen)' /\ q.worker[2] <= host'[q.worker[1]].life
                      /\ OnlyWrite(q.step[1], q.worker, q.gen, q.step)'
                      /\ ~Held(q.worker, q.step[1], q.gen)'
                      /\ q.kind = "result" => q.with \in Verdict
    OBVIOUS
  <2>1. /\ q.step \in Step /\ q.step[1] \in Job /\ q.worker \in Worker
        /\ Claimed(q.step[1], q.gen) /\ q.worker[2] <= host[q.worker[1]].life
        /\ OnlyWrite(q.step[1], q.worker, q.gen, q.step)
        /\ q.kind = "result" => q.with \in Verdict
    BY <1>9, <1>10, StepFacts
  <2>2. Claimed(q.step[1], q.gen)'
    BY <1>2, <2>1
  <2>3. q.worker[2] <= host'[q.worker[1]].life
    BY <1>4, <1>5, <1>6, <2>1
  <2>4. \A s \in W : ~(/\ s \in StepsOf(q.step[1])
                       /\ step'[s].worker = q.worker /\ step'[s].gen = q.gen)
    BY DEF SameClaim, StepsOf
  <2>5. OnlyAfter(q.step[1], q.worker, q.gen, q.step)
    BY <2>1, <2>4, OnlyStays
  <2>6. OnlyWrite(q.step[1], q.worker, q.gen, q.step)'
    BY <2>5 DEF OnlyAfter, OnlyWrite, Intent
  <2>7. ~Held(q.worker, q.step[1], q.gen)'
    <3>1. CASE q \in late
      BY <1>8, <1>9, <2>1, <3>1
    <3>2. CASE q \in Leftover(h) /\ host'[h].pc = Idle
      <4>1. ~receipt[Me(h)].known
        BY <1>10, <3>2, BusyFacts
      <4>2. ASSUME NEW i \in Host, host'[i].pc # Idle, Me(i)' = Me(h) PROVE FALSE
        <5>1. Me(i) = Me(h)
          BY <1>3, <4>2
        <5>2. i = h
          BY <5>1, HostFacts DEF WorkerInv
        <5> QED
          BY <3>2, <4>2, <5>2
      <4> QED
        BY <1>10, <3>2, <4>1, <4>2 DEF Held, SameClaim, At
    <3> QED
      BY <3>1, <3>2
  <2> QED
    BY <2>1, <2>2, <2>3, <2>6, <2>7
<1>15. \A q, r \in late' :
         SameClaim(q.step[1], q.worker, q.gen, r.step[1], r.worker, r.gen) => q = r
  <2> SUFFICES ASSUME NEW q \in late', NEW r \in late',
                      SameClaim(q.step[1], q.worker, q.gen, r.step[1], r.worker, r.gen)
               PROVE  q = r
    OBVIOUS
  <2>1. ASSUME NEW x \in late, NEW y \in Leftover(h),
               SameClaim(x.step[1], x.worker, x.gen, y.step[1], y.worker, y.gen)
        PROVE  FALSE
    <3>1. /\ ~At(h, Idle) /\ y.step[1] = host[h].job /\ y.worker = Me(h) /\ y.gen = host[h].gen
      BY <1>10
    <3>2. Held(y.worker, y.step[1], y.gen)
      BY <3>1 DEF Held, SameClaim
    <3> QED
      BY <1>9, <2>1, <3>2 DEF SameClaim
  <2>2. CASE q \in late /\ r \in late
    BY <2>2 DEF WorkerInv, ThreadInv
  <2>3. CASE q \in Leftover(h) /\ r \in Leftover(h)
    BY <1>10, <2>3
  <2>4. SameClaim(r.step[1], r.worker, r.gen, q.step[1], q.worker, q.gen)
    BY DEF SameClaim
  <2> QED
    BY <2>1, <2>2, <2>3, <2>4
<1>16. \A s \in Step, e \in Event : Heard(s, e)' => step'[s].status \notin {"pending", "write_intent"}
  BY HeardStays DEF WorkerInv
<1> QED
  BY <1>1, <1>11, <1>12, <1>13, <1>14, <1>15, <1>16 DEF ThreadInv, At

\* A step of one host h: it alone moves, and only its own write becomes permitted.
LEMMA HostActs ==
  ASSUME WorkerInv, WorkerTypeOK', \A t \in Step : StepEdge(t), receipt' = receipt,
         NEW h \in Host, NEW W, NEW G, NEW B, Effect(W, G, B),
         \A s \in W : /\ ~At(h, Idle) /\ s[1] = host[h].job
                      /\ step'[s].worker = Me(h) /\ step'[s].gen = host[h].gen,
         \A i \in Host : i # h => host'[i] = host[i],
         HostMove(h),
         late' = late \/ (late' = late \cup Leftover(h) /\ host'[h].pc = Idle /\ W = {}),
         \A i \in Host : \A it \in outbox'[i] : it.gen > 0
  PROVE  ThreadInv'
<1> DEFINE w == Me(h)
           g == host[h].gen
<1>1. \A s \in W : step'[s].worker = w /\ step'[s].gen = g
  OBVIOUS
<1>2. \A s \in W, v \in Worker : receipt[v].known =>
        ~SameClaim(receipt[v].job, v, receipt[v].gen, s[1], w, g)
  BY BusyFacts DEF SameClaim
<1>3. \A s \in W, q \in late' : ~SameClaim(q.step[1], q.worker, q.gen, s[1], w, g)
  <2> SUFFICES ASSUME NEW s \in W, NEW q \in late,
                      SameClaim(q.step[1], q.worker, q.gen, s[1], w, g)
               PROVE  FALSE
    OBVIOUS
  <2>1. Held(q.worker, q.step[1], q.gen)
    BY DEF Held, SameClaim
  <2> QED
    BY <2>1 DEF WorkerInv, ThreadInv
<1>4. \A i \in Host : HostMove(i)
  <2> SUFFICES ASSUME NEW i \in Host, i # h PROVE HostMove(i)
    OBVIOUS
  <2>1. Me(i) # Me(h)
    BY HostFacts DEF WorkerInv
  <2>2. \A s \in W : step'[s].worker # Me(i)
    BY <2>1
  <2> QED
    BY <2>2, HostStays DEF Effect
<1>5. \A q \in late' : q \in late \/ (q \in Leftover(h) /\ host'[h].pc = Idle)
  OBVIOUS
<1> HIDE DEF w, g
<1> QED
  BY <1>1, <1>2, <1>3, <1>4, <1>5, ThreadFrame

\* What h knows of its own claim after a step that permits at most its own write.
LEMMA OwnWrite ==
  ASSUME WorkerInv, \A t \in Step : StepEdge(t), NEW h \in Host, ~At(h, Idle),
         NEW W \in SUBSET {host[h].step}, Newly("write_intent", W)
  PROVE  /\ OnlyAfter(host[h].job, Me(h), host[h].gen, host[h].step)
         /\ step'[host[h].step].status # "write_intent" =>
              OnlyAfter(host[h].job, Me(h), host[h].gen, None)
         /\ At(h, "working") => \A s : OnlyAfter(host[h].job, Me(h), host[h].gen, s)
<1>1. /\ OnlyWrite(host[h].job, Me(h), host[h].gen, host[h].step)
      /\ At(h, "working") => host[h].step = None
  BY BusyFacts
<1>2. OnlyAfter(host[h].job, Me(h), host[h].gen, host[h].step)
  <2> SUFFICES ASSUME NEW t \in StepsOf(host[h].job), step'[t].status = "write_intent",
                      step'[t].worker = Me(h), step'[t].gen = host[h].gen, t \notin W
               PROVE  t = host[h].step
    BY DEF OnlyAfter
  <2>1. t \in Step /\ step[t].status = "write_intent"
    BY DEF StepsOf, Newly
  <2>2. Intent(t, Me(h), host[h].gen)
    BY <2>1 DEF StepEdge, SameStep, Intent
  <2> QED
    BY <1>1, <2>1, <2>2 DEF OnlyWrite
<1>3. step'[host[h].step].status # "write_intent" =>
        OnlyAfter(host[h].job, Me(h), host[h].gen, None)
  BY <1>2 DEF OnlyAfter
<1>4. \A t \in StepsOf(host[h].job) : t # None
  BY NoStepIsNone DEF StepsOf
<1>5. At(h, "working") => \A s : OnlyAfter(host[h].job, Me(h), host[h].gen, s)
  BY <1>1, <1>2, <1>4 DEF OnlyAfter
<1> QED
  BY <1>2, <1>3, <1>5

LEMMA RestMove ==
  ASSUME WorkerInv, NEW h \in Host, NEW life, life >= host[h].life, Become(h, Resting(life))
  PROVE  HostMove(h) /\ host'[h].pc = Idle /\ \A i \in Host : i # h => host'[i] = host[i]
<1>1. host \in [Host -> HostRow]
  BY DEF WorkerInv, WorkerTypeOK
<1>2. host'[h] = Resting(life) /\ \A i \in Host : i # h => host'[i] = host[i]
  BY <1>1 DEF Become
<1> QED
  BY <1>2 DEF HostMove, Resting

LEMMA LeaveMove ==
  ASSUME WorkerInv, NEW h \in Host, Leave(h)
  PROVE  HostMove(h) /\ host'[h].pc = Idle /\ \A i \in Host : i # h => host'[i] = host[i]
<1>1. host[h].life >= host[h].life
  BY HostFacts DEF WorkerInv
<1> QED
  BY <1>1, RestMove DEF Leave

\* The next round, after the step in hand was settled.
LEMMA NextMove ==
  ASSUME WorkerInv, NEW h \in Host, ~At(h, Idle), NextStep(h),
         OnlyAfter(host[h].job, Me(h), host[h].gen, None)
  PROVE  HostMove(h) /\ \A i \in Host : i # h => host'[i] = host[i]
<1> DEFINE new == [host[h] EXCEPT !.pc = "working", !.timer = 0, !.step = None,
                     !.decision = None, !.limit = 0, !.verdict = None]
<1>1. host \in [Host -> HostRow] /\ host[h] \in HostRow
  BY DEF WorkerInv, WorkerTypeOK
<1>2. host'[h] = new /\ \A i \in Host : i # h => host'[i] = host[i]
  BY <1>1 DEF NextStep, Become
<1>3. /\ new.pc = "working" /\ new.step = None /\ new.life = host[h].life
      /\ new.job = host[h].job /\ new.gen = host[h].gen
  BY <1>1 DEF HostRow
<1> HIDE DEF new
<1> QED
  BY <1>2, <1>3 DEF HostMove, Idle

\* A host that goes on with the claim and the step in its hands.
LEMMA StayMove ==
  ASSUME WorkerInv, NEW h \in Host, ~At(h, Idle), ~At(h, "working"), NEW new, Become(h, new),
         new.life = host[h].life, new.job = host[h].job, new.gen = host[h].gen,
         new.step = host[h].step, new.pc \notin {Idle, "working"},
         new.pc \in {"decided", "asking"} => new.decision \in Decision,
         new.pc \in {"reporting", "sending", "evidencing"} => new.verdict \in Verdict,
         OnlyAfter(host[h].job, Me(h), host[h].gen, host[h].step)
  PROVE  HostMove(h) /\ \A i \in Host : i # h => host'[i] = host[i]
<1>1. host \in [Host -> HostRow]
  BY DEF WorkerInv, WorkerTypeOK
<1>2. host'[h] = new /\ \A i \in Host : i # h => host'[i] = host[i]
  BY <1>1 DEF Become
<1>3. host[h].step \in StepsOf(host[h].job)
  BY BusyFacts
<1> QED
  BY <1>2, <1>3 DEF HostMove

LEMMA WaitMove ==
  ASSUME WorkerInv, NEW h \in Host, ~At(h, Idle), UNCHANGED host,
         OnlyAfter(host[h].job, Me(h), host[h].gen, host[h].step)
  PROVE  HostMove(h) /\ \A i \in Host : i # h => host'[i] = host[i]
<1>1. /\ IF At(h, "working") THEN host[h].step = None ELSE host[h].step \in StepsOf(host[h].job)
      /\ host[h].pc \in {"decided", "asking"} => host[h].decision \in Decision
      /\ host[h].pc \in {"reporting", "sending", "evidencing"} => host[h].verdict \in Verdict
  BY BusyFacts
<1> QED
  BY <1>1 DEF HostMove, At

\* The steps of a host that leave the ledger alone.
LEMMA LocalMove ==
  ASSUME WorkerInv, \A t \in Step : StepEdge(t), NEW h \in Host, Newly("write_intent", {}),
         \/ SendClaim(h) \/ Look(h) \/ Lapse(h) \/ GiveUp(h) \/ Ask(h)
         \/ ServePrepareAgain(h) \/ RefusePrepare(h) \/ StartWrite(h) \/ NoWrite(h)
         \/ EndWrite(h) \/ RecordEvidence(h) \/ RefuseResult(h) \/ RefuseEvidence(h)
         \/ SendFailure(h) \/ SendHeartbeat(h) \/ ServeHeartbeat(h) \/ LoseHeartbeat(h) \/ Crash(h)
  PROVE  HostMove(h) /\ \A i \in Host : i # h => host'[i] = host[i]
<1> DEFINE me == host[h]
           Knows == OnlyAfter(me.job, Me(h), me.gen, me.step)
<1>0. /\ host \in [Host -> HostRow] /\ me \in HostRow
      /\ me.life \in Nat /\ me.life >= me.life
  BY HostFacts, HostAssumption DEF WorkerInv, WorkerTypeOK
<1>a. ~At(h, Idle) => /\ Knows
                      /\ step'[me.step].status # "write_intent" =>
                           OnlyAfter(me.job, Me(h), me.gen, None)
                      /\ At(h, "working") => \A s : OnlyAfter(me.job, Me(h), me.gen, s)
  BY OwnWrite
<1>b. ~At(h, Idle) =>
        /\ IF At(h, "working") THEN me.step = None ELSE me.step \in StepsOf(me.job)
        /\ me.pc \in {"decided", "asking"} => me.decision \in Decision
        /\ me.pc \in {"reporting", "sending", "evidencing"} => me.verdict \in Verdict
  BY BusyFacts
<1> HIDE DEF Knows
<1>1. CASE SendClaim(h)
  <2> DEFINE new == [me EXCEPT !.waiting = TRUE, !.timer = 0]
  <2>1. At(h, Idle) /\ Become(h, new)
    BY <1>1 DEF SendClaim
  <2>2. new.pc = Idle /\ new.life = me.life /\ new.beating = me.beating /\ ~me.beating
    BY <1>0, <2>1 DEF HostRow, At, WorkerInv, ThreadInv
  <2> HIDE DEF new
  <2>3. host'[h] = new /\ \A i \in Host : i # h => host'[i] = host[i]
    BY <1>0, <2>1 DEF Become
  <2> QED
    BY <1>0, <2>2, <2>3 DEF HostMove
<1>2. CASE Look(h)
  <2>1. At(h, "working") /\ ~At(h, Idle)
    BY <1>2 DEF Look, At, Idle
  <2>2. PICK s \in Runnable(me.job) :
          \/ Become(h, [me EXCEPT !.pc = "preflight_failed", !.step = s])
          \/ \E d \in Decisions(s) :
               Become(h, [me EXCEPT !.pc = "decided", !.step = s, !.decision = d])
    BY <1>2 DEF Look
  <2>3. s \in StepsOf(me.job)
    BY DEF Runnable
  <2>4. \A d \in Decisions(s) : d \in Decision
    BY DEF Decisions, Decision
  <2>5. OnlyAfter(me.job, Me(h), me.gen, s)
    BY <1>a, <2>1
  <2>6. ASSUME NEW new, Become(h, new), new.pc \in {"preflight_failed", "decided"},
               new.step = s, new.pc = "decided" => new.decision \in Decision,
               new.life = me.life, new.job = me.job, new.gen = me.gen
        PROVE  HostMove(h) /\ \A i \in Host : i # h => host'[i] = host[i]
    <3>1. host'[h] = new /\ \A i \in Host : i # h => host'[i] = host[i]
      BY <1>0, <2>6 DEF Become
    <3> QED
      BY <2>1, <2>3, <2>5, <2>6, <3>1 DEF HostMove, Idle
  <2>7. CASE Become(h, [me EXCEPT !.pc = "preflight_failed", !.step = s])
    <3> DEFINE new == [me EXCEPT !.pc = "preflight_failed", !.step = s]
    <3>1. /\ new.pc = "preflight_failed" /\ new.step = s
          /\ new.life = me.life /\ new.job = me.job /\ new.gen = me.gen
      BY <1>0 DEF HostRow
    <3>2. Become(h, new)
      BY <2>7
    <3> HIDE DEF new
    <3> QED
      BY <2>6, <3>1, <3>2
  <2>8. ASSUME NEW d \in Decisions(s),
               Become(h, [me EXCEPT !.pc = "decided", !.step = s, !.decision = d])
        PROVE  HostMove(h) /\ \A i \in Host : i # h => host'[i] = host[i]
    <3> DEFINE new == [me EXCEPT !.pc = "decided", !.step = s, !.decision = d]
    <3>1. /\ new.pc = "decided" /\ new.step = s /\ new.decision = d
          /\ new.life = me.life /\ new.job = me.job /\ new.gen = me.gen
      BY <1>0 DEF HostRow
    <3>2. Become(h, new)
      BY <2>8
    <3> HIDE DEF new
    <3> QED
      BY <2>4, <2>6, <3>1, <3>2
  <2> QED
    BY <2>2, <2>7, <2>8
<1>3. CASE Lapse(h) \/ GiveUp(h)
  BY <1>3, LeaveMove DEF Lapse, GiveUp
<1>4. CASE Ask(h)
  <2> DEFINE new == [me EXCEPT !.pc = "asking", !.timer = 0]
  <2>1. At(h, "decided") /\ Become(h, new) /\ ~At(h, Idle) /\ ~At(h, "working")
    BY <1>4 DEF Ask, At, Idle
  <2>2. /\ new.pc = "asking" /\ new.decision = me.decision /\ new.life = me.life
        /\ new.job = me.job /\ new.gen = me.gen /\ new.step = me.step
    BY <1>0 DEF HostRow
  <2>3. me.decision \in Decision
    BY <1>b, <2>1 DEF At
  <2> HIDE DEF new
  <2> QED
    BY <1>a, <2>1, <2>2, <2>3, StayMove DEF Knows, Idle
<1>5. CASE ServePrepareAgain(h)
  <2>1. At(h, "asking") /\ ~At(h, Idle) /\ ~At(h, "working")
    BY <1>5 DEF ServePrepareAgain, At, Idle
  <2>2. \/ AnsweredAgain(h) \/ Leave(h)
        \/ NextStep(h) /\ step[me.step].status \notin Unresolved
    BY <1>5 DEF ServePrepareAgain
  <2>3. CASE AnsweredAgain(h)
    <3> DEFINE new == [me EXCEPT !.pc = "reporting", !.timer = 0, !.verdict = "unknown"]
    <3>1. Become(h, new)
      BY <2>3 DEF AnsweredAgain
    <3>2. /\ new.pc = "reporting" /\ new.verdict \in Verdict /\ new.life = me.life
          /\ new.job = me.job /\ new.gen = me.gen /\ new.step = me.step
      BY <1>0 DEF HostRow, Verdict
    <3> HIDE DEF new
    <3> QED
      BY <1>a, <2>1, <3>1, <3>2, StayMove DEF Knows, Idle
  <2>4. CASE NextStep(h) /\ step[me.step].status \notin Unresolved
    <3>1. step' = step
      BY <1>5 DEF ServePrepareAgain, ledger
    <3>2. step'[me.step].status # "write_intent"
      BY <2>4, <3>1 DEF Unresolved
    <3> QED
      BY <1>a, <2>1, <2>4, <3>2, NextMove
  <2> QED
    BY <2>2, <2>3, <2>4, LeaveMove
<1>6. CASE RefusePrepare(h)
  <2> DEFINE new == [me EXCEPT !.pc = "preflight_failed", !.timer = 0]
  <2>1. Become(h, new) /\ ~At(h, Idle) /\ ~At(h, "working")
    BY <1>6 DEF RefusePrepare, At, Idle
  <2>2. /\ new.pc = "preflight_failed" /\ new.life = me.life
        /\ new.job = me.job /\ new.gen = me.gen /\ new.step = me.step
    BY <1>0 DEF HostRow
  <2> HIDE DEF new
  <2> QED
    BY <1>a, <2>1, <2>2, StayMove DEF Knows, Idle
<1>7. CASE StartWrite(h)
  <2> DEFINE new == [me EXCEPT !.pc = "writing", !.limit = 0]
  <2>1. Become(h, new) /\ ~At(h, Idle) /\ ~At(h, "working")
    BY <1>7 DEF StartWrite, At, Idle
  <2>2. /\ new.pc = "writing" /\ new.life = me.life
        /\ new.job = me.job /\ new.gen = me.gen /\ new.step = me.step
    BY <1>0 DEF HostRow
  <2> HIDE DEF new
  <2> QED
    BY <1>a, <2>1, <2>2, StayMove DEF Knows, Idle
<1>8. CASE NoWrite(h) \/ EndWrite(h)
  <2>1. ~At(h, Idle) /\ ~At(h, "working")
    BY <1>8 DEF NoWrite, EndWrite, At, Idle
  <2>2. \A v \in Outcomes(me.step) : v \in Verdict
    BY DEF Outcomes, Verdict
  <2>3. \E v \in Verdict : \/ Become(h, [me EXCEPT !.pc = "reporting", !.limit = 0, !.verdict = v])
                           \/ Become(h, [me EXCEPT !.pc = "reporting", !.verdict = v])
    BY <1>8, <2>2 DEF NoWrite, EndWrite, Verdict
  <2>4. PICK v \in Verdict : \/ Become(h, [me EXCEPT !.pc = "reporting", !.limit = 0, !.verdict = v])
                            \/ Become(h, [me EXCEPT !.pc = "reporting", !.verdict = v])
    BY <2>3
  <2> DEFINE stopped == [me EXCEPT !.pc = "reporting", !.limit = 0, !.verdict = v]
             ended   == [me EXCEPT !.pc = "reporting", !.verdict = v]
  <2>5. /\ stopped.pc = "reporting" /\ stopped.verdict = v /\ stopped.life = me.life
        /\ stopped.job = me.job /\ stopped.gen = me.gen /\ stopped.step = me.step
        /\ ended.pc = "reporting" /\ ended.verdict = v /\ ended.life = me.life
        /\ ended.job = me.job /\ ended.gen = me.gen /\ ended.step = me.step
    BY <1>0 DEF HostRow
  <2>6. Become(h, stopped) \/ Become(h, ended)
    BY <2>4
  <2> HIDE DEF stopped, ended
  <2>7. PICK new \in {stopped, ended} : Become(h, new)
    BY <2>6
  <2>8. /\ new.pc = "reporting" /\ new.verdict \in Verdict /\ new.life = me.life
        /\ new.job = me.job /\ new.gen = me.gen /\ new.step = me.step
    BY <2>5
  <2> QED
    BY <1>a, <2>1, <2>7, <2>8, StayMove DEF Knows, Idle
<1>9. CASE RecordEvidence(h) \/ RefuseResult(h) \/ SendFailure(h)
  <2>1. /\ ~At(h, Idle) /\ ~At(h, "working")
        /\ me.pc \in {"reporting", "sending"} \/ SendFailure(h)
    BY <1>9 DEF RecordEvidence, RefuseResult, SendFailure, At, Idle
  <2>2. PICK pc : /\ Goto(h, pc)
                  /\ \/ pc \in {"sending", "evidencing"} /\ me.pc \in {"reporting", "sending"}
                     \/ pc = "failing"
    BY <1>9, <2>1 DEF RecordEvidence, RefuseResult, SendFailure, At
  <2> DEFINE new == [me EXCEPT !.pc = pc]
  <2>3. Become(h, new)
    BY <2>2 DEF Goto
  <2>4. /\ new.pc = pc /\ new.verdict = me.verdict
        /\ new.life = me.life /\ new.job = me.job /\ new.gen = me.gen
        /\ new.step = me.step
    BY <1>0 DEF HostRow
  <2>5. pc \in {"sending", "evidencing"} => me.verdict \in Verdict
    BY <1>b, <2>1, <2>2
  <2> HIDE DEF new
  <2> QED
    BY <1>a, <2>1, <2>2, <2>3, <2>4, <2>5, StayMove DEF Knows, Idle
<1>10. CASE RefuseEvidence(h)
  <2> DEFINE new == [me EXCEPT !.pc = "preflight_failed", !.verdict = None]
  <2>1. Become(h, new) /\ ~At(h, Idle) /\ ~At(h, "working")
    BY <1>10 DEF RefuseEvidence, At, Idle
  <2>2. /\ new.pc = "preflight_failed" /\ new.life = me.life
        /\ new.job = me.job /\ new.gen = me.gen /\ new.step = me.step
    BY <1>0 DEF HostRow
  <2> HIDE DEF new
  <2> QED
    BY <1>a, <2>1, <2>2, StayMove DEF Knows, Idle
<1>11. CASE SendHeartbeat(h) \/ ServeHeartbeat(h) \/ LoseHeartbeat(h)
  <2>1. ~At(h, Idle)
    BY <1>11 DEF SendHeartbeat, ServeHeartbeat, LoseHeartbeat, At, WorkerInv, ThreadInv
  <2>2. UNCHANGED host \/ \E new :
          /\ Become(h, new) /\ new.pc = me.pc
          /\ new.decision = me.decision /\ new.verdict = me.verdict
          /\ new.life = me.life /\ new.job = me.job /\ new.gen = me.gen /\ new.step = me.step
    <3>1. CASE SendHeartbeat(h)
      <4> DEFINE new == [me EXCEPT !.beating = TRUE, !.beat = 0]
      <4>1. Become(h, new)
        BY <3>1 DEF SendHeartbeat
      <4>2. /\ new.pc = me.pc /\ new.decision = me.decision /\ new.verdict = me.verdict
            /\ new.life = me.life /\ new.job = me.job /\ new.gen = me.gen /\ new.step = me.step
        BY <1>0 DEF HostRow
      <4> HIDE DEF new
      <4> QED
        BY <4>1, <4>2
    <3>2. CASE LoseHeartbeat(h)
      <4> DEFINE new == [me EXCEPT !.beating = FALSE, !.beat = 0, !.window = 0]
      <4>1. Become(h, new)
        BY <3>2 DEF LoseHeartbeat
      <4>2. /\ new.pc = me.pc /\ new.decision = me.decision /\ new.verdict = me.verdict
            /\ new.life = me.life /\ new.job = me.job /\ new.gen = me.gen /\ new.step = me.step
        BY <1>0 DEF HostRow
      <4> HIDE DEF new
      <4> QED
        BY <4>1, <4>2
    <3>3. CASE ServeHeartbeat(h)
      <4> DEFINE n == IF me.window = 0 THEN 0 ELSE Left(LeaseSeconds, me.beat)
                 new == [me EXCEPT !.beating = FALSE, !.beat = 0, !.window = n]
      <4>1. UNCHANGED host \/ Become(h, new)
        BY <3>3 DEF ServeHeartbeat, ReplyLost
      <4> HIDE DEF n
      <4>2. /\ new.pc = me.pc /\ new.decision = me.decision /\ new.verdict = me.verdict
            /\ new.life = me.life /\ new.job = me.job /\ new.gen = me.gen /\ new.step = me.step
        BY <1>0 DEF HostRow
      <4> HIDE DEF new
      <4> QED
        BY <4>1, <4>2
    <3> QED
      BY <1>11, <3>1, <3>2, <3>3
  <2>3. CASE UNCHANGED host
    BY <1>a, <2>1, <2>3, WaitMove DEF Knows
  <2>4. ASSUME NEW new, Become(h, new), new.pc = me.pc,
               new.decision = me.decision, new.verdict = me.verdict,
               new.life = me.life, new.job = me.job, new.gen = me.gen, new.step = me.step
        PROVE  HostMove(h) /\ \A i \in Host : i # h => host'[i] = host[i]
    <3>1. host'[h] = new /\ \A i \in Host : i # h => host'[i] = host[i]
      BY <1>0, <2>4 DEF Become
    <3> QED
      BY <1>a, <1>b, <2>1, <2>4, <3>1 DEF HostMove, At, Knows
  <2> QED
    BY <2>2, <2>3, <2>4
<1>12. CASE Crash(h)
  <2>1. me.life + 1 >= me.life
    BY <1>0
  <2> QED
    BY <1>12, <2>1, RestMove DEF Crash
<1> QED
  BY <1>1, <1>2, <1>3, <1>4, <1>5, <1>6, <1>7, <1>8, <1>9, <1>10, <1>11, <1>12

LEMMA EffectGrows ==
  ASSUME Effect({}, {}, {}), NEW G, NEW B
  PROVE  Effect({}, G, B)
BY DEF Effect, Newly

\* What serving a report or late evidence does: it settles the step as reported, or
\* finds it settled already.
LEMMA ServedEffect ==
  ASSUME TypeOK, ThreadInv, NEW it, it.step \in Step, it.verdict \in Verdict,
         ResultServed(it) \/ EvidenceServed(it)
  PROVE  /\ Effect({}, {t \in {it.step} : it.verdict = "succeeded"},
                       {t \in {it.step} : it.verdict = "failed"})
         /\ receipt' = receipt
         /\ step'[it.step].status \notin {"pending", "write_intent"}
<1> DEFINE s == it.step
           v == it.verdict
           w == it.worker
           g == it.gen
           G == {t \in {s} : v = "succeeded"}
           B == {t \in {s} : v = "failed"}
<1>1. s \in Step /\ v \in Verdict /\ "result" \in Event
  BY HostAssumption
<1>2. \/ Result(s, w, g, "result", v) \/ EvidenceSettles(s, w, g, "result", v)
      \/ EvidenceConfirmed(s, w, g, "result", v)
      \/ ResultReplayed(s, w, g, "result", v) /\ UNCHANGED ledger
  BY DEF ResultServed, EvidenceServed, Answered
<1> HIDE DEF s, v, w, g, G, B
<1>3. CASE Result(s, w, g, "result", v) \/ EvidenceSettles(s, w, g, "result", v)
  <2>1. /\ Effect({}, G, B) /\ receipt' = receipt /\ step'[s].status = v
    BY <1>1, <1>3, SettlingEffect DEF G, B
  <2> QED
    BY <1>1, <2>1 DEF Verdict, s, v, G, B
<1>4. CASE EvidenceConfirmed(s, w, g, "result", v)
  <2>0. \E x \in Step, e \in Event : \E a, b, c : EvidenceConfirmed(x, a, b, e, c)
    BY <1>1, <1>4
  <2>1. /\ Effect({}, {}, {}) /\ receipt' = receipt
        /\ step'[s].status = step[s].status
    BY <1>1, <2>0, IdleEffect
  <2>2. step[s].status = "succeeded"
    BY <1>4 DEF EvidenceConfirmed, CanConfirm
  <2>3. Effect({}, G, B)
    BY <2>1, EffectGrows
  <2> QED
    BY <2>1, <2>2, <2>3 DEF s, v, G, B
<1>5. CASE ResultReplayed(s, w, g, "result", v) /\ UNCHANGED ledger
  <2>1. UNCHANGED <<job, step, receipt>>
    BY <1>5 DEF ledger
  <2>2. Effect({}, G, B) /\ receipt' = receipt
    BY <2>1, IdleEffect, EffectGrows
  <2>3. Heard(s, "result")
    BY <1>1, <1>5 DEF ResultReplayed, Heard
  <2>4. step[s].status \notin {"pending", "write_intent"}
    BY <1>1, <2>3 DEF ThreadInv
  <2> QED
    BY <2>1, <2>2, <2>4 DEF s, v, G, B
<1> QED
  BY <1>2, <1>3, <1>4, <1>5

\* A host whose step is settled, or that waits for the answer it lost.
LEMMA SettledMove ==
  ASSUME WorkerInv, \A t \in Step : StepEdge(t), NEW h \in Host, ~At(h, Idle),
         Newly("write_intent", {}), step'[host[h].step].status # "write_intent",
         UNCHANGED host \/ NextStep(h) \/ Leave(h)
  PROVE  HostMove(h) /\ \A i \in Host : i # h => host'[i] = host[i]
<1>1. /\ OnlyAfter(host[h].job, Me(h), host[h].gen, host[h].step)
      /\ OnlyAfter(host[h].job, Me(h), host[h].gen, None)
  BY OwnWrite
<1> QED
  BY <1>1, LeaveMove, NextMove, WaitMove

\* The steps of a host that the ledger serves.
LEMMA ServedMove ==
  ASSUME WorkerInv, \A t \in Step : StepEdge(t), NEW h \in Host,
         \/ ServeWritePermit(h) \/ ServeNoop(h) \/ ServeResult(h) \/ ServeEvidence(h)
         \/ ServeFailure(h)
  PROVE  /\ HostMove(h) /\ \A i \in Host : i # h => host'[i] = host[i]
         /\ receipt' = receipt /\ ~At(h, Idle)
         /\ \E W, G, B : /\ Effect(W, G, B) /\ W \subseteq {host[h].step}
                         /\ \A s \in W : step'[s].worker = Me(h) /\ step'[s].gen = host[h].gen
<1> DEFINE me == host[h]
<1>0. /\ host \in [Host -> HostRow] /\ me \in HostRow
      /\ TypeOK /\ LedgerInv /\ RecordInv /\ ThreadInv
      /\ Me(h) \in Worker /\ "prepare" \in Request /\ "failure" \in Event
  BY HostFacts, HostAssumption DEF WorkerInv, WorkerTypeOK, LedgerGood
<1>a. ~At(h, Idle) /\ ~At(h, "working")
  BY DEF ServeWritePermit, ServeNoop, ServeResult, ServeEvidence, ServeFailure, At, Idle
<1>b. me.step \in Step /\ me.gen \in Nat
  BY <1>a, BusyFacts
<1>1. CASE ServeWritePermit(h)
  <2>1. PrepareWrite(me.step, Me(h), me.gen, "prepare")
    BY <1>1 DEF ServeWritePermit
  <2>2. /\ Effect({me.step}, SettledBy(me.step), {}) /\ receipt' = receipt
        /\ step'[me.step].worker = Me(h) /\ step'[me.step].gen = me.gen
    <3>1. ASSUME NEW s \in Step, NEW w \in Worker, NEW g \in Nat, PrepareWrite(s, w, g, "prepare")
          PROVE  /\ Effect({s}, SettledBy(s), {}) /\ receipt' = receipt
                 /\ step'[s].worker = w /\ step'[s].gen = g
      BY ONLY <3>1, <1>0, PrepareWriteEffect
    <3> HIDE DEF me
    <3> QED
      BY <1>0, <1>b, <2>1, <3>1
  <2>3. OnlyAfter(me.job, Me(h), me.gen, me.step)
    BY <1>a, <2>2, OwnWrite DEF Effect
  <2>4. HostMove(h) /\ \A i \in Host : i # h => host'[i] = host[i]
    <3>1. CASE UNCHANGED host
      BY <1>a, <2>3, <3>1, WaitMove
    <3>2. CASE ~UNCHANGED host
      <4> DEFINE permitted == Left(job[me.job].lease, me.timer)
                 limit == IF permitted < me.window THEN permitted ELSE me.window
                 new == [me EXCEPT !.pc = "permitted", !.timer = 0, !.limit = limit]
      <4>1. Become(h, new)
        BY <1>1, <3>2 DEF ServeWritePermit, ReplyLost
      <4> HIDE DEF limit
      <4>2. /\ new.pc = "permitted" /\ new.life = me.life
            /\ new.job = me.job /\ new.gen = me.gen /\ new.step = me.step
        BY <1>0 DEF HostRow
      <4> HIDE DEF new
      <4> QED
        BY <1>a, <2>3, <4>1, <4>2, StayMove DEF Idle
    <3> QED
      BY <3>1, <3>2
  <2> QED
    BY <1>a, <2>2, <2>4
<1>2. CASE ServeNoop(h)
  <2>1. PrepareNoop(me.step, Me(h), me.gen, "prepare")
    BY <1>2 DEF ServeNoop
  <2>2. /\ Effect({}, SettledBy(me.step), {}) /\ receipt' = receipt
        /\ step'[me.step].status # "write_intent"
    <3> DEFINE s == me.step
               w == Me(h)
               g == me.gen
    <3>1. s \in Step /\ w \in Worker /\ g \in Nat /\ PrepareNoop(s, w, g, "prepare")
      BY <1>0, <1>b, <2>1
    <3> HIDE DEF s, w, g
    <3>2. /\ Effect({}, SettledBy(s), {}) /\ receipt' = receipt
          /\ step'[s].status # "write_intent"
      BY <1>0, <3>1, PrepareNoopEffect
    <3> QED
      BY <3>2 DEF s, w, g
  <2>3. UNCHANGED host \/ NextStep(h) \/ Leave(h)
    BY <1>2 DEF ServeNoop, ReplyLost, Continue
  <2>4. HostMove(h) /\ \A i \in Host : i # h => host'[i] = host[i]
    BY <1>a, <2>2, <2>3, SettledMove DEF Effect
  <2> QED
    BY <1>a, <2>2, <2>4
<1>3. CASE ServeResult(h) \/ ServeEvidence(h)
  <2> DEFINE it == ItemOf(h)
  <2>1. /\ me.pc \in {"reporting", "sending", "evidencing"}
        /\ ResultServed(it) \/ EvidenceServed(it)
        /\ UNCHANGED host \/ NextStep(h) \/ Leave(h)
    BY <1>3 DEF ServeResult, ServeEvidence, At, Acknowledged, ReplyLost, Continue
  <2>2. it.step = me.step /\ it.verdict \in Verdict
    BY <1>a, <2>1, ItemFacts, BusyFacts
  <2> HIDE DEF it
  <2>3. /\ Effect({}, {t \in {it.step} : it.verdict = "succeeded"},
                      {t \in {it.step} : it.verdict = "failed"})
        /\ receipt' = receipt
        /\ step'[it.step].status \notin {"pending", "write_intent"}
    BY <1>0, <1>b, <2>1, <2>2, ServedEffect
  <2>4. HostMove(h) /\ \A i \in Host : i # h => host'[i] = host[i]
    BY <1>a, <2>1, <2>2, <2>3, SettledMove DEF Effect
  <2> QED
    BY <1>a, <2>3, <2>4
<1>4. CASE ServeFailure(h)
  <2>1. /\ \/ PreflightFailure(me.step, Me(h), me.gen, "failure")
           \/ Heard(me.step, "failure") /\ UNCHANGED ledger
        /\ UNCHANGED host \/ NextStep(h)
    BY <1>4 DEF ServeFailure, ReplyLost
  <2>2. /\ Effect({}, {}, {me.step}) /\ receipt' = receipt
        /\ step'[me.step].status # "write_intent"
    <3>1. CASE PreflightFailure(me.step, Me(h), me.gen, "failure")
      <4> DEFINE s == me.step
                 w == Me(h)
                 g == me.gen
      <4>1. s \in Step /\ PreflightFailure(s, w, g, "failure")
        BY <1>b, <3>1
      <4> HIDE DEF s, w, g
      <4>2. /\ Effect({}, {}, {s}) /\ receipt' = receipt /\ step'[s].status = "failed"
        BY <1>0, <4>1, PreflightEffect
      <4> QED
        BY <4>2 DEF s
    <3>2. CASE Heard(me.step, "failure") /\ UNCHANGED ledger
      <4>1. UNCHANGED <<job, step, receipt>>
        BY <3>2 DEF ledger
      <4>2. Effect({}, {}, {me.step})
        BY <1>0, <4>1, IdleEffect, EffectGrows
      <4>3. step[me.step].status # "write_intent"
        BY <1>0, <1>b, <3>2 DEF ThreadInv
      <4> QED
        BY <4>1, <4>2, <4>3
    <3> QED
      BY <2>1, <3>1, <3>2
  <2>3. HostMove(h) /\ \A i \in Host : i # h => host'[i] = host[i]
    BY <1>a, <2>1, <2>2, SettledMove DEF Effect
  <2> QED
    BY <1>a, <2>2, <2>3
<1> QED
  BY <1>1, <1>2, <1>3, <1>4

\* What every step of the workers keeps, whoever makes it.
LEMMA StepFrame ==
  ASSUME WorkerInv, [WorkerNext]_vars
  PROVE  /\ LedgerGood' /\ WorkerTypeOK'
         /\ \A t \in Step : StepEdge(t)
         /\ \A i \in Host : \A it \in outbox'[i] : it.gen > 0
<1>1. [Next]_ledger
  BY WorkerRefines
<1>2. TypeOK /\ LedgerInv /\ RecordInv
  BY DEF WorkerInv, LedgerGood
<1>3. TypeOK' /\ LedgerInv' /\ RecordGood
  BY <1>1, <1>2, TypeStep, LedgerStep, RecordStep
<1>4. WorkerTypeOK'
  BY WorkerTypeStep
<1>5. \A i \in Host : \A it \in outbox'[i] : it.gen > 0
  <2>0. outbox \in [Host -> SUBSET Evidence] /\ \A i \in Host : \A it \in outbox[i] : it.gen > 0
    BY DEF WorkerInv, WorkerTypeOK, ThreadInv
  <2>1. ASSUME NEW h \in Host, host[h].pc = "reporting" PROVE ItemOf(h).gen > 0
    <3>1. ~At(h, Idle) /\ host[h].pc \in {"reporting", "sending", "evidencing"}
      BY <2>1 DEF At, Idle
    <3>2. ItemOf(h).gen = host[h].gen /\ host[h].gen \in 1..MaxClaims
      BY <3>1, ItemFacts, BusyFacts
    <3> QED
      BY <3>2, BoundAssumption
  <2> QED
    BY <2>0, <2>1, OutboxMoves
<1> QED
  BY <1>3, <1>4, <1>5 DEF RecordGood, LedgerGood

\* The steps of a host in its loop, its heartbeat or its crash.
LEMMA HostThread ==
  ASSUME WorkerInv, [WorkerNext]_vars, NEW h \in Host,
         Loop(h) \/ Beating(h) \/ Crash(h), ~ServeClaim(h), ~ReadClaim(h)
  PROVE  ThreadInv'
<1>0. /\ WorkerTypeOK' /\ \A t \in Step : StepEdge(t)
      /\ \A i \in Host : \A it \in outbox'[i] : it.gen > 0
  BY StepFrame
<1>1. CASE \/ SendClaim(h) \/ Look(h) \/ Lapse(h) \/ GiveUp(h) \/ Ask(h)
           \/ ServePrepareAgain(h) \/ RefusePrepare(h) \/ StartWrite(h) \/ NoWrite(h)
           \/ EndWrite(h) \/ RecordEvidence(h) \/ RefuseResult(h) \/ RefuseEvidence(h)
           \/ SendFailure(h) \/ SendHeartbeat(h) \/ ServeHeartbeat(h) \/ LoseHeartbeat(h)
           \/ Crash(h)
  <2>1. Effect({}, {}, {}) /\ receipt' = receipt
    <3>1. ServeHeartbeat(h) => Heartbeat(host[h].job, Me(h), host[h].gen)
      BY DEF ServeHeartbeat
    <3>2. ServeHeartbeat(h) => host[h].job \in Job
      BY BusyFacts DEF ServeHeartbeat, WorkerInv, ThreadInv
    <3>3. TypeOK
      BY DEF WorkerInv, LedgerGood
    <3>4. CASE UNCHANGED <<job, step, receipt>>
      BY <3>3, <3>4, IdleEffect
    <3>5. CASE ServeHeartbeat(h)
      <4>1. \E j \in Job : \E w, g : Heartbeat(j, w, g)
        BY <3>1, <3>2, <3>5
      <4> QED
        BY <3>3, <4>1, IdleEffect
    <3>6. UNCHANGED <<job, step, receipt>> \/ ServeHeartbeat(h)
      <4>1. CASE \/ SendClaim(h) \/ Look(h) \/ Lapse(h) \/ GiveUp(h) \/ Ask(h)
                 \/ ServePrepareAgain(h) \/ RefusePrepare(h) \/ StartWrite(h) \/ NoWrite(h)
                 \/ EndWrite(h) \/ RecordEvidence(h) \/ RefuseResult(h) \/ RefuseEvidence(h)
                 \/ SendFailure(h)
        BY ONLY <4>1 DEF SendClaim, Look, Lapse, GiveUp, Ask, ServePrepareAgain, RefusePrepare,
             StartWrite, NoWrite, EndWrite, RecordEvidence, RefuseResult, RefuseEvidence,
             SendFailure, ledger
      <4>2. CASE SendHeartbeat(h) \/ LoseHeartbeat(h) \/ Crash(h)
        BY <4>2 DEF SendHeartbeat, LoseHeartbeat, Crash, ledger
      <4> QED
        BY <1>1, <4>1, <4>2
    <3> QED
      BY <3>4, <3>5, <3>6
  <2>2. HostMove(h) /\ \A i \in Host : i # h => host'[i] = host[i]
    <3>1. Newly("write_intent", {})
      BY <2>1 DEF Effect
    <3> QED
      BY <1>0, <1>1, <3>1, LocalMove
  <2>3. late' = late \/ (late' = late \cup Leftover(h) /\ host'[h].pc = Idle)
    <3>1. CASE GiveUp(h)
      BY <3>1, LeaveMove DEF GiveUp, Abandon
    <3>2. CASE Crash(h)
      <4>1. host[h].life + 1 >= host[h].life
        BY HostFacts, HostAssumption DEF WorkerInv
      <4> QED
        BY <3>2, <4>1, RestMove DEF Crash, Abandon
    <3>3. CASE \/ SendClaim(h) \/ Look(h) \/ Lapse(h) \/ Ask(h)
               \/ ServePrepareAgain(h) \/ RefusePrepare(h) \/ StartWrite(h) \/ NoWrite(h)
               \/ EndWrite(h) \/ RecordEvidence(h) \/ RefuseResult(h) \/ RefuseEvidence(h)
               \/ SendFailure(h)
      BY ONLY <3>3 DEF SendClaim, Look, Lapse, Ask, ServePrepareAgain, RefusePrepare, StartWrite,
           NoWrite, EndWrite, RecordEvidence, RefuseResult, RefuseEvidence, SendFailure
    <3>4. CASE SendHeartbeat(h) \/ ServeHeartbeat(h) \/ LoseHeartbeat(h)
      BY <3>4 DEF SendHeartbeat, ServeHeartbeat, LoseHeartbeat
    <3> QED
      BY <1>1, <3>1, <3>2, <3>3, <3>4
  <2> QED
    BY <1>0, <2>1, <2>2, <2>3, HostActs
<1>2. CASE \/ ServeWritePermit(h) \/ ServeNoop(h) \/ ServeResult(h) \/ ServeEvidence(h)
           \/ ServeFailure(h)
  <2>1. /\ HostMove(h) /\ \A i \in Host : i # h => host'[i] = host[i]
        /\ receipt' = receipt /\ ~At(h, Idle)
        /\ \E W, G, B : /\ Effect(W, G, B) /\ W \subseteq {host[h].step}
                        /\ \A s \in W : step'[s].worker = Me(h) /\ step'[s].gen = host[h].gen
    BY <1>0, <1>2, ServedMove
  <2>2. PICK W, G, B :
          /\ Effect(W, G, B) /\ W \subseteq {host[h].step}
          /\ \A s \in W : step'[s].worker = Me(h) /\ step'[s].gen = host[h].gen
    BY <2>1
  <2>3. late' = late
    BY <1>2 DEF ServeWritePermit, ServeNoop, ServeResult, ServeEvidence, ServeFailure
  <2>4. ~At(h, "working") /\ host[h].step[1] = host[h].job
    <3>1. ~At(h, "working")
      BY <1>2 DEF ServeWritePermit, ServeNoop, ServeResult, ServeEvidence, ServeFailure, At
    <3> QED
      BY <2>1, <3>1, BusyFacts
  <2>5. \A s \in W : /\ ~At(h, Idle) /\ s[1] = host[h].job
                     /\ step'[s].worker = Me(h) /\ step'[s].gen = host[h].gen
    BY <2>1, <2>2, <2>4
  <2> QED
    BY <1>0, <2>1, <2>2, <2>3, <2>5, HostActs
<1> QED
  BY <1>1, <1>2 DEF Loop, Beating

\* A claim is stored as the answer to a worker that has none, under a new generation.
LEMMA ClaimThread ==
  ASSUME WorkerInv, [WorkerNext]_vars, NEW h \in Host, ServeClaim(h)
  PROVE  ThreadInv'
<1> DEFINE w == Me(h)
<1>0. /\ w \in Worker /\ w[1] = h /\ w[2] <= host[h].life
      /\ TypeOK /\ LedgerInv /\ ThreadInv
  BY HostFacts, HostAssumption DEF WorkerInv, LedgerGood
<1>1. /\ At(h, Idle) /\ UNCHANGED <<host, outbox, late, step>>
      /\ ClaimNothing(w) \/ \E j \in Job : Claim(j, w)
  <2>1. /\ At(h, Idle) /\ UNCHANGED <<host, outbox, late>>
        /\ ClaimNothing(w) \/ \E j \in Job : Claim(j, w)
    BY DEF ServeClaim
  <2>2. ASSUME NEW j \in Job, Claim(j, w) PROVE step' = step
    BY <2>2 DEF Claim
  <2>3. ClaimNothing(w) => step' = step
    BY DEF ClaimNothing
  <2> QED
    BY <2>1, <2>2, <2>3
<1>2. \A i \in Host : ~At(i, Idle) => Me(i) # w
  BY <1>0, <1>1, HostFacts DEF WorkerInv
<1>3. PICK j, g :
        /\ receipt' = [receipt EXCEPT ![w] = [known |-> TRUE, job |-> j, gen |-> g]]
        /\ \A k \in Job : /\ job'[k].gen \in Nat /\ job'[k].gen >= job[k].gen
                          /\ job'[k].gen <= MaxClaims
                          /\ job'[k].status = "new" => job'[k].gen = 0
        /\ j # None => /\ j \in Job /\ g = job[j].gen + 1 /\ g = job'[j].gen
                       /\ job[j].status = "queued"
  <2>0. \A k \in Job : /\ job[k].gen \in Nat /\ job[k].gen <= MaxClaims
                       /\ job[k].status = "new" => job[k].gen = 0
    BY <1>0 DEF TypeOK, JobRow, ThreadInv
  <2>1. CASE ClaimNothing(w)
    <3>1. /\ receipt' = [receipt EXCEPT ![w] = [known |-> TRUE, job |-> None, gen |-> 0]]
          /\ job' = job
      BY <2>1 DEF ClaimNothing
    <3>2. \A k \in Job : job[k].gen >= job[k].gen
      BY <2>0
    <3> QED
      BY <2>0, <3>1, <3>2
  <2>2. ASSUME NEW j \in Job, Claim(j, w)
        PROVE  /\ receipt' = [receipt EXCEPT ![w] = [known |-> TRUE, job |-> j, gen |-> job[j].gen + 1]]
               /\ \A k \in Job : /\ job'[k].gen \in Nat /\ job'[k].gen >= job[k].gen
                                 /\ job'[k].gen <= MaxClaims
                                 /\ job'[k].status = "new" => job'[k].gen = 0
               /\ job'[j].gen = job[j].gen + 1 /\ job[j].status = "queued"
    <3>1. /\ job'[j].gen = job[j].gen + 1 /\ job'[j].status = "claimed"
          /\ job[j].gen < MaxClaims /\ job[j].status = "queued"
          /\ receipt' = [receipt EXCEPT ![w] = [known |-> TRUE, job |-> j, gen |-> job[j].gen + 1]]
          /\ \A k \in Job : k # j => job'[k] = job[k]
      BY <1>0, <2>2 DEF Claim, TypeOK, JobRow
    <3> QED
      BY <2>0, <3>1, BoundAssumption
  <2> QED
    BY <1>1, <2>1, <2>2
<1>4. /\ receipt'[w] = [known |-> TRUE, job |-> j, gen |-> g]
      /\ \A v \in Worker : v # w => receipt'[v] = receipt[v]
  BY <1>0, <1>3 DEF TypeOK
<1> HIDE DEF w
<1>5. \A k \in Job : \A i : Claimed(k, i) => Claimed(k, i)'
  <2> SUFFICES ASSUME NEW k \in Job, NEW i, Claimed(k, i) PROVE i \in 1..job'[k].gen
    BY DEF Claimed
  <2>1. job[k].gen \in Nat
    BY <1>0 DEF TypeOK, JobRow
  <2> QED
    BY <1>3, <2>1 DEF Claimed
<1>6. \A k, v, i, x : OnlyWrite(k, v, i, x) => OnlyWrite(k, v, i, x)'
  BY <1>1 DEF OnlyWrite, Intent
<1>7. j # None => /\ Claimed(j, g)' /\ OnlyAfter(j, w, g, None)
                  /\ \A i : Claimed(j, i) => i # g
  <2> SUFFICES ASSUME j # None
               PROVE  Claimed(j, g)' /\ OnlyAfter(j, w, g, None) /\ \A i : Claimed(j, i) => i # g
    OBVIOUS
  <2>1. job[j].gen \in Nat /\ j \in Job
    BY <1>0, <1>3 DEF TypeOK, JobRow
  <2>2. \A t \in StepsOf(j) : step[t].status # "write_intent"
    BY <1>0, <1>3, <2>1 DEF LedgerInv, JobInv
  <2>3. OnlyAfter(j, w, g, None)
    BY <1>1, <2>2 DEF OnlyAfter
  <2> QED
    BY <1>3, <2>1, <2>3 DEF Claimed
<1>8. \A j2 \in Job : j2 # None
  BY JobAssumption
<1>9. \A q \in late : q.step[1] \in Job /\ q.worker \in Worker
  BY LateFacts
<1>a. /\ \A i \in Host : At(i, Idle)' = At(i, Idle) /\ Me(i)' = Me(i)
      /\ host' = host /\ late' = late /\ outbox' = outbox /\ step' = step
  BY <1>1 DEF At, Me
<1>10. \A v \in Worker, k \in Job : \A i : Held(v, k, i)' => Held(v, k, i) \/ (v = w /\ k = j /\ i = g)
  <2> SUFFICES ASSUME NEW v \in Worker, NEW k \in Job, NEW i, Held(v, k, i)'
               PROVE  Held(v, k, i) \/ (v = w /\ k = j /\ i = g)
    OBVIOUS
  <2>1. CASE receipt'[v].known /\ receipt'[v].job = k /\ receipt'[v].gen = i
    BY <1>4, <2>1 DEF Held
  <2>2. CASE \E x \in Host : /\ host'[x].pc # Idle
                             /\ SameClaim(host'[x].job, Me(x)', host'[x].gen, k, v, i)
    BY <1>a, <2>2 DEF Held, SameClaim, At
  <2> QED
    BY <2>1, <2>2 DEF Held, At
<1>11. \A k \in Job : job'[k].gen <= MaxClaims /\ (job'[k].status = "new" => job'[k].gen = 0)
  BY <1>3
<1>12. \A i \in Host : ~At(i, Idle) =>
         /\ host[i].job \in Job /\ Claimed(host[i].job, host[i].gen)
         /\ IF At(i, "working") THEN host[i].step = None ELSE host[i].step \in StepsOf(host[i].job)
         /\ host[i].pc \in {"decided", "asking"} => host[i].decision \in Decision
         /\ host[i].pc \in {"reporting", "sending", "evidencing"} => host[i].verdict \in Verdict
         /\ ~receipt'[Me(i)].known
         /\ OnlyWrite(host[i].job, Me(i), host[i].gen, host[i].step)
  <2> TAKE i \in Host
  <2>1. Me(i) \in Worker
    BY HostFacts DEF WorkerInv
  <2> QED
    BY <1>0, <1>2, <1>4, <2>1 DEF ThreadInv
<1>13. \A v \in Worker : receipt'[v].known =>
         /\ v[2] <= host[v[1]].life
         /\ receipt'[v].job # None =>
              /\ Claimed(receipt[v].job, receipt[v].gen)'
              /\ OnlyWrite(receipt[v].job, v, receipt[v].gen, None)'
  <2> SUFFICES ASSUME NEW v \in Worker, receipt'[v].known
               PROVE  /\ v[2] <= host[v[1]].life
                      /\ receipt'[v].job # None =>
                           /\ Claimed(receipt[v].job, receipt[v].gen)'
                           /\ OnlyWrite(receipt[v].job, v, receipt[v].gen, None)'
    OBVIOUS
  <2>1. CASE v = w
    <3>1. receipt'[v].job = j /\ receipt'[v].gen = g
      BY <1>4, <2>1
    <3>2. v[2] <= host[v[1]].life
      BY <1>0, <2>1
    <3>3. j # None => /\ g \in 1..job'[j].gen
                      /\ \A t \in StepsOf(j) : /\ step'[t].status = "write_intent"
                                              /\ step'[t].worker = w /\ step'[t].gen = g
                                             => t = None
      BY <1>7 DEF Claimed, OnlyAfter
    <3>4. receipt'[v].job # None =>
            /\ receipt'[v].gen \in 1..job'[receipt'[v].job].gen
            /\ \A t \in StepsOf(receipt'[v].job) :
                 /\ step'[t].status = "write_intent"
                 /\ step'[t].worker = v /\ step'[t].gen = receipt'[v].gen
                 => t = None
      BY <2>1, <3>1, <3>3
    <3> QED
      BY <3>2, <3>4 DEF Claimed, OnlyWrite, Intent
  <2>2. CASE v # w
    <3>1. /\ receipt'[v] = receipt[v] /\ v[2] <= host[v[1]].life
          /\ receipt[v].job # None =>
               /\ receipt[v].job \in Job /\ Claimed(receipt[v].job, receipt[v].gen)
               /\ OnlyWrite(receipt[v].job, v, receipt[v].gen, None)
      BY <1>0, <1>4, <2>2, AnswerFacts DEF ThreadInv
    <3> QED
      BY <1>5, <1>6, <3>1 DEF Claimed, OnlyWrite, Intent
  <2> QED
    BY <2>1, <2>2
<1>14. \A q \in late :
         /\ Claimed(q.step[1], q.gen) /\ q.worker[2] <= host[q.worker[1]].life
         /\ OnlyWrite(q.step[1], q.worker, q.gen, q.step)
         /\ ~Held(q.worker, q.step[1], q.gen)
         /\ q.kind = "result" => q.with \in Verdict
  BY <1>0 DEF ThreadInv
<1>15. \A q \in late : ~Held(q.worker, q.step[1], q.gen)'
  <2> SUFFICES ASSUME NEW q \in late, Held(q.worker, q.step[1], q.gen)' PROVE FALSE
    OBVIOUS
  <2> DEFINE v == q.worker
             k == q.step[1]
             i == q.gen
  <2>1. v \in Worker /\ k \in Job /\ Claimed(k, i) /\ ~Held(v, k, i)
    BY <1>9, <1>14
  <2>2. \/ receipt'[v].known /\ receipt'[v].job = k /\ receipt'[v].gen = i
        \/ \E x \in Host : host'[x].pc # Idle /\ SameClaim(host'[x].job, Me(x)', host'[x].gen, k, v, i)
    BY <1>a DEF Held, At
  <2> HIDE DEF v, k, i
  <2>3. Held(v, k, i) \/ (v = w /\ k = j /\ i = g)
    BY <1>4, <1>a, <2>1, <2>2 DEF Held, SameClaim, At
  <2> QED
    BY <1>7, <1>8, <2>1, <2>3
<1>16. \A s \in Step, e \in Event : Heard(s, e) => step[s].status \notin {"pending", "write_intent"}
  BY <1>0 DEF ThreadInv
<1> QED
  <2>1. /\ \A i \in Host : host'[i].beating => ~At(i, Idle)'
        /\ \A i \in Host : \A it \in outbox'[i] : it.gen > 0
        /\ \A q, r \in late' : SameClaim(q.step[1], q.worker, q.gen, r.step[1], r.worker, r.gen) => q = r
        /\ \A s \in Step, e \in Event : Heard(s, e)' => step'[s].status \notin {"pending", "write_intent"}
    BY <1>0, <1>a, <1>16 DEF ThreadInv, Heard
  <2>2. \A i \in Host : host'[i].pc # Idle =>
         /\ host'[i].job \in Job /\ Claimed(host[i].job, host[i].gen)'
         /\ IF host'[i].pc = "working" THEN host'[i].step = None
            ELSE host'[i].step \in StepsOf(host'[i].job)
         /\ host'[i].pc \in {"decided", "asking"} => host'[i].decision \in Decision
         /\ host'[i].pc \in {"reporting", "sending", "evidencing"} => host'[i].verdict \in Verdict
         /\ ~receipt'[Me(i)'].known
         /\ OnlyWrite(host[i].job, Me(i), host[i].gen, host[i].step)'
    <3> SUFFICES ASSUME NEW i \in Host, host[i].pc # Idle
                 PROVE  /\ Claimed(host[i].job, host[i].gen)'
                        /\ OnlyWrite(host[i].job, Me(i), host[i].gen, host[i].step)'
      BY <1>12, <1>a DEF At
    <3>1. Claimed(host[i].job, host[i].gen) /\ host[i].job \in Job
          /\ OnlyWrite(host[i].job, Me(i), host[i].gen, host[i].step)
      BY <1>12 DEF At
    <3> QED
      BY <1>5, <1>a, <3>1 DEF Claimed, OnlyWrite, Intent
  <2>3. \A q \in late' :
         /\ Claimed(q.step[1], q.gen)' /\ q.worker[2] <= host'[q.worker[1]].life
         /\ OnlyWrite(q.step[1], q.worker, q.gen, q.step)'
         /\ ~Held(q.worker, q.step[1], q.gen)'
         /\ q.kind = "result" => q.with \in Verdict
    <3> SUFFICES ASSUME NEW q \in late
                 PROVE  /\ Claimed(q.step[1], q.gen)' /\ q.worker[2] <= host[q.worker[1]].life
                        /\ OnlyWrite(q.step[1], q.worker, q.gen, q.step)'
                        /\ ~Held(q.worker, q.step[1], q.gen)'
                        /\ q.kind = "result" => q.with \in Verdict
      BY <1>a
    <3> QED
      BY <1>5, <1>6, <1>9, <1>14, <1>15
  <2> QED
    BY <1>11, <1>13, <1>a, <2>1, <2>2, <2>3 DEF ThreadInv, At

\* A host takes over the claim that was stored as its answer.
LEMMA ReadThread ==
  ASSUME WorkerInv, [WorkerNext]_vars, NEW h \in Host, ReadClaim(h)
  PROVE  ThreadInv'
<1> DEFINE w == Me(h)
           answer == receipt[w]
<1>0. /\ w \in Worker /\ w[1] = h /\ host[h].life >= host[h].life
      /\ host \in [Host -> HostRow] /\ receipt \in [Worker -> ReceiptRow]
      /\ TypeOK /\ LedgerInv /\ ThreadInv
  BY HostFacts, HostAssumption DEF WorkerInv, LedgerGood, WorkerTypeOK, TypeOK
<1>1. /\ At(h, Idle) /\ answer.known
      /\ job' = job /\ step' = step /\ outbox' = outbox /\ late' = late
      /\ receipt' = [receipt EXCEPT ![w] = [known |-> FALSE, job |-> None, gen |-> 0]]
  BY DEF ReadClaim, NewClaimRequest
<1>2. /\ ~receipt'[w].known
      /\ \A v \in Worker : v # w => receipt'[v] = receipt[v]
  BY <1>0, <1>1
<1>3. /\ \A i \in Host : i # h => host'[i] = host[i]
      /\ host'[h].life = host[h].life /\ ~host'[h].beating
      /\ \/ host'[h].pc = Idle
         \/ /\ answer.job # None
            /\ host'[h].pc = "working" /\ host'[h].step = None
            /\ host'[h].job = answer.job /\ host'[h].gen = answer.gen
  <2>1. CASE answer.job = None
    <3>1. host' = [host EXCEPT ![h] = Resting(host[h].life)]
      BY <2>1 DEF ReadClaim, Leave, Become
    <3>2. host'[h] = Resting(host[h].life) /\ \A i \in Host : i # h => host'[i] = host[i]
      BY <1>0, <3>1
    <3> QED
      BY <3>2 DEF Resting
  <2>2. CASE answer.job # None
    <3> DEFINE new == [Resting(host[h].life) EXCEPT !.pc = "working", !.job = answer.job,
                         !.gen = answer.gen, !.window = Left(LeaseSeconds, host[h].timer)]
    <3>1. host' = [host EXCEPT ![h] = new]
      BY <2>2 DEF ReadClaim, Become
    <3>2. /\ new.life = host[h].life /\ ~new.beating /\ new.pc = "working" /\ new.step = None
          /\ new.job = answer.job /\ new.gen = answer.gen
      BY DEF Resting
    <3> HIDE DEF new, answer
    <3>3. host'[h] = new /\ \A i \in Host : i # h => host'[i] = host[i]
      BY <1>0, <3>1
    <3> QED
      BY <2>2, <3>2, <3>3
  <2> QED
    BY <2>1, <2>2
<1>4. answer.job # None => /\ answer.job \in Job /\ Claimed(answer.job, answer.gen)
                           /\ OnlyWrite(answer.job, w, answer.gen, None)
  BY <1>0, <1>1, AnswerFacts DEF WorkerInv, ThreadInv
<1>5. \A i \in Host : host'[i].life = host[i].life /\ Me(i)' = Me(i)
  BY <1>3 DEF Me
<1>6. \A i \in Host : i # h => Me(i) # w
  BY HostFacts DEF WorkerInv
<1>7. \A v \in Worker : v[1] \in Host
  BY HostAssumption
<1>8. \A v \in Worker, k \in Job : \A i : Held(v, k, i)' => Held(v, k, i)
  <2> SUFFICES ASSUME NEW v \in Worker, NEW k \in Job, NEW i, Held(v, k, i)'
               PROVE  Held(v, k, i)
    OBVIOUS
  <2>1. CASE receipt'[v].known /\ receipt'[v].job = k /\ receipt'[v].gen = i
    BY <1>2, <2>1 DEF Held
  <2>2. ASSUME NEW x \in Host, host'[x].pc # Idle, host'[x].job = k, Me(x) = v, host'[x].gen = i
        PROVE  Held(v, k, i)
    BY <1>1, <1>3, <2>2 DEF Held, SameClaim, At
  <2>3. Held(v, k, i)' <=> \/ receipt'[v].known /\ receipt'[v].job = k /\ receipt'[v].gen = i
                           \/ \E x \in Host : /\ host'[x].pc # Idle
                                              /\ SameClaim(host'[x].job, Me(x)', host'[x].gen, k, v, i)
    BY DEF Held, At
  <2> QED
    BY <1>5, <2>1, <2>2, <2>3 DEF SameClaim
<1>9. /\ \A j \in Job : \A i : Claimed(j, i)' <=> Claimed(j, i)
      /\ \A j, v, i, x : OnlyAfter(j, v, i, x) <=> OnlyWrite(j, v, i, x)
      /\ \A s \in Step, e \in Event : Heard(s, e)' <=> Heard(s, e)
  BY <1>1 DEF Claimed, OnlyAfter, OnlyWrite, Intent, Heard
<1> HIDE DEF w, answer
<1>10. \A i \in Host : host'[i].beating => host'[i].pc # Idle
  <2> TAKE i \in Host
  <2> QED
    BY <1>0, <1>3 DEF ThreadInv, At
<1>11. \A i \in Host : host'[i].pc # Idle =>
         /\ host'[i].job \in Job /\ Claimed(host'[i].job, host'[i].gen)
         /\ IF host'[i].pc = "working" THEN host'[i].step = None
            ELSE host'[i].step \in StepsOf(host'[i].job)
         /\ host'[i].pc \in {"decided", "asking"} => host'[i].decision \in Decision
         /\ host'[i].pc \in {"reporting", "sending", "evidencing"} => host'[i].verdict \in Verdict
         /\ ~receipt'[Me(i)].known
         /\ OnlyWrite(host'[i].job, Me(i), host'[i].gen, host'[i].step)
  <2> SUFFICES ASSUME NEW i \in Host, host'[i].pc # Idle
               PROVE  /\ host'[i].job \in Job /\ Claimed(host'[i].job, host'[i].gen)
                      /\ IF host'[i].pc = "working" THEN host'[i].step = None
                         ELSE host'[i].step \in StepsOf(host'[i].job)
                      /\ host'[i].pc \in {"decided", "asking"} => host'[i].decision \in Decision
                      /\ host'[i].pc \in {"reporting", "sending", "evidencing"} =>
                           host'[i].verdict \in Verdict
                      /\ ~receipt'[Me(i)].known
                      /\ OnlyWrite(host'[i].job, Me(i), host'[i].gen, host'[i].step)
    OBVIOUS
  <2>1. CASE i = h
    <3>1. /\ host'[h].pc = "working" /\ host'[h].step = None /\ answer.job # None
          /\ host'[h].job = answer.job /\ host'[h].gen = answer.gen /\ Me(h) = w
      BY <1>3, <2>1 DEF w
    <3> QED
      BY <1>2, <1>4, <2>1, <3>1
  <2>2. CASE i # h
    <3>1. host'[i] = host[i] /\ ~At(i, Idle) /\ Me(i) \in Worker /\ Me(i) # w
      BY <1>3, <1>6, <2>2, HostFacts DEF At, WorkerInv
    <3>2. /\ host[i].job \in Job /\ Claimed(host[i].job, host[i].gen)
          /\ IF At(i, "working") THEN host[i].step = None ELSE host[i].step \in StepsOf(host[i].job)
          /\ host[i].pc \in {"decided", "asking"} => host[i].decision \in Decision
          /\ host[i].pc \in {"reporting", "sending", "evidencing"} => host[i].verdict \in Verdict
          /\ ~receipt[Me(i)].known
          /\ OnlyWrite(host[i].job, Me(i), host[i].gen, host[i].step)
      BY <1>0, <3>1 DEF ThreadInv
    <3> QED
      BY <1>2, <3>1, <3>2 DEF At
  <2> QED
    BY <2>1, <2>2
<1>12. \A i \in Host : host'[i].pc # Idle =>
         /\ Claimed(host[i].job, host[i].gen)'
         /\ OnlyWrite(host[i].job, Me(i), host[i].gen, host[i].step)'
         /\ ~receipt'[Me(i)'].known
  BY <1>1, <1>5, <1>11 DEF Claimed, OnlyWrite, Intent
<1>13. \A v \in Worker : receipt'[v].known =>
         /\ receipt[v].known /\ receipt'[v] = receipt[v] /\ v[2] <= host'[v[1]].life
         /\ receipt'[v].job # None =>
              /\ Claimed(receipt[v].job, receipt[v].gen)
              /\ OnlyWrite(receipt[v].job, v, receipt[v].gen, None)
  <2> SUFFICES ASSUME NEW v \in Worker, receipt'[v].known
               PROVE  /\ receipt[v].known /\ receipt'[v] = receipt[v] /\ v[2] <= host'[v[1]].life
                      /\ receipt'[v].job # None =>
                           /\ Claimed(receipt[v].job, receipt[v].gen)
                           /\ OnlyWrite(receipt[v].job, v, receipt[v].gen, None)
    OBVIOUS
  <2>1. receipt'[v] = receipt[v] /\ receipt[v].known
    BY <1>2
  <2>2. v[2] <= host'[v[1]].life
    BY <1>0, <1>5, <1>7, <2>1 DEF ThreadInv
  <2> QED
    BY <1>0, <2>1, <2>2 DEF ThreadInv
<1>14. \A v \in Worker : receipt'[v].known /\ receipt'[v].job # None =>
         /\ Claimed(receipt[v].job, receipt[v].gen)'
         /\ OnlyWrite(receipt[v].job, v, receipt[v].gen, None)'
  BY <1>1, <1>13 DEF Claimed, OnlyWrite, Intent
<1>15. \A q \in late :
         /\ Claimed(q.step[1], q.gen)' /\ q.worker[2] <= host'[q.worker[1]].life
         /\ OnlyWrite(q.step[1], q.worker, q.gen, q.step)'
         /\ ~Held(q.worker, q.step[1], q.gen)'
         /\ q.kind = "result" => q.with \in Verdict
  <2> SUFFICES ASSUME NEW q \in late
               PROVE  /\ Claimed(q.step[1], q.gen)' /\ q.worker[2] <= host'[q.worker[1]].life
                      /\ OnlyWrite(q.step[1], q.worker, q.gen, q.step)'
                      /\ ~Held(q.worker, q.step[1], q.gen)'
                      /\ q.kind = "result" => q.with \in Verdict
    OBVIOUS
  <2>1. q.worker \in Worker /\ q.step[1] \in Job /\ q.worker[1] \in Host
    BY <1>7, LateFacts
  <2>2. /\ Claimed(q.step[1], q.gen) /\ q.worker[2] <= host[q.worker[1]].life
        /\ OnlyWrite(q.step[1], q.worker, q.gen, q.step)
        /\ ~Held(q.worker, q.step[1], q.gen)
        /\ q.kind = "result" => q.with \in Verdict
    BY <1>0 DEF ThreadInv
  <2>3. ~Held(q.worker, q.step[1], q.gen)'
    BY <1>8, <2>1, <2>2
  <2>4. Claimed(q.step[1], q.gen)' /\ OnlyWrite(q.step[1], q.worker, q.gen, q.step)'
    BY <1>1, <2>2 DEF Claimed, OnlyWrite, Intent
  <2>5. q.worker[2] <= host'[q.worker[1]].life
    BY <1>5, <2>1, <2>2
  <2> QED
    BY <2>2, <2>3, <2>4, <2>5
<1>16. /\ \A j \in Job : job'[j].gen <= MaxClaims /\ (job'[j].status = "new" => job'[j].gen = 0)
       /\ \A q, r \in late : SameClaim(q.step[1], q.worker, q.gen, r.step[1], r.worker, r.gen) => q = r
       /\ \A i \in Host : \A it \in outbox[i] : it.gen > 0
       /\ \A s \in Step, e \in Event : Heard(s, e)' => step'[s].status \notin {"pending", "write_intent"}
  BY <1>0, <1>1, <1>9 DEF ThreadInv
<1> QED
  BY <1>1, <1>10, <1>11, <1>12, <1>13, <1>14, <1>15, <1>16 DEF ThreadInv, At

\* The steps that leave every host where it is, or only let its clocks run, and that
\* leave no call behind.
LEMMA StillThread ==
  ASSUME WorkerInv, [WorkerNext]_vars, receipt' = receipt,
         NEW W, NEW G, NEW B, Effect(W, G, B), NEW w, NEW g,
         \A s \in W : step'[s].worker = w /\ step'[s].gen = g,
         \A s \in W, v \in Worker : receipt[v].known =>
           ~SameClaim(receipt[v].job, v, receipt[v].gen, s[1], w, g),
         \A s \in W, q \in late' : ~SameClaim(q.step[1], q.worker, q.gen, s[1], w, g),
         \A i \in Host : HostMove(i), late' \subseteq late
  PROVE  ThreadInv'
<1>0. /\ WorkerTypeOK' /\ \A t \in Step : StepEdge(t)
      /\ \A i \in Host : \A it \in outbox'[i] : it.gen > 0
  BY StepFrame
<1>1. CASE Host # {}
  <2>1. PICK h \in Host : TRUE
    BY <1>1
  <2>2. \A q \in late' : q \in late \/ (q \in Leftover(h) /\ host'[h].pc = Idle)
    OBVIOUS
  <2> QED
    BY <1>0, <2>2, ThreadFrame
<1>2. CASE Host = {}
  <2>1. Worker = {}
    BY <1>2, HostAssumption
  <2>2. late = {}
    BY <2>1, LateFacts
  <2>3. \A j \in Job : job'[j].gen <= MaxClaims /\ (job'[j].status = "new" => job'[j].gen = 0)
    BY DEF Effect, JobsKept, WorkerInv, ThreadInv
  <2>4. \A s \in Step, e \in Event : Heard(s, e)' => step'[s].status \notin {"pending", "write_intent"}
    BY <1>0, HeardStays DEF WorkerInv, Effect
  <2> QED
    BY <1>2, <2>1, <2>2, <2>3, <2>4 DEF ThreadInv
<1> QED
  BY <1>1, <1>2

\* Delayed calls that arrive: the one write they may permit is that of their own claim,
\* which nobody has any more.
LEMMA LateThread ==
  ASSUME WorkerInv, [WorkerNext]_vars, NEW q \in late, ServeLate(q)
  PROVE  ThreadInv'
<1> DEFINE s == q.step
           w == q.worker
           g == q.gen
<1>0. /\ \A t \in Step : StepEdge(t)
      /\ TypeOK /\ LedgerInv /\ RecordInv /\ ThreadInv
      /\ host' = host /\ outbox' = outbox /\ late' = late \ {q}
      /\ Delivered(q)
  BY StepFrame DEF WorkerInv, LedgerGood, ServeLate
<1>1. /\ s \in Step /\ w \in Worker /\ g \in Nat
      /\ q.kind = "result" => q.with \in Verdict
      /\ "prepare" \in Request /\ "result" \in Event /\ "failure" \in Event
      /\ ~Held(w, s[1], g)
      /\ \A r \in late : SameClaim(r.step[1], r.worker, r.gen, s[1], w, g) => r = q
  BY <1>0, LateFacts, HostAssumption DEF ThreadInv
<1>2. \/ PrepareWrite(s, w, g, "prepare")
      \/ PrepareNoop(s, w, g, "prepare")
      \/ \E v \in Verdict : Result(s, w, g, "result", v)
      \/ PreflightFailure(s, w, g, "failure")
  <2>1. \/ PrepareWrite(s, w, g, "prepare")
        \/ PrepareNoop(s, w, g, "prepare")
        \/ q.kind = "result" /\ Result(s, w, g, "result", q.with)
        \/ PreflightFailure(s, w, g, "failure")
    BY <1>0 DEF Delivered
  <2> DEFINE v == q.with
  <2>2. q.kind = "result" => v \in Verdict
    BY <1>1
  <2> HIDE DEF s, w, g, v
  <2>3. q.kind = "result" /\ Result(s, w, g, "result", v)
           => \E x \in Verdict : Result(s, w, g, "result", x)
    BY <2>2
  <2> QED
    BY <2>1, <2>3 DEF v
<1> HIDE DEF s, w, g
<1>3. \E W, G, B : /\ Effect(W, G, B) /\ W \subseteq {s} /\ receipt' = receipt
                   /\ \A t \in W : step'[t].worker = w /\ step'[t].gen = g
  <2>1. CASE PrepareWrite(s, w, g, "prepare")
    <3>1. ASSUME NEW x \in Step, NEW y \in Worker, NEW z \in Nat, PrepareWrite(x, y, z, "prepare")
          PROVE  /\ Effect({x}, SettledBy(x), {}) /\ receipt' = receipt
                 /\ step'[x].worker = y /\ step'[x].gen = z
      <4>1. TypeOK /\ LedgerInv /\ RecordInv /\ "prepare" \in Request
        BY <1>0, <1>1
      <4>2. ASSUME NEW r \in Request, PrepareWrite(x, y, z, r)
            PROVE  /\ Effect({x}, SettledBy(x), {}) /\ receipt' = receipt
                   /\ step'[x].worker = y /\ step'[x].gen = z
        BY <4>1, <4>2, PrepareWriteEffect
      <4> QED
        BY <3>1, <4>1, <4>2
    <3>2. /\ Effect({s}, SettledBy(s), {}) /\ receipt' = receipt
          /\ step'[s].worker = w /\ step'[s].gen = g
      BY <1>1, <2>1, <3>1
    <3> QED
      BY <3>2
  <2>2. CASE PrepareNoop(s, w, g, "prepare")
    <3>1. Effect({}, SettledBy(s), {}) /\ receipt' = receipt
      BY <1>0, <1>1, <2>2, PrepareNoopEffect
    <3> QED
      BY <3>1
  <2>3. CASE \E v \in Verdict : Result(s, w, g, "result", v)
    <3>1. PICK v \in Verdict : Result(s, w, g, "result", v)
      BY <2>3
    <3>2. /\ Effect({}, {t \in {s} : v = "succeeded"}, {t \in {s} : v = "failed"})
          /\ receipt' = receipt
      BY <1>0, <1>1, <3>1, SettlingEffect
    <3> QED
      BY <3>2
  <2>4. CASE PreflightFailure(s, w, g, "failure")
    <3>1. Effect({}, {}, {s}) /\ receipt' = receipt
      BY <1>0, <1>1, <2>4, PreflightEffect
    <3> QED
      BY <3>1
  <2> QED
    BY <1>2, <2>1, <2>2, <2>3, <2>4
<1>4. PICK W, G, B : /\ Effect(W, G, B) /\ W \subseteq {s} /\ receipt' = receipt
                     /\ \A t \in W : step'[t].worker = w /\ step'[t].gen = g
  BY <1>3
<1>5. \A t \in W, v \in Worker : receipt[v].known =>
        ~SameClaim(receipt[v].job, v, receipt[v].gen, t[1], w, g)
  BY <1>1, <1>4 DEF Held, SameClaim
<1>6. \A t \in W, r \in late' : ~SameClaim(r.step[1], r.worker, r.gen, t[1], w, g)
  BY <1>0, <1>1, <1>4
<1>7. \A i \in Host : HostMove(i)
  <2> TAKE i \in Host
  <2>1. ASSUME ~At(i, Idle), NEW t \in W, t \in StepsOf(host[i].job),
               step'[t].worker = Me(i), step'[t].gen = host[i].gen
        PROVE  FALSE
    <3>1. t = s /\ Me(i) = w /\ host[i].gen = g /\ host[i].job = s[1]
      BY <1>4, <2>1 DEF StepsOf
    <3>2. Held(w, s[1], g)
      BY <2>1, <3>1 DEF Held, SameClaim
    <3> QED
      BY <1>1, <3>2
  <2>2. Newly("write_intent", W) /\ host'[i] = host[i]
    BY <1>0, <1>4 DEF Effect
  <2> QED
    BY <1>0, <2>1, <2>2, HostStays
<1>8. late' \subseteq late
  BY <1>0
<1> QED
  BY <1>4, <1>5, <1>6, <1>7, <1>8, StillThread

\* Evidence told again, Zentao, the control plane's own steps, and time.
LEMMA OtherThread ==
  ASSUME WorkerInv, [WorkerNext]_vars,
         \/ \E h \in Host : \E it \in outbox[h] : Replay(h, it)
         \/ \E s \in Step : Land(s)
         \/ Supervise \/ Elapse \/ UNCHANGED vars
  PROVE  ThreadInv'
<1>0. /\ \A t \in Step : StepEdge(t)
      /\ TypeOK /\ LedgerInv /\ RecordInv /\ ThreadInv
  BY StepFrame DEF WorkerInv, LedgerGood
<1>1. (\E G, B : Effect({}, G, B)) /\ receipt' = receipt
  <2>1. ASSUME NEW h \in Host, NEW it \in outbox[h], Replay(h, it)
        PROVE  (\E G, B : Effect({}, G, B)) /\ receipt' = receipt
    <3>1. it.step \in Step /\ it.verdict \in Verdict
      BY EvidenceFacts
    <3>2. EvidenceServed(it)
      BY <2>1 DEF Replay
    <3>3. /\ Effect({}, {t \in {it.step} : it.verdict = "succeeded"},
                        {t \in {it.step} : it.verdict = "failed"})
          /\ receipt' = receipt
      BY <1>0, <3>1, <3>2, ServedEffect
    <3> QED
      BY <3>3
  <2>2. CASE (\E s \in Step : Land(s)) \/ HostsOnly \/ UNCHANGED vars
    <3>1. UNCHANGED <<job, step, receipt>>
      BY <2>2 DEF Land, HostsOnly, vars, ledger
    <3>2. Effect({}, {}, {})
      BY <1>0, <3>1, IdleEffect
    <3> QED
      BY <3>1, <3>2
  <2>3. CASE Supervise
    <3>1. CASE \E j \in Job : Submit(j) \/ Cancel(j) \/ ExpireJob(j)
      <4>1. PICK j \in Job : Submit(j) \/ Cancel(j) \/ ExpireFinish(j) \/ ExpireRequeue(j)
        BY <3>1 DEF ExpireJob
      <4>2. Effect({}, {}, {}) /\ receipt' = receipt
        BY <1>0, <4>1, QuietEffect
      <4> QED
        BY <4>2
    <3>2. CASE \E s \in Step : Reconcile(s)
      <4>1. PICK s \in Step : Reconcile(s)
        BY <3>2
      <4>2. Effect({}, {s}, {}) /\ receipt' = receipt
        BY <1>0, <4>1, ReconcileEffect
      <4> QED
        BY <4>2
    <3> QED
      BY <2>3, <3>1, <3>2 DEF Supervise
  <2>4. CASE Tick
    <3>1. PICK j \in Job : TRUE
      BY <2>4 DEF Tick
    <3>2. Effect({}, {}, {}) /\ receipt' = receipt
      BY <1>0, <2>4, <3>1, QuietEffect
    <3> QED
      BY <3>2
  <2> QED
    BY <2>1, <2>2, <2>3, <2>4 DEF Elapse
<1>2. PICK G, B : Effect({}, G, B)
  BY <1>1
<1>3. Newly("write_intent", {})
  BY <1>2 DEF Effect
<1>4. late' \subseteq late
  BY DEF Replay, Land, Supervise, Elapse, vars
<1>5. \A i \in Host : HostMove(i)
  <2>1. CASE host' = host
    BY <1>0, <1>3, <2>1, HostStays
  <2>2. CASE Elapse
    <3> TAKE i \in Host
    <3> DEFINE me == host[i]
               timer == IF Timed(i) THEN More(me.timer) ELSE me.timer
               beat == IF me.beating THEN More(me.beat) ELSE me.beat
               new == [me EXCEPT !.window = Less(me.window), !.limit = Less(me.limit),
                                 !.timer = timer, !.beat = beat]
    <3>1. host'[i] = new
      BY <2>2 DEF Elapse
    <3>2. me \in HostRow /\ me.life >= me.life
      BY HostFacts DEF WorkerInv
    <3>3. /\ new.pc = me.pc /\ new.life = me.life /\ new.beating = me.beating
          /\ new.job = me.job /\ new.gen = me.gen /\ new.step = me.step
          /\ new.decision = me.decision /\ new.verdict = me.verdict
      BY <3>2 DEF HostRow
    <3> HIDE DEF new, me
    <3>4. CASE me.pc = Idle
      <4>1. ~me.beating
        BY <1>0, <3>4 DEF ThreadInv, At, me
      <4> QED
        BY <3>1, <3>2, <3>3, <3>4, <4>1 DEF HostMove, me
    <3>5. CASE me.pc # Idle
      <4>1. ~At(i, Idle)
        BY <3>5 DEF At, me
      <4>2. /\ IF me.pc = "working" THEN me.step = None ELSE me.step \in StepsOf(me.job)
            /\ me.pc \in {"decided", "asking"} => me.decision \in Decision
            /\ me.pc \in {"reporting", "sending", "evidencing"} => me.verdict \in Verdict
            /\ OnlyWrite(me.job, Me(i), me.gen, me.step)
        BY <4>1, BusyFacts DEF me, At
      <4>3. OnlyAfter(me.job, Me(i), me.gen, me.step)
        <5> DEFINE w == Me(i)
        <5>1. OnlyWrite(me.job, w, me.gen, me.step)
          BY <4>2
        <5> HIDE DEF w
        <5>2. OnlyAfter(me.job, w, me.gen, me.step)
          BY <1>0, <1>3, <5>1, OnlyStays
        <5> QED
          BY <5>2 DEF w
      <4> QED
        BY <3>1, <3>3, <3>5, <4>1, <4>2, <4>3 DEF HostMove, me
    <3> QED
      BY <3>4, <3>5
  <2> QED
    BY <2>1, <2>2 DEF Replay, Land, Supervise, vars
<1> QED
  BY <1>1, <1>2, <1>4, <1>5, StillThread

\* A claim generation stays in the hands of one request loop.
LEMMA ThreadStep == WorkerInv /\ [WorkerNext]_vars => ThreadInv'
<1> SUFFICES ASSUME WorkerInv, [WorkerNext]_vars PROVE ThreadInv'
  OBVIOUS
<1>1. ASSUME NEW h \in Host, Loop(h) \/ Beating(h) \/ Crash(h) PROVE ThreadInv'
  <2>1. CASE ServeClaim(h)
    BY <2>1, ClaimThread
  <2>2. CASE ReadClaim(h)
    BY <2>2, ReadThread
  <2> QED
    BY <1>1, <2>1, <2>2, HostThread
<1>2. ASSUME NEW q \in late, ServeLate(q) PROVE ThreadInv'
  BY <1>2, LateThread
<1>3. CASE \/ \E h \in Host : \E it \in outbox[h] : Replay(h, it)
           \/ \E s \in Step : Land(s)
           \/ Supervise \/ Elapse \/ UNCHANGED vars
  BY <1>3, OtherThread
<1> QED
  BY <1>1, <1>2, <1>3 DEF WorkerNext

-----------------------------------------------------------------------------
(* What always holds of the workers.                                        *)

LEMMA WorkerStep == WorkerInv /\ [WorkerNext]_vars => WorkerInv'
BY StepFrame, ThreadStep DEF WorkerInv

LEMMA WorkerStart == WorkerInit => WorkerInv
<1> SUFFICES ASSUME WorkerInit PROVE WorkerInv
  OBVIOUS
<1>0. Init
  BY DEF WorkerInit
<1>1. TypeOK /\ LedgerInv /\ RecordInv
  <2>1. TypeOK
    BY <1>0, BoundAssumption DEF Init, TypeOK, JobRow, StepRow, RecordRow, ReceiptRow, JobStatus,
       StepStatus, Verdict
  <2>2. LedgerInv
    BY <1>0 DEF Init, LedgerInv, JobInv, Exclusive, Active, Leased, Ended, StepsOf
  <2> QED
    BY <1>0, <2>1, <2>2, RecordInit
<1>2. WorkerTypeOK
  BY RestingType, HostAssumption DEF WorkerInit, WorkerTypeOK
<1>3. ThreadInv
  <2>1. /\ \A j \in Job : job[j].gen = 0
        /\ \A w \in Worker : ~receipt[w].known
        /\ \A s \in Step : step[s].status = "pending" /\ step[s].receipts = {}
    BY DEF WorkerInit, Init
  <2>2. \A h \in Host : host[h].pc = Idle /\ ~host[h].beating
    BY DEF WorkerInit, Resting
  <2>3. late = {} /\ \A h \in Host : outbox[h] = {}
    BY DEF WorkerInit
  <2>4. \A j \in Job : job[j].gen <= MaxClaims /\ (job[j].status = "new" => job[j].gen = 0)
    BY <2>1, BoundAssumption
  <2>5. \A s \in Step, e \in Event : ~Heard(s, e)
    BY <2>1 DEF Heard
  <2> QED
    BY <2>1, <2>2, <2>3, <2>4, <2>5 DEF ThreadInv, At
<1> QED
  BY <1>1, <1>2, <1>3 DEF WorkerInv, LedgerGood

\* The inductive invariant of the workers and the ledger under them.
THEOREM WorkersSafe == WorkerSpec => []WorkerInv
BY WorkerStart, WorkerStep, PTL DEF WorkerSpec

\* Hosts, evidence files, calls left behind and Zentao's side stay well formed.
THEOREM WorkersTyped == WorkerSpec => []WorkerTypeOK
<1>1. WorkerInv => WorkerTypeOK
  BY DEF WorkerInv
<1> QED
  BY <1>1, WorkersSafe, PTL

\* Whatever crashes, expires, is delayed or retried, the claims of a job stay apart: one
\* request loop at a time has a claim generation in its hands, and it knows of the only
\* write of that claim that can be in progress.
THEOREM ClaimsStayApart == WorkerSpec => []ThreadInv
<1>1. WorkerInv => ThreadInv
  BY DEF WorkerInv
<1> QED
  BY <1>1, WorkersSafe, PTL

\* The workers use the ledger as it is specified: every step of the composed system is a
\* step of IntegrationJob or leaves the ledger alone.  In particular a worker reports
\* the write of one step before it prepares the next, which IntegrationJob asks of
\* its callers.
THEOREM WorkersKeepToTheLedger == WorkerSpec => Spec
<1>1. WorkerInit => Init
  BY DEF WorkerInit
<1> QED
  BY <1>1, WorkersSafe, WorkerRefines, PTL DEF WorkerSpec, Spec

=============================================================================
