------------------------- MODULE IntegrationJob_proofs -------------------------
(***************************************************************************)
(* Proofs about the ledger of integration jobs, for any number of jobs,    *)
(* bugs, targets, plans and workers: it is well typed, and its inductive   *)
(* invariant LedgerInv holds, from which the safety properties follow.     *)
(***************************************************************************)
EXTENDS IntegrationJob, TLAPS

-----------------------------------------------------------------------------
(* The operators the actions are built from.                                *)

\* A step belongs to a job, and writes a slot of that job's bug.
LEMMA StepFacts ==
  ASSUME NEW s \in Step
  PROVE  /\ s[1] \in Job
         /\ s[2] \in StepKey
         /\ SlotOf(s) \in Slot
         /\ s \in StepsOf(s[1])
BY JobAssumption DEF Step, SlotOf, Slot, StepsOf

\* Blocking touches only pending steps of the job, and makes them blocked.
LEMMA BlockingFacts ==
  ASSUME NEW st \in [Step -> StepRow], NEW j \in Job
  PROVE  /\ Blocking(j, st) \in [Step -> StepRow]
         /\ \A s \in Step :
              \/ Blocking(j, st)[s] = st[s]
              \/ /\ s \in StepsOf(j)
                 /\ st[s].status = "pending"
                 /\ Blocking(j, st)[s].status = "blocked"
                 /\ Blocking(j, st)[s].worker = st[s].worker
                 /\ Blocking(j, st)[s].gen = st[s].gen
         /\ (\E u \in StepsOf(j) : st[u].status = "unknown") =>
              \A s \in StepsOf(j) : Blocking(j, st)[s].status # "pending"
BY DEF Blocking, Blocked, StepRow, StepStatus, Resolved, Unresolved, StepsOf

\* What aggregate answers, as far as the safety of the job depends on it.
LEMMA AggregateFacts ==
  ASSUME NEW states, NEW canceled \in BOOLEAN
  PROVE  LET a == Aggregate(states, canceled) IN
         /\ a \in {"unknown", "running", "canceled", "succeeded", "partial", "failed"}
         /\ "unknown" \in states => a = "unknown"
         /\ "write_intent" \in states /\ "unknown" \notin states => a = "running"
         /\ "pending" \in states /\ ~canceled /\ "unknown" \notin states => a = "running"
         /\ a = "running" => \/ "write_intent" \in states
                             \/ "pending" \in states /\ ~canceled
BY DEF Aggregate, Unresolved, Success

\* Telling changes only the flag and the count of activities.
LEMMA ToldFacts ==
  ASSUME NEW j \in Job, NEW jb \in JobRow, NEW states, NEW status
  PROVE  LET new == Told(j, jb, states, status) IN
         /\ new \in JobRow
         /\ new.status = jb.status /\ new.scope = jb.scope /\ new.target = jb.target
         /\ new.worker = jb.worker /\ new.gen = jb.gen /\ new.canceled = jb.canceled
         /\ new.lease = jb.lease /\ new.previous = jb.previous
<1> DEFINE count == IF IsFieldsJob(j) /\ states \subseteq {"noop"} THEN jb.activities
                    ELSE jb.activities + 1
           told  == [jb EXCEPT !.told = TRUE, !.activities = count]
<1>1. count \in Nat
  BY DEF JobRow
<1>2. Told(j, jb, states, status) \in {jb, told}
  BY DEF Told
<1> HIDE DEF count
<1>3. told \in JobRow
  BY <1>1 DEF JobRow
<1>4. /\ told.status = jb.status /\ told.scope = jb.scope /\ told.target = jb.target
      /\ told.worker = jb.worker /\ told.gen = jb.gen /\ told.canceled = jb.canceled
      /\ told.lease = jb.lease /\ told.previous = jb.previous
  BY DEF JobRow
<1> QED
  BY <1>2, <1>3, <1>4

\* Closing gives the job its aggregated status; flags are only ever released.
LEMMA ClosingFacts ==
  ASSUME NEW j \in Job, NEW jb \in JobRow, NEW st \in [Step -> StepRow]
  PROVE  LET new == Closing(j, jb, st) IN
         /\ new \in JobRow
         /\ new.status = Aggregate({st[s].status : s \in StepsOf(j)}, jb.canceled)
         /\ new.target => jb.target
         /\ new.scope => jb.scope
         /\ new.status \in Active => new.target = jb.target /\ new.scope = jb.scope
         /\ new.worker = jb.worker /\ new.gen = jb.gen /\ new.canceled = jb.canceled
         /\ new.previous = jb.previous
<1> DEFINE states == {st[s].status : s \in StepsOf(j)}
           status == Aggregate(states, jb.canceled)
           kept   == [jb EXCEPT !.status = status]
           freed  == [jb EXCEPT !.status = status, !.scope = FALSE, !.target = FALSE, !.lease = 0]
           base   == IF status \in Active THEN kept ELSE freed
<1>1. status \in JobStatus
  BY AggregateFacts DEF JobStatus, Active, JobRow
<1>2. /\ base \in JobRow
      /\ base.status = status
      /\ base.target => jb.target
      /\ base.scope => jb.scope
      /\ status \in Active => base.target = jb.target /\ base.scope = jb.scope
      /\ base.worker = jb.worker /\ base.gen = jb.gen /\ base.canceled = jb.canceled
      /\ base.previous = jb.previous
  <2> HIDE DEF status
  <2>1. kept \in JobRow /\ freed \in JobRow
    <3>1. 0 \in 0..LeaseSeconds
      BY BoundAssumption
    <3>2. kept \in JobRow
      BY <1>1 DEF JobRow
    <3>3. freed \in JobRow
      BY <1>1, <3>1 DEF JobRow
    <3> QED
      BY <3>2, <3>3
  <2>2. /\ kept.status = status /\ kept.scope = jb.scope /\ kept.target = jb.target
        /\ kept.worker = jb.worker /\ kept.gen = jb.gen /\ kept.canceled = jb.canceled
        /\ kept.previous = jb.previous
    BY DEF JobRow
  <2>3. /\ freed.status = status /\ ~freed.scope /\ ~freed.target
        /\ freed.worker = jb.worker /\ freed.gen = jb.gen /\ freed.canceled = jb.canceled
        /\ freed.previous = jb.previous
    BY DEF JobRow
  <2> HIDE DEF kept, freed
  <2> QED
    BY <2>1, <2>2, <2>3
<1>3. Closing(j, jb, st) = Told(j, base, states, status)
  BY DEF Closing
<1> HIDE DEF states, status, base
<1> QED
  BY <1>2, <1>3, ToldFacts DEF states, status

-----------------------------------------------------------------------------
(* finish, on any state it is called in.                                    *)

Unfinished(j, st) == \E s \in StepsOf(j) : st[s].status \in {"pending", "write_intent"}

\* What finish needs of the job it is called for: one that is leased, or one
\* that has nothing left to run.
Finishable(j, jb, st) ==
  /\ Unfinished(j, st) => jb.target /\ jb.scope /\ ~jb.canceled
  /\ \A s \in StepsOf(j) : st[s].status = "write_intent" =>
       /\ st[s].worker = jb.worker /\ st[s].gen = jb.gen
       /\ \A u \in StepsOf(j) : st[u].status # "unknown"
       /\ \A t \in StepsOf(j) : st[t].status = "write_intent" => s = t

\* finish establishes the invariant of its job and reopens nothing.
LEMMA FinishJob ==
  ASSUME NEW j \in Job, NEW jb \in JobRow, NEW st \in [Step -> StepRow],
         Finishable(j, jb, st)
  PROVE  LET final == Blocking(j, st)
             new   == Closing(j, jb, final)
         IN  /\ final \in [Step -> StepRow]
             /\ new \in JobRow
             /\ JobInv(j, new, final)
             /\ new.target => jb.target
             /\ new.scope => jb.scope
             /\ ~Unfinished(j, st) => Ended(new)
<1> DEFINE final  == Blocking(j, st)
           new    == Closing(j, jb, final)
           states == {final[s].status : s \in StepsOf(j)}
<1>1. /\ final \in [Step -> StepRow]
      /\ \A s \in Step : \/ final[s] = st[s]
                         \/ /\ st[s].status = "pending" /\ final[s].status = "blocked"
                            /\ s \in StepsOf(j)
      /\ (\E u \in StepsOf(j) : st[u].status = "unknown") =>
           \A s \in StepsOf(j) : final[s].status # "pending"
  BY BlockingFacts
<1>2. /\ new \in JobRow
      /\ new.status = Aggregate(states, jb.canceled)
      /\ new.target => jb.target
      /\ new.scope => jb.scope
      /\ new.status \in Active => new.target = jb.target /\ new.scope = jb.scope
      /\ new.worker = jb.worker /\ new.gen = jb.gen /\ new.canceled = jb.canceled
  BY <1>1, ClosingFacts, ZenonT(60)
<1> HIDE DEF final, new
<1>3. jb.canceled \in BOOLEAN
  BY DEF JobRow
<1>4. \A s \in StepsOf(j) : s \in Step
  BY DEF StepsOf
<1>5. /\ new.status \in {"unknown", "running", "canceled", "succeeded", "partial", "failed"}
      /\ "unknown" \in states => new.status = "unknown"
      /\ "write_intent" \in states /\ "unknown" \notin states => new.status = "running"
      /\ "pending" \in states /\ ~jb.canceled /\ "unknown" \notin states => new.status = "running"
      /\ new.status = "running" => \/ "write_intent" \in states
                                   \/ "pending" \in states /\ ~jb.canceled
  BY <1>2, <1>3, AggregateFacts
<1>6. /\ \A s \in StepsOf(j) : final[s].status \in states
      /\ \A x \in states : \E s \in StepsOf(j) : final[s].status = x
  OBVIOUS
<1>7. new.status = "running" => Unfinished(j, st)
  <2>1. SUFFICES ASSUME new.status = "running" PROVE Unfinished(j, st)
    OBVIOUS
  <2>2. PICK s \in StepsOf(j) : final[s].status \in {"write_intent", "pending"}
    BY <1>5, <1>6, <2>1
  <2> QED
    BY <1>1, <1>4, <2>2 DEF Unfinished
<1>8. \A s \in StepsOf(j) : final[s].status = "write_intent" =>
        /\ final[s] = st[s]
        /\ new.status = "running"
        /\ final[s].worker = new.worker /\ final[s].gen = new.gen
        /\ \A t \in StepsOf(j) : final[t].status = "write_intent" => s = t
  <2> TAKE s \in StepsOf(j)
  <2> HAVE final[s].status = "write_intent"
  <2>1. final[s] = st[s]
    BY <1>1, <1>4
  <2>2. /\ st[s].worker = jb.worker /\ st[s].gen = jb.gen
        /\ \A u \in StepsOf(j) : st[u].status # "unknown"
        /\ \A t \in StepsOf(j) : st[t].status = "write_intent" => s = t
    BY <2>1 DEF Finishable
  <2>3. "unknown" \notin states
    BY <1>1, <1>4, <1>6, <2>2
  <2>4. new.status = "running"
    BY <1>5, <1>6, <2>3
  <2>5. \A t \in StepsOf(j) : final[t].status = "write_intent" => s = t
    BY <1>1, <1>4, <2>2
  <2> QED
    BY <1>2, <2>1, <2>2, <2>4, <2>5
<1>9. Ended(new) => \A s \in StepsOf(j) : final[s].status # "pending"
  <2> HAVE Ended(new)
  <2> TAKE s \in StepsOf(j)
  <2>1. ASSUME final[s].status = "pending" PROVE FALSE
    <3>1. st[s].status = "pending"
      BY <1>1, <1>4, <2>1
    <3>2. ~jb.canceled
      BY <3>1 DEF Finishable, Unfinished
    <3>3. "unknown" \notin states
      BY <1>1, <1>4, <1>6, <2>1
    <3> QED
      BY <1>5, <1>6, <2>1, <3>2, <3>3 DEF Ended, Active
  <2> QED
    BY <2>1
<1>10. JobInv(j, new, final)
  <2>1. new.status \in Active => new.target /\ new.scope /\ ~new.canceled
    BY <1>2, <1>5, <1>7 DEF Finishable, Active
  <2>2. new.status \in Leased => new.target
    BY <2>1 DEF Leased, Active
  <2>3. new.canceled => Ended(new)
    BY <1>5, <2>1 DEF Ended, Active
  <2>4. \A s \in StepsOf(j) :
          /\ Ended(new) => final[s].status \notin {"pending", "write_intent"}
          /\ final[s].status = "unknown" => Ended(new)
          /\ final[s].status = "write_intent" =>
               new.status = "running" /\ final[s].worker = new.worker /\ final[s].gen = new.gen
    BY <1>5, <1>6, <1>8, <1>9 DEF Ended, Active
  <2>5. \A s, t \in StepsOf(j) :
          final[s].status = "write_intent" /\ final[t].status = "write_intent" => s = t
    BY <1>8
  <2> QED
    BY <2>1, <2>2, <2>3, <2>4, <2>5 DEF JobInv
<1>11. ~Unfinished(j, st) => Ended(new)
  BY <1>5, <1>7 DEF Ended, Active
<1> QED
  BY <1>1, <1>2, <1>10, <1>11 DEF final, new

\* A row that follows a settled step stays a row.
LEMMA MirrorType ==
  ASSUME NEW rec \in [Slot -> RecordRow], NEW st, NEW S,
         \A s \in S : st[s].status \in Verdict
  PROVE  Mirror(rec, st, S) \in [Slot -> RecordRow]
<1> SUFFICES ASSUME NEW x \in Slot PROVE Mirror(rec, st, S)[x] \in RecordRow
  BY DEF Mirror
<1>1. rec[x] \in RecordRow
  OBVIOUS
<1>2. CASE rec[x].owner \in S /\ SlotOf(rec[x].owner) = x
  <2> DEFINE v == st[rec[x].owner].status
  <2>1. v \in Verdict
    BY <1>2
  <2>2. Mirror(rec, st, S)[x] = [rec[x] EXCEPT !.status = v]
    BY <1>2 DEF Mirror
  <2> HIDE DEF v
  <2> QED
    BY <1>1, <2>1, <2>2 DEF RecordRow
<1>3. CASE ~(rec[x].owner \in S /\ SlotOf(rec[x].owner) = x)
  BY <1>1, <1>3 DEF Mirror
<1> QED
  BY <1>2, <1>3

\* finish keeps the tables well typed.
LEMMA FinishType ==
  ASSUME NEW j \in Job, NEW jbs \in [Job -> JobRow], NEW st \in [Step -> StepRow],
         NEW rec \in [Slot -> RecordRow], NEW S \in SUBSET Step,
         \A s \in S : st[s].status \in Verdict,
         Finish(j, jbs, st, rec, S)
  PROVE  /\ job' \in [Job -> JobRow]
         /\ step' \in [Step -> StepRow]
         /\ record' \in [Slot -> RecordRow]
<1> DEFINE final == Blocking(j, st)
           all   == S \cup Doubtful(j, final)
<1>1. /\ final \in [Step -> StepRow]
      /\ \A s \in Step : final[s] = st[s] \/ st[s].status = "pending"
  BY BlockingFacts
<1>2. /\ step' = final
      /\ job' = [jbs EXCEPT ![j] = Closing(j, jbs[j], final)]
      /\ record' = Mirror(rec, final, all)
  BY DEF Finish
<1> HIDE DEF final
<1>3. Closing(j, jbs[j], final) \in JobRow
  BY <1>1, ClosingFacts
<1>4. \A s \in all : final[s].status \in Verdict
  <2> TAKE s \in all
  <2>1. CASE s \in S
    BY <1>1, <2>1 DEF Verdict
  <2>2. CASE s \in Doubtful(j, final)
    BY <2>2 DEF Doubtful, Verdict
  <2> QED
    BY <2>1, <2>2
<1> HIDE DEF all
<1>5. record' \in [Slot -> RecordRow]
  BY <1>2, <1>4, MirrorType
<1> QED
  BY <1>1, <1>2, <1>3, <1>5

-----------------------------------------------------------------------------
(* What the requests store.                                                 *)

\* Storing an intent leaves the steps well typed.
LEMMA PreparedType ==
  ASSUME NEW s \in Step, NEW w \in Worker, NEW g \in Nat, NEW r \in Request,
         NEW st \in [Step -> StepRow], NEW status \in StepStatus
  PROVE  Prepared(st, s, w, g, r, status) \in [Step -> StepRow]
<1>1. [st[s] EXCEPT !.status = status, !.worker = w, !.gen = g, !.request = r] \in StepRow
  BY DEF StepRow
<1> QED
  BY <1>1 DEF Prepared

\* Storing a result leaves the tables well typed, and the result is what is stored.
LEMMA RecordedType ==
  ASSUME TypeOK, NEW s \in Step, NEW e \in Event, NEW v \in Verdict
  PROVE  /\ Recorded(s, e, v) \in [Step -> StepRow]
         /\ Recorded(s, e, v)[s].status = v
<1> DEFINE heard == step[s].receipts \cup {<<e, v>>}
           new   == [step[s] EXCEPT !.status = v, !.receipts = heard]
<1>1. step \in [Step -> StepRow] /\ step[s] \in StepRow /\ v \in StepStatus
  BY DEF TypeOK, Verdict, StepStatus, Unresolved, Resolved
<1>2. heard \in SUBSET (Event \X Verdict)
  <2>1. <<e, v>> \in Event \X Verdict
    OBVIOUS
  <2>2. step[s].receipts \in SUBSET (Event \X Verdict)
    BY <1>1 DEF StepRow
  <2> QED
    BY <2>1, <2>2
<1>3. Recorded(s, e, v) = [step EXCEPT ![s] = new]
  BY DEF Recorded
<1> HIDE DEF heard
<1>4. new \in StepRow /\ new.status = v
  BY <1>1, <1>2 DEF StepRow
<1> HIDE DEF new
<1> QED
  BY <1>1, <1>3, <1>4

\* Extending a job's mapping leaves the jobs well typed.
LEMMA MappedType ==
  ASSUME TypeOK, NEW s \in Step, NEW v
  PROVE  Mapped(s, v) \in [Job -> JobRow]
<1>1. /\ s[1] \in Job /\ s[2] \in StepKey /\ job \in [Job -> JobRow]
      /\ job[s[1]] \in JobRow
  BY StepFacts DEF TypeOK
<1>2. [job[s[1]] EXCEPT !.mapping = @ \cup {s[2]}] \in JobRow
  BY <1>1 DEF JobRow
<1>3. [job EXCEPT ![s[1]].mapping = @ \cup {s[2]}] \in [Job -> JobRow]
  BY <1>1, <1>2
<1> QED
  BY <1>1, <1>3 DEF Mapped

\* Settling an earlier text write leaves the tables well typed.
LEMMA SettledType ==
  ASSUME TypeOK, NEW s \in Step
  PROVE  /\ SettledSteps(s) \in [Step -> StepRow]
         /\ SettledJobs(s) \in [Job -> JobRow]
         /\ Settles(s) => /\ job[s[1]].previous \in Step
                          /\ job[s[1]].previous[1] \in Job
<1>1. s[1] \in Job /\ job[s[1]].previous \in Step \cup {None}
  BY StepFacts DEF TypeOK, JobRow
<1>2. Settles(s) => job[s[1]].previous \in Step /\ job[s[1]].previous[1] \in Job
  BY <1>1, StepFacts DEF Settles
<1>3. SettledSteps(s) \in [Step -> StepRow]
  BY <1>2 DEF SettledSteps, TypeOK, StepRow, StepStatus, Resolved
<1>4. SettledJobs(s) \in [Job -> JobRow]
  <2>1. CASE Settles(s)
    <3> DEFINE p == job[s[1]].previous[1]
    <3>1. p \in Job /\ job[p] \in JobRow
      BY <1>2, <2>1 DEF TypeOK
    <3>2. Closing(p, job[p], SettledSteps(s)) \in JobRow
      BY <1>3, <3>1, ClosingFacts
    <3> QED
      BY <2>1, <3>1, <3>2 DEF SettledJobs, TypeOK
  <2>2. CASE ~Settles(s)
    BY <2>2 DEF SettledJobs, TypeOK
  <2> QED
    BY <2>1, <2>2
<1> QED
  BY <1>2, <1>3, <1>4

-----------------------------------------------------------------------------
(* Type correctness                                                         *)

\* The parts of TypeOK, as the steps of the proof use them.
LEMMA TypeStep == TypeOK /\ [Next]_ledger => TypeOK'
<1> SUFFICES ASSUME TypeOK, [Next]_ledger PROVE TypeOK'
  OBVIOUS
<1> USE DEF TypeOK
<1>a. /\ job \in [Job -> JobRow] /\ step \in [Step -> StepRow]
      /\ record \in [Slot -> RecordRow] /\ receipt \in [Worker -> ReceiptRow]
  OBVIOUS
<1>b. 1..MaxClaims \subseteq Nat /\ 0..LeaseSeconds \subseteq Nat
      /\ LeaseSeconds \in 0..LeaseSeconds /\ 0 \in 0..LeaseSeconds
  BY BoundAssumption
<1>1. ASSUME NEW j \in Job, Submit(j) PROVE TypeOK'
  <2> DEFINE known == {k \in PlanOf[j] \cup {"create_bug"} :
                         KindOf[k] \in OneShot /\ record[<<BugOf[j], k>>].status = "succeeded"}
             doubts == {k \in PlanOf[j] : /\ KindOf[k] = "update_description"
                                         /\ record[<<BugOf[j], k>>].status = "unknown"}
             previous == IF doubts = {} THEN None
                         ELSE record[<<BugOf[j], CHOOSE k \in doubts : TRUE>>].owner
             new == [job[j] EXCEPT !.status = "queued", !.scope = TRUE,
                                   !.mapping = known, !.previous = previous]
  <2>1. known \in SUBSET StepKey
    BY PlanAssumption
  <2>2. previous \in Step \cup {None}
    <3>1. CASE doubts # {}
      <4>1. (CHOOSE k \in doubts : TRUE) \in StepKey
        BY <3>1, PlanAssumption
      <4>2. <<BugOf[j], CHOOSE k \in doubts : TRUE>> \in Slot
        BY <4>1, JobAssumption DEF Slot
      <4> QED
        BY <3>1, <4>2 DEF RecordRow
    <3>2. CASE doubts = {}
      BY <3>2
    <3> QED
      BY <3>1, <3>2
  <2>3. /\ job' = [job EXCEPT ![j] = new]
        /\ record' = record /\ receipt' = receipt
    BY <1>1 DEF Submit
  <2>4. step' \in [Step -> StepRow]
    <3>1. \A s \in Step : [step[s] EXCEPT !.status = "blocked"] \in StepRow
      BY DEF StepRow, StepStatus, Resolved
    <3> QED
      BY <1>1, <3>1 DEF Submit
  <2> HIDE DEF known, previous
  <2>5. new \in JobRow
    BY <2>1, <2>2, ZenonT(60) DEF JobRow, JobStatus, Active
  <2> HIDE DEF new
  <2> QED
    BY <2>3, <2>4, <2>5
<1>2. ASSUME NEW j \in Job, NEW w \in Worker, Claim(j, w) PROVE TypeOK'
  <2> DEFINE next == job[j].gen + 1
             new  == [job[j] EXCEPT !.status = "claimed", !.target = TRUE, !.worker = w,
                                    !.gen = next, !.lease = LeaseSeconds]
  <2>1. next \in Nat
    BY DEF JobRow
  <2>2. /\ job' = [job EXCEPT ![j] = new]
        /\ receipt' = [receipt EXCEPT ![w] = [known |-> TRUE, job |-> j, gen |-> next]]
        /\ step' = step /\ record' = record
    BY <1>2 DEF Claim
  <2> HIDE DEF next
  <2>3. new \in JobRow
    <3>1. job[j] \in JobRow /\ "claimed" \in JobStatus
      BY <1>a DEF JobStatus, Active
    <3>2. \A r \in JobRow, n \in Nat, l \in 0..LeaseSeconds :
            [r EXCEPT !.status = "claimed", !.target = TRUE, !.worker = w, !.gen = n,
                      !.lease = l] \in JobRow
      BY ONLY w \in Worker, <3>1 DEF JobRow
    <3> QED
      BY ONLY <1>b, <2>1, <3>1, <3>2
  <2>4. [known |-> TRUE, job |-> j, gen |-> next] \in ReceiptRow
    BY <2>1 DEF ReceiptRow
  <2> HIDE DEF new
  <2> QED
    BY <2>2, <2>3, <2>4
<1>3. ASSUME NEW w \in Worker, ClaimNothing(w) \/ NewClaimRequest(w) PROVE TypeOK'
  <2>1. \A known \in BOOLEAN : [known |-> known, job |-> None, gen |-> 0] \in ReceiptRow
    BY DEF ReceiptRow
  <2> QED
    BY <1>3, <2>1 DEF ClaimNothing, NewClaimRequest
<1>4. ASSUME NEW j \in Job, NEW w \in Worker, NEW g \in Nat, Heartbeat(j, w, g) PROVE TypeOK'
  <2>1. [job[j] EXCEPT !.lease = LeaseSeconds] \in JobRow
    BY <1>b DEF JobRow
  <2> QED
    BY <1>4, <2>1 DEF Heartbeat
<1>5. ASSUME NEW j \in Job, NEW w \in Worker, NEW g \in Nat, Completed(j, w, g) PROVE TypeOK'
  BY <1>5, FinishType DEF Completed
<1>6. ASSUME NEW s \in Step, NEW w \in Worker, NEW g \in Nat, NEW r \in Request,
             PrepareWrite(s, w, g, r)
      PROVE  TypeOK'
  <2>1. SettledSteps(s) \in [Step -> StepRow] /\ SettledJobs(s) \in [Job -> JobRow]
    BY SettledType
  <2>2. step' \in [Step -> StepRow]
    BY <1>6, <2>1, PreparedType DEF PrepareWrite, StepStatus, Unresolved
  <2>3. s[1] \in Job /\ SettledJobs(s)[s[1]] \in JobRow
    BY <2>1, StepFacts
  <2>4. [SettledJobs(s)[s[1]] EXCEPT !.status = "running"] \in JobRow
    BY <2>3 DEF JobRow, JobStatus, Active
  <2>5. job' \in [Job -> JobRow]
    BY <1>6, <2>1, <2>3, <2>4 DEF PrepareWrite
  <2>6. record' \in [Slot -> RecordRow]
    BY <1>6, StepFacts DEF PrepareWrite, RecordRow
  <2> QED
    BY <1>6, <2>2, <2>5, <2>6 DEF PrepareWrite
<1>7. ASSUME NEW s \in Step, NEW w \in Worker, NEW g \in Nat, NEW r \in Request,
             PrepareNoop(s, w, g, r)
      PROVE  TypeOK'
  <2>1. SettledSteps(s) \in [Step -> StepRow] /\ SettledJobs(s) \in [Job -> JobRow]
    BY SettledType
  <2>2. Prepared(SettledSteps(s), s, w, g, r, "noop") \in [Step -> StepRow]
    BY <2>1, PreparedType DEF StepStatus, Resolved
  <2>3. PICK rec \in ConfirmedRecord(s) :
          Finish(s[1], SettledJobs(s), Prepared(SettledSteps(s), s, w, g, r, "noop"), rec, {})
    BY <1>7 DEF PrepareNoop
  <2>4. rec \in [Slot -> RecordRow]
    BY <2>3, StepFacts DEF ConfirmedRecord, RecordRow, Verdict
  <2> QED
    BY <1>7, <2>1, <2>2, <2>3, <2>4, StepFacts, FinishType DEF PrepareNoop
<1>8. ASSUME NEW s \in Step, NEW w \in Worker, NEW g \in Nat, NEW r \in Request,
             PrepareFailed(s, w, g, r)
      PROVE  TypeOK'
  <2>1. Prepared(step, s, w, g, r, "failed") \in [Step -> StepRow]
    BY PreparedType DEF StepStatus, Resolved
  <2> QED
    BY <1>8, <2>1, StepFacts, FinishType DEF PrepareFailed
<1>9. ASSUME NEW s \in Step, NEW w \in Worker, NEW g \in Nat, NEW e \in Event, NEW v \in Verdict,
             \/ PreflightFailure(s, w, g, e)
             \/ Result(s, w, g, e, v)
             \/ EvidenceConfirmed(s, w, g, e, v)
             \/ EvidenceSettles(s, w, g, e, v)
      PROVE  TypeOK'
  <2>1. s[1] \in Job /\ "failed" \in Verdict
    BY StepFacts DEF Verdict
  <2>2. \A u \in Verdict : /\ Recorded(s, e, u) \in [Step -> StepRow]
                           /\ Recorded(s, e, u)[s].status = u
                           /\ Mapped(s, u) \in [Job -> JobRow]
    BY RecordedType, MappedType
  <2>3. CASE PreflightFailure(s, w, g, e)
    BY <2>1, <2>2, <2>3, FinishType DEF PreflightFailure
  <2>4. CASE Result(s, w, g, e, v)
    BY <2>1, <2>2, <2>4, FinishType DEF Result
  <2>5. CASE EvidenceConfirmed(s, w, g, e, v)
    <3>1. step[s] \in StepRow
      OBVIOUS
    <3>2. [step[s] EXCEPT !.receipts = @ \cup {<<e, v>>}] \in StepRow
      BY <3>1 DEF StepRow
    <3> QED
      BY <2>5, <3>2 DEF EvidenceConfirmed
  <2>6. CASE EvidenceSettles(s, w, g, e, v)
    BY <2>1, <2>2, <2>6, FinishType DEF EvidenceSettles
  <2> QED
    BY <1>9, <2>3, <2>4, <2>5, <2>6
<1>10. ASSUME NEW j \in Job, Cancel(j) PROVE TypeOK'
  <2> DEFINE canceled == [s \in Step |->
               IF s \in StepsOf(j) /\ step[s].status \in {"write_intent", "pending"}
               THEN [step[s] EXCEPT !.status = IF @ = "write_intent" THEN CutOff ELSE "canceled"]
               ELSE step[s]]
             new == [job[j] EXCEPT !.status = "canceled", !.canceled = TRUE]
             jobs == [job EXCEPT ![j] = new]
  <2>1. canceled \in [Step -> StepRow]
    BY DEF StepRow, StepStatus, Resolved, Unresolved, CutOff
  <2>2. new \in JobRow
    BY ZenonT(60) DEF JobRow, JobStatus
  <2>3. Finish(j, jobs, canceled, record, {}) /\ receipt' = receipt
    BY <1>10 DEF Cancel
  <2> HIDE DEF canceled, new
  <2>4. jobs \in [Job -> JobRow]
    BY <2>2
  <2> HIDE DEF jobs
  <2> QED
    BY <2>1, <2>3, <2>4, FinishType
<1>11. ASSUME NEW j \in Job, ExpireFinish(j) PROVE TypeOK'
  <2> DEFINE cut == [s \in Step |-> IF s \in StepsOf(j) /\ step[s].status = "write_intent"
                                   THEN [step[s] EXCEPT !.status = CutOff] ELSE step[s]]
  <2>1. cut \in [Step -> StepRow]
    BY DEF StepRow, StepStatus, Unresolved, CutOff
  <2>2. Finish(j, job, cut, record, {})
    BY <1>11 DEF ExpireFinish
  <2> HIDE DEF cut
  <2> QED
    BY <1>11, <2>1, <2>2, FinishType DEF ExpireFinish
<1>12. ASSUME NEW j \in Job, ExpireRequeue(j) PROVE TypeOK'
  <2>1. [job[j] EXCEPT !.status = "queued", !.target = FALSE, !.lease = 0] \in JobRow
    BY <1>b, ZenonT(60) DEF JobRow, JobStatus, Active
  <2> QED
    BY <1>12, <2>1 DEF ExpireRequeue
<1>13. ASSUME NEW s \in Step, Reconcile(s) PROVE TypeOK'
  <2>1. s[1] \in Job /\ "succeeded" \in Verdict
    BY StepFacts DEF Verdict
  <2>2. Mapped(s, "succeeded") \in [Job -> JobRow]
    BY MappedType
  <2> DEFINE settled == [step EXCEPT ![s].status = "succeeded"]
  <2>3. /\ settled \in [Step -> StepRow]
        /\ settled[s].status = "succeeded"
    <3>1. LET new == [step[s] EXCEPT !.status = "succeeded"] IN
          new \in StepRow /\ new.status = "succeeded"
      BY DEF StepRow, StepStatus, Resolved
    <3> QED
      BY <3>1
  <2>4. /\ Finish(s[1], Mapped(s, "succeeded"), settled, record, {s})
        /\ receipt' = receipt
    BY <1>13 DEF Reconcile
  <2> HIDE DEF settled
  <2> QED
    BY <2>1, <2>2, <2>3, <2>4, FinishType
<1>14. ASSUME Tick PROVE TypeOK'
  <2>1. \A j \in Job : [job[j] EXCEPT !.lease = IF @ > 0 THEN @ - 1 ELSE 0] \in JobRow
    <3> TAKE j \in Job
    <3> DEFINE left == IF job[j].lease > 0 THEN job[j].lease - 1 ELSE 0
    <3>1. left \in 0..LeaseSeconds
      BY BoundAssumption DEF JobRow
    <3> HIDE DEF left
    <3>2. [job[j] EXCEPT !.lease = left] \in JobRow
      BY <3>1 DEF JobRow
    <3> QED
      BY <3>2 DEF left
  <2> QED
    BY <1>14, <2>1 DEF Tick
<1>15. CASE UNCHANGED ledger
  BY <1>15 DEF ledger
<1>16. CASE Claiming
  BY <1>2, <1>3, <1>16 DEF Claiming
<1>17. CASE Working
  BY <1>b, <1>4, <1>5, <1>6, <1>7, <1>8, <1>17 DEF Working
<1>18. CASE Reporting
  <2>1. PICK w \in Worker, g \in 1..MaxClaims, s \in Step, e \in Event :
          \/ PreflightFailure(s, w, g, e)
          \/ \E v \in Verdict : \/ Result(s, w, g, e, v)
                                \/ EvidenceConfirmed(s, w, g, e, v)
                                \/ EvidenceSettles(s, w, g, e, v)
    BY <1>18 DEF Reporting
  <2>2. g \in Nat /\ "failed" \in Verdict
    BY <1>b DEF Verdict
  <2>3. CASE PreflightFailure(s, w, g, e)
    BY <1>9, <2>2, <2>3
  <2> QED
    BY <1>9, <2>1, <2>2, <2>3
<1>19. CASE Supervising
  BY <1>1, <1>10, <1>11, <1>12, <1>13, <1>19 DEF Supervising
<1> QED
  BY <1>14, <1>15, <1>16, <1>17, <1>18, <1>19 DEF Next

\* The ledger is well typed in every reachable state, for every number of jobs,
\* bugs, targets, workers and claim generations and every plan.
THEOREM TypeCorrect == Spec => []TypeOK
<1>1. Init => TypeOK
  BY BoundAssumption DEF Init, TypeOK, JobRow, StepRow, RecordRow, ReceiptRow, JobStatus,
     StepStatus, Verdict
<1> QED
  BY <1>1, TypeStep, PTL DEF Spec

-----------------------------------------------------------------------------
(* The ledger invariant                                                     *)

\* A job row is unchanged in all that the invariant looks at.
Kept(jb, jb2) ==
  /\ jb2.status = jb.status /\ jb2.target = jb.target /\ jb2.scope = jb.scope
  /\ jb2.canceled = jb.canceled /\ jb2.worker = jb.worker /\ jb2.gen = jb.gen

\* The ended jobs that a step makes active again.
Reopened == {k \in Job : Ended(job[k]) /\ ~Ended(job'[k])}

\* The invariant of a job looks at nothing else.
LEMMA Frame ==
  ASSUME NEW k \in Job, NEW jb, NEW jb2, NEW st, NEW st2, JobInv(k, jb, st), Kept(jb, jb2),
         \A s \in StepsOf(k) : /\ st2[s].status = st[s].status
                               /\ st2[s].worker = st[s].worker /\ st2[s].gen = st[s].gen
  PROVE  JobInv(k, jb2, st2)
<1>1. Ended(jb2) <=> Ended(jb)
  BY DEF Ended, Kept
<1> QED
  BY <1>1 DEF JobInv, Kept

\* Releasing flags keeps them exclusive.
LEMMA Shrinking ==
  ASSUME NEW jobs, NEW new, Exclusive(jobs),
         \A k \in Job : (new[k].target => jobs[k].target) /\ (new[k].scope => jobs[k].scope)
  PROVE  Exclusive(new)
BY DEF Exclusive

\* Steps of another job are not steps of this one.
LEMMA OtherSteps ==
  ASSUME NEW j \in Job, NEW k \in Job, k # j, NEW s \in StepsOf(k)
  PROVE  s \in Step /\ s \notin StepsOf(j) /\ s[1] = k
BY DEF StepsOf

\* finish re-establishes the ledger invariant, and reopens no finished job.
LEMMA FinishInv ==
  ASSUME NEW j \in Job, NEW jbs \in [Job -> JobRow], NEW st \in [Step -> StepRow],
         NEW rec, NEW S, Finish(j, jbs, st, rec, S),
         Exclusive(jbs), Finishable(j, jbs[j], st),
         \A k \in Job \ {j} : JobInv(k, jbs[k], st)
  PROVE  /\ LedgerInv'
         /\ \A k \in Job \ {j} : job'[k] = jbs[k]
         /\ ~Unfinished(j, st) => Ended(job'[j])
<1> DEFINE final == Blocking(j, st)
           new   == Closing(j, jbs[j], final)
<1>1. step' = final /\ job' = [jbs EXCEPT ![j] = new]
  BY DEF Finish
<1>2. /\ final \in [Step -> StepRow] /\ JobInv(j, new, final)
      /\ (new.target => jbs[j].target) /\ (new.scope => jbs[j].scope)
      /\ ~Unfinished(j, st) => Ended(new)
  BY FinishJob
<1>3. \A s \in Step : s \notin StepsOf(j) => final[s] = st[s]
  BY BlockingFacts
<1> HIDE DEF final, new
<1>4. job'[j] = new /\ \A k \in Job \ {j} : job'[k] = jbs[k]
  BY <1>1
<1>5. ASSUME NEW k \in Job, k # j PROVE JobInv(k, job'[k], step')
  <2>1. \A s \in StepsOf(k) : final[s] = st[s]
    BY <1>3, <1>5, OtherSteps
  <2> QED
    BY <1>1, <1>4, <1>5, <2>1, Frame DEF Kept
<1>6. Exclusive(job')
  BY <1>2, <1>4, Shrinking
<1>7. \A k \in Job : JobInv(k, job'[k], step')
  BY <1>1, <1>2, <1>4, <1>5
<1> QED
  BY <1>2, <1>4, <1>6, <1>7 DEF LedgerInv

\* A leased job may finish on steps where no write intent is new and none stands
\* beside an unknown write.
LEMMA LeasedFinishable ==
  ASSUME NEW j \in Job, JobInv(j, job[j], step), job[j].status \in Leased, NEW st,
         \A s \in StepsOf(j) : st[s].status = "write_intent" => st[s] = step[s],
         \A s, t \in StepsOf(j) : st[s].status = "write_intent" => st[t].status # "unknown"
  PROVE  Finishable(j, job[j], st) /\ ~Ended(job[j])
BY DEF JobInv, Finishable, Leased, Active, Ended

\* A job with an unknown write has ended, and has no unfinished step.
LEMMA UnknownEnded ==
  ASSUME NEW s \in Step, LedgerInv, step[s].status = "unknown"
  PROVE  /\ Ended(job[s[1]])
         /\ \A t \in StepsOf(s[1]) : step[t].status \notin {"pending", "write_intent"}
BY StepFacts DEF LedgerInv, JobInv

\* Settling an earlier text write keeps the invariant of every job, and does not
\* touch the leased job that settles it.
LEMMA SettledInv ==
  ASSUME TypeOK, LedgerInv, NEW s \in Step, job[s[1]].status \in Leased
  PROVE  /\ \A k \in Job : JobInv(k, SettledJobs(s)[k], SettledSteps(s))
         /\ Exclusive(SettledJobs(s))
         /\ SettledJobs(s)[s[1]] = job[s[1]]
         /\ \A t \in StepsOf(s[1]) : SettledSteps(s)[t] = step[t]
         /\ \A k \in Job : Ended(job[k]) => Ended(SettledJobs(s)[k])
<1>1. CASE ~Settles(s)
  BY <1>1 DEF SettledJobs, SettledSteps, LedgerInv
<1>2. CASE Settles(s)
  <2> DEFINE q   == job[s[1]].previous
             p   == q[1]
             st  == SettledSteps(s)
             new == Closing(p, job[p], st)
  <2>1. q \in Step /\ p \in Job /\ s[1] \in Job /\ st \in [Step -> StepRow]
    BY <1>2, SettledType, StepFacts
  <2>2. step \in [Step -> StepRow] /\ job \in [Job -> JobRow] /\ job[p] \in JobRow
    BY <2>1 DEF TypeOK
  <2>3. /\ st = [step EXCEPT ![q].status = "succeeded"]
        /\ SettledJobs(s) = [job EXCEPT ![p] = new]
        /\ step[q].status = "unknown"
    BY <1>2 DEF SettledSteps, SettledJobs, Settles
  <2>4. /\ Ended(job[p]) /\ p # s[1] /\ q \in StepsOf(p)
        /\ \A t \in StepsOf(p) : step[t].status \notin {"pending", "write_intent"}
    BY <2>1, <2>3, UnknownEnded, StepFacts DEF Ended, Leased, Active
  <2> HIDE DEF new, p, st
  <2>5. /\ \A t \in Step : t # q => st[t] = step[t]
        /\ st[q].status = "succeeded"
    BY <2>1, <2>2, <2>3 DEF StepRow
  <2>6. \A t \in StepsOf(p) : t \in Step /\ st[t].status \notin {"pending", "write_intent"}
    BY <2>4, <2>5 DEF StepsOf
  <2>7. ~Unfinished(p, st) /\ Finishable(p, job[p], st)
    BY <2>6 DEF Unfinished, Finishable
  <2>8. Blocking(p, st) = st
    BY <2>1, <2>6 DEF Blocking, Blocked
  <2>9. /\ JobInv(p, new, st) /\ Ended(new)
        /\ (new.target => job[p].target) /\ (new.scope => job[p].scope)
    BY <2>1, <2>2, <2>7, <2>8, FinishJob DEF new
  <2>10. SettledJobs(s)[p] = new /\ \A k \in Job \ {p} : SettledJobs(s)[k] = job[k]
    BY <2>1, <2>2, <2>3
  <2>11. ASSUME NEW k \in Job, k # p PROVE JobInv(k, SettledJobs(s)[k], st)
    <3>1. \A t \in StepsOf(k) : st[t] = step[t]
      BY <2>1, <2>4, <2>5, <2>11, OtherSteps
    <3> QED
      BY <2>10, <2>11, <3>1, Frame DEF LedgerInv, Kept
  <2>12. Exclusive(SettledJobs(s))
    BY <2>9, <2>10, Shrinking DEF LedgerInv
  <2>13. \A t \in StepsOf(s[1]) : st[t] = step[t]
    BY <2>1, <2>4, <2>5, OtherSteps
  <2> QED
    BY <2>1, <2>4, <2>9, <2>10, <2>11, <2>12, <2>13 DEF st
<1> QED
  BY <1>1, <1>2

\* finish called for a leased job whose table rows are otherwise untouched.
LEMMA LeasedFinish ==
  ASSUME TypeOK, LedgerInv, NEW j \in Job, job[j].status \in Leased,
         NEW jbs \in [Job -> JobRow], NEW st \in [Step -> StepRow], NEW rec, NEW S,
         Finish(j, jbs, st, rec, S),
         \A k \in Job : Kept(job[k], jbs[k]),
         \A s \in Step : s \notin StepsOf(j) => st[s] = step[s],
         \A s \in StepsOf(j) : st[s].status = "write_intent" => st[s] = step[s],
         \A s, t \in StepsOf(j) : st[s].status = "write_intent" => st[t].status # "unknown"
  PROVE  LedgerInv' /\ Reopened = {}
<1>1. JobInv(j, job[j], step) /\ Exclusive(job)
  BY DEF LedgerInv
<1>2. Finishable(j, job[j], st) /\ ~Ended(job[j])
  BY <1>1, LeasedFinishable
<1>3. Finishable(j, jbs[j], st)
  BY <1>2 DEF Finishable, Kept
<1>4. Exclusive(jbs)
  BY <1>1, Shrinking DEF Kept
<1>5. \A k \in Job \ {j} : JobInv(k, jbs[k], st)
  <2> TAKE k \in Job \ {j}
  <2>1. \A s \in StepsOf(k) : st[s] = step[s]
    BY OtherSteps
  <2> QED
    BY <2>1, Frame DEF LedgerInv, Kept
<1>6. LedgerInv' /\ \A k \in Job \ {j} : job'[k] = jbs[k]
  BY <1>3, <1>4, <1>5, FinishInv
<1> QED
  BY <1>2, <1>6 DEF Reopened, Ended, Kept

\* finish called for a job that has nothing left to run.
LEMMA EndedFinish ==
  ASSUME TypeOK, LedgerInv, NEW j \in Job,
         NEW jbs \in [Job -> JobRow], NEW st \in [Step -> StepRow], NEW rec, NEW S,
         Finish(j, jbs, st, rec, S),
         \A k \in Job \ {j} : Kept(job[k], jbs[k]),
         (jbs[j].target => job[j].target) /\ (jbs[j].scope => job[j].scope),
         \A s \in Step : s \notin StepsOf(j) => st[s] = step[s],
         \A s \in StepsOf(j) : st[s].status \notin {"pending", "write_intent"}
  PROVE  LedgerInv' /\ Reopened = {}
<1>1. ~Unfinished(j, st) /\ Finishable(j, jbs[j], st)
  BY DEF Unfinished, Finishable
<1>2. Exclusive(jbs)
  BY Shrinking DEF Kept, LedgerInv
<1>3. \A k \in Job \ {j} : JobInv(k, jbs[k], st)
  <2> TAKE k \in Job \ {j}
  <2>1. \A s \in StepsOf(k) : st[s] = step[s]
    BY OtherSteps
  <2> QED
    BY <2>1, Frame DEF LedgerInv, Kept
<1>4. /\ LedgerInv' /\ Ended(job'[j])
      /\ \A k \in Job \ {j} : job'[k] = jbs[k]
  BY <1>1, <1>2, <1>3, FinishInv
<1> QED
  BY <1>4 DEF Reopened, Ended, Kept

\* A step that leaves jobs and steps alone, up to what the invariant looks at.
LEMMA Unmoved ==
  ASSUME LedgerInv,
         \A k \in Job : Kept(job[k], job'[k]),
         \A s \in Step : /\ step'[s].status = step[s].status
                         /\ step'[s].worker = step[s].worker /\ step'[s].gen = step[s].gen
  PROVE  LedgerInv' /\ Reopened = {}
<1>1. \A k \in Job : JobInv(k, job'[k], step')
  <2> TAKE k \in Job
  <2>1. \A s \in StepsOf(k) : s \in Step
    BY DEF StepsOf
  <2> QED
    BY <2>1, Frame DEF LedgerInv, Kept
<1>2. Exclusive(job')
  BY Shrinking DEF LedgerInv, Kept
<1> QED
  BY <1>1, <1>2 DEF LedgerInv, Reopened, Ended, Kept

\* What a job row keeps when its mapping grows.
LEMMA MappedKept ==
  ASSUME TypeOK, NEW s \in Step, NEW v
  PROVE  \A k \in Job : Kept(job[k], Mapped(s, v)[k])
BY StepFacts DEF Mapped, Kept, TypeOK, JobRow

\* What storing a result does to the statuses.
LEMMA RecordedFacts ==
  ASSUME TypeOK, NEW s \in Step, NEW e \in Event, NEW v \in Verdict
  PROVE  /\ \A t \in Step : t # s => Recorded(s, e, v)[t] = step[t]
         /\ Recorded(s, e, v)[s].status = v
BY RecordedType DEF Recorded, TypeOK

\* A leased job has no unknown write.
LEMMA LeasedKnown ==
  ASSUME LedgerInv, NEW j \in Job, job[j].status \in Leased
  PROVE  \A t \in StepsOf(j) : step[t].status # "unknown"
BY DEF LedgerInv, JobInv, Leased, Active, Ended

\* Every step of the ledger keeps its invariant, and reopens no finished job.
LEMMA LedgerStep == TypeOK /\ LedgerInv /\ [Next]_ledger => LedgerInv' /\ Reopened = {}
<1> SUFFICES ASSUME TypeOK, LedgerInv, [Next]_ledger PROVE LedgerInv' /\ Reopened = {}
  OBVIOUS
<1>a. /\ job \in [Job -> JobRow] /\ step \in [Step -> StepRow]
  BY DEF TypeOK
<1>b. \A j \in Job : \A s \in StepsOf(j) : s \in Step
  BY DEF StepsOf
<1>1. ASSUME NEW j \in Job, Submit(j) PROVE LedgerInv' /\ Reopened = {}
  <2>1. /\ job[j].status = "new" /\ ScopeFree(j)
        /\ job'[j].status = "queued" /\ job'[j].scope /\ job'[j].target = job[j].target
        /\ job'[j].canceled = job[j].canceled
        /\ \A k \in Job \ {j} : job'[k] = job[k]
    BY <1>1, <1>a DEF Submit, JobRow
  <2>2. \A s \in Step : \/ step'[s] = step[s]
                        \/ s \in StepsOf(j) /\ step'[s].status = "blocked"
    BY <1>1, <1>a DEF Submit, StepRow
  <2>3. JobInv(j, job[j], step) /\ Exclusive(job)
    BY DEF LedgerInv
  <2>4. JobInv(j, job'[j], step')
    BY <1>b, <2>1, <2>2, <2>3 DEF JobInv, Ended, Active, Leased
  <2>5. \A k \in Job \ {j} : JobInv(k, job'[k], step')
    BY <2>1, <2>2, OtherSteps, Frame DEF LedgerInv, Kept
  <2>6. Exclusive(job')
    BY <2>1, <2>3 DEF Exclusive, ScopeFree
  <2> QED
    BY <2>1, <2>4, <2>5, <2>6 DEF LedgerInv, Reopened, Ended, Active
<1>2. ASSUME NEW j \in Job, NEW w \in Worker, Claim(j, w) PROVE LedgerInv' /\ Reopened = {}
  <2>1. /\ job[j].status = "queued" /\ ~TargetBusy(j)
        /\ job'[j].status = "claimed" /\ job'[j].target /\ job'[j].scope = job[j].scope
        /\ job'[j].canceled = job[j].canceled
        /\ \A k \in Job \ {j} : job'[k] = job[k]
        /\ step' = step
    BY <1>2, <1>a DEF Claim, JobRow
  <2>2. JobInv(j, job[j], step) /\ Exclusive(job)
    BY DEF LedgerInv
  <2>3. JobInv(j, job'[j], step')
    BY <2>1, <2>2 DEF JobInv, Ended, Active, Leased
  <2>4. \A k \in Job \ {j} : JobInv(k, job'[k], step')
    BY <2>1 DEF LedgerInv
  <2>5. Exclusive(job')
    BY <2>1, <2>2 DEF Exclusive, TargetBusy
  <2> QED
    BY <2>1, <2>3, <2>4, <2>5 DEF LedgerInv, Reopened, Ended, Active
<1>3. ASSUME NEW w \in Worker, ClaimNothing(w) \/ NewClaimRequest(w)
      PROVE  LedgerInv' /\ Reopened = {}
  BY <1>3, Unmoved DEF ClaimNothing, NewClaimRequest, Kept
<1>4. ASSUME NEW j \in Job, NEW w \in Worker, NEW g \in Nat, Heartbeat(j, w, g)
      PROVE  LedgerInv' /\ Reopened = {}
  <2>1. step' = step /\ \A k \in Job : Kept(job[k], job'[k])
    BY <1>4, <1>a DEF Heartbeat, Kept, JobRow
  <2> QED
    BY <2>1, Unmoved
<1>5. ASSUME NEW j \in Job, NEW w \in Worker, NEW g \in Nat, Completed(j, w, g)
      PROVE  LedgerInv' /\ Reopened = {}
  <2>1. job[j].status \in Leased /\ Finish(j, job, step, record, {})
    BY <1>5 DEF Completed, Owned
  <2>2. \A k \in Job : Kept(job[k], job[k])
    BY DEF Kept
  <2> QED
    BY <1>a, <2>1, <2>2, LeasedKnown, LeasedFinish
<1>6. ASSUME NEW s \in Step, NEW w \in Worker, NEW g \in Nat, NEW r \in Request,
             OneAtATime(s), PrepareWrite(s, w, g, r)
      PROVE  LedgerInv' /\ Reopened = {}
  <2> DEFINE j  == s[1]
             st == SettledSteps(s)
             jb == SettledJobs(s)
  <2>1. j \in Job /\ job[j].status \in Leased /\ job[j].worker = w /\ job[j].gen = g
    BY <1>6, StepFacts DEF PrepareWrite, CanPrepare, Owned
  <2>2. /\ \A k \in Job : JobInv(k, jb[k], st)
        /\ Exclusive(jb) /\ jb[j] = job[j]
        /\ \A t \in StepsOf(j) : st[t] = step[t]
        /\ \A k \in Job : Ended(job[k]) => Ended(jb[k])
    BY <2>1, SettledInv
  <2>3. jb \in [Job -> JobRow] /\ st \in [Step -> StepRow]
    BY SettledType
  <2>4. /\ job' = [jb EXCEPT ![j].status = "running"]
        /\ step' = Prepared(st, s, w, g, r, "write_intent")
    BY <1>6 DEF PrepareWrite
  <2> HIDE DEF st, jb, j
  <2>5. /\ job'[j].status = "running" /\ job'[j].target = jb[j].target
        /\ job'[j].scope = jb[j].scope /\ job'[j].canceled = jb[j].canceled
        /\ job'[j].worker = jb[j].worker /\ job'[j].gen = jb[j].gen
        /\ \A k \in Job \ {j} : job'[k] = jb[k]
    BY <2>1, <2>3, <2>4 DEF JobRow
  <2>6. /\ step'[s].status = "write_intent" /\ step'[s].worker = w /\ step'[s].gen = g
        /\ \A t \in Step : t # s => step'[t] = st[t]
    BY <2>3, <2>4 DEF Prepared, StepRow
  <2>7. \A t \in StepsOf(j) : step[t].status \notin {"unknown", "write_intent"}
    BY <1>6, <2>1, LeasedKnown DEF OneAtATime, j
  <2>8. JobInv(j, job[j], step)
    BY <2>1 DEF LedgerInv
  <2>9. JobInv(j, job'[j], step')
    <3>1. job[j].target /\ job[j].scope /\ ~job[j].canceled
      BY <2>1, <2>8 DEF JobInv, Leased, Active, Ended
    <3>2. ~Ended(job'[j])
      BY <2>5 DEF Ended, Active
    <3>3. \A t \in StepsOf(j) :
            /\ step'[t].status # "unknown"
            /\ step'[t].status = "write_intent" => t = s
      BY <1>b, <2>1, <2>2, <2>6, <2>7
    <3> QED
      BY <2>1, <2>2, <2>5, <2>6, <3>1, <3>2, <3>3 DEF JobInv
  <2>10. ASSUME NEW k \in Job, k # j PROVE JobInv(k, job'[k], step')
    <3>1. \A t \in StepsOf(k) : step'[t] = st[t]
      BY <2>1, <2>6, <2>10, OtherSteps DEF j
    <3> QED
      BY <2>2, <2>5, <2>10, <3>1, Frame DEF Kept
  <2>11. Exclusive(job')
    BY <2>2, <2>5, Shrinking
  <2>12. \A k \in Job : Ended(job[k]) => Ended(job'[k])
    BY <2>1, <2>2, <2>5 DEF Ended, Leased, Active
  <2> QED
    BY <2>9, <2>10, <2>11, <2>12 DEF LedgerInv, Reopened
<1>7. ASSUME NEW s \in Step, NEW w \in Worker, NEW g \in Nat, NEW r \in Request,
             PrepareNoop(s, w, g, r)
      PROVE  LedgerInv' /\ Reopened = {}
  <2> DEFINE j  == s[1]
             st == SettledSteps(s)
             jb == SettledJobs(s)
             pr == Prepared(st, s, w, g, r, "noop")
  <2>1. j \in Job /\ job[j].status \in Leased /\ s \in StepsOf(j)
    BY <1>7, StepFacts DEF PrepareNoop, CanPrepare, Owned
  <2>2. /\ \A k \in Job : JobInv(k, jb[k], st)
        /\ Exclusive(jb) /\ jb[j] = job[j]
        /\ \A t \in StepsOf(j) : st[t] = step[t]
        /\ \A k \in Job : Ended(job[k]) => Ended(jb[k])
    BY <2>1, SettledInv
  <2>3. /\ jb \in [Job -> JobRow] /\ st \in [Step -> StepRow]
        /\ pr \in [Step -> StepRow]
    BY SettledType, PreparedType DEF StepStatus, Resolved
  <2>4. PICK rec \in ConfirmedRecord(s) : Finish(j, jb, pr, rec, {})
    BY <1>7 DEF PrepareNoop
  <2>5. pr[s].status = "noop" /\ \A t \in Step : t # s => pr[t] = st[t]
    BY <2>3 DEF Prepared, StepRow
  <2> HIDE DEF st, jb, pr
  <2>6. \A t \in StepsOf(j) :
          /\ pr[t].status # "unknown"
          /\ pr[t].status = "write_intent" => pr[t] = step[t]
    BY <1>b, <2>1, <2>2, <2>5, LeasedKnown
  <2>7. Finishable(j, jb[j], pr) /\ ~Ended(job[j])
    BY <2>1, <2>2, <2>6, LeasedFinishable DEF LedgerInv
  <2>8. \A k \in Job \ {j} : JobInv(k, jb[k], pr)
    <3> TAKE k \in Job \ {j}
    <3>1. \A t \in StepsOf(k) : pr[t] = st[t]
      BY <2>1, <2>5, OtherSteps
    <3> QED
      BY <2>2, <3>1, Frame DEF Kept
  <2> HIDE DEF j
  <2>9. LedgerInv' /\ \A k \in Job \ {j} : job'[k] = jb[k]
    BY <2>1, <2>2, <2>3, <2>4, <2>7, <2>8, FinishInv
  <2> QED
    BY <2>2, <2>7, <2>9 DEF Reopened
<1>8. ASSUME NEW s \in Step, NEW w \in Worker, NEW g \in Nat, NEW r \in Request,
             PrepareFailed(s, w, g, r)
      PROVE  LedgerInv' /\ Reopened = {}
  <2> DEFINE st == Prepared(step, s, w, g, r, "failed")
  <2>1. s[1] \in Job /\ job[s[1]].status \in Leased /\ s \in StepsOf(s[1])
    BY <1>8, StepFacts DEF PrepareFailed, CanPrepare, Owned
  <2>2. Finish(s[1], job, st, record, {})
    BY <1>8 DEF PrepareFailed
  <2>3. st \in [Step -> StepRow]
    BY <1>a, PreparedType DEF StepStatus, Resolved
  <2>4. st[s].status = "failed" /\ \A t \in Step : t # s => st[t] = step[t]
    BY <1>a, <2>3 DEF Prepared, StepRow
  <2> HIDE DEF st
  <2>5. \A t \in StepsOf(s[1]) :
          /\ st[t].status # "unknown"
          /\ st[t].status = "write_intent" => st[t] = step[t]
    BY <1>b, <2>1, <2>4, LeasedKnown
  <2>6. \A k \in Job : Kept(job[k], job[k])
    BY DEF Kept
  <2> QED
    BY <1>a, <2>1, <2>2, <2>3, <2>4, <2>5, <2>6, LeasedFinish
<1>9. ASSUME NEW s \in Step, NEW w \in Worker, NEW g \in Nat, NEW e \in Event, NEW v \in Verdict,
             Result(s, w, g, e, v)
      PROVE  LedgerInv' /\ Reopened = {}
  <2> DEFINE st == Recorded(s, e, v)
  <2>1. s[1] \in Job /\ job[s[1]].status \in Leased /\ s \in StepsOf(s[1])
    BY <1>9, StepFacts DEF Result, CanReport, Owned
  <2>2. Finish(s[1], Mapped(s, v), st, record, {s}) /\ step[s].status \in Unresolved
    BY <1>9 DEF Result, CanReport
  <2>3. /\ st \in [Step -> StepRow] /\ st[s].status = v
        /\ \A t \in Step : t # s => st[t] = step[t]
    BY RecordedType, RecordedFacts
  <2>4. Mapped(s, v) \in [Job -> JobRow] /\ \A k \in Job : Kept(job[k], Mapped(s, v)[k])
    BY MappedType, MappedKept
  <2> HIDE DEF st
  <2>5. \A t \in StepsOf(s[1]) : t # s => step[t].status \notin {"unknown", "write_intent"}
    BY <2>1, <2>2, LeasedKnown DEF LedgerInv, JobInv, Unresolved
  <2>6. \A t \in StepsOf(s[1]) : st[t].status # "write_intent"
    BY <1>b, <2>1, <2>3, <2>5 DEF Verdict
  <2> QED
    BY <2>1, <2>2, <2>3, <2>4, <2>6, LeasedFinish
<1>10. ASSUME NEW s \in Step, NEW w \in Worker, NEW g \in Nat, NEW e \in Event, NEW v \in Verdict,
              EvidenceConfirmed(s, w, g, e, v)
       PROVE  LedgerInv' /\ Reopened = {}
  <2>1. /\ \A t \in Step : /\ step'[t].status = step[t].status
                           /\ step'[t].worker = step[t].worker /\ step'[t].gen = step[t].gen
        /\ job' = job
    BY <1>10, <1>a DEF EvidenceConfirmed, StepRow
  <2> QED
    BY <2>1, Unmoved DEF Kept
<1>11. ASSUME NEW s \in Step, NEW w \in Worker, NEW g \in Nat, NEW e \in Event, NEW v \in Verdict,
              EvidenceSettles(s, w, g, e, v)
       PROVE  LedgerInv' /\ Reopened = {}
  <2> DEFINE st == Recorded(s, e, v)
  <2>1. s[1] \in Job /\ s \in StepsOf(s[1])
    BY StepFacts
  <2>2. Finish(s[1], Mapped(s, v), st, record, {s}) /\ step[s].status = "unknown"
    BY <1>11 DEF EvidenceSettles, CanSettle, Late
  <2>3. /\ st \in [Step -> StepRow] /\ st[s].status = v
        /\ \A t \in Step : t # s => st[t] = step[t]
    BY RecordedType, RecordedFacts
  <2>4. Mapped(s, v) \in [Job -> JobRow] /\ \A k \in Job : Kept(job[k], Mapped(s, v)[k])
    BY MappedType, MappedKept
  <2> HIDE DEF st
  <2>5. \A t \in StepsOf(s[1]) : st[t].status \notin {"pending", "write_intent"}
    BY <1>b, <2>1, <2>2, <2>3, UnknownEnded DEF Verdict
  <2> QED
    BY <2>1, <2>2, <2>3, <2>4, <2>5, EndedFinish DEF Kept
<1>12. ASSUME NEW s \in Step, Reconcile(s) PROVE LedgerInv' /\ Reopened = {}
  <2> DEFINE st == [step EXCEPT ![s].status = "succeeded"]
  <2>1. s[1] \in Job /\ s \in StepsOf(s[1])
    BY StepFacts
  <2>2. Finish(s[1], Mapped(s, "succeeded"), st, record, {s}) /\ step[s].status = "unknown"
    BY <1>12 DEF Reconcile
  <2>3. /\ st \in [Step -> StepRow] /\ st[s].status = "succeeded"
        /\ \A t \in Step : t # s => st[t] = step[t]
    BY <1>a DEF StepRow, StepStatus, Resolved
  <2>4. /\ Mapped(s, "succeeded") \in [Job -> JobRow]
        /\ \A k \in Job : Kept(job[k], Mapped(s, "succeeded")[k])
    BY MappedType, MappedKept
  <2> HIDE DEF st
  <2>5. \A t \in StepsOf(s[1]) : st[t].status \notin {"pending", "write_intent"}
    BY <1>b, <2>1, <2>2, <2>3, UnknownEnded
  <2> QED
    BY <2>1, <2>2, <2>3, <2>4, <2>5, EndedFinish DEF Kept
<1>13. ASSUME NEW s \in Step, NEW w \in Worker, NEW g \in Nat, NEW e \in Event,
              PreflightFailure(s, w, g, e)
       PROVE  LedgerInv' /\ Reopened = {}
  <2> DEFINE st == Recorded(s, e, "failed")
  <2>1. s[1] \in Job /\ job[s[1]].status \in Leased /\ s \in StepsOf(s[1])
    BY <1>13, StepFacts DEF PreflightFailure, Owned
  <2>2. Finish(s[1], job, st, record, {})
    BY <1>13 DEF PreflightFailure
  <2>3. /\ st \in [Step -> StepRow] /\ st[s].status = "failed"
        /\ \A t \in Step : t # s => st[t] = step[t]
    BY RecordedType, RecordedFacts DEF Verdict
  <2> HIDE DEF st
  <2>4. \A t \in StepsOf(s[1]) :
          /\ st[t].status # "unknown"
          /\ st[t].status = "write_intent" => st[t] = step[t]
    BY <1>b, <2>1, <2>3, LeasedKnown
  <2>5. \A k \in Job : Kept(job[k], job[k])
    BY DEF Kept
  <2> QED
    BY <1>a, <2>1, <2>2, <2>3, <2>4, <2>5, LeasedFinish
<1>14. ASSUME NEW j \in Job, Cancel(j) PROVE LedgerInv' /\ Reopened = {}
  <2> DEFINE st == [s \in Step |->
               IF s \in StepsOf(j) /\ step[s].status \in {"write_intent", "pending"}
               THEN [step[s] EXCEPT !.status = IF @ = "write_intent" THEN CutOff ELSE "canceled"]
               ELSE step[s]]
             new == [job[j] EXCEPT !.status = "canceled", !.canceled = TRUE]
             jbs == [job EXCEPT ![j] = new]
  <2>1. Finish(j, jbs, st, record, {})
    BY <1>14 DEF Cancel
  <2>2. st \in [Step -> StepRow]
    BY <1>a DEF StepRow, StepStatus, Resolved, Unresolved, CutOff
  <2>3. /\ \A s \in Step : s \notin StepsOf(j) => st[s] = step[s]
        /\ \A s \in StepsOf(j) : st[s].status \notin {"pending", "write_intent"}
    BY <1>a, <1>b DEF StepRow, CutOff
  <2>4. new \in JobRow /\ new.target = job[j].target /\ new.scope = job[j].scope
    BY <1>a DEF JobRow, JobStatus
  <2> HIDE DEF st, new
  <2>5. jbs \in [Job -> JobRow] /\ jbs[j] = new /\ \A k \in Job \ {j} : jbs[k] = job[k]
    BY <1>a, <2>4
  <2> HIDE DEF jbs
  <2> QED
    BY <2>1, <2>2, <2>3, <2>4, <2>5, EndedFinish DEF Kept
<1>15. ASSUME NEW j \in Job, ExpireFinish(j) PROVE LedgerInv' /\ Reopened = {}
  <2> DEFINE st == [s \in Step |-> IF s \in StepsOf(j) /\ step[s].status = "write_intent"
                                  THEN [step[s] EXCEPT !.status = CutOff] ELSE step[s]]
  <2>1. Finish(j, job, st, record, {}) /\ job[j].status \in Leased
    BY <1>15 DEF ExpireFinish, Expired
  <2>2. st \in [Step -> StepRow]
    BY <1>a DEF StepRow, StepStatus, Unresolved, CutOff
  <2>3. /\ \A s \in Step : s \notin StepsOf(j) => st[s] = step[s]
        /\ \A s \in StepsOf(j) : st[s].status # "write_intent"
    BY <1>a, <1>b DEF StepRow, CutOff
  <2>4. \A k \in Job : Kept(job[k], job[k])
    BY DEF Kept
  <2> HIDE DEF st
  <2> QED
    BY <1>a, <2>1, <2>2, <2>3, <2>4, LeasedFinish
<1>16. ASSUME NEW j \in Job, ExpireRequeue(j) PROVE LedgerInv' /\ Reopened = {}
  <2>1. /\ job[j].status \in Leased
        /\ \A s \in StepsOf(j) : step[s].status \notin Unresolved
        /\ job'[j].status = "queued" /\ ~job'[j].target /\ job'[j].scope = job[j].scope
        /\ job'[j].canceled = job[j].canceled
        /\ \A k \in Job \ {j} : job'[k] = job[k]
        /\ step' = step
    BY <1>16, <1>a DEF ExpireRequeue, Expired, AnyUnresolved, JobRow
  <2>2. JobInv(j, job[j], step) /\ Exclusive(job)
    BY DEF LedgerInv
  <2>3. JobInv(j, job'[j], step')
    BY <2>1, <2>2 DEF JobInv, Ended, Active, Leased, Unresolved
  <2>4. \A k \in Job \ {j} : JobInv(k, job'[k], step')
    BY <2>1 DEF LedgerInv
  <2>5. Exclusive(job')
    <3>1. \A k \in Job : (job'[k].target => job[k].target) /\ (job'[k].scope => job[k].scope)
      BY <2>1
    <3> QED
      BY <2>2, <3>1, Shrinking
  <2> QED
    BY <2>1, <2>3, <2>4, <2>5 DEF LedgerInv, Reopened, Ended, Active, Leased
<1>17. ASSUME Tick PROVE LedgerInv' /\ Reopened = {}
  <2>1. step' = step /\ \A k \in Job : Kept(job[k], job'[k])
    BY <1>17, <1>a DEF Tick, Kept, JobRow
  <2> QED
    BY <2>1, Unmoved
<1>18. CASE UNCHANGED ledger
  BY <1>18, Unmoved DEF ledger, Kept
<1>c. 1..MaxClaims \subseteq Nat
  BY BoundAssumption
<1>19. CASE Claiming
  BY <1>2, <1>3, <1>19 DEF Claiming
<1>20. CASE Working
  BY <1>c, <1>4, <1>5, <1>6, <1>7, <1>8, <1>20 DEF Working
<1>21. CASE Reporting
  <2>1. PICK w \in Worker, g \in 1..MaxClaims, s \in Step, e \in Event :
          \/ PreflightFailure(s, w, g, e)
          \/ \E v \in Verdict : \/ Result(s, w, g, e, v)
                                \/ EvidenceConfirmed(s, w, g, e, v)
                                \/ EvidenceSettles(s, w, g, e, v)
    BY <1>21 DEF Reporting
  <2> QED
    BY <1>c, <1>9, <1>10, <1>11, <1>13, <2>1
<1>22. CASE Supervising
  BY <1>1, <1>12, <1>14, <1>15, <1>16, <1>22 DEF Supervising
<1> QED
  BY <1>17, <1>18, <1>19, <1>20, <1>21, <1>22 DEF Next

-----------------------------------------------------------------------------
(* The theorems                                                             *)

\* The ledger invariant holds in every reachable state.
THEOREM LedgerSafe == Spec => []LedgerInv
<1>1. Init => LedgerInv
  BY DEF Init, LedgerInv, JobInv, Exclusive, Active, Leased, Ended, StepsOf
<1>2. Init => TypeOK
  BY BoundAssumption DEF Init, TypeOK, JobRow, StepRow, RecordRow, ReceiptRow, JobStatus,
     StepStatus, Verdict
<1>3. LedgerInv /\ TypeOK /\ [Next]_ledger => (LedgerInv /\ TypeOK)'
  BY LedgerStep, TypeStep
<1> QED
  BY <1>1, <1>2, <1>3, PTL DEF Spec

\* Two claims never hold leased jobs on the same Zentao instance.
THEOREM OneJobPerTargetAlways == Spec => []OneJobPerTarget
<1>1. LedgerInv => OneJobPerTarget
  BY DEF LedgerInv, JobInv, Exclusive, OneJobPerTarget
<1> QED
  BY <1>1, LedgerSafe, PTL

\* A bug never has two active jobs.
THEOREM OneJobPerBugAlways == Spec => []OneJobPerBug
<1>1. LedgerInv => OneJobPerBug
  BY DEF LedgerInv, JobInv, Exclusive, OneJobPerBug
<1> QED
  BY <1>1, LedgerSafe, PTL

\* Two submissions for one bug, and two claims for one Zentao instance, never both win
\* (the unique keys on active_scope and active_target).
THEOREM OneJobAtATimeAlways == Spec => []OneJobAtATime
<1>1. OneJobPerTarget /\ OneJobPerBug => OneJobAtATime
  BY DEF OneJobAtATime
<1> QED
  BY <1>1, OneJobPerTargetAlways, OneJobPerBugAlways, PTL

\* A job that waits for a claim has no write whose outcome is open.
THEOREM NoBlindRetryAlways == Spec => []NoBlindRetry
<1>1. LedgerInv => NoBlindRetry
  BY StepFacts DEF LedgerInv, JobInv, NoBlindRetry, Unresolved, Ended, Active
<1> QED
  BY <1>1, LedgerSafe, PTL

\* A write intent belongs to the current claim of a running job.
THEOREM IntentAlwaysBelongs == Spec => []IntentBelongsToClaim
<1>1. LedgerInv => IntentBelongsToClaim
  BY StepFacts DEF LedgerInv, JobInv, IntentBelongsToClaim, Intent
<1> QED
  BY <1>1, LedgerSafe, PTL

\* An open write is out of reach of every claim but its own: no requeue after it, no
\* permit of an earlier generation.
THEOREM OpenWritesAlwaysFenced == Spec => []OpenWritesFenced
<1>1. NoBlindRetry /\ IntentBelongsToClaim => OpenWritesFenced
  BY DEF OpenWritesFenced
<1> QED
  BY <1>1, NoBlindRetryAlways, IntentAlwaysBelongs, PTL

\* No transaction makes a finished job active again.
THEOREM NeverReopened == Spec => FinishedStaysFinished
<1>1. TypeOK /\ LedgerInv /\ [Next]_ledger =>
        [\A j \in Job : Ended(job[j]) => Ended(job'[j])]_ledger
  BY LedgerStep DEF Reopened
<1> QED
  BY <1>1, TypeCorrect, LedgerSafe, PTL DEF Spec, FinishedStaysFinished

=============================================================================
