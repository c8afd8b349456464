----------------------- MODULE IntegrationRecords_proofs -----------------------
(***************************************************************************)
(* More proofs about the ledger of integration jobs: the local rows follow *)
(* the steps that wrote them, two writes of one remote object are never    *)
(* open together, nothing is created twice, steps run in the order of      *)
(* their dependencies, and a leased job always has something to do.        *)
(*                                                                         *)
(* Most handlers end in finish.  Between describes what they have made of  *)
(* the tables when they call it; every part of RecordInv is then proved    *)
(* once for finish, and once for the two handlers that do not call it but  *)
(* write steps or rows: Submit and PrepareWrite.                           *)
(***************************************************************************)
EXTENDS IntegrationJob_proofs, FiniteSetTheorems, WellFoundedInduction

-----------------------------------------------------------------------------
(* What a handler may have done before it calls finish.                     *)

\* The step keeps its status and its intent; receipts may have been added.
SameStep(a, b) == b.status = a.status /\ b.worker = a.worker /\ b.gen = a.gen

\* The outcomes that the handlers of job j store, before finish; S are the steps
\* whose result is applied to the rows.
StepMoved(j, S, t, old, new) ==
  \/ SameStep(old, new)
  \/ /\ t \in StepsOf(j) /\ old.status = "pending"
     /\ \/ new.status \in {"failed", "canceled"}
        \/ new.status = "noop" /\ Ready(t)
  \/ /\ t \in S /\ old.status \in Unresolved /\ new.status \in Verdict
     /\ new.worker = old.worker /\ new.gen = old.gen
  \/ /\ t \in StepsOf(j) /\ old.status = "write_intent" /\ new.status = "unknown"
     /\ new.worker = old.worker /\ new.gen = old.gen
  \/ /\ KindOfStep(t) \notin OneShot /\ old.status = "unknown" /\ new.status = "succeeded"
     /\ new.worker = old.worker /\ new.gen = old.gen

\* A step whose row finish will bring up to date.
Refreshed(j, S, st, s) == s \in S \/ s \in Doubtful(j, st)

\* The rows are right, but for those that finish is about to bring up to date.
RowsDue(j, S, st, rec) ==
  /\ \A s \in Step :
       /\ st[s].status \in Unresolved =>
            /\ st[s].worker # None
            /\ rec[SlotOf(s)].owner = s
            /\ Refreshed(j, S, st, s) \/ rec[SlotOf(s)].status =
                 IF st[s].status = "unknown" THEN "unknown" ELSE "writing"
       /\ st[s].status = "succeeded" /\ KindOfStep(s) \in OneShot =>
            /\ rec[SlotOf(s)].owner = s
            /\ Refreshed(j, S, st, s) \/ rec[SlotOf(s)].status = "succeeded"
  /\ \A x \in Slot : LET o == rec[x].owner IN o # None =>
       /\ SlotOf(o) = x
       /\ \/ Refreshed(j, S, st, o)
          \/ rec[x].status = "writing" /\ st[o].status = "write_intent"
          \/ rec[x].status \in Verdict /\ st[o].status = rec[x].status
          \/ rec[x].status = "succeeded" /\ KindOf[x[2]] = "update_description"

JobMoved(k, old, new) ==
  /\ new.previous = old.previous /\ new.told = old.told /\ new.activities = old.activities

Between(j, jbs, st, rec, S) ==
  /\ j \in Job /\ job[j].status # "new"
  /\ jbs \in [Job -> JobRow] /\ st \in [Step -> StepRow] /\ rec \in [Slot -> RecordRow]
  /\ S \subseteq StepsOf(j) /\ \A s \in S : st[s].status \in Verdict
  /\ \A k \in Job : JobMoved(k, job[k], jbs[k])
  /\ \A k \in Job \ {j} : jbs[k].status = job[k].status \/ (Ended(jbs[k]) /\ Ended(job[k]))
  /\ \A t \in Step : StepMoved(j, S, t, step[t], st[t])
  /\ RowsDue(j, S, st, rec)

-----------------------------------------------------------------------------
(* What finish makes of it.                                                 *)

\* finish blocks pending steps of its job and leaves the other steps alone.
LEMMA FinishSteps ==
  ASSUME NEW j \in Job, NEW jbs, NEW st \in [Step -> StepRow], NEW rec, NEW S,
         Finish(j, jbs, st, rec, S)
  PROVE  /\ step' \in [Step -> StepRow]
         /\ \A s \in Step :
              \/ step'[s] = st[s]
              \/ /\ s \in StepsOf(j) /\ st[s].status = "pending"
                 /\ step'[s].status = "blocked"
BY BlockingFacts DEF Finish

\* The doubtful steps are the same before and after finish has blocked steps.
LEMMA FinishDoubtful ==
  ASSUME NEW j \in Job, NEW jbs, NEW st \in [Step -> StepRow], NEW rec, NEW S,
         Finish(j, jbs, st, rec, S)
  PROVE  Doubtful(j, step') = Doubtful(j, st)
<1>1. \A s \in StepsOf(j) : step'[s] = st[s] \/ (st[s].status # "unknown" /\ step'[s].status # "unknown")
  BY FinishSteps DEF StepsOf
<1> QED
  BY <1>1 DEF Doubtful

\* A row after finish: brought up to date with its owner, or as it was.
LEMMA FinishRow ==
  ASSUME NEW j \in Job, NEW jbs, NEW st \in [Step -> StepRow],
         NEW rec \in [Slot -> RecordRow], NEW S, Finish(j, jbs, st, rec, S), NEW x \in Slot
  PROVE  LET o == rec[x].owner IN
         /\ rec[x] = [status |-> rec[x].status, owner |-> o]
         /\ Refreshed(j, S, st, o) /\ SlotOf(o) = x =>
              record'[x] = [status |-> step'[o].status, owner |-> o]
         /\ ~Refreshed(j, S, st, o) => record'[x] = rec[x]
         /\ record'[x].owner = o
<1> DEFINE all == S \cup Doubtful(j, st)
<1>1. record' = Mirror(rec, step', all)
  BY FinishDoubtful DEF Finish
<1>2. Refreshed(j, S, st, rec[x].owner) <=> rec[x].owner \in all
  BY DEF Refreshed
<1>3. rec[x] = [status |-> rec[x].status, owner |-> rec[x].owner]
  BY DEF RecordRow
<1>4. record'[x] = IF rec[x].owner \in all /\ SlotOf(rec[x].owner) = x
                   THEN [rec[x] EXCEPT !.status = step'[rec[x].owner].status] ELSE rec[x]
  BY <1>1 DEF Mirror
<1> HIDE DEF all
<1> QED
  BY <1>2, <1>3, <1>4

\* After finish, the rows follow the steps.
LEMMA FinishedRows ==
  ASSUME NEW j, NEW jbs, NEW st, NEW rec, NEW S,
         Between(j, jbs, st, rec, S), Finish(j, jbs, st, rec, S)
  PROVE  RowsInv(record', step')
<1>1. /\ j \in Job /\ st \in [Step -> StepRow] /\ rec \in [Slot -> RecordRow]
      /\ S \subseteq StepsOf(j) /\ \A s \in S : st[s].status \in Verdict
      /\ RowsDue(j, S, st, rec)
  BY DEF Between
<1>2. \A s \in Step : \/ step'[s] = st[s]
                      \/ st[s].status = "pending" /\ step'[s].status = "blocked"
  BY <1>1, FinishSteps
<1>3. \A s \in Step : Refreshed(j, S, st, s) => st[s].status \in Verdict /\ step'[s] = st[s]
  BY <1>1, <1>2 DEF Refreshed, Doubtful, Verdict
<1>r. \A x \in Slot : LET o == rec[x].owner IN
        /\ rec[x] = [status |-> rec[x].status, owner |-> o]
        /\ Refreshed(j, S, st, o) /\ SlotOf(o) = x =>
             record'[x] = [status |-> step'[o].status, owner |-> o]
        /\ ~Refreshed(j, S, st, o) => record'[x] = rec[x]
        /\ record'[x].owner = o
  <2> TAKE x \in Slot
  <2> QED
    BY <1>1, FinishRow
<1>4. ASSUME NEW s \in Step, step'[s].status \in Unresolved
      PROVE  /\ record'[SlotOf(s)] =
                  [status |-> IF step'[s].status = "unknown" THEN "unknown" ELSE "writing",
                   owner |-> s]
             /\ step'[s].worker # None
  <2>1. step'[s] = st[s] /\ SlotOf(s) \in Slot
    BY <1>2, <1>4, StepFacts DEF Unresolved
  <2>2. /\ st[s].worker # None
        /\ rec[SlotOf(s)].owner = s
        /\ Refreshed(j, S, st, s) \/ rec[SlotOf(s)].status =
             IF st[s].status = "unknown" THEN "unknown" ELSE "writing"
    BY <1>1, <1>4, <2>1 DEF RowsDue
  <2>3. CASE Refreshed(j, S, st, s)
    <3>1. record'[SlotOf(s)] = [status |-> step'[s].status, owner |-> s]
      BY <1>r, <2>1, <2>2, <2>3
    <3>2. step'[s].status = "unknown"
      BY <1>3, <1>4, <2>3 DEF Unresolved, Verdict
    <3> QED
      BY <2>1, <2>2, <3>1, <3>2
  <2>4. CASE ~Refreshed(j, S, st, s)
    <3>1. record'[SlotOf(s)] = [status |-> rec[SlotOf(s)].status, owner |-> s]
      BY <1>r, <2>1, <2>2, <2>4
    <3> QED
      BY <2>1, <2>2, <2>4, <3>1
  <2> QED
    BY <2>3, <2>4
<1>5. ASSUME NEW s \in Step, step'[s].status = "succeeded", KindOfStep(s) \in OneShot
      PROVE  record'[SlotOf(s)] = [status |-> "succeeded", owner |-> s]
  <2>1. step'[s] = st[s] /\ SlotOf(s) \in Slot
    BY <1>2, <1>5, StepFacts
  <2>2. /\ rec[SlotOf(s)].owner = s
        /\ Refreshed(j, S, st, s) \/ rec[SlotOf(s)].status = "succeeded"
    BY <1>1, <1>5, <2>1 DEF RowsDue
  <2> QED
    BY <1>5, <1>r, <2>1, <2>2
<1>6. ASSUME NEW x \in Slot, record'[x].owner # None
      PROVE  LET o == record'[x].owner IN
             /\ SlotOf(o) = x
             /\ \/ record'[x].status = "writing" /\ step'[o].status = "write_intent"
                \/ record'[x].status \in Verdict /\ step'[o].status = record'[x].status
                \/ record'[x].status = "succeeded" /\ KindOf[x[2]] = "update_description"
  <2> DEFINE o == rec[x].owner
  <2>1. record'[x].owner = o /\ o \in Step
    BY <1>1, <1>6, <1>r DEF RecordRow
  <2>2. /\ SlotOf(o) = x
        /\ \/ Refreshed(j, S, st, o)
           \/ rec[x].status = "writing" /\ st[o].status = "write_intent"
           \/ rec[x].status \in Verdict /\ st[o].status = rec[x].status
           \/ rec[x].status = "succeeded" /\ KindOf[x[2]] = "update_description"
    BY <1>1, <1>6, <2>1 DEF RowsDue
  <2>3. CASE Refreshed(j, S, st, o)
    <3>1. record'[x] = [status |-> step'[o].status, owner |-> o]
      BY <1>r, <2>2, <2>3
    <3>2. step'[o].status \in Verdict
      BY <1>3, <2>1, <2>3
    <3>3. record'[x].status = step'[o].status
      BY <3>1
    <3> QED
      BY <2>1, <2>2, <3>2, <3>3
  <2>4. CASE ~Refreshed(j, S, st, o)
    <3>1. record'[x] = rec[x]
      BY <1>r, <2>4
    <3> QED
      BY <1>2, <2>1, <2>2, <2>4, <3>1 DEF Verdict
  <2> QED
    BY <2>1, <2>3, <2>4
<1> QED
  BY <1>4, <1>5, <1>6 DEF RowsInv, RowsFollow

\* What a transaction may do to the status of a step: run it when it is ready or
\* drop it, settle a write, cut it off; a settled step stays as it is.
StepEdge(t) ==
  \/ SameStep(step[t], step'[t])
  \/ /\ step[t].status = "pending"
     /\ \/ step'[t].status \in {"failed", "canceled", "blocked"}
        \/ step'[t].status \in {"write_intent", "noop"} /\ Ready(t)
  \/ /\ step[t].status = "write_intent" /\ step'[t].status \in Verdict
     /\ step'[t].worker = step[t].worker /\ step'[t].gen = step[t].gen
  \/ /\ step[t].status = "unknown" /\ step'[t].status \in Verdict
     /\ step'[t].worker = step[t].worker /\ step'[t].gen = step[t].gen

LEMMA FinishedEdges ==
  ASSUME NEW j, NEW jbs, NEW st, NEW rec, NEW S,
         Between(j, jbs, st, rec, S), Finish(j, jbs, st, rec, S)
  PROVE  \A t \in Step :
           /\ StepEdge(t)
           /\ step'[t].status = "write_intent" => step[t].status = "write_intent"
           /\ t \notin StepsOf(j) /\ step[t].status # "unknown" => SameStep(step[t], step'[t])
<1> SUFFICES ASSUME NEW t \in Step
             PROVE  /\ StepEdge(t)
                    /\ step'[t].status = "write_intent" => step[t].status = "write_intent"
                    /\ t \notin StepsOf(j) /\ step[t].status # "unknown" =>
                         SameStep(step[t], step'[t])
  OBVIOUS
<1>1. StepMoved(j, S, t, step[t], st[t]) /\ S \subseteq StepsOf(j)
  BY DEF Between
<1>2. \/ step'[t] = st[t]
      \/ t \in StepsOf(j) /\ st[t].status = "pending" /\ step'[t].status = "blocked"
  BY FinishSteps DEF Between
<1>3. st[t].status = "pending" => step[t].status = "pending"
  BY <1>1 DEF StepMoved, SameStep, Verdict
<1>4. CASE step'[t] = st[t]
  BY <1>1, <1>4 DEF StepMoved, StepEdge, SameStep, Unresolved, Verdict
<1>5. CASE t \in StepsOf(j) /\ st[t].status = "pending" /\ step'[t].status = "blocked"
  BY <1>3, <1>5 DEF StepEdge
<1> QED
  BY <1>2, <1>4, <1>5

\* Only the finished job is closed; the other rows are as the handler left them.
LEMMA FinishedJobs ==
  ASSUME NEW j, NEW jbs, NEW st, NEW rec, NEW S,
         Between(j, jbs, st, rec, S), Finish(j, jbs, st, rec, S)
  PROVE  /\ job'[j] = Closing(j, jbs[j], step')
         /\ job'[j].status = Aggregate({step'[s].status : s \in StepsOf(j)}, jbs[j].canceled)
         /\ jbs[j].canceled \in BOOLEAN
         /\ job'[j].status # "new"
         /\ job'[j].previous = job[j].previous
         /\ \A k \in Job \ {j} :
              /\ job'[k] = jbs[k]
              /\ job'[k].status = job[k].status \/ (Ended(job'[k]) /\ Ended(job[k]))
              /\ JobMoved(k, job[k], job'[k])
<1>1. /\ j \in Job /\ jbs \in [Job -> JobRow] /\ st \in [Step -> StepRow]
      /\ \A k \in Job : JobMoved(k, job[k], jbs[k])
      /\ \A k \in Job \ {j} : jbs[k].status = job[k].status \/ (Ended(jbs[k]) /\ Ended(job[k]))
  BY DEF Between
<1>2. step' \in [Step -> StepRow]
  BY <1>1, FinishSteps
<1>3. job' = [jbs EXCEPT ![j] = Closing(j, jbs[j], step')]
  BY DEF Finish
<1>4. job'[j] = Closing(j, jbs[j], step') /\ \A k \in Job \ {j} : job'[k] = jbs[k]
  BY <1>1, <1>3
<1>5. jbs[j] \in JobRow /\ jbs[j].canceled \in BOOLEAN
  BY <1>1 DEF JobRow
<1>6. /\ job'[j].status = Aggregate({step'[s].status : s \in StepsOf(j)}, jbs[j].canceled)
      /\ job'[j].previous = jbs[j].previous
  <2> DEFINE closed == Closing(j, jbs[j], step')
             states == {step'[s].status : s \in StepsOf(j)}
  <2>1. /\ closed.status = Aggregate(states, jbs[j].canceled)
        /\ closed.previous = jbs[j].previous
    <3> DEFINE jb == jbs[j]
               final == step'
    <3>1. j \in Job /\ jb \in JobRow /\ final \in [Step -> StepRow]
      BY <1>1, <1>2, <1>5
    <3> HIDE DEF jb, final
    <3>2. /\ Closing(j, jb, final).status = Aggregate({final[s].status : s \in StepsOf(j)}, jb.canceled)
          /\ Closing(j, jb, final).previous = jb.previous
      BY <3>1, ClosingFacts
    <3> QED
      BY <3>2 DEF jb, final
  <2> QED
    BY <1>4, <2>1
<1>7. job'[j].status # "new"
  BY <1>5, <1>6, AggregateFacts
<1> QED
  BY <1>1, <1>4, <1>5, <1>6, <1>7 DEF JobMoved

\* After finish, what the submissions froze is still true.
LEMMA FinishedSubmission ==
  ASSUME NEW j, NEW jbs, NEW st, NEW rec, NEW S, TypeOK, SubmissionInv, Reopened = {},
         Between(j, jbs, st, rec, S), Finish(j, jbs, st, rec, S)
  PROVE  SubmissionInv'
<1>1. /\ j \in Job /\ job[j].status # "new" /\ job'[j].status # "new"
      /\ job'[j].previous = job[j].previous
      /\ \A k \in Job \ {j} :
           /\ job'[k].previous = job[k].previous
           /\ job'[k].status = job[k].status \/ (Ended(job'[k]) /\ Ended(job[k]))
  <2>1. j \in Job /\ job[j].status # "new"
    BY DEF Between
  <2>2. /\ job'[j].status # "new" /\ job'[j].previous = job[j].previous
        /\ \A k \in Job \ {j} :
             /\ job'[k].status = job[k].status \/ (Ended(job'[k]) /\ Ended(job[k]))
             /\ JobMoved(k, job[k], job'[k])
    BY FinishedJobs
  <2> QED
    BY <2>1, <2>2 DEF JobMoved
<1>2. \A t \in Step :
        /\ step'[t].status \in Unresolved => step[t].status \in Unresolved
        /\ t \notin StepsOf(j) /\ step[t].status = "pending" => step'[t].status = "pending"
  BY FinishedEdges DEF StepEdge, SameStep, Unresolved, Verdict
<1>3. \A k \in Job : job'[k].status \in Active => job[k].status \in Active
  <2> TAKE k \in Job
  <2>1. CASE k = j
    BY <1>1, <2>1 DEF Reopened, Ended, Active
  <2>2. CASE k # j
    BY <1>1, <2>2 DEF Ended
  <2> QED
    BY <2>1, <2>2
<1>4. \A k \in Job : job'[k].status = "new" => k # j /\ job[k].status = "new"
  BY <1>1 DEF Ended
<1>5. \A k \in Job : job'[k].previous = job[k].previous
  BY <1>1
<1> SUFFICES ASSUME NEW k \in Job
             PROVE  /\ job'[k].status = "new" => \A s \in StepsOf(k) : step'[s].status = "pending"
                    /\ job'[k].previous # None =>
                         \E l \in PlanOf[k] : /\ KindOf[l] = "update_description"
                                              /\ SlotOf(job'[k].previous) = <<BugOf[k], l>>
                    /\ job'[k].status \in Active =>
                         \A s \in StepsOf(k), t \in Step :
                           /\ KindOfStep(s) \notin OneShot /\ SlotOf(t) = SlotOf(s) /\ t # s
                           /\ step'[t].status \in Unresolved
                           => KindOfStep(s) = "update_description" /\ t = job'[k].previous
  BY DEF SubmissionInv
<1>6. job'[k].status = "new" => \A s \in StepsOf(k) : step'[s].status = "pending"
  BY <1>1, <1>2, <1>4, OtherSteps DEF SubmissionInv
<1>7. job'[k].previous # None =>
        \E l \in PlanOf[k] : /\ KindOf[l] = "update_description"
                             /\ SlotOf(job'[k].previous) = <<BugOf[k], l>>
  BY <1>5 DEF SubmissionInv
<1>8. job'[k].status \in Active =>
        \A s \in StepsOf(k), t \in Step :
          /\ KindOfStep(s) \notin OneShot /\ SlotOf(t) = SlotOf(s) /\ t # s
          /\ step'[t].status \in Unresolved
          => KindOfStep(s) = "update_description" /\ t = job'[k].previous
  BY <1>2, <1>3, <1>5 DEF SubmissionInv
<1> QED
  BY <1>6, <1>7, <1>8

\* What a step needs includes what the steps it needs need.
LEMMA DepsClosed ==
  ASSUME NEW s \in Step, NEW d \in Deps(s)
  PROVE  d \in Step /\ d \in StepsOf(s[1]) /\ d # s /\ Deps(d) \subseteq Deps(s)
<1>1. s[1] \in Job /\ s[2] \in StepKey /\ d \in Step /\ d[1] = s[1] /\ d[2] \in DepsOf[s[2]]
  BY StepFacts DEF Deps, StepsOf
<1>2. DepsOf[d[2]] \subseteq DepsOf[s[2]] /\ s[2] \notin DepsOf[s[2]]
  BY <1>1, PlanAssumption
<1> QED
  BY <1>1, <1>2 DEF Deps, StepsOf

\* Steps only run once everything they need has succeeded, and a success stays one.
LEMMA OrderStep ==
  ASSUME DependencyOrder, \A t \in Step : StepEdge(t)
  PROVE  DependencyOrder'
<1> SUFFICES ASSUME NEW s \in Step, step'[s].status \in Unresolved \cup Success,
                    NEW d \in Deps(s)
             PROVE  step'[d].status \in Success
  BY DEF DependencyOrder
<1>1. d \in Step
  BY DepsClosed
<1>2. step[s].status \in Unresolved \cup Success \/ Ready(s)
  BY DEF StepEdge, SameStep, Unresolved, Success, Verdict
<1>3. step[d].status \in Success
  BY <1>2 DEF DependencyOrder, Ready
<1> QED
  BY <1>1, <1>3 DEF StepEdge, SameStep, Success

\* A job that finish leaves active has work, and nothing that waits in vain.
LEMMA FinishedWork ==
  ASSUME NEW j, NEW jbs, NEW st, NEW rec, NEW S, LedgerInv, Reopened = {},
         \A k \in Job : job[k].status \in Active => WorkLeft(k, step),
         Between(j, jbs, st, rec, S), Finish(j, jbs, st, rec, S)
  PROVE  \A k \in Job : job'[k].status \in Active => WorkLeft(k, step')
<1>1. j \in Job /\ st \in [Step -> StepRow] /\ job[j].status # "new"
  BY DEF Between
<1>2. /\ job'[j].status = Aggregate({step'[s].status : s \in StepsOf(j)}, jbs[j].canceled)
      /\ jbs[j].canceled \in BOOLEAN
      /\ \A k \in Job \ {j} :
           job'[k].status = job[k].status \/ (Ended(job'[k]) /\ Ended(job[k]))
  BY FinishedJobs
<1>3. ASSUME job'[j].status \in Active PROVE WorkLeft(j, step')
  <2> DEFINE states == {step'[s].status : s \in StepsOf(j)}
  <2>1. "write_intent" \in states \/ "pending" \in states
    <3> HIDE DEF states
    <3>1. job'[j].status = Aggregate(states, jbs[j].canceled)
      BY <1>2 DEF states
    <3> QED
      BY <1>2, <1>3, <3>1, AggregateFacts DEF Active
  <2>2. \E s \in StepsOf(j) : step'[s].status \in {"pending", "write_intent"}
    BY <2>1
  <2>3. ASSUME NEW s \in StepsOf(j), step'[s].status = "pending", NEW d \in Deps(s)
        PROVE  step'[d].status \notin {"failed", "blocked", "canceled"}
    <3>1. s \in Step /\ s[1] = j
      BY DEF StepsOf
    <3>2. d \in Step /\ d \in StepsOf(j) /\ Deps(d) \subseteq Deps(s)
      BY <3>1, DepsClosed
    <3>3. step' = Blocking(j, st)
      BY DEF Finish
    <3>4. s \notin Blocked(j, st) /\ st[s].status = "pending"
      BY <1>1, <2>3, <3>1, <3>3 DEF Blocking, StepRow
    <3>5. /\ \A e \in Deps(s) : st[e].status \notin {"failed", "blocked", "canceled"}
          /\ \A u \in StepsOf(j) : st[u].status # "unknown"
      BY <3>4 DEF Blocked
    <3>6. d \notin Blocked(j, st)
      BY <3>2, <3>5 DEF Blocked
    <3>7. step'[d] = st[d]
      BY <3>2, <3>3, <3>6 DEF Blocking
    <3> QED
      BY <3>5, <3>7
  <2> QED
    BY <2>2, <2>3 DEF WorkLeft
<1>4. ASSUME NEW k \in Job, k # j, job'[k].status \in Active PROVE WorkLeft(k, step')
  <2>1. job[k].status \in Active /\ WorkLeft(k, step)
    BY <1>2, <1>4 DEF Ended
  <2>2. \A t \in StepsOf(k) : step[t].status # "unknown"
    BY <2>1 DEF LedgerInv, JobInv, Ended
  <2>3. \A t \in StepsOf(k) : step'[t].status = step[t].status
    BY <1>1, <1>4, <2>2, FinishedEdges, OtherSteps DEF SameStep
  <2>4. \A t \in StepsOf(k) : Deps(t) \subseteq StepsOf(k)
    BY DEF Deps, StepsOf
  <2> QED
    BY <2>1, <2>3, <2>4 DEF WorkLeft
<1> QED
  BY <1>3, <1>4

\* Closing tells the bug's log when the job ends, and only once.
LEMMA ClosingActivity ==
  ASSUME NEW j \in Job, NEW jb \in JobRow, NEW st,
         jb.told => Ended(Closing(j, jb, st)),
         jb.activities <= IF jb.told THEN 1 ELSE 0,
         Closing(j, jb, st).status # "new"
  PROVE  ActivityInv(Closing(j, jb, st))
<1> DEFINE states == {st[s].status : s \in StepsOf(j)}
           status == Aggregate(states, jb.canceled)
           base   == IF status \in Active THEN [jb EXCEPT !.status = status]
                     ELSE [jb EXCEPT !.status = status, !.scope = FALSE, !.target = FALSE,
                                     !.lease = 0]
           count  == IF IsFieldsJob(j) /\ states \subseteq {"noop"} THEN base.activities
                     ELSE base.activities + 1
           told   == [base EXCEPT !.told = TRUE, !.activities = count]
<1>1. /\ base.status = status /\ base.told = jb.told /\ base.activities = jb.activities
      /\ jb.told \in BOOLEAN /\ jb.activities \in Nat
  BY DEF JobRow
<1>2. told.status = status /\ told.told = TRUE /\ told.activities = count
  BY <1>1 DEF JobRow
<1>3. Closing(j, jb, st) = IF status \in Active \/ jb.told THEN base ELSE told
  BY <1>1 DEF Closing, Told
<1> HIDE DEF states, status, base, told
<1>4. CASE status \in Active \/ jb.told
  BY <1>1, <1>3, <1>4 DEF ActivityInv, Ended
<1>5. CASE ~(status \in Active \/ jb.told)
  BY <1>1, <1>2, <1>3, <1>5 DEF ActivityInv, Ended
<1> QED
  BY <1>4, <1>5

\* After finish, a job has told its end if it has ended, and only once.
LEMMA FinishedActivity ==
  ASSUME NEW j, NEW jbs, NEW st, NEW rec, NEW S, Reopened = {},
         \A k \in Job : ActivityInv(job[k]),
         Between(j, jbs, st, rec, S), Finish(j, jbs, st, rec, S)
  PROVE  \A k \in Job : ActivityInv(job'[k])
<1>1. /\ j \in Job /\ jbs[j] \in JobRow /\ JobMoved(j, job[j], jbs[j])
  BY DEF Between
<1>2. /\ job'[j] = Closing(j, jbs[j], step') /\ job'[j].status # "new"
      /\ \A k \in Job \ {j} :
           /\ job'[k].status = job[k].status \/ (Ended(job'[k]) /\ Ended(job[k]))
           /\ JobMoved(k, job[k], job'[k])
  BY FinishedJobs
<1>3. ActivityInv(job'[j])
  <2>1. jbs[j].told => Ended(job'[j])
    BY <1>1 DEF Reopened, ActivityInv, JobMoved
  <2>2. jbs[j].activities <= IF jbs[j].told THEN 1 ELSE 0
    BY <1>1 DEF ActivityInv, JobMoved
  <2> QED
    BY <1>1, <1>2, <2>1, <2>2, ClosingActivity
<1>4. ASSUME NEW k \in Job, k # j PROVE ActivityInv(job'[k])
  <2>1. /\ job'[k].status = job[k].status \/ (Ended(job'[k]) /\ Ended(job[k]))
        /\ job'[k].told = job[k].told /\ job'[k].activities = job[k].activities
    BY <1>2, <1>4 DEF JobMoved
  <2>2. Ended(job'[k]) <=> Ended(job[k])
    BY <2>1 DEF Ended
  <2> QED
    BY <2>1, <2>2 DEF ActivityInv
<1> QED
  BY <1>3, <1>4

\* All parts of the invariant, after finish.
LEMMA FinishedRecord ==
  ASSUME NEW j, NEW jbs, NEW st, NEW rec, NEW S,
         TypeOK, LedgerInv, RecordInv, Reopened = {},
         Between(j, jbs, st, rec, S), Finish(j, jbs, st, rec, S)
  PROVE  RecordInv' /\ \A t \in Step : StepEdge(t)
<1>1. /\ RowsInv(record, step) /\ SubmissionInv /\ DependencyOrder
      /\ \A k \in Job : job[k].status \in Active => WorkLeft(k, step)
      /\ \A k \in Job : ActivityInv(job[k])
  BY DEF RecordInv
<1>2. RowsInv(record', step')
  BY FinishedRows
<1>3. SubmissionInv'
  BY <1>1, FinishedSubmission
<1>4. \A k \in Job : job'[k].status \in Active => WorkLeft(k, step')
  BY <1>1, FinishedWork
<1>5. \A k \in Job : ActivityInv(job'[k])
  BY <1>1, FinishedActivity
<1>6. \A t \in Step : StepEdge(t)
  BY FinishedEdges
<1>7. DependencyOrder'
  BY <1>1, <1>6, OrderStep
<1> QED
  BY <1>2, <1>3, <1>4, <1>5, <1>6, <1>7 DEF RecordInv

-----------------------------------------------------------------------------
(* The handlers that end in finish.                                         *)

\* Rows are due after moves that leave them alone: dropping pending steps, cutting
\* off writes of the job, and storing the results that are applied.
LEMMA StillDue ==
  ASSUME TypeOK, RowsInv(record, step), NEW j \in Job, NEW S \in SUBSET StepsOf(j),
         NEW st \in [Step -> StepRow],
         \A t \in Step : StepMoved(j, S, t, step[t], st[t]),
         \A t \in Step : step[t].status = "unknown" /\ st[t].status = "succeeded" => t \in S
  PROVE  RowsDue(j, S, st, record)
<1>a. /\ step \in [Step -> StepRow] /\ record \in [Slot -> RecordRow]
      /\ \A s \in StepsOf(j) : s \in Step
  BY DEF TypeOK, StepsOf
<1>1. ASSUME NEW s \in Step, st[s].status \in Unresolved
      PROVE  /\ st[s].worker # None
             /\ record[SlotOf(s)].owner = s
             /\ Refreshed(j, S, st, s) \/ record[SlotOf(s)].status =
                  IF st[s].status = "unknown" THEN "unknown" ELSE "writing"
  <2>1. /\ step[s].status \in Unresolved /\ st[s].worker = step[s].worker
        /\ \/ st[s].status = step[s].status
           \/ s \in S
           \/ s \in StepsOf(j) /\ st[s].status = "unknown"
    BY <1>1 DEF StepMoved, SameStep, Unresolved, Verdict
  <2>2. /\ step[s].worker # None
        /\ record[SlotOf(s)] =
             [status |-> IF step[s].status = "unknown" THEN "unknown" ELSE "writing", owner |-> s]
    BY <2>1 DEF RowsInv, RowsFollow
  <2>3. s \in StepsOf(j) /\ st[s].status = "unknown" => Refreshed(j, S, st, s)
    BY <2>1, <2>2 DEF Refreshed, Doubtful
  <2> QED
    BY <2>1, <2>2, <2>3 DEF Refreshed
<1>2. ASSUME NEW s \in Step, st[s].status = "succeeded", KindOfStep(s) \in OneShot
      PROVE  /\ record[SlotOf(s)].owner = s
             /\ Refreshed(j, S, st, s) \/ record[SlotOf(s)].status = "succeeded"
  <2>1. step[s].status = "succeeded" \/ (s \in S /\ step[s].status \in Unresolved)
    BY <1>2 DEF StepMoved, SameStep
  <2>2. CASE step[s].status = "succeeded"
    <3>1. record[SlotOf(s)] = [status |-> "succeeded", owner |-> s]
      BY <1>2, <2>2 DEF RowsInv
    <3> QED
      BY <3>1
  <2>3. CASE s \in S /\ step[s].status \in Unresolved
    <3>1. record[SlotOf(s)] =
            [status |-> IF step[s].status = "unknown" THEN "unknown" ELSE "writing", owner |-> s]
      BY <2>3 DEF RowsInv, RowsFollow
    <3> QED
      BY <2>3, <3>1 DEF Refreshed
  <2> QED
    BY <2>1, <2>2, <2>3
<1>3. ASSUME NEW x \in Slot, NEW o, o = record[x].owner, o # None
      PROVE  /\ SlotOf(o) = x
             /\ \/ Refreshed(j, S, st, o)
                \/ record[x].status = "writing" /\ st[o].status = "write_intent"
                \/ record[x].status \in Verdict /\ st[o].status = record[x].status
                \/ record[x].status = "succeeded" /\ KindOf[x[2]] = "update_description"
  <2>1. o \in Step
    BY <1>a, <1>3 DEF RecordRow
  <2>2. /\ SlotOf(o) = x
        /\ \/ record[x].status = "writing" /\ step[o].status = "write_intent"
           \/ record[x].status \in Verdict /\ step[o].status = record[x].status
           \/ record[x].status = "succeeded" /\ KindOf[x[2]] = "update_description"
    BY <1>3 DEF RowsInv, RowsFollow
  <2>3. \/ st[o].status = step[o].status
        \/ step[o].status = "pending"
        \/ o \in S
        \/ o \in StepsOf(j) /\ step[o].status = "write_intent" /\ st[o].status = "unknown"
    BY <2>1 DEF StepMoved, SameStep
  <2>4. o \in StepsOf(j) /\ st[o].status = "unknown" => Refreshed(j, S, st, o)
    BY <1>1, <2>1 DEF Refreshed, Doubtful, Unresolved
  <2> QED
    BY <2>2, <2>3, <2>4 DEF Refreshed, Verdict
<1> QED
  BY <1>1, <1>2, <1>3 DEF RowsDue

\* A leased or ended job has been submitted.
LEMMA Submitted ==
  ASSUME NEW j \in Job, job[j].status \in Leased \/ Ended(job[j])
  PROVE  job[j].status # "new"
BY DEF Leased, Ended

\* Growing a mapping moves no job.
LEMMA MappedMoved ==
  ASSUME TypeOK, NEW s \in Step, NEW v
  PROVE  /\ \A k \in Job : JobMoved(k, job[k], Mapped(s, v)[k])
         /\ \A k \in Job : Mapped(s, v)[k].status = job[k].status
BY StepFacts DEF Mapped, JobMoved, TypeOK, JobRow

\* A handler that leaves the rows to finish, and changes steps as StepMoved says.
LEMMA RowsLeft ==
  ASSUME TypeOK, RecordInv, NEW j \in Job, job[j].status # "new",
         NEW jbs \in [Job -> JobRow],
         \A k \in Job : JobMoved(k, job[k], jbs[k]),
         \A k \in Job \ {j} : jbs[k].status = job[k].status,
         NEW S \in SUBSET StepsOf(j), NEW st \in [Step -> StepRow],
         \A s \in S : st[s].status \in Verdict,
         \A t \in Step : StepMoved(j, S, t, step[t], st[t]),
         \A t \in Step : step[t].status = "unknown" /\ st[t].status = "succeeded" => t \in S
  PROVE  Between(j, jbs, st, record, S)
<1>1. RowsDue(j, S, st, record)
  BY StillDue DEF RecordInv
<1> QED
  BY <1>1 DEF Between, TypeOK

\* Nothing but receipts changed.
LEMMA SameMoved ==
  ASSUME NEW j, NEW S, NEW t, NEW old, NEW new, SameStep(old, new)
  PROVE  StepMoved(j, S, t, old, new)
BY DEF StepMoved

RecordGood == RecordInv' /\ \A t \in Step : StepEdge(t)

LEMMA CompletedRecord ==
  ASSUME TypeOK, LedgerInv, RecordInv, Reopened = {},
         NEW j \in Job, NEW w, NEW g, Completed(j, w, g)
  PROVE  RecordGood
<1>1. Finish(j, job, step, record, {}) /\ job[j].status # "new"
  BY Submitted DEF Completed, Owned
<1>2. \A t \in Step : StepMoved(j, {}, t, step[t], step[t])
  BY SameMoved DEF SameStep
<1>3. \A k \in Job : JobMoved(k, job[k], job[k])
  BY DEF JobMoved
<1>4. Between(j, job, step, record, {})
  BY <1>1, <1>2, <1>3, RowsLeft DEF TypeOK
<1> QED
  BY <1>1, <1>4, FinishedRecord DEF RecordGood

LEMMA PrepareFailedRecord ==
  ASSUME TypeOK, LedgerInv, RecordInv, Reopened = {},
         NEW s \in Step, NEW w \in Worker, NEW g \in Nat, NEW r \in Request,
         PrepareFailed(s, w, g, r)
  PROVE  RecordGood
<1> DEFINE j  == s[1]
           st == Prepared(step, s, w, g, r, "failed")
<1>1. /\ Finish(j, job, st, record, {}) /\ j \in Job /\ job[j].status # "new"
      /\ s \in StepsOf(j) /\ step[s].status = "pending"
  BY Submitted, StepFacts DEF PrepareFailed, CanPrepare, Owned, Ready
<1>2. st \in [Step -> StepRow]
  BY PreparedType DEF StepStatus, Resolved, TypeOK
<1>3. st[s].status = "failed" /\ \A t \in Step : t # s => st[t] = step[t]
  BY <1>2 DEF Prepared, StepRow, TypeOK
<1> HIDE DEF st, j
<1>4. \A t \in Step : StepMoved(j, {}, t, step[t], st[t])
  BY <1>1, <1>3 DEF StepMoved, SameStep
<1>5. \A k \in Job : JobMoved(k, job[k], job[k])
  BY DEF JobMoved
<1>6. Between(j, job, st, record, {})
  BY <1>1, <1>2, <1>3, <1>4, <1>5, RowsLeft DEF TypeOK
<1> QED
  BY <1>1, <1>6, FinishedRecord DEF RecordGood

\* What storing a result makes of the step.
LEMMA RecordedMoved ==
  ASSUME TypeOK, NEW s \in Step, NEW e \in Event, NEW v \in Verdict
  PROVE  LET st == Recorded(s, e, v) IN
         /\ st \in [Step -> StepRow]
         /\ st[s].status = v /\ st[s].worker = step[s].worker /\ st[s].gen = step[s].gen
         /\ \A t \in Step : t # s => st[t] = step[t]
<1>1. Recorded(s, e, v) \in [Step -> StepRow] /\ \A t \in Step : t # s => Recorded(s, e, v)[t] = step[t]
  BY RecordedType, RecordedFacts
<1> DEFINE heard == step[s].receipts \cup {<<e, v>>}
<1>2. Recorded(s, e, v)[s] = [step[s] EXCEPT !.status = v, !.receipts = heard]
  BY DEF Recorded, TypeOK
<1> HIDE DEF heard
<1>3. step[s] \in StepRow
  BY DEF TypeOK
<1> QED
  BY <1>1, <1>2, <1>3 DEF StepRow

LEMMA PreflightFailureRecord ==
  ASSUME TypeOK, LedgerInv, RecordInv, Reopened = {},
         NEW s \in Step, NEW w, NEW g, NEW e \in Event, PreflightFailure(s, w, g, e)
  PROVE  RecordGood
<1> DEFINE j  == s[1]
           st == Recorded(s, e, "failed")
<1>1. /\ Finish(j, job, st, record, {}) /\ j \in Job /\ job[j].status # "new"
      /\ s \in StepsOf(j) /\ step[s].status = "pending"
  BY Submitted, StepFacts DEF PreflightFailure, Owned
<1>2. /\ st \in [Step -> StepRow] /\ st[s].status = "failed"
      /\ \A t \in Step : t # s => st[t] = step[t]
  BY RecordedMoved DEF Verdict
<1> HIDE DEF st, j
<1>3. \A t \in Step : StepMoved(j, {}, t, step[t], st[t])
  BY <1>1, <1>2 DEF StepMoved, SameStep
<1>4. \A k \in Job : JobMoved(k, job[k], job[k])
  BY DEF JobMoved
<1>5. Between(j, job, st, record, {})
  BY <1>1, <1>2, <1>3, <1>4, RowsLeft DEF TypeOK
<1> QED
  BY <1>1, <1>5, FinishedRecord DEF RecordGood

\* A result, or late evidence: the row follows its step.
LEMMA ReportedRecord ==
  ASSUME TypeOK, LedgerInv, RecordInv, Reopened = {},
         NEW s \in Step, NEW e \in Event, NEW v \in Verdict,
         step[s].status \in Unresolved, job[s[1]].status # "new",
         Finish(s[1], Mapped(s, v), Recorded(s, e, v), record, {s})
  PROVE  RecordGood
<1> DEFINE j   == s[1]
           st  == Recorded(s, e, v)
           jbs == Mapped(s, v)
<1>1. j \in Job /\ s \in StepsOf(j)
  BY StepFacts
<1>2. /\ st \in [Step -> StepRow]
      /\ st[s].status = v /\ st[s].worker = step[s].worker /\ st[s].gen = step[s].gen
      /\ \A t \in Step : t # s => st[t] = step[t]
  BY RecordedMoved
<1>3. /\ jbs \in [Job -> JobRow]
      /\ \A k \in Job : JobMoved(k, job[k], jbs[k])
      /\ \A k \in Job : jbs[k].status = job[k].status
  BY MappedType, MappedMoved
<1> HIDE DEF st, jbs
<1>4. \A t \in Step : StepMoved(j, {s}, t, step[t], st[t])
  BY <1>2 DEF StepMoved, SameStep
<1>5. \A t \in Step : step[t].status = "unknown" /\ st[t].status = "succeeded" => t \in {s}
  BY <1>2
<1>6. Between(j, jbs, st, record, {s})
  BY <1>1, <1>2, <1>3, <1>4, <1>5, RowsLeft
<1>7. Finish(j, jbs, st, record, {s})
  BY DEF st, jbs
<1> QED
  BY <1>6, <1>7, FinishedRecord DEF RecordGood

LEMMA ReconcileRecord ==
  ASSUME TypeOK, LedgerInv, RecordInv, Reopened = {}, NEW s \in Step, Reconcile(s)
  PROVE  RecordGood
<1> DEFINE j   == s[1]
           st  == [step EXCEPT ![s].status = "succeeded"]
           jbs == Mapped(s, "succeeded")
<1>1. /\ j \in Job /\ s \in StepsOf(j) /\ step[s].status = "unknown" /\ job[j].status # "new"
      /\ Finish(j, jbs, st, record, {s})
  BY StepFacts, UnknownEnded, Submitted DEF Reconcile
<1>2. /\ st \in [Step -> StepRow]
      /\ st[s].status = "succeeded" /\ st[s].worker = step[s].worker /\ st[s].gen = step[s].gen
      /\ \A t \in Step : t # s => st[t] = step[t]
  BY DEF TypeOK, StepRow, StepStatus, Resolved
<1>3. /\ jbs \in [Job -> JobRow]
      /\ \A k \in Job : JobMoved(k, job[k], jbs[k])
      /\ \A k \in Job : jbs[k].status = job[k].status
  BY MappedType, MappedMoved
<1> HIDE DEF st, jbs, j
<1>4. \A t \in Step : StepMoved(j, {s}, t, step[t], st[t])
  BY <1>1, <1>2 DEF StepMoved, SameStep, Verdict, Unresolved
<1>5. \A t \in Step : step[t].status = "unknown" /\ st[t].status = "succeeded" => t \in {s}
  BY <1>2
<1>6. \A t \in {s} : st[t].status \in Verdict
  BY <1>2 DEF Verdict
<1>7. Between(j, jbs, st, record, {s})
  BY <1>1, <1>2, <1>3, <1>4, <1>5, <1>6, RowsLeft
<1> QED
  BY <1>1, <1>7, FinishedRecord DEF RecordGood

LEMMA CancelRecord ==
  ASSUME TypeOK, LedgerInv, RecordInv, Reopened = {}, NEW j \in Job, Cancel(j)
  PROVE  RecordGood
<1> DEFINE st == [s \in Step |->
             IF s \in StepsOf(j) /\ step[s].status \in {"write_intent", "pending"}
             THEN [step[s] EXCEPT !.status = IF @ = "write_intent" THEN CutOff ELSE "canceled"]
             ELSE step[s]]
           new == [job[j] EXCEPT !.status = "canceled", !.canceled = TRUE]
           jbs == [job EXCEPT ![j] = new]
<1>1. Finish(j, jbs, st, record, {}) /\ job[j].status # "new"
  BY DEF Cancel, Active
<1>2. /\ st \in [Step -> StepRow]
      /\ \A t \in Step : StepMoved(j, {}, t, step[t], st[t])
  <2>1. \A t \in Step : step[t] \in StepRow
    BY DEF TypeOK
  <2> QED
    BY <2>1 DEF StepRow, StepStatus, Resolved, Unresolved, CutOff, StepMoved, SameStep
<1>3. \A t \in Step : step[t].status = "unknown" => st[t].status # "succeeded"
  OBVIOUS
<1>4. new \in JobRow /\ JobMoved(j, job[j], new)
  BY DEF TypeOK, JobRow, JobStatus, JobMoved
<1> HIDE DEF st, new
<1>5. /\ jbs \in [Job -> JobRow] /\ jbs[j] = new /\ \A k \in Job \ {j} : jbs[k] = job[k]
  BY <1>4 DEF TypeOK
<1> HIDE DEF jbs
<1>6. \A k \in Job : JobMoved(k, job[k], jbs[k])
  BY <1>4, <1>5 DEF JobMoved
<1>7. Between(j, jbs, st, record, {})
  BY <1>1, <1>2, <1>3, <1>5, <1>6, RowsLeft
<1> QED
  BY <1>1, <1>7, FinishedRecord DEF RecordGood

LEMMA ExpireFinishRecord ==
  ASSUME TypeOK, LedgerInv, RecordInv, Reopened = {}, NEW j \in Job, ExpireFinish(j)
  PROVE  RecordGood
<1> DEFINE st == [s \in Step |-> IF s \in StepsOf(j) /\ step[s].status = "write_intent"
                                THEN [step[s] EXCEPT !.status = CutOff] ELSE step[s]]
<1>1. Finish(j, job, st, record, {}) /\ job[j].status # "new"
  BY Submitted DEF ExpireFinish, Expired
<1>2. /\ st \in [Step -> StepRow]
      /\ \A t \in Step : StepMoved(j, {}, t, step[t], st[t])
  <2>1. \A t \in Step : step[t] \in StepRow
    BY DEF TypeOK
  <2> QED
    BY <2>1 DEF StepRow, StepStatus, Resolved, Unresolved, CutOff, StepMoved, SameStep
<1>3. \A t \in Step : step[t].status = "unknown" => st[t].status # "succeeded"
  OBVIOUS
<1> HIDE DEF st
<1>4. \A k \in Job : JobMoved(k, job[k], job[k])
  BY DEF JobMoved
<1>5. Between(j, job, st, record, {})
  BY <1>1, <1>2, <1>3, <1>4, RowsLeft DEF TypeOK
<1> QED
  BY <1>1, <1>5, FinishedRecord DEF RecordGood

\* A job that has told its end keeps what it told.
LEMMA ClosingKeeps ==
  ASSUME NEW j \in Job, NEW jb \in JobRow, NEW st, jb.told
  PROVE  /\ Closing(j, jb, st).told = jb.told
         /\ Closing(j, jb, st).activities = jb.activities
<1> DEFINE states == {st[s].status : s \in StepsOf(j)}
           status == Aggregate(states, jb.canceled)
           base   == IF status \in Active THEN [jb EXCEPT !.status = status]
                     ELSE [jb EXCEPT !.status = status, !.scope = FALSE, !.target = FALSE,
                                     !.lease = 0]
<1>1. base.told = jb.told /\ base.activities = jb.activities
  BY DEF JobRow
<1>2. Closing(j, jb, st) = base
  BY <1>1 DEF Closing, Told
<1> QED
  BY <1>1, <1>2

\* The earlier write of a text wrote the same object, and was a write of the text.
LEMMA PreviousFacts ==
  ASSUME TypeOK, SubmissionInv, NEW s \in Step, Settles(s)
  PROVE  LET q == job[s[1]].previous IN
         /\ q \in Step /\ q[1] \in Job /\ SlotOf(q) = SlotOf(s) /\ KindOfStep(q) \notin OneShot
         /\ step[q].status = "unknown"
<1> DEFINE q == job[s[1]].previous
<1>1. q \in Step /\ q[1] \in Job /\ q # None /\ step[q].status = "unknown"
  BY SettledType DEF Settles
<1>2. s[1] \in Job /\ s[2] \in PlanOf[s[1]] /\ KindOf[s[2]] = "update_description"
  BY StepFacts DEF Step, Settles, KindOfStep
<1>3. PICK k \in PlanOf[s[1]] : /\ KindOf[k] = "update_description"
                                /\ SlotOf(q) = <<BugOf[s[1]], k>>
  BY <1>1, <1>2 DEF SubmissionInv
<1>4. k = s[2]
  BY <1>2, <1>3, PlannerAssumption
<1>5. SlotOf(q) = SlotOf(s) /\ q[2] = s[2]
  BY <1>3, <1>4 DEF SlotOf
<1> QED
  BY <1>1, <1>2, <1>5 DEF KindOfStep, OneShot

\* Two steps of one job write different objects.
LEMMA SlotsOfJob ==
  ASSUME NEW s \in Step, NEW t \in Step, SlotOf(s) = SlotOf(t), s[1] = t[1]
  PROVE  s = t
BY DEF SlotOf, Step

\* Before a leased job writes a text or fields, the only write of the same object
\* that can be open is the earlier one that it is going to settle.
LEMMA OpenIsPrevious ==
  ASSUME TypeOK, LedgerInv, SubmissionInv,
         NEW s \in Step, job[s[1]].status \in Leased, step[s].status = "pending",
         KindOfStep(s) \notin OneShot,
         NEW t \in Step, SlotOf(t) = SlotOf(s), step[t].status \in Unresolved
  PROVE  Settles(s) /\ t = job[s[1]].previous
<1>1. /\ s[1] \in Job /\ s \in StepsOf(s[1]) /\ t[1] \in Job /\ t \in StepsOf(t[1])
      /\ job[s[1]].status \in Active /\ t # s
  BY StepFacts DEF Leased, Active, Unresolved
<1>2. KindOfStep(s) = "update_description" /\ t = job[s[1]].previous
  BY <1>1 DEF SubmissionInv
<1>3. step[t].status # "write_intent"
  <2>1. SUFFICES ASSUME step[t].status = "write_intent" PROVE FALSE
    OBVIOUS
  <2>2. job[t[1]].scope /\ job[s[1]].scope
    BY <1>1, <2>1 DEF LedgerInv, JobInv, Active
  <2>3. BugOf[t[1]] = BugOf[s[1]]
    BY DEF SlotOf
  <2>4. t[1] = s[1]
    BY <1>1, <2>2, <2>3 DEF LedgerInv, Exclusive
  <2> QED
    BY <1>1, <2>4, SlotsOfJob
<1>4. t # None
  BY NoStepIsNone
<1> QED
  BY <1>2, <1>3, <1>4 DEF Settles, Unresolved

\* What settling an earlier write leaves of the steps and the jobs.
LEMMA SettledMoved ==
  ASSUME TypeOK, LedgerInv, RecordInv, NEW s \in Step, job[s[1]].status \in Leased
  PROVE  /\ \A t \in Step :
              \/ SettledSteps(s)[t] = step[t] /\ ~(Settles(s) /\ t = job[s[1]].previous)
              \/ /\ Settles(s) /\ t = job[s[1]].previous
                 /\ SlotOf(t) = SlotOf(s) /\ KindOfStep(t) \notin OneShot
                 /\ t \notin StepsOf(s[1])
                 /\ step[t].status = "unknown" /\ SettledSteps(s)[t].status = "succeeded"
                 /\ SettledSteps(s)[t].worker = step[t].worker
                 /\ SettledSteps(s)[t].gen = step[t].gen
         /\ \A k \in Job : JobMoved(k, job[k], SettledJobs(s)[k])
         /\ SettledJobs(s)[s[1]] = job[s[1]]
         /\ \A k \in Job : \/ SettledJobs(s)[k].status = job[k].status
                           \/ Ended(SettledJobs(s)[k]) /\ Ended(job[k])
<1>a. step \in [Step -> StepRow] /\ job \in [Job -> JobRow] /\ s[1] \in Job
  BY StepFacts DEF TypeOK
<1>1. CASE ~Settles(s)
  BY <1>1 DEF SettledSteps, SettledJobs, JobMoved
<1>2. CASE Settles(s)
  <2> DEFINE q == job[s[1]].previous
             p == q[1]
  <2>1. /\ q \in Step /\ p \in Job /\ SlotOf(q) = SlotOf(s) /\ KindOfStep(q) \notin OneShot
        /\ step[q].status = "unknown"
    BY <1>2, PreviousFacts DEF RecordInv
  <2>2. Ended(job[p]) /\ p # s[1]
    BY <2>1, UnknownEnded DEF Ended, Leased, Active
  <2>3. SettledSteps(s) = [step EXCEPT ![q].status = "succeeded"]
    BY <1>2 DEF SettledSteps
  <2>4. SettledJobs(s) = [job EXCEPT ![p] = Closing(p, job[p], SettledSteps(s))]
    BY <1>2 DEF SettledJobs
  <2>5. /\ SettledSteps(s)[q].status = "succeeded"
        /\ SettledSteps(s)[q].worker = step[q].worker /\ SettledSteps(s)[q].gen = step[q].gen
        /\ \A t \in Step : t # q => SettledSteps(s)[t] = step[t]
    BY <1>a, <2>1, <2>3 DEF StepRow
  <2>6. SettledJobs(s)[p] = Closing(p, job[p], SettledSteps(s))
        /\ \A k \in Job : k # p => SettledJobs(s)[k] = job[k]
    BY <1>a, <2>1, <2>4
  <2>7. JobMoved(p, job[p], SettledJobs(s)[p])
    <3>1. job[p] \in JobRow /\ job[p].told /\ SettledSteps(s) \in [Step -> StepRow]
      BY <1>a, <2>1, <2>2, SettledType DEF RecordInv, ActivityInv
    <3>2. Closing(p, job[p], SettledSteps(s)).previous = job[p].previous
      BY <2>1, <3>1, ClosingFacts, ZenonT(60)
    <3>3. /\ Closing(p, job[p], SettledSteps(s)).told = job[p].told
          /\ Closing(p, job[p], SettledSteps(s)).activities = job[p].activities
      BY <2>1, <3>1, ClosingKeeps, ZenonT(60)
    <3> QED
      BY <2>6, <3>2, <3>3 DEF JobMoved
  <2>8. Ended(SettledJobs(s)[p])
    BY <2>1, <2>2, SettledInv
  <2>9. q \notin StepsOf(s[1])
    BY <2>2 DEF StepsOf
  <2> HIDE DEF q, p
  <2>10. /\ \A k \in Job : JobMoved(k, job[k], SettledJobs(s)[k])
         /\ SettledJobs(s)[s[1]] = job[s[1]]
         /\ \A k \in Job : \/ SettledJobs(s)[k].status = job[k].status
                           \/ Ended(SettledJobs(s)[k]) /\ Ended(job[k])
    BY <1>a, <2>2, <2>6, <2>7, <2>8 DEF JobMoved
  <2> QED
    BY <1>2, <2>1, <2>5, <2>9, <2>10 DEF q
<1> QED
  BY <1>1, <1>2

LEMMA PrepareNoopRecord ==
  ASSUME TypeOK, LedgerInv, RecordInv, Reopened = {},
         NEW s \in Step, NEW w \in Worker, NEW g \in Nat, NEW r \in Request,
         PrepareNoop(s, w, g, r)
  PROVE  RecordGood
<1> DEFINE j   == s[1]
           x   == SlotOf(s)
           jbs == SettledJobs(s)
           st  == Prepared(SettledSteps(s), s, w, g, r, "noop")
<1>1. /\ j \in Job /\ job[j].status \in Leased /\ job[j].status # "new" /\ s \in StepsOf(j)
      /\ step[s].status = "pending" /\ Ready(s) /\ x \in Slot
  BY Submitted, StepFacts DEF PrepareNoop, CanPrepare, Owned, Ready
<1>2. PICK rec \in ConfirmedRecord(s) : Finish(j, jbs, st, rec, {})
  BY DEF PrepareNoop
<1>3. /\ step \in [Step -> StepRow] /\ record \in [Slot -> RecordRow]
      /\ RowsInv(record, step) /\ SubmissionInv
  BY DEF TypeOK, RecordInv
<1>4. /\ SettledSteps(s) \in [Step -> StepRow] /\ jbs \in [Job -> JobRow]
      /\ st \in [Step -> StepRow]
  BY SettledType, PreparedType DEF StepStatus, Resolved
<1>5. st[s].status = "noop" /\ \A t \in Step : t # s => st[t] = SettledSteps(s)[t]
  BY <1>4 DEF Prepared, StepRow
<1>6. /\ \A k \in Job : JobMoved(k, job[k], jbs[k])
      /\ \A k \in Job \ {j} : jbs[k].status = job[k].status \/ (Ended(jbs[k]) /\ Ended(job[k]))
  BY <1>1, SettledMoved
<1>7. \A t \in Step :
        \/ st[t] = step[t] /\ t # s /\ ~(Settles(s) /\ t = job[j].previous)
        \/ t = s /\ st[t].status = "noop"
        \/ /\ SlotOf(t) = x /\ KindOfStep(t) \notin OneShot
           /\ step[t].status = "unknown" /\ st[t].status = "succeeded"
           /\ st[t].worker = step[t].worker /\ st[t].gen = step[t].gen
  BY <1>1, <1>5, SettledMoved
<1>8. /\ rec \in [Slot -> RecordRow]
      /\ \A y \in Slot : y # x => rec[y] = record[y]
      /\ KindOfStep(s) # "update_description" => rec = record
      /\ KindOfStep(s) = "update_description" =>
           rec[x].owner = record[x].owner /\ (rec[x].status = "succeeded" \/ rec[x].status = "none")
      /\ rec[x].status = "succeeded" \/ rec[x] = record[x]
  <2>1. CASE KindOfStep(s) # "update_description"
    BY <1>3, <2>1 DEF ConfirmedRecord
  <2>2. CASE KindOfStep(s) = "update_description"
    <3>1. rec = [record EXCEPT ![x].status = "succeeded"]
            \/ (rec = record /\ record[x].status = "none")
      BY <1>2, <2>2 DEF ConfirmedRecord
    <3> QED
      BY <1>1, <1>3, <2>2, <3>1 DEF RecordRow, Verdict
  <2> QED
    BY <2>1, <2>2
<1> HIDE DEF st, jbs
<1>9. \A t \in Step : StepMoved(j, {}, t, step[t], st[t])
  BY <1>1, <1>7 DEF StepMoved, SameStep
<1>10. ASSUME NEW t \in Step, st[t].status \in Unresolved
       PROVE  st[t] = step[t] /\ rec[SlotOf(t)] = record[SlotOf(t)]
  <2>1. st[t] = step[t] /\ ~(Settles(s) /\ t = job[j].previous)
    BY <1>7, <1>10 DEF Unresolved
  <2>2. KindOfStep(s) = "update_description" => SlotOf(t) # x
    BY <1>1, <1>3, <1>10, <2>1, OpenIsPrevious DEF OneShot
  <2> QED
    BY <1>8, <2>1, <2>2, StepFacts
<1>11. ASSUME NEW t \in Step, st[t].status = "succeeded", KindOfStep(t) \in OneShot
       PROVE  st[t] = step[t] /\ rec[SlotOf(t)] = record[SlotOf(t)]
  <2>1. st[t] = step[t]
    BY <1>7, <1>11
  <2>2. SlotOf(t) = x => KindOfStep(s) = KindOfStep(t)
    BY DEF SlotOf, KindOfStep
  <2> QED
    BY <1>8, <1>11, <2>1, <2>2, StepFacts DEF OneShot
<1>12. ASSUME NEW y \in Slot, NEW o, o = rec[y].owner, o # None
       PROVE  /\ SlotOf(o) = y
              /\ \/ rec[y].status = "writing" /\ st[o].status = "write_intent"
                 \/ rec[y].status \in Verdict /\ st[o].status = rec[y].status
                 \/ rec[y].status = "succeeded" /\ KindOf[y[2]] = "update_description"
  <2>1. o = record[y].owner /\ o \in Step
    BY <1>3, <1>8, <1>12 DEF RecordRow
  <2>2. /\ SlotOf(o) = y
        /\ \/ record[y].status = "writing" /\ step[o].status = "write_intent"
           \/ record[y].status \in Verdict /\ step[o].status = record[y].status
           \/ record[y].status = "succeeded" /\ KindOf[y[2]] = "update_description"
    BY <1>3, <1>12, <2>1 DEF RowsInv, RowsFollow
  <2>3. KindOfStep(s) = "update_description" /\ y = x => KindOf[y[2]] = "update_description"
    BY DEF SlotOf, KindOfStep
  <2>4. CASE KindOfStep(s) = "update_description" /\ y = x
    BY <1>8, <2>2, <2>3, <2>4 DEF Verdict
  <2>5. CASE ~(KindOfStep(s) = "update_description" /\ y = x)
    <3>1. rec[y] = record[y]
      BY <1>8, <2>5
    <3>2. \/ st[o].status = step[o].status
          \/ step[o].status = "pending"
      <4>1. ASSUME Settles(s) PROVE KindOfStep(s) = "update_description"
        BY <4>1 DEF Settles
      <4>2. o = s => step[o].status = "pending"
        BY <1>1
      <4>3. ~Settles(s) \/ SlotOf(o) # x
        BY <2>2, <2>5, <4>1
      <4> QED
        BY <1>1, <1>5, <2>1, <2>2, <4>2, <4>3, SettledMoved
    <3> QED
      BY <2>2, <3>1, <3>2 DEF Verdict
  <2> QED
    BY <2>2, <2>4, <2>5
<1>13. RowsDue(j, {}, st, rec)
  <2>1. ASSUME NEW t \in Step, st[t].status \in Unresolved
        PROVE  /\ st[t].worker # None /\ rec[SlotOf(t)].owner = t
               /\ rec[SlotOf(t)].status = IF st[t].status = "unknown" THEN "unknown" ELSE "writing"
    <3>1. st[t] = step[t] /\ rec[SlotOf(t)] = record[SlotOf(t)]
      BY <1>10, <2>1
    <3>2. /\ step[t].worker # None
          /\ record[SlotOf(t)] =
               [status |-> IF step[t].status = "unknown" THEN "unknown" ELSE "writing", owner |-> t]
      BY <1>3, <2>1, <3>1 DEF RowsInv, RowsFollow
    <3> QED
      BY <3>1, <3>2
  <2>2. ASSUME NEW t \in Step, st[t].status = "succeeded", KindOfStep(t) \in OneShot
        PROVE  rec[SlotOf(t)].owner = t /\ rec[SlotOf(t)].status = "succeeded"
    <3>1. st[t] = step[t] /\ rec[SlotOf(t)] = record[SlotOf(t)]
      BY <1>11, <2>2
    <3>2. record[SlotOf(t)] = [status |-> "succeeded", owner |-> t]
      BY <1>3, <2>2, <3>1 DEF RowsInv
    <3> QED
      BY <3>1, <3>2
  <2> QED
    BY <1>12, <2>1, <2>2 DEF RowsDue
<1>14. Between(j, jbs, st, rec, {})
  BY <1>1, <1>4, <1>6, <1>8, <1>9, <1>13 DEF Between
<1> QED
  BY <1>2, <1>14, FinishedRecord DEF RecordGood

-----------------------------------------------------------------------------
(* The handlers that do not end in finish.                                  *)

\* The rows after a write has been permitted: the object was free for it.
LEMMA PrepareWriteRows ==
  ASSUME TypeOK, LedgerInv, RecordInv,
         NEW s \in Step, NEW w \in Worker, NEW g \in Nat, NEW r \in Request,
         PrepareWrite(s, w, g, r)
  PROVE  RowsInv(record', step')
<1> DEFINE x  == SlotOf(s)
           st == SettledSteps(s)
<1>1. /\ job[s[1]].status \in Leased /\ step[s].status = "pending"
      /\ x \in Slot /\ Writable(s)
      /\ RowsInv(record, step) /\ SubmissionInv
  BY StepFacts DEF PrepareWrite, CanPrepare, Owned, Ready, RecordInv
<1>2. /\ step \in [Step -> StepRow] /\ record \in [Slot -> RecordRow] /\ st \in [Step -> StepRow]
  BY SettledType DEF TypeOK
<1>3. /\ record' = [record EXCEPT ![x] = [status |-> "writing", owner |-> s]]
      /\ step' = Prepared(st, s, w, g, r, "write_intent")
  BY DEF PrepareWrite
<1>4. /\ record'[x] = [status |-> "writing", owner |-> s]
      /\ \A y \in Slot : y # x => record'[y] = record[y]
  BY <1>1, <1>2, <1>3
<1>5. \A t \in Step :
        \/ st[t] = step[t] /\ ~(Settles(s) /\ t = job[s[1]].previous)
        \/ /\ SlotOf(t) = x /\ KindOfStep(t) \notin OneShot
           /\ step[t].status = "unknown" /\ st[t].status = "succeeded"
  BY <1>1, SettledMoved
<1> HIDE DEF st
<1>6. /\ step'[s].status = "write_intent" /\ step'[s].worker = w
      /\ \A t \in Step : t # s => step'[t] = st[t]
  BY <1>2, <1>3 DEF Prepared, StepRow
<1>7. ASSUME NEW t \in Step, step'[t].status \in Unresolved
      PROVE  /\ record'[SlotOf(t)] =
                  [status |-> IF step'[t].status = "unknown" THEN "unknown" ELSE "writing",
                   owner |-> t]
             /\ step'[t].worker # None
  <2>1. CASE t = s
    BY <1>4, <1>6, <2>1, JobAssumption
  <2>2. CASE t # s
    <3>1. step'[t] = step[t] /\ ~(Settles(s) /\ t = job[s[1]].previous)
      BY <1>5, <1>6, <1>7, <2>2 DEF Unresolved
    <3>2. /\ record[SlotOf(t)] =
               [status |-> IF step[t].status = "unknown" THEN "unknown" ELSE "writing", owner |-> t]
          /\ step[t].worker # None
      BY <1>1, <1>7, <3>1 DEF RowsInv, RowsFollow
    <3>3. SlotOf(t) # x
      <4>1. CASE KindOfStep(s) \in OneShot
        <5>1. record[x].status \in {"none", "failed"}
          BY <1>1, <4>1 DEF Writable
        <5>2. SlotOf(t) = x => record[x].status \in {"unknown", "writing"}
          BY <3>2
        <5> QED
          BY <5>1, <5>2
      <4>2. CASE KindOfStep(s) \notin OneShot
        BY <1>1, <1>7, <3>1, <4>2, OpenIsPrevious
      <4> QED
        BY <4>1, <4>2
    <3>4. record'[SlotOf(t)] = record[SlotOf(t)]
      BY <1>4, <3>3, StepFacts
    <3> QED
      BY <3>1, <3>2, <3>4
  <2> QED
    BY <2>1, <2>2
<1>8. ASSUME NEW t \in Step, step'[t].status = "succeeded", KindOfStep(t) \in OneShot
      PROVE  record'[SlotOf(t)] = [status |-> "succeeded", owner |-> t]
  <2>1. t # s /\ step[t].status = "succeeded"
    BY <1>5, <1>6, <1>8
  <2>2. record[SlotOf(t)] = [status |-> "succeeded", owner |-> t]
    BY <1>1, <1>8, <2>1 DEF RowsInv
  <2>3. SlotOf(t) # x
    <3>1. SlotOf(t) = x => KindOfStep(s) \in OneShot
      BY <1>8 DEF SlotOf, KindOfStep
    <3>2. SlotOf(t) = x => record[x].status = "succeeded"
      BY <2>2
    <3> QED
      BY <1>1, <3>1, <3>2 DEF Writable
  <2> QED
    BY <1>4, <2>2, <2>3, StepFacts
<1>9. ASSUME NEW y \in Slot, NEW o, o = record'[y].owner, o # None
      PROVE  /\ SlotOf(o) = y
             /\ \/ record'[y].status = "writing" /\ step'[o].status = "write_intent"
                \/ record'[y].status \in Verdict /\ step'[o].status = record'[y].status
                \/ record'[y].status = "succeeded" /\ KindOf[y[2]] = "update_description"
  <2>1. CASE y = x
    BY <1>4, <1>6, <1>9, <2>1
  <2>2. CASE y # x
    <3>1. record'[y] = record[y] /\ o \in Step
      BY <1>2, <1>4, <1>9, <2>2 DEF RecordRow
    <3>2. /\ SlotOf(o) = y
          /\ \/ record[y].status = "writing" /\ step[o].status = "write_intent"
             \/ record[y].status \in Verdict /\ step[o].status = record[y].status
             \/ record[y].status = "succeeded" /\ KindOf[y[2]] = "update_description"
      BY <1>1, <1>9, <3>1 DEF RowsInv, RowsFollow
    <3>3. step'[o] = step[o]
      BY <1>5, <1>6, <2>2, <3>1, <3>2
    <3> QED
      BY <3>1, <3>2, <3>3
  <2> QED
    BY <2>1, <2>2
<1> QED
  BY <1>7, <1>8, <1>9 DEF RowsInv, RowsFollow

LEMMA PrepareWriteRecord ==
  ASSUME TypeOK, LedgerInv, RecordInv,
         NEW s \in Step, NEW w \in Worker, NEW g \in Nat, NEW r \in Request,
         PrepareWrite(s, w, g, r)
  PROVE  RecordGood
<1> DEFINE j   == s[1]
           st  == SettledSteps(s)
           jbs == SettledJobs(s)
<1>1. /\ j \in Job /\ s \in StepsOf(j) /\ job[j].status \in Leased
      /\ step[s].status = "pending" /\ Ready(s)
      /\ SubmissionInv /\ DependencyOrder
      /\ \A k \in Job : job[k].status \in Active => WorkLeft(k, step)
      /\ \A k \in Job : ActivityInv(job[k])
  BY StepFacts DEF PrepareWrite, CanPrepare, Owned, Ready, RecordInv
<1>2. st \in [Step -> StepRow] /\ jbs \in [Job -> JobRow]
  BY SettledType
<1>3. /\ step' = Prepared(st, s, w, g, r, "write_intent")
      /\ job' = [jbs EXCEPT ![j].status = "running"]
  BY DEF PrepareWrite
<1>4. /\ \A t \in Step :
           \/ st[t] = step[t]
           \/ /\ step[t].status = "unknown" /\ st[t].status = "succeeded"
              /\ st[t].worker = step[t].worker /\ st[t].gen = step[t].gen
      /\ \A k \in Job : JobMoved(k, job[k], jbs[k])
      /\ \A k \in Job : jbs[k].status = job[k].status \/ (Ended(jbs[k]) /\ Ended(job[k]))
  BY <1>1, SettledMoved
<1> HIDE DEF st, jbs, j
<1>5. /\ step'[s].status = "write_intent"
      /\ \A t \in Step : t # s => step'[t] = st[t]
  BY <1>2, <1>3 DEF Prepared, StepRow
<1>6. /\ \A k \in Job : JobMoved(k, job[k], job'[k])
      /\ job'[j].status = "running"
      /\ \A k \in Job : k # j =>
           job'[k].status = job[k].status \/ (Ended(job'[k]) /\ Ended(job[k]))
  BY <1>1, <1>2, <1>3, <1>4 DEF JobMoved, JobRow
<1>7. \A k \in Job : /\ job'[k].status \in Active => job[k].status \in Active
                     /\ job'[k].status = "new" => job[k].status = "new" /\ k # j
                     /\ Ended(job'[k]) <=> Ended(job[k])
  BY <1>1, <1>6 DEF Ended, Active, Leased
<1>8. \A t \in Step : t # s =>
        \/ step'[t] = step[t]
        \/ /\ step[t].status = "unknown" /\ step'[t].status = "succeeded"
           /\ step'[t].worker = step[t].worker /\ step'[t].gen = step[t].gen
  BY <1>4, <1>5
<1>9. \A t \in Step : StepEdge(t)
  BY <1>1, <1>5, <1>8 DEF StepEdge, SameStep, Verdict
<1>10. SubmissionInv'
  <2> SUFFICES ASSUME NEW k \in Job
               PROVE  /\ job'[k].status = "new" => \A t \in StepsOf(k) : step'[t].status = "pending"
                      /\ job'[k].previous # None =>
                           \E l \in PlanOf[k] : /\ KindOf[l] = "update_description"
                                                /\ SlotOf(job'[k].previous) = <<BugOf[k], l>>
                      /\ job'[k].status \in Active =>
                           \A u \in StepsOf(k), t \in Step :
                             /\ KindOfStep(u) \notin OneShot /\ SlotOf(t) = SlotOf(u) /\ t # u
                             /\ step'[t].status \in Unresolved
                             => KindOfStep(u) = "update_description" /\ t = job'[k].previous
    BY DEF SubmissionInv
  <2>1. job'[k].previous = job[k].previous
    BY <1>6 DEF JobMoved
  <2>2. ASSUME job'[k].status = "new", NEW t \in StepsOf(k) PROVE step'[t].status = "pending"
    <3>1. step[t].status = "pending" /\ t # s /\ t \in Step
      BY <1>1, <1>7, <2>2, OtherSteps DEF SubmissionInv
    <3> QED
      BY <1>8, <3>1
  <2>3. ASSUME job'[k].status \in Active, NEW u \in StepsOf(k), NEW t \in Step,
               KindOfStep(u) \notin OneShot, SlotOf(t) = SlotOf(u), t # u,
               step'[t].status \in Unresolved
        PROVE  KindOfStep(u) = "update_description" /\ t = job'[k].previous
    <3>1. CASE t # s
      BY <1>1, <1>7, <1>8, <2>1, <2>3, <3>1 DEF SubmissionInv, Unresolved
    <3>2. CASE t = s
      <4>1. u \in Step /\ u[1] = k /\ BugOf[k] = BugOf[j]
        BY <2>3, <3>2 DEF StepsOf, SlotOf, j
      <4>2. job[k].scope /\ job[j].scope
        BY <1>1, <1>7, <2>3 DEF LedgerInv, JobInv, Active, Leased
      <4>3. k = j
        BY <1>1, <4>1, <4>2 DEF LedgerInv, Exclusive
      <4> QED
        BY <2>3, <3>2, <4>1, <4>3, SlotsOfJob DEF j
    <3> QED
      BY <3>1, <3>2
  <2>4. job'[k].previous # None =>
          \E l \in PlanOf[k] : /\ KindOf[l] = "update_description"
                               /\ SlotOf(job'[k].previous) = <<BugOf[k], l>>
    BY <1>1, <2>1 DEF SubmissionInv
  <2> QED
    BY <2>2, <2>3, <2>4
<1>11. ASSUME NEW k \in Job, job'[k].status \in Active PROVE WorkLeft(k, step')
  <2>1. WorkLeft(k, step) /\ \A t \in StepsOf(k) : step[t].status # "unknown"
    BY <1>1, <1>7, <1>11 DEF LedgerInv, JobInv, Ended
  <2>2. \A t \in StepsOf(k) : \/ step'[t].status = step[t].status
                              \/ step[t].status = "pending" /\ step'[t].status = "write_intent"
    BY <1>1, <1>5, <1>8, <2>1 DEF StepsOf
  <2>3. \A t \in StepsOf(k) : Deps(t) \subseteq StepsOf(k)
    BY DEF Deps, StepsOf
  <2> QED
    BY <2>1, <2>2, <2>3 DEF WorkLeft
<1>12. \A k \in Job : ActivityInv(job'[k])
  BY <1>1, <1>6, <1>7 DEF ActivityInv, JobMoved
<1>13. RowsInv(record', step') /\ DependencyOrder'
  BY <1>1, <1>9, PrepareWriteRows, OrderStep
<1> QED
  BY <1>9, <1>10, <1>11, <1>12, <1>13 DEF RecordGood, RecordInv

\* The rows after a submission: only steps that were never run are blocked.
LEMMA SubmitRows ==
  ASSUME TypeOK, RowsInv(record, step), record' = record,
         \A t \in Step : \/ step'[t] = step[t]
                         \/ step[t].status = "pending" /\ step'[t].status = "blocked"
  PROVE  RowsInv(record', step')
<1>1. ASSUME NEW t \in Step, step'[t].status \in Unresolved \cup {"succeeded"}
      PROVE  step'[t] = step[t]
  BY <1>1 DEF Unresolved
<1>2. ASSUME NEW y \in Slot, NEW o, o = record'[y].owner, o # None
      PROVE  /\ SlotOf(o) = y
             /\ \/ record'[y].status = "writing" /\ step'[o].status = "write_intent"
                \/ record'[y].status \in Verdict /\ step'[o].status = record'[y].status
                \/ record'[y].status = "succeeded" /\ KindOf[y[2]] = "update_description"
  <2>1. o \in Step /\ o = record[y].owner
    BY <1>2 DEF TypeOK, RecordRow
  <2>2. /\ SlotOf(o) = y
        /\ \/ record[y].status = "writing" /\ step[o].status = "write_intent"
           \/ record[y].status \in Verdict /\ step[o].status = record[y].status
           \/ record[y].status = "succeeded" /\ KindOf[y[2]] = "update_description"
    BY <1>2, <2>1 DEF RowsInv, RowsFollow
  <2> QED
    BY <2>1, <2>2 DEF Verdict
<1>3. ASSUME NEW t \in Step, step'[t].status \in Unresolved
      PROVE  /\ record'[SlotOf(t)] =
                  [status |-> IF step'[t].status = "unknown" THEN "unknown" ELSE "writing",
                   owner |-> t]
             /\ step'[t].worker # None
  <2>1. step'[t] = step[t] /\ step[t].status \in Unresolved
    BY <1>1, <1>3
  <2>2. /\ record[SlotOf(t)] =
             [status |-> IF step[t].status = "unknown" THEN "unknown" ELSE "writing", owner |-> t]
        /\ step[t].worker # None
    BY <2>1 DEF RowsInv, RowsFollow
  <2> QED
    BY <2>1, <2>2
<1>4. ASSUME NEW t \in Step, step'[t].status = "succeeded", KindOfStep(t) \in OneShot
      PROVE  record'[SlotOf(t)] = [status |-> "succeeded", owner |-> t]
  <2>1. step[t].status = "succeeded"
    BY <1>1, <1>4
  <2>2. record[SlotOf(t)] = [status |-> "succeeded", owner |-> t]
    BY <1>4, <2>1 DEF RowsInv
  <2> QED
    BY <2>2
<1>5. RowsFollow(record', step')
  BY <1>2, <1>3 DEF RowsFollow
<1> QED
  BY <1>3, <1>4, <1>5 DEF RowsInv

\* What a submission finds open on the objects that it will rewrite, it remembers.
LEMMA SubmitSees ==
  ASSUME TypeOK, RecordInv, NEW j \in Job, Admissible(j),
         NEW s \in StepsOf(j), NEW t \in Step, KindOfStep(s) \notin OneShot,
         SlotOf(t) = SlotOf(s), step[t].status \in Unresolved
  PROVE  LET doubts == {k \in PlanOf[j] : /\ KindOf[k] = "update_description"
                                         /\ record[<<BugOf[j], k>>].status = "unknown"}
         IN  /\ KindOfStep(s) = "update_description"
             /\ doubts # {} /\ record[<<BugOf[j], CHOOSE k \in doubts : TRUE>>].owner = t
<1> DEFINE doubts == {k \in PlanOf[j] : /\ KindOf[k] = "update_description"
                                       /\ record[<<BugOf[j], k>>].status = "unknown"}
<1>1. /\ s \in Step /\ s[1] = j /\ s[2] \in PlanOf[j] /\ s[2] \in StepKey
      /\ SlotOf(s) = <<BugOf[j], s[2]>>
  BY DEF StepsOf, Step, SlotOf
<1>2. record[SlotOf(s)] =
        [status |-> IF step[t].status = "unknown" THEN "unknown" ELSE "writing", owner |-> t]
  BY DEF RecordInv, RowsInv, RowsFollow
<1>3. record[SlotOf(s)].status \in {"unknown", "writing"} /\ record[SlotOf(s)].owner = t
  BY <1>2
<1>4. KindOf[s[2]] \in {"update_description", "update_fields"}
  BY <1>1, PlanAssumption DEF Kind, OneShot, KindOfStep
<1>5. KindOf[s[2]] = "update_description" /\ record[SlotOf(s)].status = "unknown"
  BY <1>1, <1>3, <1>4 DEF Admissible
<1>6. s[2] \in doubts
  BY <1>1, <1>5
<1>7. \A k \in doubts : k = s[2]
  BY <1>1, <1>5, PlannerAssumption
<1> HIDE DEF doubts
<1>8. (CHOOSE k \in doubts : TRUE) = s[2]
  BY <1>6, <1>7
<1> QED
  BY <1>1, <1>3, <1>5, <1>6, <1>8 DEF doubts, KindOfStep

LEMMA SubmitRecord ==
  ASSUME TypeOK, LedgerInv, RecordInv, NEW j \in Job, Submit(j)
  PROVE  RecordGood
<1> DEFINE doubts == {k \in PlanOf[j] : /\ KindOf[k] = "update_description"
                                       /\ record[<<BugOf[j], k>>].status = "unknown"}
           previous == IF doubts = {} THEN None
                       ELSE record[<<BugOf[j], CHOOSE k \in doubts : TRUE>>].owner
           known == {k \in PlanOf[j] \cup {"create_bug"} :
                       KindOf[k] \in OneShot /\ record[<<BugOf[j], k>>].status = "succeeded"}
<1>1. /\ job[j].status = "new" /\ Admissible(j) /\ record' = record
      /\ RowsInv(record, step) /\ SubmissionInv /\ DependencyOrder
      /\ \A k \in Job : job[k].status \in Active => WorkLeft(k, step)
      /\ \A k \in Job : ActivityInv(job[k])
      /\ job \in [Job -> JobRow] /\ step \in [Step -> StepRow]
  BY DEF Submit, RecordInv, TypeOK
<1>2. job' = [job EXCEPT ![j] = [@ EXCEPT !.status = "queued", !.scope = TRUE,
                                          !.mapping = known, !.previous = previous]]
  BY DEF Submit
<1> HIDE DEF doubts, previous, known
<1>3. /\ job'[j].status = "queued" /\ job'[j].previous = previous
      /\ job'[j].told = job[j].told /\ job'[j].activities = job[j].activities
      /\ \A k \in Job : k # j => job'[k] = job[k]
  BY <1>1, <1>2 DEF JobRow
<1>4. \A t \in Step : \/ step'[t] = step[t]
                      \/ /\ step[t].status = "pending" /\ step'[t].status = "blocked"
                         /\ t \in StepsOf(j) /\ HistoricalUnknown(t)
  <2> TAKE t \in Step
  <2>1. t \in StepsOf(j) => step[t].status = "pending"
    BY <1>1 DEF SubmissionInv
  <2>2. step'[t] = IF t \in StepsOf(j) /\ HistoricalUnknown(t)
                   THEN [step[t] EXCEPT !.status = "blocked"] ELSE step[t]
    BY DEF Submit
  <2> QED
    BY <1>1, <2>1, <2>2 DEF StepRow
<1>5. \A t \in Step : StepEdge(t)
  BY <1>4 DEF StepEdge, SameStep
<1>6. RowsInv(record', step') /\ DependencyOrder'
  BY <1>1, <1>4, <1>5, SubmitRows, OrderStep
<1>7. \A t \in Step : step'[t].status \in Unresolved => step[t].status \in Unresolved
  BY <1>4 DEF Unresolved
<1>8. ASSUME NEW k \in Job
      PROVE  /\ job'[k].status = "new" => \A t \in StepsOf(k) : step'[t].status = "pending"
             /\ job'[k].previous # None =>
                  \E l \in PlanOf[k] : /\ KindOf[l] = "update_description"
                                       /\ SlotOf(job'[k].previous) = <<BugOf[k], l>>
             /\ job'[k].status \in Active =>
                  \A u \in StepsOf(k), t \in Step :
                    /\ KindOfStep(u) \notin OneShot /\ SlotOf(t) = SlotOf(u) /\ t # u
                    /\ step'[t].status \in Unresolved
                    => KindOfStep(u) = "update_description" /\ t = job'[k].previous
  <2>1. CASE k # j
    <3>1. job'[k] = job[k] /\ \A t \in StepsOf(k) : step'[t] = step[t]
      BY <1>3, <1>4, <2>1, OtherSteps
    <3> QED
      BY <1>1, <1>7, <3>1 DEF SubmissionInv
  <2>2. CASE k = j
    <3>1. ASSUME previous # None
          PROVE  \E l \in PlanOf[j] : /\ KindOf[l] = "update_description"
                                      /\ SlotOf(previous) = <<BugOf[j], l>>
      <4> DEFINE l == CHOOSE k2 \in doubts : TRUE
      <4>1. doubts # {} /\ previous = record[<<BugOf[j], l>>].owner
        BY <3>1 DEF previous
      <4>2. l \in doubts
        BY <4>1
      <4> HIDE DEF l
      <4>3. l \in PlanOf[j] /\ KindOf[l] = "update_description" /\ <<BugOf[j], l>> \in Slot
        BY <4>2, JobAssumption, PlanAssumption DEF doubts, Slot
      <4>4. SlotOf(previous) = <<BugOf[j], l>>
        BY <1>1, <3>1, <4>1, <4>3 DEF RowsInv, RowsFollow
      <4> QED
        BY <4>3, <4>4
    <3>2. ASSUME NEW u \in StepsOf(j), NEW t \in Step,
                 KindOfStep(u) \notin OneShot, SlotOf(t) = SlotOf(u), t # u,
                 step'[t].status \in Unresolved
          PROVE  KindOfStep(u) = "update_description" /\ t = previous
      <4>1. /\ KindOfStep(u) = "update_description"
            /\ doubts # {} /\ record[<<BugOf[j], CHOOSE k2 \in doubts : TRUE>>].owner = t
        BY <1>1, <1>7, <3>2, SubmitSees DEF doubts
      <4> QED
        BY <4>1 DEF previous
    <3> QED
      BY <1>3, <2>2, <3>1, <3>2
  <2> QED
    BY <2>1, <2>2
<1>9. ASSUME NEW k \in Job, job'[k].status \in Active PROVE WorkLeft(k, step')
  <2>1. CASE k # j
    <3>1. WorkLeft(k, step) /\ \A t \in StepsOf(k) : step'[t] = step[t]
      BY <1>1, <1>3, <1>4, <1>9, <2>1, OtherSteps
    <3>2. \A t \in StepsOf(k) : Deps(t) \subseteq StepsOf(k)
      BY DEF Deps, StepsOf
    <3> QED
      BY <3>1, <3>2 DEF WorkLeft
  <2>2. CASE k = j
    <3>1. PICK l \in PlanOf[j] : DepsOf[l] = {} /\ KindOf[l] # "upload_attachment"
      BY PlannerAssumption
    <3> DEFINE root == <<j, l>>
    <3>2. /\ root \in Step /\ root \in StepsOf(j) /\ root[1] = j /\ root[2] = l
      BY <3>1, PlanAssumption DEF Step, StepsOf
    <3> HIDE DEF root
    <3>3. Deps(root) = {} /\ KindOfStep(root) # "upload_attachment"
      BY <3>1, <3>2 DEF Deps, KindOfStep
    <3>4. step'[root].status = "pending"
      BY <1>1, <1>4, <3>2, <3>3 DEF SubmissionInv, HistoricalUnknown
    <3> QED
      BY <2>2, <3>2, <3>3, <3>4 DEF WorkLeft
  <2> QED
    BY <2>1, <2>2
<1>10. \A k \in Job : ActivityInv(job'[k])
  BY <1>1, <1>3 DEF ActivityInv, Ended, Active
<1>11. SubmissionInv'
  BY <1>8 DEF SubmissionInv
<1> QED
  BY <1>5, <1>6, <1>9, <1>10, <1>11 DEF RecordGood, RecordInv

\* Claims, heartbeats, receipts, the clock: no step and no row changes its status.
LEMMA CalmRecord ==
  ASSUME TypeOK, RecordInv, record' = record,
         \A t \in Step : SameStep(step[t], step'[t]),
         \A k \in Job : /\ JobMoved(k, job[k], job'[k])
                        /\ \/ job'[k].status = job[k].status
                           \/ job'[k].status \in Active /\ job[k].status \in Active
  PROVE  RecordGood
<1>1. /\ RowsInv(record, step) /\ SubmissionInv /\ DependencyOrder
      /\ \A k \in Job : job[k].status \in Active => WorkLeft(k, step)
      /\ \A k \in Job : ActivityInv(job[k])
  BY DEF RecordInv
<1>2. \A t \in Step : /\ step'[t].status = step[t].status
                      /\ step'[t].worker = step[t].worker
  BY DEF SameStep
<1>3. \A k \in Job : /\ job'[k].previous = job[k].previous
                     /\ job'[k].told = job[k].told /\ job'[k].activities = job[k].activities
                     /\ job'[k].status \in Active <=> job[k].status \in Active
                     /\ job'[k].status = "new" <=> job[k].status = "new"
                     /\ Ended(job'[k]) <=> Ended(job[k])
  BY DEF JobMoved, Ended, Active
<1>4. \A k \in Job : \A t \in StepsOf(k) : t \in Step /\ Deps(t) \subseteq StepsOf(k)
  BY DEF StepsOf, Deps
<1>5. RowsInv(record', step')
  <2>1. ASSUME NEW y \in Slot, NEW o, o = record'[y].owner, o # None
        PROVE  /\ SlotOf(o) = y
               /\ \/ record'[y].status = "writing" /\ step'[o].status = "write_intent"
                  \/ record'[y].status \in Verdict /\ step'[o].status = record'[y].status
                  \/ record'[y].status = "succeeded" /\ KindOf[y[2]] = "update_description"
    <3>1. o \in Step /\ o = record[y].owner
      BY <2>1 DEF TypeOK, RecordRow
    <3>2. /\ SlotOf(o) = y
          /\ \/ record[y].status = "writing" /\ step[o].status = "write_intent"
             \/ record[y].status \in Verdict /\ step[o].status = record[y].status
             \/ record[y].status = "succeeded" /\ KindOf[y[2]] = "update_description"
      BY <1>1, <2>1, <3>1 DEF RowsInv, RowsFollow
    <3> QED
      BY <1>2, <3>1, <3>2
  <2>2. ASSUME NEW t \in Step, step'[t].status \in Unresolved
        PROVE  /\ record'[SlotOf(t)] =
                    [status |-> IF step'[t].status = "unknown" THEN "unknown" ELSE "writing",
                     owner |-> t]
               /\ step'[t].worker # None
    <3>1. /\ record[SlotOf(t)] =
               [status |-> IF step[t].status = "unknown" THEN "unknown" ELSE "writing", owner |-> t]
          /\ step[t].worker # None
      BY <1>1, <1>2, <2>2 DEF RowsInv, RowsFollow
    <3> QED
      BY <1>2, <3>1
  <2>3. ASSUME NEW t \in Step, step'[t].status = "succeeded", KindOfStep(t) \in OneShot
        PROVE  record'[SlotOf(t)] = [status |-> "succeeded", owner |-> t]
    BY <1>1, <1>2, <2>3 DEF RowsInv
  <2> QED
    BY <2>1, <2>2, <2>3 DEF RowsInv, RowsFollow
<1>6. SubmissionInv'
  BY <1>1, <1>2, <1>3, <1>4 DEF SubmissionInv
<1>7. \A k \in Job : job'[k].status \in Active => WorkLeft(k, step')
  BY <1>1, <1>2, <1>3, <1>4 DEF WorkLeft
<1>8. \A k \in Job : ActivityInv(job'[k])
  BY <1>1, <1>3 DEF ActivityInv
<1>9. \A t \in Step : StepEdge(t)
  BY DEF StepEdge
<1>10. DependencyOrder'
  BY <1>1, <1>9, OrderStep
<1> QED
  BY <1>5, <1>6, <1>7, <1>8, <1>9, <1>10 DEF RecordGood, RecordInv

-----------------------------------------------------------------------------
(* The step lemma.                                                          *)

\* Every transaction keeps the invariant, and moves a step only along its edges.
LEMMA RecordStep == TypeOK /\ LedgerInv /\ RecordInv /\ [Next]_ledger => RecordGood
<1> SUFFICES ASSUME TypeOK, LedgerInv, RecordInv, [Next]_ledger PROVE RecordGood
  OBVIOUS
<1>a. Reopened = {} /\ 1..MaxClaims \subseteq Nat
  BY LedgerStep, BoundAssumption
<1>b. job \in [Job -> JobRow] /\ step \in [Step -> StepRow]
  BY DEF TypeOK
<1>1. ASSUME NEW j \in Job, NEW w \in Worker, Claim(j, w) PROVE RecordGood
  <2>1. /\ \A k \in Job : JobMoved(k, job[k], job'[k])
        /\ \A k \in Job : \/ job'[k].status = job[k].status
                          \/ job'[k].status \in Active /\ job[k].status \in Active
    BY <1>1, <1>b DEF Claim, JobMoved, JobRow, Active
  <2>2. record' = record /\ \A t \in Step : SameStep(step[t], step'[t])
    BY <1>1 DEF Claim, SameStep
  <2> QED
    BY <2>1, <2>2, CalmRecord
<1>2. ASSUME NEW w \in Worker, ClaimNothing(w) \/ NewClaimRequest(w) PROVE RecordGood
  BY <1>2, CalmRecord DEF ClaimNothing, NewClaimRequest, JobMoved, SameStep
<1>3. ASSUME NEW j \in Job, NEW w \in Worker, NEW g \in Nat, Heartbeat(j, w, g)
      PROVE  RecordGood
  <2>1. \A k \in Job : JobMoved(k, job[k], job'[k]) /\ job'[k].status = job[k].status
    BY <1>3, <1>b DEF Heartbeat, JobMoved, JobRow
  <2>2. record' = record /\ \A t \in Step : SameStep(step[t], step'[t])
    BY <1>3 DEF Heartbeat, SameStep
  <2> QED
    BY <2>1, <2>2, CalmRecord
<1>4. ASSUME NEW s \in Step, NEW w, NEW g, NEW e \in Event, NEW v \in Verdict,
             EvidenceConfirmed(s, w, g, e, v)
      PROVE  RecordGood
  <2>1. record' = record /\ job' = job /\ \A t \in Step : SameStep(step[t], step'[t])
    BY <1>4, <1>b DEF EvidenceConfirmed, SameStep, StepRow
  <2> QED
    BY <2>1, CalmRecord DEF JobMoved
<1>5. ASSUME NEW j \in Job, ExpireRequeue(j) PROVE RecordGood
  <2>1. /\ \A k \in Job : JobMoved(k, job[k], job'[k])
        /\ \A k \in Job : \/ job'[k].status = job[k].status
                          \/ job'[k].status \in Active /\ job[k].status \in Active
    BY <1>5, <1>b DEF ExpireRequeue, Expired, JobMoved, JobRow, Active, Leased
  <2>2. record' = record /\ \A t \in Step : SameStep(step[t], step'[t])
    BY <1>5 DEF ExpireRequeue, SameStep
  <2> QED
    BY <2>1, <2>2, CalmRecord
<1>6. ASSUME Tick PROVE RecordGood
  <2>1. \A k \in Job : JobMoved(k, job[k], job'[k]) /\ job'[k].status = job[k].status
    BY <1>6, <1>b DEF Tick, JobMoved, JobRow
  <2>2. record' = record /\ \A t \in Step : SameStep(step[t], step'[t])
    BY <1>6 DEF Tick, SameStep
  <2> QED
    BY <2>1, <2>2, CalmRecord
<1>7. CASE UNCHANGED ledger
  BY <1>7, CalmRecord DEF ledger, JobMoved, SameStep
<1>8. CASE Claiming
  BY <1>1, <1>2, <1>8 DEF Claiming
<1>9. CASE Working
  <2>1. PICK w \in Worker, g \in 1..MaxClaims :
          \/ \E j \in Job : Heartbeat(j, w, g) \/ Completed(j, w, g)
          \/ \E s \in Step, r \in Request :
               \/ PrepareWrite(s, w, g, r)
               \/ PrepareNoop(s, w, g, r)
               \/ PrepareFailed(s, w, g, r)
    BY <1>9 DEF Working
  <2>2. g \in Nat
    BY <1>a
  <2>3. CASE \E j \in Job : Heartbeat(j, w, g) \/ Completed(j, w, g)
    BY <1>3, <1>a, <2>2, <2>3, CompletedRecord
  <2>4. CASE \E s \in Step, r \in Request : \/ PrepareWrite(s, w, g, r)
                                            \/ PrepareNoop(s, w, g, r)
                                            \/ PrepareFailed(s, w, g, r)
    BY <1>a, <2>2, <2>4, PrepareWriteRecord, PrepareNoopRecord, PrepareFailedRecord
  <2> QED
    BY <2>1, <2>3, <2>4
<1>10. CASE Reporting
  <2>1. PICK w \in Worker, g \in 1..MaxClaims, s \in Step, e \in Event :
          \/ PreflightFailure(s, w, g, e)
          \/ \E v \in Verdict : \/ Result(s, w, g, e, v)
                                \/ EvidenceConfirmed(s, w, g, e, v)
                                \/ EvidenceSettles(s, w, g, e, v)
    BY <1>10 DEF Reporting
  <2>2. ASSUME NEW v \in Verdict, Result(s, w, g, e, v) PROVE RecordGood
    <3>1. /\ step[s].status \in Unresolved /\ job[s[1]].status # "new"
          /\ Finish(s[1], Mapped(s, v), Recorded(s, e, v), record, {s})
      BY <2>2, StepFacts, Submitted DEF Result, CanReport, Owned
    <3> QED
      BY <1>a, <3>1, ReportedRecord
  <2>3. ASSUME NEW v \in Verdict, EvidenceSettles(s, w, g, e, v) PROVE RecordGood
    <3>1. step[s].status = "unknown"
      BY <2>3 DEF EvidenceSettles, CanSettle, Late
    <3>2. /\ step[s].status \in Unresolved /\ job[s[1]].status # "new"
          /\ Finish(s[1], Mapped(s, v), Recorded(s, e, v), record, {s})
      BY <2>3, <3>1, StepFacts, UnknownEnded, Submitted DEF EvidenceSettles, Unresolved
    <3> QED
      BY <1>a, <3>2, ReportedRecord
  <2> QED
    BY <1>4, <1>a, <2>1, <2>2, <2>3, PreflightFailureRecord
<1>11. CASE Supervising
  BY <1>5, <1>a, <1>11, SubmitRecord, CancelRecord, ExpireFinishRecord, ReconcileRecord
     DEF Supervising
<1> QED
  BY <1>6, <1>7, <1>8, <1>9, <1>10, <1>11 DEF Next

\* Nothing has been written, and no text submitted, at the beginning.
LEMMA RecordInit == Init => RecordInv
<1> SUFFICES ASSUME Init PROVE RecordInv
  OBVIOUS
<1>1. /\ \A j \in Job : /\ job[j].status = "new" /\ job[j].previous = None
                        /\ ~job[j].told /\ job[j].activities = 0
      /\ \A s \in Step : step[s].status = "pending"
      /\ \A x \in Slot : record[x].owner = None
  BY DEF Init
<1>2. RowsInv(record, step)
  <2>1. RowsFollow(record, step)
    BY <1>1 DEF RowsFollow, Unresolved
  <2> QED
    BY <1>1, <2>1 DEF RowsInv, Unresolved
<1>3. SubmissionInv
  BY <1>1 DEF SubmissionInv, StepsOf, Active
<1>4. DependencyOrder
  BY <1>1 DEF DependencyOrder, Unresolved, Success
<1> QED
  BY <1>1, <1>2, <1>3, <1>4 DEF RecordInv, ActivityInv, Active, Ended

-----------------------------------------------------------------------------
(* The theorems                                                             *)

\* The record invariant holds in every reachable state: rows follow their steps,
\* submissions know what is open on their objects, active jobs have work.
THEOREM RecordSafe == Spec => []RecordInv
<1>1. TypeOK /\ LedgerInv /\ RecordInv /\ [Next]_ledger => RecordInv'
  BY RecordStep DEF RecordGood
<1> QED
  BY <1>1, RecordInit, TypeCorrect, LedgerSafe, PTL DEF Spec

\* The local Zentao row always says of its last write what the ledger says of the
\* step, and a finished job has told the bug's activity log exactly once.
THEOREM RecordAlwaysFollows == Spec => []RecordFollowsOwner
<1>1. ASSUME TypeOK, RecordInv, NEW j \in Job
      PROVE  job[j].activities <= 1 /\ (job[j].told <=> Ended(job[j]))
  <2>1. ActivityInv(job[j]) /\ job[j].activities \in Nat
    BY <1>1 DEF RecordInv, TypeOK, JobRow
  <2> QED
    BY <2>1 DEF ActivityInv
<1>2. TypeOK /\ RecordInv => RecordFollowsOwner
  BY <1>1 DEF RecordInv, RowsInv, RecordFollowsOwner, OneActivity
<1> QED
  BY <1>2, TypeCorrect, RecordSafe, PTL

\* At most one write to a remote object has an open outcome, across all jobs.
THEOREM SlotAlwaysFenced == Spec => []SlotFence
<1>1. ASSUME RecordInv, NEW s \in Step, NEW t \in Step, SlotOf(s) = SlotOf(t),
             step[s].status \in Unresolved, step[t].status \in Unresolved
      PROVE  s = t
  <2>1. /\ record[SlotOf(s)] =
             [status |-> IF step[s].status = "unknown" THEN "unknown" ELSE "writing", owner |-> s]
        /\ record[SlotOf(t)] =
             [status |-> IF step[t].status = "unknown" THEN "unknown" ELSE "writing", owner |-> t]
    BY <1>1 DEF RecordInv, RowsInv, RowsFollow
  <2>2. record[SlotOf(s)].owner = s /\ record[SlotOf(t)].owner = t
    BY <2>1
  <2> QED
    BY <1>1, <2>2
<1>2. RecordInv => SlotFence
  BY <1>1 DEF SlotFence
<1> QED
  BY <1>2, RecordSafe, PTL

\* At most one confirmed write created a given Zentao bug or uploaded a given file.
THEOREM CreatedAtMostOnce == Spec => []OneShotOnce
<1>1. ASSUME RecordInv, NEW s \in Step, NEW t \in Step, SlotOf(s) = SlotOf(t),
             KindOfStep(s) \in OneShot,
             step[s].status = "succeeded", step[t].status = "succeeded"
      PROVE  s = t
  <2>1. KindOfStep(t) \in OneShot
    BY <1>1 DEF SlotOf, KindOfStep
  <2>2. /\ record[SlotOf(s)] = [status |-> "succeeded", owner |-> s]
        /\ record[SlotOf(t)] = [status |-> "succeeded", owner |-> t]
    BY <1>1, <2>1 DEF RecordInv, RowsInv
  <2>3. record[SlotOf(s)].owner = s /\ record[SlotOf(t)].owner = t
    BY <2>2
  <2> QED
    BY <1>1, <2>3
<1>2. RecordInv => OneShotOnce
  BY <1>1 DEF OneShotOnce
<1> QED
  BY <1>2, RecordSafe, PTL

\* Nothing is written or confirmed before everything it depends on has succeeded.
THEOREM DependenciesAlwaysFirst == Spec => []DependencyOrder
<1>1. RecordInv => DependencyOrder
  BY DEF RecordInv
<1> QED
  BY <1>1, RecordSafe, PTL

\* Among pending steps, one needs no other pending step.
LEMMA FirstPending ==
  ASSUME NEW P \in SUBSET Step, P # {}
  PROVE  \E s \in P : \A t \in P : t \notin Deps(s)
<1> DEFINE R == StrictSubsetOrdering(StepKey)
           T == {DepsOf[s[2]] : s \in P}
<1>1. IsWellFoundedOn(R, SUBSET StepKey)
  <2>1. IsWellFoundedOn(R, FiniteSubsetsOf(StepKey))
    BY FS_StrictSubsetOrderingWellFounded
  <2>2. FiniteSubsetsOf(StepKey) = SUBSET StepKey
    BY FS_FiniteSubsetsOfFinite, PlannerAssumption
  <2> HIDE DEF R
  <2> QED
    BY <2>1, <2>2
<1>2. \A s \in P : s[2] \in StepKey /\ DepsOf[s[2]] \in SUBSET StepKey
  BY StepFacts, PlanAssumption
<1>3. T \subseteq SUBSET StepKey /\ T # {}
  BY <1>2
<1>4. \E x \in T : \A y \in T : <<y, x>> \notin R
  <2> HIDE DEF R, T
  <2> QED
    BY <1>1, <1>3, WFMin
<1>5. PICK s \in P : \A t \in P : <<DepsOf[t[2]], DepsOf[s[2]]>> \notin R
  BY <1>4
<1>6. ASSUME NEW t \in P, t \in Deps(s) PROVE FALSE
  <2>1. t[2] \in DepsOf[s[2]]
    BY <1>6 DEF Deps
  <2>2. DepsOf[t[2]] \subseteq DepsOf[s[2]] /\ t[2] \notin DepsOf[t[2]]
    BY <1>2, <2>1, PlanAssumption
  <2>3. <<DepsOf[t[2]], DepsOf[s[2]]>> \in R
    BY <1>2, <2>1, <2>2 DEF StrictSubsetOrdering
  <2> QED
    BY <1>5, <2>3
<1> QED
  BY <1>5, <1>6

\* A leased job has a step that is ready to run, or one in progress.
LEMMA LeasedWork ==
  ASSUME TypeOK, LedgerInv, RecordInv, NEW j \in Job, job[j].status \in Leased
  PROVE  \E s \in StepsOf(j) : Ready(s) \/ step[s].status = "write_intent"
<1>1. /\ WorkLeft(j, step) /\ \A t \in StepsOf(j) : step[t].status # "unknown"
      /\ \A t \in StepsOf(j) : t \in Step /\ t[1] = j
  BY LeasedKnown DEF RecordInv, Leased, Active, StepsOf
<1>2. SUFFICES ASSUME \A s \in StepsOf(j) : step[s].status # "write_intent"
               PROVE  \E s \in StepsOf(j) : Ready(s)
  OBVIOUS
<1>3. CASE \E s \in StepsOf(j) : Deps(s) = {} /\ step[s].status \in {"pending", "write_intent"}
  BY <1>2, <1>3 DEF Ready
<1>4. CASE /\ \E s \in StepsOf(j) : step[s].status \in {"pending", "write_intent"}
           /\ \A s \in StepsOf(j) : step[s].status = "pending" =>
                \A d \in Deps(s) : step[d].status \notin {"failed", "blocked", "canceled"}
  <2> DEFINE P == {s \in StepsOf(j) : step[s].status = "pending"}
  <2>1. P \in SUBSET Step /\ P # {}
    BY <1>1, <1>2, <1>4
  <2>2. PICK s \in P : \A t \in P : t \notin Deps(s)
    <3> HIDE DEF P
    <3> QED
      BY <2>1, FirstPending
  <2>3. ASSUME NEW d \in Deps(s) PROVE step[d].status \in Success
    <3>1. d \in StepsOf(j) /\ d \in Step
      BY <1>1, <2>2, DepsClosed
    <3>2. step[d].status \notin {"pending", "failed", "blocked", "canceled", "unknown", "write_intent"}
      BY <1>1, <1>2, <1>4, <2>2, <3>1
    <3>3. step[d].status \in StepStatus
      BY <3>1 DEF TypeOK, StepRow
    <3> QED
      BY <3>2, <3>3 DEF StepStatus, Unresolved, Resolved, Success
  <2> QED
    BY <2>2, <2>3 DEF Ready
<1> QED
  BY <1>1, <1>3, <1>4 DEF WorkLeft

\* Nobody waits for a leased job that can neither go on nor end.
THEOREM LeasedAlwaysHasWork == Spec => []LeasedHasWork
<1>1. TypeOK /\ LedgerInv /\ RecordInv => LeasedHasWork
  BY LeasedWork DEF LeasedHasWork
<1> QED
  BY <1>1, TypeCorrect, LedgerSafe, RecordSafe, PTL

\* A settled step never changes; an unknown write is only ever settled, under the
\* worker and the claim generation of its intent, and never permitted again.
THEOREM SettledForGood == Spec => SettledStaysSettled
<1>1. ASSUME \A t \in Step : StepEdge(t)
      PROVE  \A s \in Step :
               /\ step[s].status \in Resolved => step'[s].status = step[s].status
               /\ step[s].status = "unknown" =>
                    /\ step'[s].status \in {"unknown", "succeeded", "failed"}
                    /\ step'[s].worker = step[s].worker /\ step'[s].gen = step[s].gen
  BY <1>1 DEF StepEdge, SameStep, Resolved, Verdict
<1>2. TypeOK /\ LedgerInv /\ RecordInv /\ [Next]_ledger =>
        [\A s \in Step :
           /\ step[s].status \in Resolved => step'[s].status = step[s].status
           /\ step[s].status = "unknown" =>
                /\ step'[s].status \in {"unknown", "succeeded", "failed"}
                /\ step'[s].worker = step[s].worker /\ step'[s].gen = step[s].gen]_ledger
  BY <1>1, RecordStep DEF RecordGood
<1> QED
  BY <1>2, TypeCorrect, LedgerSafe, RecordSafe, PTL DEF Spec, SettledStaysSettled

=============================================================================
