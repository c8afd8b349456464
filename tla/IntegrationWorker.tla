--------------------------- MODULE IntegrationWorker ---------------------------
(***************************************************************************)
(* The integration workers around the ledger: claim loop, lease window,    *)
(* preflight, write, durable evidence and its replay, on hosts that crash  *)
(* and restart, over calls that are delayed, lost and retried, against a   *)
(* Zentao instance that may apply a write long after its caller is gone.   *)
(*                                                                         *)
(* Every action is one await of the worker together with the transaction   *)
(* of the control plane that serves it (an action of IntegrationJob).  A   *)
(* call whose reply is lost is served and leaves the host where it was: it *)
(* asks again (request retries up to three times) or gives up, and then    *)
(* the call may still be on its way (late).                                *)
(***************************************************************************)
EXTENDS IntegrationJob

CONSTANTS
  Host,        \* replicas, each with a disk of its own
  MaxRestarts, \* bound on the restarts of one host
  Margin,      \* lease_margin_seconds, in ticks
  MaxLate      \* bound on the calls delayed beyond their caller

ASSUME HostAssumption ==
  /\ MaxRestarts \in Nat /\ Margin \in Nat /\ MaxLate \in Nat
  /\ Worker = Host \X (0..MaxRestarts)
  /\ "prepare" \in Request /\ {"result", "failure"} \subseteq Event

VARIABLES
  host,    \* one poller per host: Poller, Execution, ExecutionWindow, StepExecution
  outbox,  \* the evidence file of each host
  wire,    \* writes on their way to Zentao
  sent,    \* how often each step's write was put on the wire
  effect,  \* what Zentao did with each step's write
  late     \* calls whose caller no longer waits

vars == <<job, step, record, receipt, host, outbox, wire, sent, effect, late>>
remote == <<wire, sent, effect>>

Idle == "idle"

\* Waiting for the control plane with a claim in hand.
Calling == {"working", "asking", "sending", "evidencing", "failing"}
Busy    == Calling \cup {"decided", "permitted", "writing", "reporting", "preflight_failed"}

Evidence == [step : Step, worker : Worker, gen : 0..MaxClaims, verdict : Verdict]
Decision == {"write", "noop"}
Call     == [kind : {"prepare", "result", "failure"}, step : Step, worker : Worker,
             gen : 0..MaxClaims, with : Decision \cup Verdict]

HostRow ==
  [life : 0..MaxRestarts, pc : {Idle} \cup Busy, waiting : BOOLEAN, timer : 0..LeaseSeconds,
   job : Job \cup {None}, gen : 0..MaxClaims, window : 0..LeaseSeconds,
   step : Step \cup {None}, decision : Decision \cup {None}, limit : 0..LeaseSeconds,
   verdict : Verdict \cup {None}, beating : BOOLEAN, beat : 0..LeaseSeconds]

WorkerTypeOK ==
  /\ host \in [Host -> HostRow]
  /\ outbox \in [Host -> SUBSET Evidence]
  /\ wire \subseteq Step
  /\ sent \in [Step -> Nat]
  /\ effect \in [Step -> {"none", "applied", "rejected"}]
  /\ late \subseteq Call

Resting(life) ==
  [life |-> life, pc |-> Idle, waiting |-> FALSE, timer |-> 0, job |-> None, gen |-> 0,
   window |-> 0, step |-> None, decision |-> None, limit |-> 0, verdict |-> None,
   beating |-> FALSE, beat |-> 0]

WorkerInit ==
  /\ Init
  /\ host = [h \in Host |-> Resting(0)]
  /\ outbox = [h \in Host |-> {}]
  /\ wire = {}
  /\ sent = [s \in Step |-> 0]
  /\ effect = [s \in Step |-> "none"]
  /\ late = {}

-----------------------------------------------------------------------------
Me(h)   == <<h, host[h].life>>        \* worker_id is drawn anew at every start
At(h, pc) == host[h].pc = pc
InWindow(h) == host[h].window > 0     \* window.active()

Become(h, r) == host' = [host EXCEPT ![h] = r]
Goto(h, pc)  == Become(h, [host[h] EXCEPT !.pc = pc])

\* The execution ends, its heartbeat is canceled, the loop starts over.
Leave(h) == Become(h, Resting(host[h].life))

\* The next round of BugWorkflow.run.
NextStep(h) ==
  Become(h, [host[h] EXCEPT !.pc = "working", !.timer = 0, !.step = None, !.decision = None,
                            !.limit = 0, !.verdict = None])

\* The control plane's answer is lost: the host still waits for it.
ReplyLost(h) == UNCHANGED host

\* What the worker grants itself of a lease asked for that long ago.
Left(seconds, elapsed) ==
  IF seconds > Margin + elapsed THEN seconds - Margin - elapsed ELSE 0

-----------------------------------------------------------------------------
(* The claim loop                                                           *)

\* pending_started is taken before the first attempt and kept over retries.
SendClaim(h) ==
  /\ At(h, Idle) /\ ~host[h].waiting
  /\ Become(h, [host[h] EXCEPT !.waiting = TRUE, !.timer = 0])
  /\ UNCHANGED <<ledger, outbox, remote, late>>

ServeClaim(h) ==
  /\ At(h, Idle) /\ host[h].waiting
  /\ ClaimNothing(Me(h)) \/ \E j \in Job : Claim(j, Me(h))
  /\ UNCHANGED <<host, outbox, remote, late>>

\* The stored answer arrives; the lease it names began when it was first asked for.
ReadClaim(h) ==
  /\ At(h, Idle) /\ host[h].waiting /\ receipt[Me(h)].known
  /\ NewClaimRequest(Me(h))
  /\ IF receipt[Me(h)].job = None THEN Leave(h)
     ELSE Become(h, [Resting(host[h].life) EXCEPT
                       !.pc = "working", !.job = receipt[Me(h)].job, !.gen = receipt[Me(h)].gen,
                       !.window = Left(LeaseSeconds, host[h].timer)])
  /\ UNCHANGED <<outbox, remote, late>>

-----------------------------------------------------------------------------
(* maintain_lease, beside the job                                           *)

SendHeartbeat(h) ==
  /\ host[h].pc # Idle /\ InWindow(h) /\ ~host[h].beating
  /\ Become(h, [host[h] EXCEPT !.beating = TRUE, !.beat = 0])
  /\ UNCHANGED <<ledger, outbox, remote, late>>

\* renew never revives a window that has run out.
ServeHeartbeat(h) ==
  /\ host[h].beating
  /\ Heartbeat(host[h].job, Me(h), host[h].gen)
  /\ \/ ReplyLost(h)
     \/ Become(h, [host[h] EXCEPT !.beating = FALSE, !.beat = 0,
                     !.window = IF @ = 0 THEN 0 ELSE Left(LeaseSeconds, host[h].beat)])
  /\ UNCHANGED <<outbox, remote, late>>

\* Refused, or no answer: the window is lost.
LoseHeartbeat(h) ==
  /\ host[h].beating
  /\ Become(h, [host[h] EXCEPT !.beating = FALSE, !.beat = 0, !.window = 0])
  /\ UNCHANGED <<ledger, outbox, remote, late>>

-----------------------------------------------------------------------------
(* BugWorkflow.run: choose a step, read the remote side, decide             *)

\* A step's write may be decided, or skipped, by what the worker read; an open
\* earlier text write only when the remote text shows it was applied.
Decisions(s) ==
  CASE KindOfStep(s) \in OneShot -> {IF s[2] \in job[s[1]].mapping THEN "noop" ELSE "write"}
    [] KindOfStep(s) = "update_fields" -> Decision
    [] OTHER -> IF job[s[1]].previous = None \/ effect[job[s[1]].previous] = "applied"
                THEN Decision ELSE {}

Runnable(j) == {s \in StepsOf(j) : Ready(s)}

\* Any ready step (the code takes the first of the plan).  There always is one:
\* LeasedHasWork says that a job still leased has not run out of steps, so the
\* worker never comes to the call of completed that stands here in the code.
Look(h) ==
  /\ At(h, "working") /\ InWindow(h)
  /\ Owned(host[h].job, Me(h), host[h].gen)
  /\ \E s \in Runnable(host[h].job) :
       \/ Become(h, [host[h] EXCEPT !.pc = "preflight_failed", !.step = s])
       \/ \E d \in Decisions(s) :
            Become(h, [host[h] EXCEPT !.pc = "decided", !.step = s, !.decision = d])
  /\ UNCHANGED <<ledger, outbox, remote, late>>

\* window.active() fails where the code looks at it.
Lapse(h) ==
  /\ host[h].pc \in {"working", "decided", "preflight_failed"} /\ ~InWindow(h)
  /\ Leave(h)
  /\ UNCHANGED <<ledger, outbox, remote, late>>

-----------------------------------------------------------------------------
(* StepExecution.execute: permit, write, report                             *)

Ask(h) ==
  /\ At(h, "decided") /\ InWindow(h)
  /\ Become(h, [host[h] EXCEPT !.pc = "asking", !.timer = 0])
  /\ UNCHANGED <<ledger, outbox, remote, late>>

\* permitSeconds is what is left of the lease when the permit is given.
ServeWritePermit(h) == LET me == host[h] IN
  /\ At(h, "asking") /\ me.decision = "write"
  /\ PrepareWrite(me.step, Me(h), me.gen, "prepare")
  /\ \/ ReplyLost(h)
     \/ LET permitted == Left(job[me.job].lease, me.timer)
        IN Become(h, [me EXCEPT !.pc = "permitted", !.timer = 0,
                        !.limit = IF permitted < me.window THEN permitted ELSE me.window])
  /\ UNCHANGED <<outbox, remote, late>>

Continue(h, status) == IF status \in Leased THEN NextStep(h) ELSE Leave(h)

ServeNoop(h) == LET me == host[h] IN
  /\ At(h, "asking") /\ me.decision = "noop"
  /\ PrepareNoop(me.step, Me(h), me.gen, "prepare")
  /\ ReplyLost(h) \/ Continue(h, job'[me.job].status)
  /\ UNCHANGED <<outbox, remote, late>>

\* The intent is stored but this worker never saw the permit: it must not write,
\* and reports the outcome as unknown.
AnsweredAgain(h) ==
  Become(h, [host[h] EXCEPT !.pc = "reporting", !.timer = 0, !.verdict = "unknown"])

ServePrepareAgain(h) == LET me == host[h] IN
  /\ At(h, "asking")
  /\ PrepareReplayed(me.step, Me(h), me.gen, "prepare")
  /\ CASE step[me.step].status \in Unresolved -> AnsweredAgain(h)
       [] step[me.step].status = "failed"     -> Leave(h)
       [] OTHER                               -> NextStep(h)
  /\ UNCHANGED <<ledger, outbox, remote, late>>

\* HTTP 409: claim lost, input or target changed, an earlier outcome is open.
RefusePrepare(h) ==
  /\ At(h, "asking")
  /\ Become(h, [host[h] EXCEPT !.pc = "preflight_failed", !.timer = 0])
  /\ UNCHANGED <<ledger, outbox, remote, late>>

\* Mutant: the deadline is not looked at again after the gateway was opened.
InTimeAlways(h) == TRUE

InTime(h) == InWindow(h) /\ host[h].limit > 0

StartWrite(h) == LET me == host[h] IN
  /\ At(h, "permitted") /\ InTime(h)
  /\ Become(h, [me EXCEPT !.pc = "writing", !.limit = 0])
  /\ wire' = wire \cup {me.step}
  /\ sent' = [sent EXCEPT ![me.step] = @ + 1]
  /\ UNCHANGED <<ledger, outbox, effect, late>>

\* The lease is over (unknown), or the gateway failed before the write (failed).
NoWrite(h) ==
  /\ At(h, "permitted")
  /\ \E v \in {"failed", "unknown"} :
       Become(h, [host[h] EXCEPT !.pc = "reporting", !.limit = 0, !.verdict = v])
  /\ UNCHANGED <<ledger, outbox, remote, late>>

\* Mutant: a call that timed out is reported as a failed write.
OutcomesTimeoutFails(s) == IF effect[s] = "applied" THEN {"succeeded"} ELSE {"failed"}

\* A timeout, a lost answer or an unclear one is unknown; text and fields are
\* read back, and the fields found different are reported as a rejected write.
Outcomes(s) ==
  {"unknown"} \cup
  CASE effect[s] = "applied" /\ KindOfStep(s) = "update_fields" -> {"succeeded", "failed"}
    [] effect[s] = "applied" /\ KindOfStep(s) # "update_fields" -> {"succeeded"}
    [] effect[s] = "rejected" -> {"failed"}
    [] OTHER -> {}

EndWrite(h) == LET me == host[h] IN
  /\ At(h, "writing")
  /\ \E v \in Outcomes(me.step) : Become(h, [me EXCEPT !.pc = "reporting", !.verdict = v])
  /\ UNCHANGED <<ledger, outbox, remote, late>>

ItemOf(h) == [step |-> host[h].step, worker |-> Me(h), gen |-> host[h].gen,
              verdict |-> host[h].verdict]

\* evidence.record: on disk before the first attempt to report it.
RecordEvidence(h) ==
  /\ At(h, "reporting")
  /\ outbox' = [outbox EXCEPT ![h] = @ \cup {ItemOf(h)}]
  /\ Goto(h, "sending")
  /\ UNCHANGED <<ledger, remote, late>>

-----------------------------------------------------------------------------
(* report, and the replay of the evidence left over                         *)

Answered(it) == ResultReplayed(it.step, it.worker, it.gen, "result", it.verdict)

ResultServed(it) ==
  \/ Result(it.step, it.worker, it.gen, "result", it.verdict)
  \/ Answered(it) /\ UNCHANGED ledger

EvidenceServed(it) ==
  \/ EvidenceConfirmed(it.step, it.worker, it.gen, "result", it.verdict)
  \/ EvidenceSettles(it.step, it.worker, it.gen, "result", it.verdict)
  \/ Answered(it) /\ UNCHANGED ledger

EvidenceRefused(it) ==
  ~ \/ CanConfirm(it.step, it.worker, it.gen, "result", it.verdict)
    \/ CanSettle(it.step, it.worker, it.gen, "result")
    \/ Answered(it)

\* The answer is lost, or the evidence is acknowledged and the job goes on.
Acknowledged(h) ==
  \/ ReplyLost(h) /\ UNCHANGED outbox
  \/ /\ outbox' = [outbox EXCEPT ![h] = @ \ {ItemOf(h)}]
     /\ Continue(h, job'[host[h].job].status)

ServeResult(h) ==
  /\ At(h, "sending")
  /\ ResultServed(ItemOf(h))
  /\ Acknowledged(h)
  /\ UNCHANGED <<remote, late>>

\* Mutant: the worker moves on to the next step without a settled result.
RefuseResultGoesOn(h) ==
  /\ At(h, "sending")
  /\ NextStep(h)
  /\ UNCHANGED <<ledger, outbox, remote, late>>

\* HTTP 403, 404, 409: claim lost, access revoked, already settled.
RefuseResult(h) ==
  /\ At(h, "sending")
  /\ Goto(h, "evidencing")
  /\ UNCHANGED <<ledger, outbox, remote, late>>

ServeEvidence(h) ==
  /\ At(h, "evidencing")
  /\ EvidenceServed(ItemOf(h))
  /\ Acknowledged(h)
  /\ UNCHANGED <<remote, late>>

\* The refusal surfaces as an error of the step; its evidence stays on disk.
RefuseEvidence(h) ==
  /\ At(h, "evidencing") /\ EvidenceRefused(ItemOf(h))
  /\ Become(h, [host[h] EXCEPT !.pc = "preflight_failed", !.verdict = None])
  /\ UNCHANGED <<ledger, outbox, remote, late>>

\* replay_evidence, before every claim; what is refused or unreachable is kept.
Replay(h, it) ==
  /\ At(h, Idle) /\ it \in outbox[h]
  /\ EvidenceServed(it)
  /\ UNCHANGED outbox \/ outbox' = [outbox EXCEPT ![h] = @ \ {it}]
  /\ UNCHANGED <<host, remote, late>>

-----------------------------------------------------------------------------
(* fail_before_write                                                        *)

SendFailure(h) ==
  /\ At(h, "preflight_failed") /\ InWindow(h)
  /\ Goto(h, "failing")
  /\ UNCHANGED <<ledger, outbox, remote, late>>

ServeFailure(h) == LET me == host[h] IN
  /\ At(h, "failing")
  /\ \/ PreflightFailure(me.step, Me(h), me.gen, "failure")
     \/ Heard(me.step, "failure") /\ UNCHANGED ledger
  /\ ReplyLost(h) \/ NextStep(h)
  /\ UNCHANGED <<outbox, remote, late>>

-----------------------------------------------------------------------------
(* Failures: calls given up, hosts that crash, calls that arrive late       *)

\* The calls that may still be on their way when their caller stops waiting.
Leftover(h) == LET me == host[h] IN
  CASE me.pc = "asking"  -> {[kind |-> "prepare", step |-> me.step, worker |-> Me(h),
                              gen |-> me.gen, with |-> me.decision]}
    [] me.pc = "sending" -> {[kind |-> "result", step |-> me.step, worker |-> Me(h),
                              gen |-> me.gen, with |-> me.verdict]}
    [] me.pc = "failing" -> {[kind |-> "failure", step |-> me.step, worker |-> Me(h),
                              gen |-> me.gen, with |-> "failed"]}
    [] OTHER -> {}

Abandon(h) ==
  \/ UNCHANGED late
  \/ Cardinality(late) < MaxLate /\ late' = late \cup Leftover(h)

\* Refused, or unreachable after all attempts: the error ends the execution.
GiveUp(h) ==
  /\ host[h].pc \in Calling
  /\ Abandon(h)
  /\ Leave(h)
  /\ UNCHANGED <<ledger, outbox, remote>>

\* Memory is lost; the evidence file and the writes already sent are not.
Crash(h) ==
  /\ host[h].life < MaxRestarts
  /\ Abandon(h)
  /\ Become(h, Resting(host[h].life + 1))
  /\ UNCHANGED <<ledger, outbox, remote>>

Delivered(q) ==
  \/ q.kind = "prepare" /\ q.with = "write" /\ PrepareWrite(q.step, q.worker, q.gen, "prepare")
  \/ q.kind = "prepare" /\ q.with = "noop"  /\ PrepareNoop(q.step, q.worker, q.gen, "prepare")
  \/ q.kind = "result"  /\ Result(q.step, q.worker, q.gen, "result", q.with)
  \/ q.kind = "failure" /\ PreflightFailure(q.step, q.worker, q.gen, "failure")

ServeLate(q) ==
  /\ q \in late
  /\ Delivered(q)
  /\ late' = late \ {q}
  /\ UNCHANGED <<host, outbox, remote>>

-----------------------------------------------------------------------------
(* Zentao: a write in flight is applied, rejected or lost, at any time      *)

Land(s) ==
  /\ s \in wire
  /\ wire' = wire \ {s}
  /\ \E e \in {"applied", "rejected", effect[s]} : effect' = [effect EXCEPT ![s] = e]
  /\ UNCHANGED <<ledger, host, outbox, sent, late>>

-----------------------------------------------------------------------------
(* The control plane's own steps, and time                                  *)

ExpireJob(j) == ExpireFinish(j) \/ ExpireRequeue(j)

\* A reconciliation confirms what Zentao shows.
Supervise ==
  /\ \/ \E j \in Job : Submit(j) \/ Cancel(j) \/ ExpireJob(j)
     \/ \E s \in Step : effect[s] = "applied" /\ Reconcile(s)
  /\ UNCHANGED <<host, outbox, remote, late>>

\* Mutant: a deadline keeps counting when it has passed.
LessBelowZero(n) == n - 1

Less(n) == IF n > 0 THEN n - 1 ELSE 0
More(n) == IF n < LeaseSeconds THEN n + 1 ELSE LeaseSeconds

Timed(h) == host[h].waiting \/ host[h].pc = "asking"

Clocked(h) == InWindow(h) \/ (Timed(h) /\ host[h].timer < LeaseSeconds)

HostsOnly ==
  /\ \A j \in Job : job[j].lease = 0
  /\ \E h \in Host : Clocked(h)
  /\ UNCHANGED ledger

Elapse ==
  /\ Tick \/ HostsOnly
  /\ host' = [h \in Host |->
       [host[h] EXCEPT !.window = Less(@), !.limit = Less(@),
                       !.timer = IF Timed(h) THEN More(@) ELSE @,
                       !.beat = IF host[h].beating THEN More(@) ELSE @]]
  /\ UNCHANGED <<outbox, remote, late>>

-----------------------------------------------------------------------------
Loop(h) ==
  \/ SendClaim(h) \/ ServeClaim(h) \/ ReadClaim(h)
  \/ Look(h) \/ Lapse(h) \/ GiveUp(h)
  \/ Ask(h) \/ ServeWritePermit(h) \/ ServeNoop(h) \/ ServePrepareAgain(h) \/ RefusePrepare(h)
  \/ StartWrite(h) \/ NoWrite(h) \/ EndWrite(h) \/ RecordEvidence(h)
  \/ ServeResult(h) \/ RefuseResult(h) \/ ServeEvidence(h) \/ RefuseEvidence(h)
  \/ SendFailure(h) \/ ServeFailure(h)

Beating(h) == SendHeartbeat(h) \/ ServeHeartbeat(h) \/ LoseHeartbeat(h)

WorkerNext ==
  \/ \E h \in Host : \/ Loop(h) \/ Beating(h) \/ Crash(h)
                      \/ \E it \in outbox[h] : Replay(h, it)
  \/ \E q \in late : ServeLate(q)
  \/ \E s \in Step : Land(s)
  \/ Supervise
  \/ Elapse

WorkerSpec == WorkerInit /\ [][WorkerNext]_vars

-----------------------------------------------------------------------------
(* Fairness: a host that is up keeps running its loop and every await in it *)
(* ends (each has a timeout); the supervisor polls for expired leases; time *)
(* passes; and evidence replayed again and again is answered some time.     *)

Fairness ==
  /\ WF_vars(Elapse)
  /\ \A j \in Job : WF_vars(ExpireJob(j) /\ UNCHANGED <<host, outbox, remote, late>>)
  /\ \A h \in Host : /\ WF_vars(Loop(h))
                     /\ SF_vars(\E it \in outbox[h] : it.verdict = "succeeded" /\ Replay(h, it))

FairWorkerSpec == WorkerSpec /\ Fairness

-----------------------------------------------------------------------------
(* Properties                                                               *)

\* Whatever crashes, expires or is retried, a step's write is put on the wire once.
WriteOnce == \A s \in Step : sent[s] <= 1

\* Zentao gets one bug, and one copy of a file, however many jobs tried.
SlotAppliedOnce ==
  \A s, t \in Step :
    /\ SlotOf(s) = SlotOf(t) /\ KindOfStep(s) \in OneShot
    /\ effect[s] = "applied" /\ effect[t] = "applied"
    => s = t

\* What the ledger says is settled is what Zentao did: a success was applied, a
\* failed creation or upload never was and never will be.
ConfirmedTruth ==
  \A s \in Step :
    /\ step[s].status = "succeeded" => effect[s] = "applied"
    /\ step[s].status = "failed" /\ KindOfStep(s) \in OneShot =>
         effect[s] # "applied" /\ s \notin wire

\* A worker never believes in its claim longer than the control plane does,
\* unless the job ended under it (canceled, or its own last answer was lost).
LeaseCoversWindow ==
  \A h \in Host : LET me == host[h] IN
    InWindow(h) =>
      \/ Owned(me.job, Me(h), me.gen) /\ job[me.job].lease >= me.window
      \/ job[me.job].status \notin Active

\* A write starts under a live lease and the stored intent of that very claim,
\* though the worker asks nobody at that moment, because it never believes in its
\* claim longer than the control plane does; only a cancellation can be missed.
WriteInsideLease ==
  /\ []LeaseCoversWindow
  /\ [][\A s \in Step : sent'[s] # sent[s] =>
          \/ step[s].status = "write_intent" /\ Owned(s[1], step[s].worker, step[s].gen)
          \/ job[s[1]].canceled]_vars

\* The inductive invariants behind these properties.
\* Threads: a claim generation is in the hands of one request loop at a time, first as
\* an answer not read yet, then as the job of a busy host, in the end as one call left
\* behind; whoever has it knows of the only write of its job that can be in progress.
SameClaim(j, w, g, k, v, i) == j = k /\ w = v /\ g = i

Claimed(j, g) == g \in 1..job[j].gen

OnlyWrite(j, w, g, s) ==
  \A t \in StepsOf(j) : step[t].status = "write_intent" /\ Intent(t, w, g) => t = s

Held(w, j, g) ==
  \/ receipt[w].known /\ receipt[w].job = j /\ receipt[w].gen = g
  \/ \E h \in Host : ~At(h, Idle) /\ SameClaim(host[h].job, Me(h), host[h].gen, j, w, g)

ThreadInv ==
  /\ \A j \in Job : job[j].gen <= MaxClaims /\ (job[j].status = "new" => job[j].gen = 0)
  /\ \A h \in Host : host[h].beating => ~At(h, Idle)
  /\ \A h \in Host : LET me == host[h] IN ~At(h, Idle) =>
       /\ me.job \in Job /\ Claimed(me.job, me.gen)
       /\ IF At(h, "working") THEN me.step = None ELSE me.step \in StepsOf(me.job)
       /\ me.pc \in {"decided", "asking"} => me.decision \in Decision
       /\ me.pc \in {"reporting", "sending", "evidencing"} => me.verdict \in Verdict
       /\ ~receipt[Me(h)].known
       /\ OnlyWrite(me.job, Me(h), me.gen, me.step)
  /\ \A w \in Worker : receipt[w].known =>
       /\ w[2] <= host[w[1]].life
       /\ receipt[w].job # None =>
            /\ Claimed(receipt[w].job, receipt[w].gen)
            /\ OnlyWrite(receipt[w].job, w, receipt[w].gen, None)
  /\ \A q \in late :
       /\ Claimed(q.step[1], q.gen) /\ q.worker[2] <= host[q.worker[1]].life
       /\ OnlyWrite(q.step[1], q.worker, q.gen, q.step)
       /\ ~Held(q.worker, q.step[1], q.gen)
       /\ q.kind = "result" => q.with \in Verdict
  /\ \A q, r \in late : SameClaim(q.step[1], q.worker, q.gen, r.step[1], r.worker, r.gen) => q = r
  /\ \A h \in Host : \A it \in outbox[h] : it.gen > 0
  /\ \A s \in Step, e \in Event : Heard(s, e) => step[s].status \notin {"pending", "write_intent"}

\* Truth: what is still to be sent, in flight or done agrees with the ledger, and every
\* verdict on its way there (in a host, on its disk, in a delayed call) is true.
Permitted(s) == \E h \in Host : At(h, "permitted") /\ host[h].step = s

Untouched(s) == sent[s] = 0 /\ ~Permitted(s)

\* The write has not been applied and never will be.
Dead(s) ==
  effect[s] # "applied" /\ s \notin wire /\ ~Permitted(s) /\ step[s].status # "pending"

TrueOf(s, v) ==
  /\ v = "succeeded" => effect[s] = "applied"
  /\ v = "failed" /\ KindOfStep(s) \in OneShot => Dead(s)

\* An open earlier write of the text was seen applied before the decision was taken.
SeenBefore(s) ==
  KindOfStep(s) = "update_description" /\ job[s[1]].previous # None =>
    effect[job[s[1]].previous] = "applied"

TruthInv ==
  /\ \A s \in Step :
       /\ sent[s] = 0 => s \notin wire /\ effect[s] = "none"
       /\ s \in wire => effect[s] = "none"
       /\ step[s].status \in {"pending", "noop", "blocked", "canceled"} => Untouched(s)
       /\ TrueOf(s, step[s].status)
  /\ \A h \in Host : LET me == host[h] IN
       /\ At(h, "permitted") => sent[me.step] = 0
       /\ me.pc \in {"reporting", "sending", "evidencing"} => TrueOf(me.step, me.verdict)
       /\ me.pc \in {"decided", "asking"} => SeenBefore(me.step)
  /\ \A h, i \in Host :
       At(h, "permitted") /\ At(i, "permitted") /\ host[h].step = host[i].step => h = i
  /\ \A h \in Host : \A it \in outbox[h] : TrueOf(it.step, it.verdict)
  /\ \A q \in late : /\ q.kind = "result" => TrueOf(q.step, q.with)
                     /\ q.kind = "prepare" => SeenBefore(q.step)

\* Leases: what a host still grants itself, and what it will when it reads the answer
\* to its claim, is covered by the lease of that claim, until the job ends; an answer is
\* never older than the question; while a host holds a permit, only a cancellation ends it.
Covered(j, w, g, n) == Ended(job[j]) \/ (Owned(j, w, g) /\ job[j].lease >= n)

LeaseInv ==
  \A h \in Host : LET me == host[h]
                      answer == receipt[Me(h)] IN
    /\ InWindow(h) => ~At(h, Idle) /\ Covered(me.job, Me(h), me.gen, me.window)
    /\ At(h, Idle) /\ answer.known => me.waiting
    /\ At(h, Idle) /\ answer.known /\ answer.job # None /\ me.timer < LeaseSeconds =>
         Covered(answer.job, Me(h), answer.gen, LeaseSeconds - me.timer)
    /\ At(h, "permitted") /\ InWindow(h) =>
         \/ job[me.job].canceled
         \/ /\ Owned(me.job, Me(h), me.gen)
            /\ step[me.step].status = "write_intent" /\ Intent(me.step, Me(h), me.gen)

\* A claimed job, and with it the target, is given back in the end.
ClaimEnds ==
  \A j \in Job : job[j].status \in Leased ~> job[j].status \notin Leased

\* A success on some host's disk reaches the ledger, whatever crash, expiry or
\* cancellation came between.
SuccessRecorded ==
  \A s \in Step :
    (\E h \in Host : \E it \in outbox[h] : it.step = s /\ it.verdict = "succeeded")
      ~> step[s].status = "succeeded"

\* Does not hold: replicas never write to one Zentao instance at the same time.
\* The target is given back when a job is canceled or its lease expires, while
\* the write of the worker that held it may still be under way.
OneWriterPerTarget ==
  \A h, i \in Host :
    /\ At(h, "writing") /\ At(i, "writing")
    /\ TargetOf[host[h].job] = TargetOf[host[i].job]
    => h = i

=============================================================================
