------------------------ MODULE IntegrationTruth_proofs ------------------------
(***************************************************************************)
(* Proofs that the ledger tells the truth about Zentao, for any number of  *)
(* hosts, jobs, restarts and delayed calls: a write is sent at most once,  *)
(* what is confirmed was applied, what is reported as a failed creation or *)
(* upload never was and never will be, and Zentao gets one bug and one     *)
(* copy of a file however many jobs tried (TruthInv).  And proofs that a   *)
(* host never believes in a lease for longer than the ledger keeps it      *)
(* (LeaseInv), so that a write starts only inside it.                      *)
(***************************************************************************)
EXTENDS IntegrationWorker_proofs

-----------------------------------------------------------------------------
(* What a step of the workers moves, as far as the truth depends on it.     *)

\* Only a write that starts or lands touches Zentao's side.
LEMMA RemoteMoves ==
  ASSUME [WorkerNext]_vars
  PROVE  (\E h \in Host : StartWrite(h)) \/ (\E s \in Step : Land(s)) \/ UNCHANGED remote
<1>1. ASSUME NEW h \in Host, Loop(h), ~StartWrite(h) PROVE UNCHANGED remote
  BY <1>1 DEF Loop, SendClaim, ServeClaim, ReadClaim, Look, Lapse, GiveUp, Ask, ServeWritePermit,
       ServeNoop, ServePrepareAgain, RefusePrepare, NoWrite, EndWrite,
       RecordEvidence, ServeResult, RefuseResult, ServeEvidence, RefuseEvidence, SendFailure,
       ServeFailure
<1>2. ASSUME NEW h \in Host, Beating(h) \/ Crash(h) PROVE UNCHANGED remote
  BY <1>2 DEF Beating, Crash, SendHeartbeat, ServeHeartbeat, LoseHeartbeat
<1>3. UNCHANGED vars => UNCHANGED remote
  BY DEF vars, remote
<1> QED
  BY <1>1, <1>2, <1>3 DEF WorkerNext, Replay, ServeLate, Supervise, Elapse

\* A call is left behind by a host that waited for its answer.
LEMMA LateMoves ==
  ASSUME [WorkerNext]_vars
  PROVE  \A q \in late' : q \in late \/ \E h \in Host : q \in Leftover(h)
<1>1. ASSUME NEW h \in Host, Loop(h)
      PROVE  late' = late \/ late' = late \cup Leftover(h)
  BY <1>1 DEF Loop, SendClaim, ServeClaim, ReadClaim, Look, Lapse, GiveUp, Ask, ServeWritePermit,
       ServeNoop, ServePrepareAgain, RefusePrepare, StartWrite, NoWrite, EndWrite,
       RecordEvidence, ServeResult, RefuseResult, ServeEvidence, RefuseEvidence, SendFailure,
       ServeFailure, Abandon
<1>2. ASSUME NEW h \in Host, Beating(h) \/ Crash(h)
      PROVE  late' = late \/ late' = late \cup Leftover(h)
  BY <1>2 DEF Beating, Crash, SendHeartbeat, ServeHeartbeat, LoseHeartbeat, Abandon
<1>3. late' \subseteq late \/ \E h \in Host : late' = late \cup Leftover(h)
  BY <1>1, <1>2 DEF WorkerNext, Replay, ServeLate, Land, Supervise, Elapse, vars
<1> QED
  BY <1>3

\* With a verdict in hand, and on the way to a write.
Judging  == {"reporting", "sending", "evidencing"}
Deciding == {"decided", "asking"}

\* A permit is one just stored or one held before; a verdict is the one held before, or
\* what the host saw of its write; and a decision was taken after a look at Zentao.
TruthMove(i) ==
  /\ host'[i].pc = "permitted" =>
       host'[i].step = host[i].step /\ (At(i, "permitted") \/ ServeWritePermit(i))
  /\ host'[i].pc \in Judging =>
       \/ host'[i].verdict = "unknown"
       \/ /\ host'[i].step = host[i].step
          /\ \/ host[i].pc \in Judging /\ host'[i].verdict = host[i].verdict
             \/ At(i, "permitted") /\ host'[i].verdict = "failed"
             \/ At(i, "writing") /\ host'[i].verdict \in Outcomes(host[i].step)
  /\ host'[i].pc \in Deciding =>
       \/ host[i].pc \in Deciding /\ host'[i].step = host[i].step
       \/ /\ host'[i].step \in Step /\ SeenBefore(host'[i].step)
          /\ job[host'[i].step[1]].status # "new"

LEMMA CalmMove ==
  ASSUME NEW i \in Host, host'[i].pc = host[i].pc, host'[i].step = host[i].step,
         host'[i].verdict = host[i].verdict
  PROVE  TruthMove(i)
BY DEF TruthMove, At

LEMMA RoundMove ==
  ASSUME WorkerInv, NEW h \in Host, NextStep(h) \/ Leave(h) \/ UNCHANGED host
  PROVE  \A i \in Host : TruthMove(i)
<1>0. host \in [Host -> HostRow]
  BY DEF WorkerInv, WorkerTypeOK
<1>1. CASE UNCHANGED host
  BY <1>1, CalmMove
<1>2. CASE NextStep(h)
  <2> DEFINE new == [host[h] EXCEPT !.pc = "working", !.timer = 0, !.step = None,
                       !.decision = None, !.limit = 0, !.verdict = None]
  <2>1. new.pc = "working"
    BY <1>0 DEF HostRow
  <2>2. host' = [host EXCEPT ![h] = new]
    BY <1>2 DEF NextStep, Become
  <2> HIDE DEF new
  <2>3. host'[h] = new /\ \A i \in Host : i # h => host'[i] = host[i]
    BY <1>0, <2>2
  <2>4. TruthMove(h)
    BY <2>1, <2>3 DEF TruthMove, Judging, Deciding
  <2> QED
    BY <2>3, <2>4, CalmMove
<1>3. CASE Leave(h)
  <2>1. host'[h].pc = Idle /\ \A i \in Host : i # h => host'[i] = host[i]
    BY <1>3, LeaveMove
  <2>2. TruthMove(h)
    BY <2>1 DEF TruthMove, Judging, Deciding, Idle
  <2> QED
    BY <2>1, <2>2, CalmMove
<1> QED
  BY <1>1, <1>2, <1>3

LEMMA BecomeMove ==
  ASSUME WorkerInv, NEW h \in Host, NEW new, Become(h, new),
         new.pc = "permitted" =>
           new.step = host[h].step /\ (At(h, "permitted") \/ ServeWritePermit(h)),
         new.pc \in Judging =>
           \/ new.verdict = "unknown"
           \/ /\ new.step = host[h].step
              /\ \/ host[h].pc \in Judging /\ new.verdict = host[h].verdict
                 \/ At(h, "permitted") /\ new.verdict = "failed"
                 \/ At(h, "writing") /\ new.verdict \in Outcomes(host[h].step),
         new.pc \in Deciding =>
           \/ host[h].pc \in Deciding /\ new.step = host[h].step
           \/ /\ new.step \in Step /\ SeenBefore(new.step)
              /\ job[new.step[1]].status # "new"
  PROVE  \A i \in Host : TruthMove(i)
<1>1. host'[h] = new /\ \A i \in Host : i # h => host'[i] = host[i]
  BY DEF Become, WorkerInv, WorkerTypeOK
<1>2. TruthMove(h)
  BY <1>1 DEF TruthMove
<1> QED
  BY <1>1, <1>2, CalmMove

\* A step whose write the host decided, or found needless, was looked at.
LEMMA DecidedSeen ==
  ASSUME WorkerInv, NEW s \in Step, NEW d \in Decisions(s)
  PROVE  SeenBefore(s)
<1>1. CASE KindOfStep(s) = "update_description"
  <2>1. KindOfStep(s) \notin OneShot /\ KindOfStep(s) # "update_fields"
    BY <1>1 DEF OneShot
  <2>2. job[s[1]].previous = None \/ effect[job[s[1]].previous] = "applied"
    BY <2>1 DEF Decisions
  <2> QED
    BY <2>2 DEF SeenBefore
<1> QED
  BY <1>1 DEF SeenBefore

LEMMA TruthMoves ==
  ASSUME WorkerInv, [WorkerNext]_vars
  PROVE  \A i \in Host : TruthMove(i)
<1>0. host \in [Host -> HostRow]
  BY DEF WorkerInv, WorkerTypeOK
<1>1. ASSUME NEW h \in Host, Loop(h) \/ Beating(h) \/ Crash(h)
      PROVE  \A i \in Host : TruthMove(i)
  <2> DEFINE me == host[h]
  <2>0. me \in HostRow
    BY <1>0
  <2>1. CASE \/ ServeClaim(h) \/ Lapse(h) \/ GiveUp(h) \/ ServeNoop(h) \/ ServeResult(h)
             \/ ServeEvidence(h) \/ ServeFailure(h)
    <3>1. NextStep(h) \/ Leave(h) \/ UNCHANGED host
      BY <2>1 DEF Lapse, GiveUp, ServeClaim, ServeNoop, ServeResult, ServeEvidence, ServeFailure,
                  Acknowledged, Continue, ReplyLost
    <3> QED
      BY <3>1, RoundMove
  <2>2. CASE SendClaim(h)
    <3> DEFINE new == [me EXCEPT !.waiting = TRUE, !.timer = 0]
    <3>1. Become(h, new) /\ me.pc = Idle
      BY <2>2 DEF SendClaim, At
    <3>2. new.pc = me.pc
      BY <2>0 DEF HostRow
    <3> HIDE DEF new
    <3> QED
      BY <3>1, <3>2, BecomeMove DEF Judging, Deciding, Idle
  <2>3. CASE ReadClaim(h)
    <3>1. CASE receipt[Me(h)].job = None
      BY <2>3, <3>1, RoundMove DEF ReadClaim
    <3>2. CASE receipt[Me(h)].job # None
      <4> DEFINE new == [Resting(me.life) EXCEPT !.pc = "working", !.job = receipt[Me(h)].job,
                           !.gen = receipt[Me(h)].gen, !.window = Left(LeaseSeconds, me.timer)]
      <4>1. Become(h, new)
        BY <2>3, <3>2 DEF ReadClaim
      <4>2. new.pc = "working"
        BY DEF Resting
      <4> HIDE DEF new
      <4> QED
        BY <4>1, <4>2, BecomeMove DEF Judging, Deciding
    <3> QED
      BY <3>1, <3>2
  <2>4. CASE Look(h)
    <3>1. PICK s \in Runnable(me.job) :
            \/ Become(h, [me EXCEPT !.pc = "preflight_failed", !.step = s])
            \/ \E d \in Decisions(s) :
                 Become(h, [me EXCEPT !.pc = "decided", !.step = s, !.decision = d])
      BY <2>4 DEF Look
    <3>2. s \in Step /\ job[s[1]].status # "new"
      <4>1. ~At(h, Idle)
        BY <2>4 DEF Look, At, Idle
      <4> QED
        BY <4>1, BusyFacts DEF Runnable, StepsOf
    <3>3. CASE Become(h, [me EXCEPT !.pc = "preflight_failed", !.step = s])
      <4> DEFINE new == [me EXCEPT !.pc = "preflight_failed", !.step = s]
      <4>1. new.pc = "preflight_failed" /\ Become(h, new)
        BY <2>0, <3>3 DEF HostRow
      <4> HIDE DEF new
      <4> QED
        BY <4>1, BecomeMove DEF Judging, Deciding
    <3>4. ASSUME NEW d \in Decisions(s),
                 Become(h, [me EXCEPT !.pc = "decided", !.step = s, !.decision = d])
          PROVE  \A i \in Host : TruthMove(i)
      <4> DEFINE new == [me EXCEPT !.pc = "decided", !.step = s, !.decision = d]
      <4>1. new.pc = "decided" /\ new.step = s /\ Become(h, new)
        BY <2>0, <3>4 DEF HostRow
      <4>2. SeenBefore(s)
        BY <3>2, DecidedSeen
      <4> HIDE DEF new
      <4> QED
        BY <3>2, <4>1, <4>2, BecomeMove DEF Judging
    <3> QED
      BY <3>1, <3>3, <3>4
  <2>5. CASE Ask(h)
    <3> DEFINE new == [me EXCEPT !.pc = "asking", !.timer = 0]
    <3>1. Become(h, new) /\ me.pc \in Deciding
      BY <2>5 DEF Ask, At, Deciding
    <3>2. new.pc = "asking" /\ new.step = me.step
      BY <2>0 DEF HostRow
    <3> HIDE DEF new
    <3> QED
      BY <3>1, <3>2, BecomeMove DEF Judging
  <2>6. CASE ServeWritePermit(h)
    <3> DEFINE permitted == Left(job[me.job].lease, me.timer)
               limit == IF permitted < me.window THEN permitted ELSE me.window
               new == [me EXCEPT !.pc = "permitted", !.timer = 0, !.limit = limit]
    <3>1. UNCHANGED host \/ Become(h, new)
      BY <2>6 DEF ServeWritePermit, ReplyLost
    <3> HIDE DEF limit
    <3>2. new.pc = "permitted" /\ new.step = me.step
      BY <2>0 DEF HostRow
    <3> HIDE DEF new
    <3>3. CASE Become(h, new)
      BY <2>6, <3>2, <3>3, BecomeMove DEF Judging, Deciding
    <3> QED
      BY <3>1, <3>3, RoundMove
  <2>7. CASE ServePrepareAgain(h)
    <3> DEFINE new == [me EXCEPT !.pc = "reporting", !.timer = 0, !.verdict = "unknown"]
    <3>1. Become(h, new) \/ Leave(h) \/ NextStep(h)
      BY <2>7 DEF ServePrepareAgain, AnsweredAgain
    <3>2. new.pc = "reporting" /\ new.verdict = "unknown"
      BY <2>0 DEF HostRow
    <3> HIDE DEF new
    <3>3. CASE Become(h, new)
      BY <3>2, <3>3, BecomeMove DEF Deciding
    <3> QED
      BY <3>1, <3>3, RoundMove
  <2>8. CASE RefusePrepare(h)
    <3> DEFINE new == [me EXCEPT !.pc = "preflight_failed", !.timer = 0]
    <3>1. Become(h, new) /\ new.pc = "preflight_failed"
      BY <2>0, <2>8 DEF RefusePrepare, HostRow
    <3> HIDE DEF new
    <3> QED
      BY <3>1, BecomeMove DEF Judging, Deciding
  <2>9. CASE StartWrite(h)
    <3> DEFINE new == [me EXCEPT !.pc = "writing", !.limit = 0]
    <3>1. Become(h, new) /\ new.pc = "writing"
      BY <2>0, <2>9 DEF StartWrite, HostRow
    <3> HIDE DEF new
    <3> QED
      BY <3>1, BecomeMove DEF Judging, Deciding
  <2>10. CASE NoWrite(h)
    <3>1. PICK v \in {"failed", "unknown"} :
            Become(h, [me EXCEPT !.pc = "reporting", !.limit = 0, !.verdict = v])
      BY <2>10 DEF NoWrite
    <3> DEFINE new == [me EXCEPT !.pc = "reporting", !.limit = 0, !.verdict = v]
    <3>2. new.pc = "reporting" /\ new.verdict = v /\ new.step = me.step /\ Become(h, new)
      BY <2>0, <3>1 DEF HostRow
    <3>3. At(h, "permitted")
      BY <2>10 DEF NoWrite
    <3> HIDE DEF new
    <3> QED
      BY <3>2, <3>3, BecomeMove DEF Deciding
  <2>11. CASE EndWrite(h)
    <3>1. PICK v \in Outcomes(me.step) : Become(h, [me EXCEPT !.pc = "reporting", !.verdict = v])
      BY <2>11 DEF EndWrite
    <3> DEFINE new == [me EXCEPT !.pc = "reporting", !.verdict = v]
    <3>2. new.pc = "reporting" /\ new.verdict = v /\ new.step = me.step /\ Become(h, new)
      BY <2>0, <3>1 DEF HostRow
    <3>3. At(h, "writing")
      BY <2>11 DEF EndWrite
    <3> HIDE DEF new
    <3> QED
      BY <3>2, <3>3, BecomeMove DEF Deciding
  <2>12. CASE RecordEvidence(h) \/ RefuseResult(h)
    <3>1. PICK pc \in {"sending", "evidencing"} : Goto(h, pc)
      BY <2>12 DEF RecordEvidence, RefuseResult
    <3>2. me.pc \in Judging
      BY <2>12 DEF RecordEvidence, RefuseResult, At, Judging
    <3> DEFINE new == [me EXCEPT !.pc = pc]
    <3>3. new.pc = pc /\ new.verdict = me.verdict /\ new.step = me.step /\ Become(h, new)
      BY <2>0, <3>1 DEF HostRow, Goto
    <3> HIDE DEF new
    <3> QED
      BY <3>2, <3>3, BecomeMove DEF Deciding
  <2>13. CASE SendFailure(h)
    <3> DEFINE new == [me EXCEPT !.pc = "failing"]
    <3>1. Become(h, new) /\ new.pc = "failing"
      BY <2>0, <2>13 DEF SendFailure, Goto, HostRow
    <3> HIDE DEF new
    <3> QED
      BY <3>1, BecomeMove DEF Judging, Deciding
  <2>14. CASE RefuseEvidence(h)
    <3> DEFINE new == [me EXCEPT !.pc = "preflight_failed", !.verdict = None]
    <3>1. Become(h, new) /\ new.pc = "preflight_failed"
      BY <2>0, <2>14 DEF RefuseEvidence, HostRow
    <3> HIDE DEF new
    <3> QED
      BY <3>1, BecomeMove DEF Judging, Deciding
  <2>15. CASE SendHeartbeat(h)
    <3> DEFINE new == [me EXCEPT !.beating = TRUE, !.beat = 0]
    <3>1. Become(h, new) /\ new.pc = me.pc /\ new.step = me.step /\ new.verdict = me.verdict
      BY <2>0, <2>15 DEF SendHeartbeat, HostRow
    <3> HIDE DEF new
    <3> QED
      BY <3>1, BecomeMove DEF At
  <2>16. CASE LoseHeartbeat(h)
    <3> DEFINE new == [me EXCEPT !.beating = FALSE, !.beat = 0, !.window = 0]
    <3>1. Become(h, new) /\ new.pc = me.pc /\ new.step = me.step /\ new.verdict = me.verdict
      BY <2>0, <2>16 DEF LoseHeartbeat, HostRow
    <3> HIDE DEF new
    <3> QED
      BY <3>1, BecomeMove DEF At
  <2>17. CASE ServeHeartbeat(h)
    <3> DEFINE n == IF me.window = 0 THEN 0 ELSE Left(LeaseSeconds, me.beat)
               new == [me EXCEPT !.beating = FALSE, !.beat = 0, !.window = n]
    <3>1. UNCHANGED host \/ Become(h, new)
      BY <2>17 DEF ServeHeartbeat, ReplyLost
    <3> HIDE DEF n
    <3>2. new.pc = me.pc /\ new.step = me.step /\ new.verdict = me.verdict
      BY <2>0 DEF HostRow
    <3> HIDE DEF new
    <3>3. CASE Become(h, new)
      BY <3>2, <3>3, BecomeMove DEF At
    <3> QED
      BY <3>1, <3>3, RoundMove
  <2>18. CASE Crash(h)
    <3>1. me.life + 1 >= me.life
      BY HostFacts, HostAssumption DEF WorkerInv
    <3>2. host'[h].pc = Idle /\ \A i \in Host : i # h => host'[i] = host[i]
      BY <2>18, <3>1, RestMove DEF Crash
    <3>3. TruthMove(h)
      BY <3>2 DEF TruthMove, Judging, Deciding, Idle
    <3> QED
      BY <3>2, <3>3, CalmMove
  <2> QED
    BY <1>1, <2>1, <2>2, <2>3, <2>4, <2>5, <2>6, <2>7, <2>8, <2>9, <2>10, <2>11, <2>12, <2>13,
       <2>14, <2>15, <2>16, <2>17, <2>18 DEF Loop, Beating
<1>2. CASE Elapse
  <2> TAKE i \in Host
  <2> DEFINE me == host[i]
             timer == IF Timed(i) THEN More(me.timer) ELSE me.timer
             beat == IF me.beating THEN More(me.beat) ELSE me.beat
             new == [me EXCEPT !.window = Less(me.window), !.limit = Less(me.limit),
                               !.timer = timer, !.beat = beat]
  <2>1. host'[i] = new
    BY <1>2 DEF Elapse
  <2>2. new.pc = me.pc /\ new.step = me.step /\ new.verdict = me.verdict
    BY <1>0 DEF HostRow
  <2> QED
    BY <2>1, <2>2, CalmMove
<1>3. CASE UNCHANGED host
  BY <1>3, CalmMove
<1> QED
  BY <1>1, <1>2, <1>3 DEF WorkerNext, Replay, ServeLate, Land, Supervise, vars

-----------------------------------------------------------------------------
(* What the ledger settles is what Zentao did.                              *)

\* The earlier text write of a submitted job stays the one it saw; what newly succeeds was
\* applied; what newly fails is true of it, or no write was ever permitted.
Truthful ==
  /\ \A k \in Job : job[k].status # "new" => job'[k].previous = job[k].previous
  /\ \A t \in Step : step'[t].status = "succeeded" =>
       step[t].status = "succeeded" \/ effect[t] = "applied"
  /\ \A t \in Step : step'[t].status = "failed" =>
       step[t].status \in {"failed", "pending"} \/ TrueOf(t, "failed")

LEMMA EffectTruthful ==
  ASSUME NEW W, NEW G, NEW B, Effect(W, G, B),
         \A t \in G : effect[t] = "applied",
         \A t \in B : step[t].status = "pending" \/ TrueOf(t, "failed")
  PROVE  Truthful
BY DEF Effect, JobsKept, Newly, Truthful

\* Preparing a step that was looked at settles only an earlier text write seen applied.
LEMMA SettledSeen ==
  ASSUME NEW s \in Step, SeenBefore(s)
  PROVE  \A t \in SettledBy(s) : effect[t] = "applied"
BY DEF SettledBy, Settles, SeenBefore

\* A true verdict settles truly.
LEMMA VerdictTruthful ==
  ASSUME NEW s \in Step, NEW v, TrueOf(s, v), NEW W,
         Effect(W, {t \in {s} : v = "succeeded"}, {t \in {s} : v = "failed"})
  PROVE  Truthful
<1> DEFINE G == {t \in {s} : v = "succeeded"}
           B == {t \in {s} : v = "failed"}
<1>1. Effect(W, G, B)
  OBVIOUS
<1>2. \A t \in G : effect[t] = "applied"
  BY DEF TrueOf
<1>3. \A t \in B : TrueOf(t, "failed")
  <2> SUFFICES ASSUME v = "failed" PROVE TrueOf(s, "failed")
    OBVIOUS
  <2> QED
    OBVIOUS
<1> HIDE DEF G, B
<1> QED
  BY <1>1, <1>2, <1>3, EffectTruthful

LEMMA IdleTruthful ==
  ASSUME UNCHANGED <<job, step>>
  PROVE  Truthful
BY DEF Truthful

LEMMA LoopTruthful ==
  ASSUME WorkerInv, TruthInv, [WorkerNext]_vars, NEW h \in Host,
         Loop(h) \/ Beating(h) \/ Crash(h)
  PROVE  Truthful
<1> DEFINE me == host[h]
<1>0. /\ TypeOK /\ LedgerInv /\ RecordInv /\ ThreadInv
      /\ Me(h) \in Worker /\ "prepare" \in Request /\ "failure" \in Event
  BY HostFacts, HostAssumption DEF WorkerInv, LedgerGood
<1>1. CASE \/ SendClaim(h) \/ Look(h) \/ Lapse(h) \/ GiveUp(h) \/ Ask(h)
           \/ ServePrepareAgain(h) \/ RefusePrepare(h) \/ StartWrite(h) \/ NoWrite(h)
           \/ EndWrite(h) \/ RecordEvidence(h) \/ RefuseResult(h) \/ RefuseEvidence(h)
           \/ SendFailure(h)
  <2>1. UNCHANGED ledger
    BY ONLY <1>1 DEF SendClaim, Look, Lapse, GiveUp, Ask, ServePrepareAgain, RefusePrepare,
       StartWrite, NoWrite, EndWrite, RecordEvidence, RefuseResult, RefuseEvidence, SendFailure
  <2> QED
    BY <2>1, IdleTruthful DEF ledger
<1>2. CASE SendHeartbeat(h) \/ LoseHeartbeat(h) \/ Crash(h) \/ ReadClaim(h)
  <2>1. UNCHANGED <<job, step>>
    BY <1>2 DEF SendHeartbeat, LoseHeartbeat, Crash, ReadClaim, NewClaimRequest, ledger
  <2> QED
    BY <2>1, IdleTruthful
<1>3. CASE ServeHeartbeat(h)
  <2>1. host[h].job \in Job
    BY <1>3, BusyFacts DEF ServeHeartbeat, WorkerInv, ThreadInv
  <2>2. \E j \in Job : \E w, g : Heartbeat(j, w, g)
    BY <1>3, <2>1 DEF ServeHeartbeat
  <2>3. Effect({}, {}, {})
    BY <1>0, <2>2, IdleEffect
  <2> QED
    BY <2>3, EffectTruthful
<1>4. CASE ServeClaim(h)
  <2>1. ClaimNothing(Me(h)) \/ \E j \in Job : Claim(j, Me(h))
    BY <1>4 DEF ServeClaim
  <2>2. CASE ClaimNothing(Me(h))
    BY <2>2, IdleTruthful DEF ClaimNothing
  <2>3. ASSUME NEW j \in Job, Claim(j, Me(h)) PROVE Truthful
    <3>1. step' = step /\ \A k \in Job : job'[k].previous = job[k].previous
      BY <1>0, <2>3 DEF Claim, TypeOK, JobRow
    <3> QED
      BY <3>1 DEF Truthful
  <2> QED
    BY <2>1, <2>2, <2>3
<1>5. CASE ServeWritePermit(h) \/ ServeNoop(h)
  <2>1. /\ me.pc = "asking"
        /\ \/ PrepareWrite(me.step, Me(h), me.gen, "prepare")
           \/ PrepareNoop(me.step, Me(h), me.gen, "prepare")
    BY <1>5 DEF ServeWritePermit, ServeNoop, At
  <2>2. me.step \in Step /\ me.gen \in Nat /\ SeenBefore(me.step)
    BY <2>1, BusyFacts DEF At, Idle, TruthInv
  <2> DEFINE s == me.step
             w == Me(h)
             g == me.gen
  <2>3. /\ s \in Step /\ w \in Worker /\ g \in Nat
        /\ PrepareWrite(s, w, g, "prepare") \/ PrepareNoop(s, w, g, "prepare")
    BY <1>0, <2>1, <2>2
  <2>4. \A t \in SettledBy(s) : effect[t] = "applied"
    BY <2>2, SettledSeen
  <2>5. ASSUME NEW x \in Step, NEW y \in Worker, NEW z \in Nat, NEW r \in Request,
               PrepareWrite(x, y, z, r)
        PROVE  Effect({x}, SettledBy(x), {})
    BY <1>0, <2>5, PrepareWriteEffect
  <2>6. ASSUME NEW x \in Step, NEW y \in Worker, NEW z \in Nat, NEW r \in Request,
               PrepareNoop(x, y, z, r)
        PROVE  Effect({}, SettledBy(x), {})
    BY <1>0, <2>6, PrepareNoopEffect
  <2> HIDE DEF s, w, g
  <2>7. Effect({s}, SettledBy(s), {}) \/ Effect({}, SettledBy(s), {})
    BY <1>0, <2>3, <2>5, <2>6
  <2> QED
    BY <2>4, <2>7, EffectTruthful
<1>6. CASE ServeResult(h) \/ ServeEvidence(h)
  <2> DEFINE it == ItemOf(h)
  <2>1. /\ me.pc \in {"reporting", "sending", "evidencing"} /\ ~At(h, Idle) /\ ~At(h, "working")
        /\ ResultServed(it) \/ EvidenceServed(it)
    BY <1>6 DEF ServeResult, ServeEvidence, At, Idle
  <2>2. it.step = me.step /\ it.verdict = me.verdict /\ it.verdict \in Verdict
    BY <2>1, ItemFacts, BusyFacts
  <2>3. me.step \in Step /\ TrueOf(me.step, me.verdict)
    BY <2>1, BusyFacts DEF TruthInv
  <2> HIDE DEF it
  <2>4. Effect({}, {t \in {it.step} : it.verdict = "succeeded"},
                   {t \in {it.step} : it.verdict = "failed"})
    BY <1>0, <2>1, <2>2, <2>3, ServedEffect
  <2>5. it.step \in Step /\ TrueOf(it.step, it.verdict)
    BY <2>2, <2>3
  <2> QED
    BY <2>4, <2>5, VerdictTruthful
<1>7. CASE ServeFailure(h)
  <2>1. /\ ~At(h, Idle) /\ ~At(h, "working")
        /\ \/ PreflightFailure(me.step, Me(h), me.gen, "failure")
           \/ UNCHANGED ledger
    BY <1>7 DEF ServeFailure, At, Idle
  <2>2. CASE UNCHANGED ledger
    BY <2>2, IdleTruthful DEF ledger
  <2>3. CASE PreflightFailure(me.step, Me(h), me.gen, "failure")
    <3> DEFINE s == me.step
               w == Me(h)
               g == me.gen
    <3>1. s \in Step /\ PreflightFailure(s, w, g, "failure")
      BY <2>1, <2>3, BusyFacts
    <3> HIDE DEF s, w, g
    <3>2. Effect({}, {}, {s}) /\ step[s].status = "pending"
      BY <1>0, <3>1, PreflightEffect
    <3> QED
      BY <3>2, EffectTruthful
  <2> QED
    BY <2>1, <2>2, <2>3
<1> QED
  BY <1>1, <1>2, <1>3, <1>4, <1>5, <1>6, <1>7 DEF Loop, Beating

LEMMA LateTruthful ==
  ASSUME WorkerInv, TruthInv, NEW q \in late, ServeLate(q)
  PROVE  Truthful
<1> DEFINE s == q.step
           w == q.worker
           g == q.gen
           v == q.with
<1>0. /\ TypeOK /\ LedgerInv /\ RecordInv
      /\ "prepare" \in Request /\ "result" \in Event /\ "failure" \in Event
  BY HostAssumption DEF WorkerInv, LedgerGood
<1>1. /\ s \in Step /\ w \in Worker /\ g \in Nat
      /\ q.kind = "result" => v \in Verdict
      /\ q.kind = "result" => TrueOf(s, v)
      /\ q.kind = "prepare" => SeenBefore(s)
  BY LateFacts DEF TruthInv
<1>2. \/ q.kind = "prepare" /\ PrepareWrite(s, w, g, "prepare")
      \/ q.kind = "prepare" /\ PrepareNoop(s, w, g, "prepare")
      \/ q.kind = "result" /\ Result(s, w, g, "result", v)
      \/ PreflightFailure(s, w, g, "failure")
  BY DEF ServeLate, Delivered
<1> HIDE DEF s, w, g, v
<1>3. ASSUME NEW x \in Step, NEW y \in Worker, NEW z \in Nat, NEW r \in Request,
             PrepareWrite(x, y, z, r)
      PROVE  Effect({x}, SettledBy(x), {})
  BY <1>0, <1>3, PrepareWriteEffect
<1>4. ASSUME NEW x \in Step, NEW y \in Worker, NEW z \in Nat, NEW r \in Request,
             PrepareNoop(x, y, z, r)
      PROVE  Effect({}, SettledBy(x), {})
  BY <1>0, <1>4, PrepareNoopEffect
<1>5. CASE \/ q.kind = "prepare" /\ PrepareWrite(s, w, g, "prepare")
           \/ q.kind = "prepare" /\ PrepareNoop(s, w, g, "prepare")
  <2>1. Effect({s}, SettledBy(s), {}) \/ Effect({}, SettledBy(s), {})
    BY <1>0, <1>1, <1>3, <1>4, <1>5
  <2>2. \A t \in SettledBy(s) : effect[t] = "applied"
    BY <1>1, <1>5, SettledSeen
  <2> QED
    BY <2>1, <2>2, EffectTruthful
<1>6. CASE q.kind = "result" /\ Result(s, w, g, "result", v)
  <2>1. Effect({}, {t \in {s} : v = "succeeded"}, {t \in {s} : v = "failed"})
    BY <1>0, <1>1, <1>6, SettlingEffect
  <2> QED
    BY <1>1, <1>6, <2>1, VerdictTruthful
<1>7. CASE PreflightFailure(s, w, g, "failure")
  <2>1. Effect({}, {}, {s}) /\ step[s].status = "pending"
    BY <1>0, <1>1, <1>7, PreflightEffect
  <2> QED
    BY <2>1, EffectTruthful
<1> QED
  BY <1>2, <1>5, <1>6, <1>7

LEMMA LedgerTruth == WorkerInv /\ TruthInv /\ [WorkerNext]_vars => Truthful
<1> SUFFICES ASSUME WorkerInv, TruthInv, [WorkerNext]_vars PROVE Truthful
  OBVIOUS
<1>0. TypeOK /\ LedgerInv /\ ThreadInv
  BY DEF WorkerInv, LedgerGood
<1>1. ASSUME NEW h \in Host, Loop(h) \/ Beating(h) \/ Crash(h) PROVE Truthful
  BY <1>1, LoopTruthful
<1>2. ASSUME NEW h \in Host, NEW it \in outbox[h], Replay(h, it) PROVE Truthful
  <2>1. it.step \in Step /\ it.verdict \in Verdict /\ TrueOf(it.step, it.verdict)
    BY EvidenceFacts DEF TruthInv
  <2>2. EvidenceServed(it)
    BY <1>2 DEF Replay
  <2>3. Effect({}, {t \in {it.step} : it.verdict = "succeeded"},
                   {t \in {it.step} : it.verdict = "failed"})
    BY <1>0, <2>1, <2>2, ServedEffect
  <2> QED
    BY <2>1, <2>3, VerdictTruthful
<1>3. ASSUME NEW q \in late, ServeLate(q) PROVE Truthful
  BY <1>3, LateTruthful
<1>4. CASE (\E s \in Step : Land(s)) \/ HostsOnly \/ UNCHANGED vars
  BY <1>4, IdleTruthful DEF Land, HostsOnly, vars, ledger
<1>5. CASE Supervise
  <2>1. CASE \E j \in Job : Submit(j) \/ Cancel(j) \/ ExpireJob(j)
    <3>1. PICK j \in Job : Submit(j) \/ Cancel(j) \/ ExpireFinish(j) \/ ExpireRequeue(j)
      BY <2>1 DEF ExpireJob
    <3>2. Effect({}, {}, {})
      BY <1>0, <3>1, QuietEffect
    <3> QED
      BY <3>2, EffectTruthful
  <2>2. CASE \E s \in Step : effect[s] = "applied" /\ Reconcile(s)
    <3>1. PICK s \in Step : effect[s] = "applied" /\ Reconcile(s)
      BY <2>2
    <3>2. Effect({}, {s}, {})
      BY <1>0, <3>1, ReconcileEffect
    <3> QED
      BY <3>1, <3>2, EffectTruthful
  <2> QED
    BY <1>5, <2>1, <2>2 DEF Supervise
<1>6. CASE Tick
  <2>1. PICK j \in Job : TRUE
    BY <1>6 DEF Tick
  <2>2. Effect({}, {}, {})
    BY <1>0, <1>6, <2>1, QuietEffect
  <2> QED
    BY <2>2, EffectTruthful
<1> QED
  BY <1>1, <1>2, <1>3, <1>4, <1>5, <1>6 DEF WorkerNext, Elapse

-----------------------------------------------------------------------------
(* What was true stays true.                                                *)

TruthGood == WorkerInv /\ TruthInv /\ WriteOnce

PermittedAfter(s) == \E h \in Host : host'[h].pc = "permitted" /\ host'[h].step = s

DeadAfter(s) ==
  effect'[s] # "applied" /\ s \notin wire' /\ ~PermittedAfter(s) /\ step'[s].status # "pending"

TrueAfter(s, v) ==
  /\ v = "succeeded" => effect'[s] = "applied"
  /\ v = "failed" /\ KindOfStep(s) \in OneShot => DeadAfter(s)

SeenAfter(s) ==
  KindOfStep(s) = "update_description" /\ job'[s[1]].previous # None =>
    effect'[job'[s[1]].previous] = "applied"

\* A permit is held on from before, or it is the answer to a prepare that found the
\* step pending, and nothing else happens then.
LEMMA PermitMoves ==
  ASSUME TruthGood, [WorkerNext]_vars, NEW i \in Host, host'[i].pc = "permitted"
  PROVE  LET s == host'[i].step IN
         /\ s = host[i].step /\ s \in Step
         /\ \/ At(i, "permitted")
            \/ /\ ServeWritePermit(i) /\ UNCHANGED remote /\ ~Permitted(s) /\ sent[s] = 0
               /\ step[s].status = "pending" /\ step'[s].status = "write_intent"
               /\ \A k \in Host : k # i => host'[k] = host[k]
<1>0. /\ WorkerInv /\ TruthInv /\ Me(i) \in Worker /\ "prepare" \in Request
      /\ TypeOK /\ LedgerInv /\ RecordInv /\ host \in [Host -> HostRow]
  BY HostFacts, HostAssumption DEF TruthGood, WorkerInv, LedgerGood, WorkerTypeOK
<1>1. host'[i].step = host[i].step /\ (At(i, "permitted") \/ ServeWritePermit(i))
  BY <1>0, TruthMoves DEF TruthMove
<1>2. ~At(i, Idle) /\ ~At(i, "working")
  BY <1>1 DEF ServeWritePermit, At, Idle
<1>3. host[i].step \in Step /\ host[i].gen \in Nat
  BY <1>0, <1>2, BusyFacts
<1>4. ASSUME ServeWritePermit(i)
      PROVE  /\ UNCHANGED remote
             /\ step[host[i].step].status = "pending"
             /\ step'[host[i].step].status = "write_intent"
             /\ \A k \in Host : k # i => host'[k] = host[k]
  <2>1. PrepareWrite(host[i].step, Me(i), host[i].gen, "prepare") /\ UNCHANGED remote
    BY <1>4 DEF ServeWritePermit
  <2>2. ASSUME NEW x \in Step, NEW y \in Worker, NEW z \in Nat, NEW r \in Request,
               PrepareWrite(x, y, z, r)
        PROVE  step[x].status = "pending" /\ step'[x].status = "write_intent"
    BY <1>0, <2>2, PrepareWriteEffect
  <2>3. \A k \in Host : k # i => host'[k] = host[k]
    BY <1>0, <1>4 DEF ServeWritePermit, ReplyLost, Become
  <2> QED
    BY <1>0, <1>3, <2>1, <2>2, <2>3
<1>5. step[host[i].step].status = "pending" => Untouched(host[i].step)
  BY <1>0, <1>3 DEF TruthInv
<1> QED
  BY <1>1, <1>3, <1>4, <1>5 DEF Untouched

\* What becomes of one write in a step: it starts, it lands, or it stays as it is.
LEMMA WriteMoves ==
  ASSUME TruthGood, [WorkerNext]_vars, NEW s \in Step
  PROVE  \/ /\ sent'[s] = sent[s] /\ effect'[s] = effect[s]
            /\ s \in wire' <=> s \in wire
         \/ /\ sent[s] = 0 /\ sent'[s] = 1 /\ s \in wire' /\ effect'[s] = effect[s]
            /\ ~PermittedAfter(s)
            /\ \E h \in Host : At(h, "permitted") /\ host[h].step = s /\ host'[h].pc = "writing"
         \/ /\ s \in wire /\ s \notin wire' /\ sent'[s] = sent[s]
            /\ effect'[s] \in {"applied", "rejected", effect[s]}
<1>0. /\ WorkerInv /\ TruthInv /\ host \in [Host -> HostRow] /\ sent \in [Step -> Nat]
      /\ effect \in [Step -> {"none", "applied", "rejected"}]
  BY DEF TruthGood, WorkerInv, WorkerTypeOK
<1>1. CASE UNCHANGED remote
  BY <1>1 DEF remote
<1>2. CASE \E t \in Step : Land(t)
  <2>1. PICK t \in Step : Land(t)
    BY <1>2
  <2>2. PICK e \in {"applied", "rejected", effect[t]} : effect' = [effect EXCEPT ![t] = e]
    BY <2>1 DEF Land
  <2>3. t \in wire /\ wire' = wire \ {t} /\ sent' = sent
    BY <2>1 DEF Land
  <2> QED
    BY <1>0, <2>2, <2>3
<1>3. ASSUME NEW h \in Host, StartWrite(h)
      PROVE  \/ /\ sent'[s] = sent[s] /\ effect'[s] = effect[s]
                /\ s \in wire' <=> s \in wire
             \/ /\ sent[s] = 0 /\ sent'[s] = 1 /\ s \in wire' /\ effect'[s] = effect[s]
                /\ ~PermittedAfter(s)
                /\ At(h, "permitted") /\ host[h].step = s /\ host'[h].pc = "writing"
  <2> DEFINE t == host[h].step
  <2>1. At(h, "permitted") /\ ~At(h, Idle) /\ ~At(h, "working")
    BY <1>3 DEF StartWrite, At, Idle
  <2>2. t \in Step /\ sent[t] = 0
    BY <1>0, <2>1, BusyFacts DEF TruthInv
  <2>3. wire' = wire \cup {t} /\ sent' = [sent EXCEPT ![t] = @ + 1] /\ effect' = effect
    BY <1>3 DEF StartWrite
  <2>4. host'[h].pc = "writing"
    BY <1>0, <1>3 DEF StartWrite, Become, HostRow
  <2>5. sent'[t] = 1
    BY <1>0, <2>2, <2>3
  <2>6. ASSUME NEW i \in Host, host'[i].pc = "permitted", host'[i].step = t PROVE FALSE
    <3>1. At(i, "permitted") \/ UNCHANGED remote
      BY <2>6, PermitMoves
    <3>2. host[i].step = t
      BY <2>6, PermitMoves
    <3>3. ~UNCHANGED remote
      BY <2>2, <2>5 DEF remote
    <3>4. i = h
      BY <1>0, <2>1, <3>1, <3>2, <3>3 DEF TruthInv
    <3> QED
      BY <2>4, <2>6, <3>4
  <2> HIDE DEF t
  <2>7. CASE s = t
    BY <2>1, <2>2, <2>3, <2>4, <2>5, <2>6, <2>7 DEF PermittedAfter, t
  <2>8. CASE s # t
    BY <1>0, <2>3, <2>8
  <2> QED
    BY <2>7, <2>8
<1> QED
  BY <1>1, <1>2, <1>3, RemoteMoves

LEMMA AppliedStays ==
  ASSUME TruthGood, [WorkerNext]_vars, NEW s \in Step, effect[s] = "applied"
  PROVE  effect'[s] = "applied"
<1>1. s \notin wire /\ sent[s] # 0
  BY DEF TruthGood, TruthInv
<1> QED
  BY <1>1, WriteMoves

\* A write that was neither permitted nor put on the wire before stays so, until
\* its step is prepared.
LEMMA NoneStays ==
  ASSUME TruthGood, [WorkerNext]_vars, NEW s \in Step, ~Permitted(s), s \notin wire
  PROVE  /\ sent'[s] = sent[s] /\ effect'[s] = effect[s] /\ s \notin wire'
         /\ PermittedAfter(s) => step[s].status = "pending" /\ step'[s].status = "write_intent"
<1>1. sent'[s] = sent[s] /\ effect'[s] = effect[s] /\ s \notin wire'
  BY WriteMoves DEF Permitted
<1>2. ASSUME NEW i \in Host, host'[i].pc = "permitted", host'[i].step = s
      PROVE  step[s].status = "pending" /\ step'[s].status = "write_intent"
  BY <1>2, PermitMoves DEF Permitted
<1> QED
  BY <1>1, <1>2 DEF PermittedAfter

LEMMA DeadStays ==
  ASSUME TruthGood, [WorkerNext]_vars, NEW s \in Step, Dead(s)
  PROVE  DeadAfter(s)
<1>1. step[s].status # "pending" /\ ~Permitted(s) /\ s \notin wire /\ effect[s] # "applied"
  BY DEF Dead
<1>2. StepEdge(s)
  BY StepFrame DEF TruthGood
<1>3. step'[s].status # "pending"
  BY <1>1, <1>2 DEF StepEdge, SameStep, Verdict
<1> QED
  BY <1>1, <1>3, NoneStays DEF DeadAfter

LEMMA TrueStays ==
  ASSUME TruthGood, [WorkerNext]_vars, NEW s \in Step, NEW v, TrueOf(s, v)
  PROVE  TrueAfter(s, v)
BY AppliedStays, DeadStays DEF TrueOf, TrueAfter

LEMMA SeenStays ==
  ASSUME TruthGood, [WorkerNext]_vars, NEW s \in Step, SeenBefore(s),
         job[s[1]].status # "new"
  PROVE  SeenAfter(s)
<1>1. Truthful /\ TypeOK
  BY LedgerTruth DEF TruthGood, WorkerInv, LedgerGood
<1>2. s[1] \in Job
  BY StepFacts
<1>3. job'[s[1]].previous = job[s[1]].previous
  BY <1>1, <1>2 DEF Truthful
<1>4. job[s[1]].previous # None => job[s[1]].previous \in Step
  BY <1>1, <1>2 DEF TypeOK, JobRow
<1> DEFINE p == job[s[1]].previous
<1>5. p \in Step /\ effect[p] = "applied" => effect'[p] = "applied"
  BY AppliedStays
<1> HIDE DEF p
<1>6. p = job[s[1]].previous
  BY DEF p
<1> QED
  BY <1>3, <1>4, <1>5, <1>6 DEF SeenBefore, SeenAfter

-----------------------------------------------------------------------------
(* The truth, kept by every step.                                           *)

StepsAfter ==
  \A s \in Step :
    /\ sent'[s] = 0 => s \notin wire' /\ effect'[s] = "none"
    /\ s \in wire' => effect'[s] = "none"
    /\ step'[s].status \in {"pending", "noop", "blocked", "canceled"} =>
         sent'[s] = 0 /\ ~PermittedAfter(s)
    /\ TrueAfter(s, step'[s].status)

LEMMA StepsTruth == ASSUME TruthGood, [WorkerNext]_vars PROVE StepsAfter
<1>0. /\ WorkerInv /\ TruthInv /\ Truthful /\ sent \in [Step -> Nat]
      /\ effect \in [Step -> {"none", "applied", "rejected"}]
  BY LedgerTruth DEF TruthGood, WorkerInv, WorkerTypeOK
<1> SUFFICES ASSUME NEW s \in Step
             PROVE  /\ sent'[s] = 0 => s \notin wire' /\ effect'[s] = "none"
                    /\ s \in wire' => effect'[s] = "none"
                    /\ step'[s].status \in {"pending", "noop", "blocked", "canceled"} =>
                         sent'[s] = 0 /\ ~PermittedAfter(s)
                    /\ TrueAfter(s, step'[s].status)
  BY DEF StepsAfter
<1>1. /\ sent[s] = 0 => s \notin wire /\ effect[s] = "none"
      /\ s \in wire => effect[s] = "none"
      /\ step[s].status \in {"pending", "noop", "blocked", "canceled"} => Untouched(s)
      /\ TrueOf(s, step[s].status)
  BY <1>0 DEF TruthInv
<1>2. StepEdge(s)
  BY StepFrame DEF TruthGood
\* One that may still be written, or never will be, is untouched.
<1>3. ASSUME step'[s].status \in {"pending", "noop", "blocked", "canceled"}
      PROVE  sent'[s] = 0 /\ ~PermittedAfter(s)
  <2>1. step[s].status \in {"pending", "noop", "blocked", "canceled"}
    BY <1>2, <1>3 DEF StepEdge, SameStep, Verdict
  <2>2. sent[s] = 0 /\ ~Permitted(s) /\ s \notin wire
    BY <1>1, <2>1 DEF Untouched
  <2> QED
    BY <1>3, <2>2, NoneStays
<1>4. sent'[s] = 0 => s \notin wire' /\ effect'[s] = "none"
  BY <1>1, WriteMoves
<1>5. s \in wire' => effect'[s] = "none"
  BY <1>1, WriteMoves
<1>6. step'[s].status = "succeeded" => effect'[s] = "applied"
  <2>1. step'[s].status = "succeeded" => effect[s] = "applied"
    BY <1>0, <1>1 DEF Truthful, TrueOf
  <2> QED
    BY <2>1, AppliedStays
<1>7. ASSUME step'[s].status = "failed", KindOfStep(s) \in OneShot PROVE DeadAfter(s)
  <2>1. step[s].status \in {"failed", "pending"} \/ TrueOf(s, "failed")
    BY <1>0, <1>7 DEF Truthful
  <2>2. CASE step[s].status = "pending"
    <3>1. ~Permitted(s) /\ s \notin wire /\ effect[s] = "none"
      BY <1>1, <2>2 DEF Untouched
    <3> QED
      BY <1>7, <3>1, NoneStays DEF DeadAfter
  <2>3. CASE step[s].status = "failed" \/ TrueOf(s, "failed")
    <3>1. Dead(s)
      BY <1>1, <1>7, <2>3 DEF TrueOf
    <3> QED
      BY <3>1, DeadStays
  <2> QED
    BY <2>1, <2>2, <2>3
<1> QED
  BY <1>3, <1>4, <1>5, <1>6, <1>7 DEF TrueAfter

\* What a write that ended tells its host is true.
LEMMA OutcomeTrue ==
  ASSUME TruthGood, NEW s \in Step, NEW v \in Outcomes(s)
  PROVE  TrueOf(s, v)
<1>0. TruthInv
  BY DEF TruthGood
<1>1. v = "succeeded" => effect[s] = "applied"
  BY DEF Outcomes
<1>2. ASSUME v = "failed", KindOfStep(s) \in OneShot PROVE Dead(s)
  <2>1. KindOfStep(s) # "update_fields"
    BY <1>2 DEF OneShot
  <2>2. effect[s] = "rejected"
    BY <1>2, <2>1 DEF Outcomes
  <2>3. s \notin wire /\ sent[s] # 0 /\ step[s].status # "pending"
    BY <1>0, <2>2 DEF TruthInv, Untouched
  <2>4. ~Permitted(s)
    BY <1>0, <2>3 DEF TruthInv, Permitted
  <2> QED
    BY <2>2, <2>3, <2>4 DEF Dead
<1> QED
  BY <1>1, <1>2 DEF TrueOf

\* A host that gives a permit back unused is right that nothing was written.
LEMMA UnusedTrue ==
  ASSUME TruthGood, [WorkerNext]_vars, NEW i \in Host, At(i, "permitted"),
         host'[i].pc \in Judging
  PROVE  host[i].step \in Step /\ DeadAfter(host[i].step)
<1> DEFINE s == host[i].step
<1>0. WorkerInv /\ TruthInv
  BY DEF TruthGood
<1>1. s \in Step /\ sent[s] = 0
  BY <1>0, BusyFacts DEF At, Idle, TruthInv
<1>2. s \notin wire /\ effect[s] = "none" /\ step[s].status # "pending"
  BY <1>0, <1>1 DEF TruthInv, Untouched, Permitted
<1>3. \A h \in Host : At(h, "permitted") /\ host[h].step = s => h = i
  BY <1>0 DEF TruthInv
<1>4. StepEdge(s)
  BY <1>0, <1>1, StepFrame
<1>5. step'[s].status # "pending"
  BY <1>2, <1>4 DEF StepEdge, SameStep, Verdict
<1>6. ~PermittedAfter(s)
  <2> SUFFICES ASSUME NEW k \in Host, host'[k].pc = "permitted", host'[k].step = s PROVE FALSE
    BY DEF PermittedAfter
  <2>1. host[k].step = s /\ (At(k, "permitted") \/ step[s].status = "pending")
    BY PermitMoves
  <2>2. k = i
    BY <1>2, <1>3, <2>1
  <2> QED
    BY <2>2 DEF Judging
<1>7. effect'[s] # "applied" /\ s \notin wire'
  BY <1>1, <1>2, <1>3, WriteMoves DEF Judging
<1> QED
  BY <1>1, <1>5, <1>6, <1>7 DEF DeadAfter

HostAfter(i) ==
  /\ host'[i].pc = "permitted" => sent'[host'[i].step] = 0
  /\ host'[i].pc \in Judging => TrueAfter(host'[i].step, host'[i].verdict)
  /\ host'[i].pc \in Deciding => SeenAfter(host'[i].step)

LEMMA HostTruth == ASSUME TruthGood, [WorkerNext]_vars, NEW i \in Host PROVE HostAfter(i)
<1>0. WorkerInv /\ TruthInv /\ TruthMove(i)
  BY TruthMoves DEF TruthGood
<1>1. ASSUME host'[i].pc = "permitted" PROVE sent'[host'[i].step] = 0
  <2> DEFINE s == host'[i].step
  <2>1. s \in Step /\ PermittedAfter(s)
    BY <1>1, PermitMoves DEF PermittedAfter
  <2>2. sent[s] = 0
    BY <1>0, <1>1, PermitMoves DEF TruthInv
  <2> HIDE DEF s
  <2>3. s \notin wire
    BY <1>0, <2>1, <2>2 DEF TruthInv
  <2>4. sent'[s] = 0
    BY <2>1, <2>2, <2>3, WriteMoves
  <2> QED
    BY <2>4 DEF s
<1>2. ASSUME host'[i].pc \in Judging PROVE TrueAfter(host'[i].step, host'[i].verdict)
  <2> DEFINE s == host[i].step
             v == host'[i].verdict
  <2>1. CASE v = "unknown"
    BY <2>1 DEF TrueAfter
  <2>2. CASE host'[i].step = s /\ host[i].pc \in Judging /\ v = host[i].verdict
    <3>1. s \in Step /\ TrueOf(s, v)
      BY <1>0, <2>2, BusyFacts DEF Judging, At, Idle, TruthInv
    <3> HIDE DEF s, v
    <3>2. TrueAfter(s, v)
      BY <3>1, TrueStays
    <3> QED
      BY <2>2, <3>2 DEF v
  <2>3. CASE host'[i].step = s /\ At(i, "permitted") /\ v = "failed"
    <3>1. DeadAfter(s)
      BY <1>2, <2>3, UnusedTrue
    <3> QED
      BY <2>3, <3>1 DEF TrueAfter
  <2>4. CASE host'[i].step = s /\ At(i, "writing") /\ v \in Outcomes(s)
    <3>1. s \in Step
      BY <1>0, <2>4, BusyFacts DEF At, Idle
    <3> HIDE DEF s, v
    <3>2. TrueOf(s, v)
      BY <2>4, <3>1, OutcomeTrue
    <3>3. TrueAfter(s, v)
      BY <3>1, <3>2, TrueStays
    <3> QED
      BY <2>4, <3>3 DEF v
  <2> QED
    BY <1>0, <1>2, <2>1, <2>2, <2>3, <2>4 DEF TruthMove
<1>3. ASSUME host'[i].pc \in Deciding PROVE SeenAfter(host'[i].step)
  <2> DEFINE s == host'[i].step
  <2>1. s \in Step /\ SeenBefore(s) /\ job[s[1]].status # "new"
    <3>1. CASE host[i].pc \in Deciding /\ s = host[i].step
      BY <1>0, <3>1, BusyFacts DEF Deciding, At, Idle, TruthInv
    <3> QED
      BY <1>0, <1>3, <3>1 DEF TruthMove
  <2> HIDE DEF s
  <2>2. SeenAfter(s)
    BY <2>1, SeenStays
  <2> QED
    BY <2>2 DEF s
<1> QED
  BY <1>1, <1>2, <1>3 DEF HostAfter

\* No two hosts hold a permit for one step.
OnePermitAfter ==
  \A h, i \in Host :
    host'[h].pc = "permitted" /\ host'[i].pc = "permitted" /\ host'[h].step = host'[i].step => h = i

LEMMA OnePermit == ASSUME TruthGood, [WorkerNext]_vars PROVE OnePermitAfter
<1> SUFFICES ASSUME NEW h \in Host, NEW i \in Host, host'[h].pc = "permitted",
                    host'[i].pc = "permitted", host'[h].step = host'[i].step
             PROVE  h = i
  BY DEF OnePermitAfter
<1>1. host[h].step = host[i].step
  BY PermitMoves
<1>2. CASE At(h, "permitted") /\ At(i, "permitted")
  BY <1>1, <1>2 DEF TruthGood, TruthInv
<1>3. CASE ServeWritePermit(h) /\ ServeWritePermit(i)
  <2>1. SUFFICES ASSUME h # i PROVE FALSE
    OBVIOUS
  <2>2. host'[i] = host[i]
    BY <1>3, <2>1, PermitMoves DEF ServeWritePermit, At
  <2> QED
    BY <1>3, <2>2 DEF ServeWritePermit, At
<1> QED
  BY <1>1, <1>2, <1>3, PermitMoves DEF Permitted

CallsAfter ==
  /\ \A h \in Host : \A it \in outbox'[h] : TrueAfter(it.step, it.verdict)
  /\ \A q \in late' : /\ q.kind = "result" => TrueAfter(q.step, q.with)
                      /\ q.kind = "prepare" => SeenAfter(q.step)

\* What hosts have on disk, and what they left behind, comes from their verdicts.
LEMMA CallsTruth == ASSUME TruthGood, [WorkerNext]_vars PROVE CallsAfter
<1>0. WorkerInv /\ TruthInv /\ outbox \in [Host -> SUBSET Evidence]
  BY DEF TruthGood, WorkerInv, WorkerTypeOK
<1>1. ASSUME NEW h \in Host, NEW it \in outbox'[h]
      PROVE  it.step \in Step /\ TrueOf(it.step, it.verdict)
  <2>1. it \in outbox[h] \/ (host[h].pc = "reporting" /\ it = ItemOf(h))
    BY <1>0, OutboxMoves
  <2>2. CASE it \in outbox[h]
    BY <1>0, <2>2, EvidenceFacts DEF TruthInv
  <2>3. CASE host[h].pc = "reporting" /\ it = ItemOf(h)
    <3>1. it.step = host[h].step /\ it.verdict = host[h].verdict
      BY <1>0, <2>3, ItemFacts
    <3>2. host[h].step \in Step /\ TrueOf(host[h].step, host[h].verdict)
      BY <1>0, <2>3, BusyFacts DEF At, Idle, TruthInv
    <3> QED
      BY <3>1, <3>2
  <2> QED
    BY <2>1, <2>2, <2>3
<1>2. ASSUME NEW q \in late'
      PROVE  /\ q.step \in Step
             /\ q.kind = "result" => TrueOf(q.step, q.with)
             /\ q.kind = "prepare" => SeenBefore(q.step) /\ job[q.step[1]].status # "new"
  <2>1. CASE q \in late
    BY <1>0, <2>1, LateFacts DEF TruthInv
  <2>2. ASSUME NEW h \in Host, q \in Leftover(h)
        PROVE  /\ q.step \in Step
               /\ q.kind = "result" => TrueOf(q.step, q.with)
               /\ q.kind = "prepare" => SeenBefore(q.step) /\ job[q.step[1]].status # "new"
    <3>1. /\ ~At(h, Idle) /\ q.step = host[h].step
          /\ q.kind = "result" => q.with = host[h].verdict /\ At(h, "sending")
          /\ q.kind = "prepare" => At(h, "asking")
      BY <1>0, <2>2, LeftoverFacts
    <3>2. ~At(h, "working")
      BY <2>2 DEF Leftover, At
    <3>3. host[h].step \in Step /\ job[host[h].step[1]].status # "new"
      BY <1>0, <3>1, <3>2, BusyFacts
    <3>4. /\ At(h, "sending") => TrueOf(host[h].step, host[h].verdict)
          /\ At(h, "asking") => SeenBefore(host[h].step)
      BY <1>0 DEF TruthInv, At
    <3> QED
      BY <3>1, <3>3, <3>4
  <2> QED
    BY <2>1, <2>2, LateMoves
<1>3. ASSUME NEW h \in Host, NEW it \in outbox'[h] PROVE TrueAfter(it.step, it.verdict)
  <2> DEFINE s == it.step
             v == it.verdict
  <2>1. s \in Step /\ TrueOf(s, v)
    BY <1>1, <1>3
  <2> HIDE DEF s, v
  <2>2. TrueAfter(s, v)
    BY <2>1, TrueStays
  <2> QED
    BY <2>2 DEF s, v
<1>4. ASSUME NEW q \in late', q.kind = "result" PROVE TrueAfter(q.step, q.with)
  <2> DEFINE s == q.step
             v == q.with
  <2>1. s \in Step /\ TrueOf(s, v)
    BY <1>2, <1>4
  <2> HIDE DEF s, v
  <2>2. TrueAfter(s, v)
    BY <2>1, TrueStays
  <2> QED
    BY <2>2 DEF s, v
<1>5. ASSUME NEW q \in late', q.kind = "prepare" PROVE SeenAfter(q.step)
  <2> DEFINE s == q.step
  <2>1. s \in Step /\ SeenBefore(s) /\ job[s[1]].status # "new"
    BY <1>2, <1>5
  <2> HIDE DEF s
  <2>2. SeenAfter(s)
    BY <2>1, SeenStays
  <2> QED
    BY <2>2 DEF s
<1> QED
  BY <1>3, <1>4, <1>5 DEF CallsAfter

LEMMA TruthStep == TruthGood /\ [WorkerNext]_vars => TruthGood'
<1> SUFFICES ASSUME TruthGood, [WorkerNext]_vars PROVE TruthGood'
  OBVIOUS
<1>1. WorkerInv'
  BY WorkerStep DEF TruthGood
<1>2. WriteOnce'
  <2>1. \A s \in Step : sent[s] <= 1 /\ sent[s] \in Nat
    BY DEF TruthGood, WriteOnce, WorkerInv, WorkerTypeOK
  <2>2. \A s \in Step : sent'[s] <= 1
    BY <2>1, WriteMoves
  <2> QED
    BY <2>2 DEF WriteOnce
<1>3. /\ StepsAfter /\ OnePermitAfter /\ CallsAfter
      /\ \A i \in Host : HostAfter(i)
  BY StepsTruth, OnePermit, CallsTruth, HostTruth
<1>4. TruthInv'
  BY <1>3 DEF TruthInv, StepsAfter, OnePermitAfter, CallsAfter, HostAfter, TrueAfter, SeenAfter,
    DeadAfter, PermittedAfter, TrueOf, SeenBefore, Dead, Permitted, Untouched, At, Judging, Deciding
<1> QED
  BY <1>1, <1>2, <1>4 DEF TruthGood

LEMMA TruthStart == WorkerInit => TruthGood
<1> SUFFICES ASSUME WorkerInit PROVE TruthGood
  OBVIOUS
<1>1. WorkerInv
  BY WorkerStart
<1>2. /\ wire = {} /\ late = {} /\ \A h \in Host : outbox[h] = {} /\ host[h].pc = Idle
      /\ \A s \in Step : sent[s] = 0 /\ effect[s] = "none" /\ step[s].status = "pending"
  BY DEF WorkerInit, Init, Resting
<1>3. WriteOnce
  BY <1>2 DEF WriteOnce
<1>4. \A s \in Step : Untouched(s) /\ TrueOf(s, step[s].status)
  BY <1>2 DEF Untouched, Permitted, TrueOf, At, Idle
<1>5. TruthInv
  BY <1>2, <1>4 DEF TruthInv, At, Idle
<1> QED
  BY <1>1, <1>3, <1>5 DEF TruthGood

\* Every verdict on its way to the ledger is true of Zentao, and stays true: what is
\* still to be sent, in flight or done agrees with what the ledger knows of it.
THEOREM VerdictsStayTrue == WorkerSpec => []TruthInv
<1>1. TruthGood => TruthInv
  BY DEF TruthGood
<1> QED
  BY <1>1, TruthStart, TruthStep, PTL DEF WorkerSpec

\* Whatever crashes, expires or is retried, a step's write is put on the wire once.
THEOREM WrittenOnce == WorkerSpec => []WriteOnce
<1>1. TruthGood => WriteOnce
  BY DEF TruthGood
<1> QED
  BY <1>1, TruthStart, TruthStep, PTL DEF WorkerSpec

\* Zentao gets one bug, and one copy of a file, however many jobs of the bug tried to
\* create or upload it: what was applied still holds the bug's row.
THEOREM SlotsAppliedOnce == WorkerSpec => []SlotAppliedOnce
<1>1. ASSUME TruthGood, NEW s \in Step, effect[s] = "applied", KindOfStep(s) \in OneShot
      PROVE  record[SlotOf(s)].owner = s
  <2>1. TypeOK /\ RowsInv(record, step) /\ TruthInv
    BY <1>1 DEF TruthGood, WorkerInv, LedgerGood, RecordInv
  <2>2. step[s].status \in StepStatus
    BY <2>1 DEF TypeOK, StepRow
  <2>3. step[s].status \notin {"pending", "noop", "blocked", "canceled", "failed"}
    BY <1>1, <2>1 DEF TruthInv, Untouched, TrueOf, Dead
  <2>4. step[s].status \in Unresolved \/ step[s].status = "succeeded"
    BY <2>2, <2>3 DEF StepStatus, Resolved
  <2>5. CASE step[s].status \in Unresolved
    <3>1. \E status : record[SlotOf(s)] = [status |-> status, owner |-> s]
      BY <2>1, <2>5 DEF RowsInv, RowsFollow
    <3> QED
      BY <3>1
  <2>6. CASE step[s].status = "succeeded"
    <3>1. record[SlotOf(s)] = [status |-> "succeeded", owner |-> s]
      BY <1>1, <2>1, <2>6 DEF RowsInv
    <3> QED
      BY <3>1
  <2> QED
    BY <2>4, <2>5, <2>6
<1>2. TruthGood => SlotAppliedOnce
  BY <1>1 DEF SlotAppliedOnce, KindOfStep, SlotOf
<1> QED
  BY <1>2, TruthStart, TruthStep, PTL DEF WorkerSpec

\* What the ledger says is settled is what Zentao did: a success was applied, a failed
\* creation or upload never was and never will be.
THEOREM ConfirmedIsTrue == WorkerSpec => []ConfirmedTruth
<1>1. TruthGood => ConfirmedTruth
  BY DEF TruthGood, TruthInv, TrueOf, Dead, ConfirmedTruth
<1> QED
  BY <1>1, TruthStart, TruthStep, PTL DEF WorkerSpec

-----------------------------------------------------------------------------
(* Leases: what a step of the ledger leaves of a claim and of its write.    *)

\* A live claim goes on with all of its lease, unless its job ends.
LeaseKept(k) ==
  /\ job[k].canceled => job'[k].canceled
  /\ job[k].status \in Leased /\ job[k].lease > 0 =>
       \/ Ended(job'[k])
       \/ /\ job'[k].status \in Leased /\ job'[k].lease >= job[k].lease
          /\ job'[k].worker = job[k].worker /\ job'[k].gen = job[k].gen

\* A write in progress stays so, unless it is in X or its job is cut off.
IntentKept(X) ==
  \A s \in Step : step[s].status = "write_intent" =>
    s \in X \/ SameStep(step[s], step'[s]) \/ job'[s[1]].canceled \/ job[s[1]].lease = 0

Undisturbed(X) == (\A k \in Job : LeaseKept(k)) /\ IntentKept(X)

LEMMA ClosingLease ==
  ASSUME NEW j \in Job, NEW jb \in JobRow, NEW st,
         Closing(j, jb, st).status \in Active
  PROVE  Closing(j, jb, st).lease = jb.lease
<1> DEFINE states == {st[s].status : s \in StepsOf(j)}
           status == Aggregate(states, jb.canceled)
           set == IF status \in Active THEN [jb EXCEPT !.status = status]
                  ELSE [jb EXCEPT !.status = status, !.scope = FALSE, !.target = FALSE, !.lease = 0]
<1>1. Closing(j, jb, st) = Told(j, set, states, status)
  BY DEF Closing
<1>2. set.status = status /\ (status \in Active => set.lease = jb.lease)
  BY DEF JobRow
<1>3. set \in JobRow
  <2>0. 0 \in 0..LeaseSeconds
    BY BoundAssumption
  <2>1. status \in JobStatus
    <3>1. jb.canceled \in BOOLEAN
      BY DEF JobRow
    <3>2. \A x : Aggregate(x, jb.canceled) \in JobStatus
      BY <3>1, AggregateFacts DEF JobStatus, Active
    <3> QED
      BY <3>2
  <2> HIDE DEF status
  <2> QED
    BY <2>0, <2>1 DEF JobRow
<1> HIDE DEF set, status, states
<1>4. /\ Told(j, set, states, status).status = set.status
      /\ Told(j, set, states, status).lease = set.lease
  BY <1>3, ToldFacts
<1> QED
  BY <1>1, <1>2, <1>4

\* finish gives back the lease of a job only when it ends the job.
LEMMA FinishLeases ==
  ASSUME NEW j \in Job, NEW jbs \in [Job -> JobRow], NEW st \in [Step -> StepRow],
         NEW rec, NEW S, NEW X, Finish(j, jbs, st, rec, S),
         \A k \in Job : job[k].canceled => jbs[k].canceled,
         /\ jbs[j].lease = job[j].lease
         /\ jbs[j].worker = job[j].worker /\ jbs[j].gen = job[j].gen,
         \A k \in Job \ {j} : LET old == job[k] IN
           \/ Ended(jbs[k])
           \/ /\ jbs[k].status = old.status /\ jbs[k].lease = old.lease
              /\ jbs[k].worker = old.worker /\ jbs[k].gen = old.gen,
         \A s \in Step : step[s].status = "write_intent" =>
           \/ s \in X \/ SameStep(step[s], st[s])
           \/ jbs[s[1]].canceled \/ job[s[1]].lease = 0,
         TypeOK
  PROVE  Undisturbed(X)
<1> DEFINE final == Blocking(j, st)
           jb == jbs[j]
           new == Closing(j, jb, final)
<1>1. step' = final /\ job'[j] = new /\ \A k \in Job \ {j} : job'[k] = jbs[k]
  BY DEF Finish
<1>2. /\ final \in [Step -> StepRow]
      /\ \A s \in Step : final[s] = st[s] \/ st[s].status = "pending"
  BY BlockingFacts
<1>3. jb \in JobRow
  OBVIOUS
<1> HIDE DEF final, jb
<1>4. /\ new.status = Aggregate({final[s].status : s \in StepsOf(j)}, jb.canceled)
      /\ new.worker = jb.worker /\ new.gen = jb.gen /\ new.canceled = jb.canceled
  BY <1>2, <1>3, ClosingFacts
<1>5. Ended(new) \/ new.status = "running"
  BY <1>3, <1>4, AggregateFacts DEF Ended, Active, JobRow
<1>6. new.status = "running" => new.lease = jb.lease
  BY <1>3, ClosingLease DEF Active
<1> HIDE DEF new
<1>7. LeaseKept(j)
  BY <1>1, <1>4, <1>5, <1>6 DEF LeaseKept, jb, Leased, TypeOK, JobRow
<1>8. \A k \in Job \ {j} : LeaseKept(k)
  BY <1>1 DEF LeaseKept, TypeOK, JobRow
<1>9. \A k \in Job : jbs[k].canceled => job'[k].canceled
  BY <1>1, <1>4 DEF jb
<1>10. IntentKept(X)
  <2> SUFFICES ASSUME NEW s \in Step, step[s].status = "write_intent"
               PROVE  \/ s \in X \/ SameStep(step[s], step'[s])
                      \/ job'[s[1]].canceled \/ job[s[1]].lease = 0
    BY DEF IntentKept
  <2>1. s[1] \in Job
    BY StepFacts
  <2> QED
    BY <1>1, <1>2, <1>9, <2>1 DEF SameStep
<1> QED
  BY <1>7, <1>8, <1>10 DEF Undisturbed

\* Without a change of steps, or of the jobs but for one that is not leased.
LEMMA StillLeases ==
  ASSUME TypeOK, UNCHANGED <<job, step>>
  PROVE  Undisturbed({})
BY DEF Undisturbed, LeaseKept, IntentKept, SameStep, TypeOK, JobRow

LEMMA ClaimLeases ==
  ASSUME TypeOK, LedgerInv, NEW j \in Job,
         \/ \E w \in Worker : Claim(j, w)
         \/ Submit(j) \/ ExpireRequeue(j)
         \/ \E w, g : Heartbeat(j, w, g)
  PROVE  Undisturbed({})
<1>0. job \in [Job -> JobRow] /\ step \in [Step -> StepRow]
  BY DEF TypeOK
<1>1. CASE \E w \in Worker : Claim(j, w)
  <2>1. job[j].status = "queued" /\ step' = step
    BY <1>1 DEF Claim
  <2>2. /\ job'[j].canceled = job[j].canceled
        /\ \A k \in Job : k # j => job'[k] = job[k]
    <3>1. \E w, g : job' = [job EXCEPT ![j] =
             [@ EXCEPT !.status = "claimed", !.target = TRUE, !.worker = w, !.gen = g,
                       !.lease = LeaseSeconds]]
      BY <1>1 DEF Claim
    <3> QED
      BY <1>0, <3>1 DEF JobRow
  <2> QED
    BY <1>0, <2>1, <2>2 DEF Undisturbed, LeaseKept, IntentKept, SameStep, Leased, JobRow
<1>2. CASE Submit(j)
  <2>1. /\ job[j].status = "new"
        /\ \A s \in Step : step'[s] = step[s] \/ s \in StepsOf(j)
    BY <1>2 DEF Submit
  <2>2. /\ job'[j].canceled = job[j].canceled
        /\ \A k \in Job : k # j => job'[k] = job[k]
    BY <1>0, <1>2 DEF Submit, JobRow
  <2>3. \A k \in Job : LeaseKept(k)
    BY <1>0, <2>1, <2>2 DEF LeaseKept, Leased, JobRow
  <2>4. \A s \in StepsOf(j) : step[s].status # "write_intent"
    BY <2>1 DEF LedgerInv, JobInv
  <2> QED
    BY <2>1, <2>3, <2>4 DEF Undisturbed, IntentKept, SameStep
<1>3. CASE ExpireRequeue(j)
  <2>1. job[j].lease = 0 /\ step' = step
    BY <1>3 DEF ExpireRequeue, Expired
  <2>2. job'[j].canceled = job[j].canceled /\ \A k \in Job : k # j => job'[k] = job[k]
    BY <1>0, <1>3 DEF ExpireRequeue, JobRow
  <2> QED
    BY <1>0, <2>1, <2>2 DEF Undisturbed, LeaseKept, IntentKept, SameStep, Leased, JobRow
<1>4. CASE \E w, g : Heartbeat(j, w, g)
  <2>1. step' = step /\ job' = [job EXCEPT ![j].lease = LeaseSeconds]
    BY <1>4 DEF Heartbeat
  <2>2. /\ job'[j].canceled = job[j].canceled /\ job'[j].lease = LeaseSeconds
        /\ job'[j].status = job[j].status /\ job'[j].worker = job[j].worker
        /\ job'[j].gen = job[j].gen /\ \A k \in Job : k # j => job'[k] = job[k]
    BY <1>0, <2>1 DEF JobRow
  <2>3. job[j].lease <= LeaseSeconds
    BY <1>0, BoundAssumption DEF JobRow
  <2> QED
    BY <1>0, <2>1, <2>2, <2>3, BoundAssumption
       DEF Undisturbed, LeaseKept, IntentKept, SameStep, Leased, JobRow
<1> QED
  BY <1>1, <1>2, <1>3, <1>4

\* Settling an earlier text write changes, if any, a job that has ended.
LEMMA SettledRest ==
  ASSUME TypeOK, LedgerInv, NEW s \in Step, job[s[1]].status \in Leased
  PROVE  \A k \in Job : \/ SettledJobs(s)[k] = job[k]
                        \/ /\ Ended(SettledJobs(s)[k])
                           /\ SettledJobs(s)[k].canceled = job[k].canceled
<1>1. CASE ~Settles(s)
  BY <1>1 DEF SettledJobs
<1>2. CASE Settles(s)
  <2> DEFINE p == job[s[1]].previous
             old == job[p[1]]
             new == Closing(p[1], old, SettledSteps(s))
  <2>1. p \in Step /\ p[1] \in Job /\ step[p].status = "unknown"
    BY <1>2, SettledType DEF Settles
  <2>2. job \in [Job -> JobRow] /\ old \in JobRow /\ SettledSteps(s) \in [Step -> StepRow]
    BY <2>1, SettledType DEF TypeOK
  <2>3. SettledJobs(s) = [job EXCEPT ![p[1]] = new]
    BY <1>2 DEF SettledJobs
  <2>4. Ended(old)
    BY <2>1, UnknownEnded
  <2>5. Ended(SettledJobs(s)[p[1]])
    BY <2>1, <2>4, SettledInv
  <2> HIDE DEF p, old
  <2>6. new.canceled = old.canceled
    BY <2>1, <2>2, ClosingFacts
  <2> HIDE DEF new
  <2> QED
    BY <2>1, <2>2, <2>3, <2>5, <2>6 DEF old
<1> QED
  BY <1>1, <1>2

\* The transactions on the steps of a leased job; only a result ends a write in progress.
LEMMA PrepareWriteLeases ==
  ASSUME TypeOK, LedgerInv, NEW s \in Step, NEW w, NEW g, NEW r, PrepareWrite(s, w, g, r)
  PROVE  Undisturbed({}) /\ Owned(s[1], w, g)
<1> DEFINE st == SettledSteps(s)
           jbs == SettledJobs(s)
<1>1. /\ step' = Prepared(st, s, w, g, r, "write_intent")
      /\ job' = [jbs EXCEPT ![s[1]].status = "running"]
      /\ Owned(s[1], w, g) /\ s[1] \in Job /\ job[s[1]].status \in Leased
      /\ step[s].status = "pending"
  BY StepFacts DEF PrepareWrite, CanPrepare, Owned, Ready
<1>2. st \in [Step -> StepRow] /\ jbs \in [Job -> JobRow] /\ jbs[s[1]] = job[s[1]]
  BY <1>1, SettledType, SettledInv
<1>3. \A k \in Job : jbs[k] = job[k] \/ (Ended(jbs[k]) /\ jbs[k].canceled = job[k].canceled)
  BY <1>1, SettledRest
<1>4. \A t \in Step : st[t] = step[t] \/ step[t].status = "unknown"
  BY DEF SettledSteps, Settles, TypeOK, StepRow
<1> HIDE DEF st, jbs
<1>5. \A t \in Step : t # s => step'[t] = st[t]
  BY <1>1, <1>2 DEF Prepared
<1>6. IntentKept({})
  BY <1>1, <1>4, <1>5 DEF IntentKept, SameStep
<1>7. /\ \A k \in Job : k # s[1] => job'[k] = jbs[k]
      /\ job'[s[1]] = [job[s[1]] EXCEPT !.status = "running"]
  BY <1>1, <1>2
<1>8. /\ job[s[1]] \in JobRow /\ job'[s[1]].canceled = job[s[1]].canceled
      /\ job'[s[1]].status = "running" /\ job'[s[1]].lease = job[s[1]].lease
      /\ job'[s[1]].worker = job[s[1]].worker /\ job'[s[1]].gen = job[s[1]].gen
  BY <1>1, <1>7 DEF TypeOK, JobRow
<1>9. LeaseKept(s[1])
  BY <1>8 DEF LeaseKept, Leased, JobRow
<1>10. \A k \in Job : k # s[1] => LeaseKept(k)
  BY <1>3, <1>7 DEF LeaseKept, TypeOK, JobRow
<1> QED
  BY <1>1, <1>6, <1>9, <1>10 DEF Undisturbed

LEMMA PrepareNoopLeases ==
  ASSUME TypeOK, LedgerInv, NEW s \in Step, NEW w \in Worker, NEW g \in Nat,
         NEW r \in Request, PrepareNoop(s, w, g, r)
  PROVE  Undisturbed({})
<1> DEFINE old == SettledSteps(s)
           st == Prepared(old, s, w, g, r, "noop")
           jbs == SettledJobs(s)
           j == s[1]
<1>1. PICK rec : Finish(j, jbs, st, rec, {})
  BY DEF PrepareNoop
<1>2. job[j].status \in Leased /\ j \in Job /\ step[s].status = "pending"
  BY StepFacts DEF PrepareNoop, CanPrepare, Owned, Ready
<1>3. old \in [Step -> StepRow] /\ jbs \in [Job -> JobRow] /\ jbs[j] = job[j]
  BY <1>2, SettledType, SettledInv
<1>4. st \in [Step -> StepRow]
  BY <1>3, PreparedType DEF StepStatus, Resolved
<1>5. \A k \in Job : jbs[k] = job[k] \/ (Ended(jbs[k]) /\ jbs[k].canceled = job[k].canceled)
  BY <1>2, SettledRest
<1>6. \A t \in Step : old[t] = step[t] \/ step[t].status = "unknown"
  BY DEF SettledSteps, Settles, TypeOK, StepRow
<1>7. \A t \in Step : t # s => st[t] = old[t]
  BY <1>3 DEF Prepared
<1> HIDE DEF old, st, jbs, j
<1>8. \A t \in Step : step[t].status = "write_intent" =>
        \/ t \in {} \/ SameStep(step[t], st[t])
        \/ jbs[t[1]].canceled \/ job[t[1]].lease = 0
  BY <1>2, <1>6, <1>7 DEF SameStep
<1>9. /\ \A k \in Job : job[k].canceled => jbs[k].canceled
      /\ jbs[j].lease = job[j].lease
      /\ jbs[j].worker = job[j].worker /\ jbs[j].gen = job[j].gen
  BY <1>2, <1>3, <1>5
<1>10. \A k \in Job \ {j} : LET jb == job[k] IN
         \/ Ended(jbs[k])
         \/ /\ jbs[k].status = jb.status /\ jbs[k].lease = jb.lease
            /\ jbs[k].worker = jb.worker /\ jbs[k].gen = jb.gen
  BY <1>5
<1> QED
  BY <1>1, <1>2, <1>3, <1>4, <1>8, <1>9, <1>10, FinishLeases

LEMMA ReportLeases ==
  ASSUME TypeOK, NEW s \in Step, NEW v, NEW rec, NEW S, NEW X,
         NEW st \in [Step -> StepRow], \A t \in Step : t # s => st[t] = step[t],
         Finish(s[1], Mapped(s, v), st, rec, S),
         step[s].status = "write_intent" => s \in X
  PROVE  Undisturbed(X)
<1> DEFINE jbs == Mapped(s, v)
           j == s[1]
<1>1. jbs \in [Job -> JobRow] /\ j \in Job
  BY MappedType, StepFacts
<1>2. \A k \in Job : /\ jbs[k].status = job[k].status /\ jbs[k].lease = job[k].lease
                     /\ jbs[k].worker = job[k].worker /\ jbs[k].gen = job[k].gen
                     /\ jbs[k].canceled = job[k].canceled
  BY StepFacts DEF Mapped, TypeOK, JobRow
<1>3. Finish(j, jbs, st, rec, S)
  OBVIOUS
<1> HIDE DEF jbs, j
<1>4. \A t \in Step : step[t].status = "write_intent" =>
        \/ t \in X \/ SameStep(step[t], st[t])
        \/ jbs[t[1]].canceled \/ job[t[1]].lease = 0
  BY DEF SameStep
<1> QED
  BY <1>1, <1>2, <1>3, <1>4, FinishLeases

LEMMA ReportsLeases ==
  ASSUME TypeOK, LedgerInv, NEW s \in Step, NEW w, NEW g, NEW e \in Event, NEW v \in Verdict
  PROVE  /\ Result(s, w, g, e, v) => Undisturbed({s})
         /\ EvidenceConfirmed(s, w, g, e, v) => Undisturbed({})
         /\ EvidenceSettles(s, w, g, e, v) => Undisturbed({})
         /\ PreflightFailure(s, w, g, e) => Undisturbed({})
         /\ Reconcile(s) => Undisturbed({})
<1>0. step \in [Step -> StepRow] /\ job \in [Job -> JobRow] /\ s[1] \in Job
  BY StepFacts DEF TypeOK
<1>1. \A x \in Verdict : /\ Recorded(s, e, x) \in [Step -> StepRow]
                         /\ \A t \in Step : t # s => Recorded(s, e, x)[t] = step[t]
  BY RecordedType, RecordedFacts
<1>2. ASSUME Result(s, w, g, e, v) PROVE Undisturbed({s})
  BY <1>1, <1>2, ReportLeases DEF Result
<1>3. ASSUME EvidenceConfirmed(s, w, g, e, v) PROVE Undisturbed({})
  <2>1. job' = job /\ \A t \in Step : SameStep(step[t], step'[t])
    BY <1>0, <1>3 DEF EvidenceConfirmed, SameStep, StepRow
  <2> QED
    BY <1>0, <2>1 DEF Undisturbed, LeaseKept, IntentKept, JobRow
<1>4. ASSUME EvidenceSettles(s, w, g, e, v) PROVE Undisturbed({})
  <2>1. step[s].status # "write_intent"
    BY <1>4 DEF EvidenceSettles, CanSettle, Late
  <2> QED
    BY <1>1, <1>4, <2>1, ReportLeases DEF EvidenceSettles
<1>5. ASSUME PreflightFailure(s, w, g, e) PROVE Undisturbed({})
  <2> DEFINE st == Recorded(s, e, "failed")
  <2>1. Finish(s[1], job, st, record, {}) /\ step[s].status = "pending"
    BY <1>5 DEF PreflightFailure
  <2>2. st \in [Step -> StepRow] /\ \A t \in Step : t # s => st[t] = step[t]
    BY <1>1 DEF Verdict
  <2> HIDE DEF st
  <2>3. \A t \in Step : step[t].status = "write_intent" =>
          \/ t \in {} \/ SameStep(step[t], st[t])
          \/ job[t[1]].canceled \/ job[t[1]].lease = 0
    BY <2>1, <2>2 DEF SameStep
  <2> QED
    BY <1>0, <2>1, <2>2, <2>3, FinishLeases
<1>6. ASSUME Reconcile(s) PROVE Undisturbed({})
  <2> DEFINE st == [step EXCEPT ![s].status = "succeeded"]
  <2>1. Finish(s[1], Mapped(s, "succeeded"), st, record, {s}) /\ step[s].status = "unknown"
    BY <1>6 DEF Reconcile
  <2>2. st \in [Step -> StepRow] /\ \A t \in Step : t # s => st[t] = step[t]
    BY <1>0 DEF StepRow, StepStatus, Resolved
  <2> HIDE DEF st
  <2> QED
    BY <2>1, <2>2, ReportLeases
<1> QED
  BY <1>2, <1>3, <1>4, <1>5, <1>6

LEMMA QuietLeases ==
  ASSUME TypeOK, LedgerInv, NEW j \in Job, Cancel(j) \/ ExpireFinish(j)
  PROVE  Undisturbed({})
<1>0. step \in [Step -> StepRow] /\ job \in [Job -> JobRow]
  BY DEF TypeOK
<1>1. CASE Cancel(j)
  <2> DEFINE jbs == [job EXCEPT ![j] = [@ EXCEPT !.status = "canceled", !.canceled = TRUE]]
             st == [s \in Step |->
                     IF s \in StepsOf(j) /\ step[s].status \in {"write_intent", "pending"}
                     THEN [step[s] EXCEPT !.status = IF @ = "write_intent" THEN CutOff ELSE "canceled"]
                     ELSE step[s]]
  <2>1. Finish(j, jbs, st, record, {})
    BY <1>1 DEF Cancel
  <2>2. jbs \in [Job -> JobRow]
    <3>1. [job[j] EXCEPT !.status = "canceled", !.canceled = TRUE] \in JobRow
      BY <1>0, ZenonT(60) DEF JobRow, JobStatus
    <3> QED
      BY <1>0, <3>1
  <2>3. st \in [Step -> StepRow] /\ \A s \in Step : s \notin StepsOf(j) => st[s] = step[s]
    BY <1>0 DEF StepRow, StepStatus, Resolved, Unresolved, CutOff
  <2>4. /\ jbs[j].canceled /\ jbs[j].lease = job[j].lease
        /\ jbs[j].worker = job[j].worker /\ jbs[j].gen = job[j].gen
        /\ \A k \in Job : k # j => jbs[k] = job[k]
    BY <1>0 DEF JobRow
  <2> HIDE DEF jbs, st
  <2>5. \A s \in Step : step[s].status = "write_intent" =>
          \/ s \in {} \/ SameStep(step[s], st[s])
          \/ jbs[s[1]].canceled \/ job[s[1]].lease = 0
    BY <2>3, <2>4 DEF SameStep, StepsOf
  <2>6. \A k \in Job : job[k].canceled => jbs[k].canceled
    BY <2>4
  <2>7. \A k \in Job \ {j} : LET old == job[k] IN
          \/ Ended(jbs[k])
          \/ /\ jbs[k].status = old.status /\ jbs[k].lease = old.lease
             /\ jbs[k].worker = old.worker /\ jbs[k].gen = old.gen
    BY <2>4
  <2>8. st \in [Step -> StepRow]
    BY <2>3
  <2> QED
    BY <2>1, <2>2, <2>4, <2>5, <2>6, <2>7, <2>8, FinishLeases
<1>2. CASE ExpireFinish(j)
  <2> DEFINE st == [s \in Step |-> IF s \in StepsOf(j) /\ step[s].status = "write_intent"
                                   THEN [step[s] EXCEPT !.status = CutOff] ELSE step[s]]
  <2>1. Finish(j, job, st, record, {}) /\ job[j].lease = 0
    BY <1>2 DEF ExpireFinish, Expired
  <2>2. st \in [Step -> StepRow] /\ \A s \in Step : s \notin StepsOf(j) => st[s] = step[s]
    BY <1>0 DEF StepRow, StepStatus, Resolved, Unresolved, CutOff
  <2> HIDE DEF st
  <2>3. \A s \in Step : step[s].status = "write_intent" =>
          \/ s \in {} \/ SameStep(step[s], st[s])
          \/ job[s[1]].canceled \/ job[s[1]].lease = 0
    BY <2>1, <2>2 DEF SameStep, StepsOf
  <2> QED
    BY <1>0, <2>1, <2>2, <2>3, FinishLeases
<1> QED
  BY <1>1, <1>2

\* A permit stands in the ledger as the write in progress of its host's claim.
Permitting(h) ==
  /\ At(h, "permitted") /\ step[host[h].step].status = "write_intent"
  /\ Intent(host[h].step, Me(h), host[h].gen)

\* Nobody but its holder ends it, except by ending the job.
PermitKept(h) ==
  Permitting(h) => LET s == host[h].step IN
    SameStep(step[s], step'[s]) \/ job'[s[1]].canceled \/ job[s[1]].lease = 0

LeasesMove == (\A k \in Job : LeaseKept(k)) /\ (\A h \in Host : PermitKept(h))

LEMMA UndisturbedPermits ==
  ASSUME WorkerInv, NEW X, Undisturbed(X),
         \A h \in Host : Permitting(h) => host[h].step \notin X
  PROVE  LeasesMove
<1> SUFFICES ASSUME NEW h \in Host, Permitting(h)
             PROVE  LET s == host[h].step IN
                    SameStep(step[s], step'[s]) \/ job'[s[1]].canceled \/ job[s[1]].lease = 0
  BY DEF LeasesMove, Undisturbed, PermitKept
<1>1. host[h].step \in Step
  BY BusyFacts DEF Permitting, At, Idle
<1> QED
  BY <1>1 DEF Permitting, Undisturbed, IntentKept

LEMMA HostLeases ==
  ASSUME WorkerInv, NEW h \in Host, Loop(h) \/ Beating(h) \/ Crash(h)
  PROVE  LeasesMove
<1> DEFINE me == host[h]
<1>0. /\ TypeOK /\ LedgerInv /\ RecordInv /\ ThreadInv
      /\ Me(h) \in Worker /\ "prepare" \in Request /\ "result" \in Event /\ "failure" \in Event
  BY HostFacts, HostAssumption DEF WorkerInv, LedgerGood
<1>1. Undisturbed({}) => LeasesMove
  BY UndisturbedPermits
<1>2. CASE \/ SendClaim(h) \/ Look(h) \/ Lapse(h) \/ GiveUp(h) \/ Ask(h)
           \/ ServePrepareAgain(h) \/ RefusePrepare(h) \/ StartWrite(h) \/ NoWrite(h)
           \/ EndWrite(h) \/ RecordEvidence(h) \/ RefuseResult(h) \/ RefuseEvidence(h)
           \/ SendFailure(h)
  <2>1. UNCHANGED ledger
    BY ONLY <1>2 DEF SendClaim, Look, Lapse, GiveUp, Ask, ServePrepareAgain, RefusePrepare,
       StartWrite, NoWrite, EndWrite, RecordEvidence, RefuseResult, RefuseEvidence, SendFailure
  <2> QED
    BY <1>0, <1>1, <2>1, StillLeases DEF ledger
<1>3. CASE SendHeartbeat(h) \/ LoseHeartbeat(h) \/ Crash(h) \/ ReadClaim(h)
  <2>1. UNCHANGED <<job, step>>
    BY <1>3 DEF SendHeartbeat, LoseHeartbeat, Crash, ReadClaim, NewClaimRequest, ledger
  <2> QED
    BY <1>0, <1>1, <2>1, StillLeases
<1>4. CASE ServeHeartbeat(h)
  <2>1. host[h].job \in Job
    BY <1>4, BusyFacts DEF ServeHeartbeat, WorkerInv, ThreadInv
  <2>2. \E j \in Job : \E w, g : Heartbeat(j, w, g)
    BY <1>4, <2>1 DEF ServeHeartbeat
  <2> QED
    BY <1>0, <1>1, <2>2, ClaimLeases
<1>5. CASE ServeClaim(h)
  <2>1. ClaimNothing(Me(h)) \/ \E j \in Job : Claim(j, Me(h))
    BY <1>5 DEF ServeClaim
  <2>2. CASE ClaimNothing(Me(h))
    BY <1>0, <1>1, <2>2, StillLeases DEF ClaimNothing
  <2>3. CASE \E j \in Job : Claim(j, Me(h))
    BY <1>0, <1>1, <2>3, ClaimLeases
  <2> QED
    BY <2>1, <2>2, <2>3
<1>6. CASE ServeWritePermit(h) \/ ServeNoop(h)
  <2>1. /\ me.pc = "asking"
        /\ \/ PrepareWrite(me.step, Me(h), me.gen, "prepare")
           \/ PrepareNoop(me.step, Me(h), me.gen, "prepare")
    BY <1>6 DEF ServeWritePermit, ServeNoop, At
  <2>2. me.step \in Step /\ me.gen \in Nat
    BY <2>1, BusyFacts DEF At, Idle
  <2> HIDE DEF me
  <2>3. ASSUME NEW x \in Step, NEW y \in Worker, NEW z \in Nat, NEW r \in Request,
               PrepareWrite(x, y, z, r) \/ PrepareNoop(x, y, z, r)
        PROVE  Undisturbed({})
    BY <1>0, <2>3, PrepareWriteLeases, PrepareNoopLeases
  <2> QED
    BY <1>0, <1>1, <2>1, <2>2, <2>3
<1>7. CASE ServeResult(h) \/ ServeEvidence(h)
  <2> DEFINE it == ItemOf(h)
             s == me.step
             w == Me(h)
             g == me.gen
             v == me.verdict
  <2>1. /\ me.pc \in {"sending", "evidencing"} /\ ~At(h, Idle) /\ ~At(h, "working")
        /\ ResultServed(it) \/ EvidenceServed(it)
    BY <1>7 DEF ServeResult, ServeEvidence, At, Idle
  <2>2. it.step = s /\ it.worker = w /\ it.gen = g /\ it.verdict = v
    BY <2>1, ItemFacts
  <2>3. s \in Step /\ v \in Verdict
    BY <2>1, BusyFacts
  <2>4. \A i \in Host : Permitting(i) /\ host[i].step = s => ~Intent(s, w, g)
    <3> SUFFICES ASSUME NEW i \in Host, Permitting(i), host[i].step = s, Intent(s, w, g)
                 PROVE  FALSE
      OBVIOUS
    <3>1. Me(i) = Me(h)
      BY DEF Permitting, Intent
    <3>2. i = h
      BY <3>1, HostFacts DEF WorkerInv
    <3> QED
      BY <2>1, <3>2 DEF Permitting, At
  <2> HIDE DEF it, s, w, g, v
  <2>5. \/ Result(s, w, g, "result", v)
        \/ EvidenceConfirmed(s, w, g, "result", v)
        \/ EvidenceSettles(s, w, g, "result", v)
        \/ UNCHANGED ledger
    BY <2>1, <2>2 DEF ResultServed, EvidenceServed
  <2>6. CASE Result(s, w, g, "result", v)
    <3>1. Undisturbed({s})
      BY <1>0, <2>3, <2>6, ReportsLeases
    <3>2. Intent(s, w, g)
      BY <2>6 DEF Result, CanReport
    <3>3. \A i \in Host : Permitting(i) => host[i].step \notin {s}
      BY <2>4, <3>2
    <3> QED
      BY <3>1, <3>3, UndisturbedPermits
  <2>7. CASE \/ EvidenceConfirmed(s, w, g, "result", v)
             \/ EvidenceSettles(s, w, g, "result", v)
    BY <1>0, <1>1, <2>3, <2>7, ReportsLeases
  <2>8. CASE UNCHANGED ledger
    BY <1>0, <1>1, <2>8, StillLeases DEF ledger
  <2> QED
    BY <2>5, <2>6, <2>7, <2>8
<1>8. CASE ServeFailure(h)
  <2>1. /\ ~At(h, Idle) /\ ~At(h, "working")
        /\ \/ PreflightFailure(me.step, Me(h), me.gen, "failure")
           \/ UNCHANGED ledger
    BY <1>8 DEF ServeFailure, At, Idle
  <2>2. me.step \in Step /\ "unknown" \in Verdict
    BY <2>1, BusyFacts DEF Verdict
  <2>3. CASE UNCHANGED ledger
    BY <1>0, <1>1, <2>3, StillLeases DEF ledger
  <2>4. CASE PreflightFailure(me.step, Me(h), me.gen, "failure")
    BY <1>0, <1>1, <2>2, <2>4, ReportsLeases
  <2> QED
    BY <2>1, <2>3, <2>4
<1> QED
  BY <1>2, <1>3, <1>4, <1>5, <1>6, <1>7, <1>8 DEF Loop, Beating

LEMMA LateLeases ==
  ASSUME WorkerInv, NEW q \in late, ServeLate(q)
  PROVE  LeasesMove
<1> DEFINE s == q.step
           w == q.worker
           g == q.gen
           v == q.with
<1>0. /\ TypeOK /\ LedgerInv /\ RecordInv
      /\ "prepare" \in Request /\ "result" \in Event /\ "failure" \in Event
  BY HostAssumption DEF WorkerInv, LedgerGood
<1>1. /\ s \in Step /\ w \in Worker /\ g \in Nat
      /\ q.kind = "result" => v \in Verdict
  BY LateFacts
<1>2. \/ PrepareWrite(s, w, g, "prepare")
      \/ PrepareNoop(s, w, g, "prepare")
      \/ q.kind = "result" /\ Result(s, w, g, "result", v)
      \/ PreflightFailure(s, w, g, "failure")
  BY DEF ServeLate, Delivered
\* Its host no longer has that claim in its hands.
<1>3. \A i \in Host : Permitting(i) /\ host[i].step = s => ~Intent(s, w, g)
  <2> SUFFICES ASSUME NEW i \in Host, Permitting(i), host[i].step = s, Intent(s, w, g)
               PROVE  FALSE
    OBVIOUS
  <2>1. Me(i) = w /\ host[i].gen = g /\ ~At(i, Idle) /\ ~At(i, "working")
    BY DEF Permitting, Intent, At, Idle
  <2>2. host[i].job = s[1]
    BY <2>1, BusyFacts
  <2>3. ~Held(w, s[1], g)
    BY DEF WorkerInv, ThreadInv
  <2> QED
    BY <2>1, <2>2, <2>3 DEF Held, SameClaim
<1> HIDE DEF s, w, g, v
<1>4. Undisturbed({}) => LeasesMove
  BY UndisturbedPermits
<1>5. CASE PrepareWrite(s, w, g, "prepare") \/ PrepareNoop(s, w, g, "prepare")
  <2>1. ASSUME NEW x \in Step, NEW y \in Worker, NEW z \in Nat, NEW r \in Request,
               PrepareWrite(x, y, z, r) \/ PrepareNoop(x, y, z, r)
        PROVE  Undisturbed({})
    BY <1>0, <2>1, PrepareWriteLeases, PrepareNoopLeases
  <2> QED
    BY <1>0, <1>1, <1>4, <1>5, <2>1
<1>6. CASE q.kind = "result" /\ Result(s, w, g, "result", v)
  <2>1. Undisturbed({s})
    BY <1>0, <1>1, <1>6, ReportsLeases
  <2>2. Intent(s, w, g)
    BY <1>6 DEF Result, CanReport
  <2>3. \A i \in Host : Permitting(i) => host[i].step \notin {s}
    BY <1>3, <2>2
  <2> QED
    BY <2>1, <2>3, UndisturbedPermits
<1>7. CASE PreflightFailure(s, w, g, "failure")
  <2>1. "unknown" \in Verdict
    BY DEF Verdict
  <2> QED
    BY <1>0, <1>1, <1>4, <1>7, <2>1, ReportsLeases
<1> QED
  BY <1>2, <1>5, <1>6, <1>7

LEMMA WorkerLeases ==
  ASSUME WorkerInv, [WorkerNext]_vars, ~Elapse
  PROVE  LeasesMove
<1>0. /\ TypeOK /\ LedgerInv /\ "result" \in Event /\ "unknown" \in Verdict
  BY HostAssumption DEF WorkerInv, LedgerGood, Verdict
<1>1. Undisturbed({}) => LeasesMove
  BY UndisturbedPermits
<1>2. ASSUME NEW h \in Host, Loop(h) \/ Beating(h) \/ Crash(h) PROVE LeasesMove
  BY <1>2, HostLeases
<1>3. ASSUME NEW h \in Host, NEW it \in outbox[h], Replay(h, it) PROVE LeasesMove
  <2> DEFINE s == it.step
             w == it.worker
             g == it.gen
             v == it.verdict
  <2>1. s \in Step /\ v \in Verdict
    BY EvidenceFacts
  <2>2. \/ EvidenceConfirmed(s, w, g, "result", v)
        \/ EvidenceSettles(s, w, g, "result", v)
        \/ UNCHANGED ledger
    BY <1>3 DEF Replay, EvidenceServed
  <2> HIDE DEF s, w, g, v
  <2>3. CASE UNCHANGED ledger
    BY <1>0, <1>1, <2>3, StillLeases DEF ledger
  <2> QED
    BY <1>0, <1>1, <2>1, <2>2, <2>3, ReportsLeases
<1>4. ASSUME NEW q \in late, ServeLate(q) PROVE LeasesMove
  BY <1>4, LateLeases
<1>5. CASE (\E s \in Step : Land(s)) \/ UNCHANGED vars
  BY <1>0, <1>1, <1>5, StillLeases DEF Land, vars, ledger
<1>6. CASE Supervise
  <2>1. CASE \E j \in Job : Submit(j) \/ Cancel(j) \/ ExpireJob(j)
    BY <1>0, <1>1, <2>1, QuietLeases, ClaimLeases DEF ExpireJob
  <2>2. CASE \E s \in Step : Reconcile(s)
    <3>1. PICK s \in Step : Reconcile(s)
      BY <2>2
    <3>2. ASSUME NEW w, NEW g PROVE Undisturbed({})
      BY <1>0, <3>1, ReportsLeases
    <3> QED
      BY <1>1, <3>2
  <2> QED
    BY <1>6, <2>1, <2>2 DEF Supervise
<1> QED
  BY <1>2, <1>3, <1>4, <1>5, <1>6 DEF WorkerNext

-----------------------------------------------------------------------------
(* Leases: what a step leaves of a host's claim and of its answer.          *)

\* Only a host that waits for a claim gets an answer, or reads one.
LEMMA AnswerMoves ==
  ASSUME [WorkerNext]_vars
  PROVE  \/ receipt' = receipt
         \/ \E h \in Host : ServeClaim(h) \/ ReadClaim(h)
<1>1. ASSUME NEW h \in Host, Loop(h), ~ServeClaim(h), ~ReadClaim(h) PROVE receipt' = receipt
  <2>1. CASE \/ SendClaim(h) \/ Look(h) \/ Lapse(h) \/ GiveUp(h) \/ Ask(h)
             \/ ServePrepareAgain(h) \/ RefusePrepare(h) \/ StartWrite(h) \/ NoWrite(h)
             \/ EndWrite(h) \/ RecordEvidence(h) \/ RefuseResult(h) \/ RefuseEvidence(h)
             \/ SendFailure(h)
    BY <2>1 DEF SendClaim, Look, Lapse, GiveUp, Ask, ServePrepareAgain, RefusePrepare,
       StartWrite, NoWrite, EndWrite, RecordEvidence, RefuseResult, RefuseEvidence, SendFailure, ledger
  <2>2. CASE ServeWritePermit(h) \/ ServeNoop(h)
    BY <2>2 DEF ServeWritePermit, ServeNoop, PrepareWrite, PrepareNoop
  <2>3. CASE ServeResult(h) \/ ServeEvidence(h)
    BY <2>3 DEF ServeResult, ServeEvidence, ResultServed, EvidenceServed, Result,
       EvidenceConfirmed, EvidenceSettles, ledger
  <2>4. CASE ServeFailure(h)
    BY <2>4 DEF ServeFailure, PreflightFailure, ledger
  <2> QED
    BY <1>1, <2>1, <2>2, <2>3, <2>4 DEF Loop
<1>2. ASSUME NEW h \in Host, Beating(h) \/ Crash(h) PROVE receipt' = receipt
  BY <1>2 DEF Beating, Crash, SendHeartbeat, ServeHeartbeat, LoseHeartbeat, Heartbeat, ledger
<1>3. ASSUME NEW h \in Host, NEW it \in outbox[h], Replay(h, it) PROVE receipt' = receipt
  BY <1>3 DEF Replay, EvidenceServed, EvidenceConfirmed, EvidenceSettles, ledger
<1>4. ASSUME NEW q \in late, ServeLate(q) PROVE receipt' = receipt
  BY <1>4 DEF ServeLate, Delivered, PrepareWrite, PrepareNoop, Result, PreflightFailure
<1>5. (\E s \in Step : Land(s)) \/ UNCHANGED vars => receipt' = receipt
  BY DEF Land, ledger, vars
<1>6. Supervise => receipt' = receipt
  BY DEF Supervise, Submit, Cancel, ExpireJob, ExpireFinish, ExpireRequeue, Reconcile
<1>7. Elapse => receipt' = receipt
  BY DEF Elapse, Tick, HostsOnly, ledger
<1> QED
  BY <1>1, <1>2, <1>3, <1>4, <1>5, <1>6, <1>7 DEF WorkerNext

CoveredAfter(j, w, g, n) ==
  \/ Ended(job'[j])
  \/ /\ job'[j].worker = w /\ job'[j].gen = g /\ job'[j].status \in Leased
     /\ job'[j].lease > 0 /\ job'[j].lease >= n

LEMMA CoverStays ==
  ASSUME WorkerInv, [WorkerNext]_vars, ~Elapse, NEW j \in Job, NEW w, NEW g, NEW n \in Int,
         Covered(j, w, g, n)
  PROVE  CoveredAfter(j, w, g, n)
<1>1. LeasesMove /\ Reopened = {}
  BY WorkerLeases, WorkerRefines, LedgerStep DEF WorkerInv, LedgerGood
<1>2. TypeOK /\ TypeOK'
  BY StepFrame DEF WorkerInv, LedgerGood
<1>3. CASE Ended(job[j])
  BY <1>1, <1>3 DEF Reopened, CoveredAfter
<1>4. CASE Owned(j, w, g) /\ job[j].lease >= n
  <2>1. LeaseKept(j)
    BY <1>1 DEF LeasesMove
  <2>2. job[j].lease \in 0..LeaseSeconds /\ job'[j].lease \in 0..LeaseSeconds
    BY <1>2 DEF TypeOK, JobRow
  <2>3. CASE Ended(job'[j])
    BY <2>3 DEF CoveredAfter
  <2>4. CASE ~Ended(job'[j])
    <3>1. /\ job'[j].worker = w /\ job'[j].gen = g /\ job'[j].status \in Leased
          /\ job'[j].lease >= job[j].lease /\ job[j].lease > 0
      BY <1>4, <2>1, <2>4 DEF Owned, LeaseKept
    <3> QED
      BY <1>4, <2>2, <3>1, BoundAssumption DEF CoveredAfter
  <2> QED
    BY <2>3, <2>4
<1> QED
  BY <1>3, <1>4 DEF Covered

\* What becomes of a host's window: it is kept, lost or renewed while the claim lasts; it
\* is gone with the claim; or it begins with the answer the host waited for.
Granted(i) ==
  [Resting(host[i].life) EXCEPT !.pc = "working", !.job = receipt[Me(i)].job,
     !.gen = receipt[Me(i)].gen, !.window = Left(LeaseSeconds, host[i].timer)]

SameLife(i) == host'[i].life = host[i].life

WindowMove(i) ==
  \/ /\ ~At(i, Idle) /\ host'[i].pc # Idle
     /\ SameLife(i) /\ host'[i].job = host[i].job /\ host'[i].gen = host[i].gen
     /\ \/ host'[i].window \in {0, host[i].window}
        \/ /\ InWindow(i) /\ host'[i].window \in 0..LeaseSeconds
           /\ Heartbeat(host[i].job, Me(i), host[i].gen)
  \/ /\ host'[i].pc = Idle /\ host'[i].window = 0
     /\ \/ host'[i] = host[i]
        \/ SendClaim(i) /\ SameLife(i)
        \/ ~At(i, Idle) /\ SameLife(i)
        \/ ReadClaim(i) /\ SameLife(i)
        \/ host'[i].life = host[i].life + 1
  \/ ReadClaim(i) /\ receipt[Me(i)].job # None /\ host'[i] = Granted(i)

LEMMA CalmWindow ==
  ASSUME WorkerInv, LeaseInv, NEW i \in Host, host'[i] = host[i]
  PROVE  WindowMove(i)
<1>1. host[i].window \in 0..LeaseSeconds
  BY DEF WorkerInv, WorkerTypeOK, HostRow
<1>2. At(i, Idle) => host[i].window = 0
  BY <1>1, BoundAssumption DEF LeaseInv, InWindow
<1> QED
  BY <1>2 DEF WindowMove, SameLife, At

\* A host that changes its row alone, and keeps its claim.
LEMMA BecomeWindow ==
  ASSUME WorkerInv, LeaseInv, NEW h \in Host, NEW new, Become(h, new), ~At(h, Idle),
         new.pc # Idle, new.life = host[h].life, new.job = host[h].job, new.gen = host[h].gen,
         \/ new.window \in {0, host[h].window}
         \/ /\ InWindow(h) /\ new.window \in 0..LeaseSeconds
            /\ Heartbeat(host[h].job, Me(h), host[h].gen)
  PROVE  \A i \in Host : WindowMove(i)
<1>1. host'[h] = new /\ \A i \in Host : i # h => host'[i] = host[i]
  BY DEF Become, WorkerInv, WorkerTypeOK
<1>2. WindowMove(h)
  BY <1>1 DEF WindowMove, SameLife
<1> QED
  BY <1>1, <1>2, CalmWindow

LEMMA RoundWindow ==
  ASSUME WorkerInv, LeaseInv, NEW h \in Host, ~At(h, Idle),
         NextStep(h) \/ Leave(h) \/ UNCHANGED host
  PROVE  \A i \in Host : WindowMove(i)
<1>0. host \in [Host -> HostRow]
  BY DEF WorkerInv, WorkerTypeOK
<1>1. CASE UNCHANGED host
  BY <1>1, CalmWindow
<1>2. CASE NextStep(h)
  <2> DEFINE new == [host[h] EXCEPT !.pc = "working", !.timer = 0, !.step = None,
                       !.decision = None, !.limit = 0, !.verdict = None]
  <2>1. /\ new.pc = "working" /\ new.life = host[h].life /\ new.job = host[h].job
        /\ new.gen = host[h].gen /\ new.window = host[h].window
    BY <1>0 DEF HostRow
  <2>2. Become(h, new)
    BY <1>2 DEF NextStep
  <2> HIDE DEF new
  <2> QED
    BY <2>1, <2>2, BecomeWindow DEF Idle
<1>3. CASE Leave(h)
  <2>1. /\ host'[h] = Resting(host[h].life) /\ \A i \in Host : i # h => host'[i] = host[i]
    BY <1>0, <1>3 DEF Leave, Become
  <2>2. WindowMove(h)
    BY <2>1 DEF WindowMove, SameLife, Resting
  <2> QED
    BY <2>1, <2>2, CalmWindow
<1> QED
  BY <1>1, <1>2, <1>3

LEMMA HostWindow ==
  ASSUME WorkerInv, LeaseInv, NEW h \in Host, Loop(h) \/ Beating(h) \/ Crash(h)
  PROVE  \A i \in Host : WindowMove(i)
<1> DEFINE me == host[h]
<1>0. me \in HostRow /\ host \in [Host -> HostRow]
  BY DEF WorkerInv, WorkerTypeOK
<1>1. CASE \/ Lapse(h) \/ GiveUp(h) \/ ServeNoop(h) \/ ServeResult(h)
           \/ ServeEvidence(h) \/ ServeFailure(h)
  <2>1. NextStep(h) \/ Leave(h) \/ UNCHANGED host
    BY <1>1 DEF Lapse, GiveUp, ServeNoop, ServeResult, ServeEvidence, ServeFailure,
                Acknowledged, Continue, ReplyLost
  <2>2. ~At(h, Idle)
    BY <1>1 DEF Lapse, GiveUp, ServeNoop, ServeResult, ServeEvidence, ServeFailure, At, Idle, Calling
  <2> QED
    BY <2>1, <2>2, RoundWindow
<1>2. CASE ServeClaim(h)
  BY <1>2, CalmWindow DEF ServeClaim
<1>3. CASE SendClaim(h)
  <2> DEFINE new == [me EXCEPT !.waiting = TRUE, !.timer = 0]
  <2>1. Become(h, new) /\ me.pc = Idle
    BY <1>3 DEF SendClaim, At
  <2>2. me.window = 0
    BY <1>0, <2>1, BoundAssumption DEF LeaseInv, InWindow, At, HostRow
  <2>3. new.pc = Idle /\ new.window = 0 /\ new.life = me.life
    BY <1>0, <2>1, <2>2 DEF HostRow
  <2> HIDE DEF new
  <2>4. host'[h] = new /\ \A i \in Host : i # h => host'[i] = host[i]
    BY <1>0, <2>1 DEF Become
  <2>5. WindowMove(h)
    BY <1>3, <2>3, <2>4 DEF WindowMove, SameLife
  <2> QED
    BY <2>4, <2>5, CalmWindow
<1>4. CASE ReadClaim(h)
  <2>1. CASE receipt[Me(h)].job = None
    <3>1. /\ host'[h] = Resting(host[h].life) /\ \A i \in Host : i # h => host'[i] = host[i]
      BY <1>0, <1>4, <2>1 DEF ReadClaim, Leave, Become
    <3>2. WindowMove(h)
      BY <1>4, <3>1 DEF WindowMove, SameLife, Resting
    <3> QED
      BY <3>1, <3>2, CalmWindow
  <2>2. CASE receipt[Me(h)].job # None
    <3>1. Become(h, Granted(h))
      BY <1>4, <2>2 DEF ReadClaim, Granted
    <3>2. host'[h] = Granted(h) /\ \A i \in Host : i # h => host'[i] = host[i]
      BY <1>0, <3>1 DEF Become
    <3>3. WindowMove(h)
      BY <1>4, <2>2, <3>2 DEF WindowMove
    <3> QED
      BY <3>2, <3>3, CalmWindow
  <2> QED
    BY <2>1, <2>2
<1>5. CASE Look(h)
  <2>1. PICK s \in Runnable(me.job) :
          \/ Become(h, [me EXCEPT !.pc = "preflight_failed", !.step = s])
          \/ \E d \in Decisions(s) :
               Become(h, [me EXCEPT !.pc = "decided", !.step = s, !.decision = d])
    BY <1>5 DEF Look
  <2>2. ~At(h, Idle)
    BY <1>5 DEF Look, At, Idle
  <2>3. CASE Become(h, [me EXCEPT !.pc = "preflight_failed", !.step = s])
    <3> DEFINE new == [me EXCEPT !.pc = "preflight_failed", !.step = s]
    <3>1. /\ new.pc = "preflight_failed" /\ new.life = me.life /\ new.job = me.job
          /\ new.gen = me.gen /\ new.window = me.window /\ Become(h, new)
      BY <1>0, <2>3 DEF HostRow
    <3> HIDE DEF new
    <3> QED
      BY <2>2, <3>1, BecomeWindow DEF Idle
  <2>4. ASSUME NEW d, Become(h, [me EXCEPT !.pc = "decided", !.step = s, !.decision = d])
        PROVE  \A i \in Host : WindowMove(i)
    <3> DEFINE new == [me EXCEPT !.pc = "decided", !.step = s, !.decision = d]
    <3>1. /\ new.pc = "decided" /\ new.life = me.life /\ new.job = me.job
          /\ new.gen = me.gen /\ new.window = me.window /\ Become(h, new)
      BY <1>0, <2>4 DEF HostRow
    <3> HIDE DEF new
    <3> QED
      BY <2>2, <3>1, BecomeWindow DEF Idle
  <2> QED
    BY <2>1, <2>3, <2>4
<1>6. CASE Ask(h)
  <2> DEFINE new == [me EXCEPT !.pc = "asking", !.timer = 0]
  <2>1. /\ new.pc = "asking" /\ new.life = me.life /\ new.job = me.job
        /\ new.gen = me.gen /\ new.window = me.window /\ Become(h, new) /\ ~At(h, Idle)
    BY <1>0, <1>6 DEF Ask, At, Idle, HostRow
  <2> HIDE DEF new
  <2> QED
    BY <2>1, BecomeWindow DEF Idle
<1>7. CASE ServeWritePermit(h)
  <2> DEFINE permitted == Left(job[me.job].lease, me.timer)
             limit == IF permitted < me.window THEN permitted ELSE me.window
             new == [me EXCEPT !.pc = "permitted", !.timer = 0, !.limit = limit]
  <2>1. (UNCHANGED host \/ Become(h, new)) /\ ~At(h, Idle)
    BY <1>7 DEF ServeWritePermit, ReplyLost, At, Idle
  <2> HIDE DEF limit
  <2>2. /\ new.pc = "permitted" /\ new.life = me.life /\ new.job = me.job
        /\ new.gen = me.gen /\ new.window = me.window
    BY <1>0 DEF HostRow
  <2> HIDE DEF new
  <2> QED
    BY <2>1, <2>2, BecomeWindow, RoundWindow DEF Idle
<1>8. CASE ServePrepareAgain(h)
  <2> DEFINE new == [me EXCEPT !.pc = "reporting", !.timer = 0, !.verdict = "unknown"]
  <2>1. (Become(h, new) \/ Leave(h) \/ NextStep(h)) /\ ~At(h, Idle)
    BY <1>8 DEF ServePrepareAgain, AnsweredAgain, At, Idle
  <2>2. /\ new.pc = "reporting" /\ new.life = me.life /\ new.job = me.job
        /\ new.gen = me.gen /\ new.window = me.window
    BY <1>0 DEF HostRow
  <2> HIDE DEF new
  <2> QED
    BY <2>1, <2>2, BecomeWindow, RoundWindow DEF Idle
<1>9. CASE RefusePrepare(h)
  <2> DEFINE new == [me EXCEPT !.pc = "preflight_failed", !.timer = 0]
  <2>1. /\ new.pc = "preflight_failed" /\ new.life = me.life /\ new.job = me.job
        /\ new.gen = me.gen /\ new.window = me.window /\ Become(h, new) /\ ~At(h, Idle)
    BY <1>0, <1>9 DEF RefusePrepare, At, Idle, HostRow
  <2> HIDE DEF new
  <2> QED
    BY <2>1, BecomeWindow DEF Idle
<1>10. CASE StartWrite(h)
  <2> DEFINE new == [me EXCEPT !.pc = "writing", !.limit = 0]
  <2>1. /\ new.pc = "writing" /\ new.life = me.life /\ new.job = me.job
        /\ new.gen = me.gen /\ new.window = me.window /\ Become(h, new) /\ ~At(h, Idle)
    BY <1>0, <1>10 DEF StartWrite, At, Idle, HostRow
  <2> HIDE DEF new
  <2> QED
    BY <2>1, BecomeWindow DEF Idle
<1>11. CASE NoWrite(h)
  <2>1. PICK v \in {"failed", "unknown"} :
          Become(h, [me EXCEPT !.pc = "reporting", !.limit = 0, !.verdict = v])
    BY <1>11 DEF NoWrite
  <2> DEFINE new == [me EXCEPT !.pc = "reporting", !.limit = 0, !.verdict = v]
  <2>2. /\ new.pc = "reporting" /\ new.life = me.life /\ new.job = me.job
        /\ new.gen = me.gen /\ new.window = me.window /\ Become(h, new)
    BY <1>0, <2>1 DEF HostRow
  <2>3. ~At(h, Idle)
    BY <1>11 DEF NoWrite, At, Idle
  <2> HIDE DEF new
  <2> QED
    BY <2>2, <2>3, BecomeWindow DEF Idle
<1>12. CASE EndWrite(h)
  <2>1. PICK v \in Outcomes(me.step) : Become(h, [me EXCEPT !.pc = "reporting", !.verdict = v])
    BY <1>12 DEF EndWrite
  <2> DEFINE new == [me EXCEPT !.pc = "reporting", !.verdict = v]
  <2>2. /\ new.pc = "reporting" /\ new.life = me.life /\ new.job = me.job
        /\ new.gen = me.gen /\ new.window = me.window /\ Become(h, new)
    BY <1>0, <2>1 DEF HostRow
  <2>3. ~At(h, Idle)
    BY <1>12 DEF EndWrite, At, Idle
  <2> HIDE DEF new
  <2> QED
    BY <2>2, <2>3, BecomeWindow DEF Idle
<1>13. CASE RecordEvidence(h) \/ RefuseResult(h) \/ SendFailure(h)
  <2>1. PICK pc \in {"sending", "evidencing", "failing"} : Goto(h, pc)
    BY <1>13 DEF RecordEvidence, RefuseResult, SendFailure
  <2> DEFINE new == [me EXCEPT !.pc = pc]
  <2>2. /\ new.pc = pc /\ new.life = me.life /\ new.job = me.job
        /\ new.gen = me.gen /\ new.window = me.window /\ Become(h, new)
    BY <1>0, <2>1 DEF HostRow, Goto
  <2>3. ~At(h, Idle)
    BY <1>13 DEF RecordEvidence, RefuseResult, SendFailure, At, Idle
  <2> HIDE DEF new
  <2> QED
    BY <2>2, <2>3, BecomeWindow DEF Idle
<1>14. CASE RefuseEvidence(h)
  <2> DEFINE new == [me EXCEPT !.pc = "preflight_failed", !.verdict = None]
  <2>1. /\ new.pc = "preflight_failed" /\ new.life = me.life /\ new.job = me.job
        /\ new.gen = me.gen /\ new.window = me.window /\ Become(h, new) /\ ~At(h, Idle)
    BY <1>0, <1>14 DEF RefuseEvidence, At, Idle, HostRow
  <2> HIDE DEF new
  <2> QED
    BY <2>1, BecomeWindow DEF Idle
<1>15. CASE SendHeartbeat(h)
  <2> DEFINE new == [me EXCEPT !.beating = TRUE, !.beat = 0]
  <2>1. /\ new.pc = me.pc /\ new.life = me.life /\ new.job = me.job
        /\ new.gen = me.gen /\ new.window = me.window /\ Become(h, new) /\ ~At(h, Idle)
    BY <1>0, <1>15 DEF SendHeartbeat, At, HostRow
  <2> HIDE DEF new
  <2> QED
    BY <2>1, BecomeWindow DEF At
<1>16. CASE LoseHeartbeat(h)
  <2> DEFINE new == [me EXCEPT !.beating = FALSE, !.beat = 0, !.window = 0]
  <2>1. /\ new.pc = me.pc /\ new.life = me.life /\ new.job = me.job
        /\ new.gen = me.gen /\ new.window = 0 /\ Become(h, new)
    BY <1>0, <1>16 DEF LoseHeartbeat, HostRow
  <2>2. ~At(h, Idle)
    BY <1>16 DEF LoseHeartbeat, WorkerInv, ThreadInv
  <2> HIDE DEF new
  <2> QED
    BY <2>1, <2>2, BecomeWindow DEF At
<1>17. CASE ServeHeartbeat(h)
  <2> DEFINE n == IF me.window = 0 THEN 0 ELSE Left(LeaseSeconds, me.beat)
             new == [me EXCEPT !.beating = FALSE, !.beat = 0, !.window = n]
  <2>1. UNCHANGED host \/ Become(h, new)
    BY <1>17 DEF ServeHeartbeat, ReplyLost
  <2>2. /\ ~At(h, Idle) /\ Heartbeat(me.job, Me(h), me.gen)
    BY <1>17 DEF ServeHeartbeat, WorkerInv, ThreadInv
  <2>3. n = 0 \/ (InWindow(h) /\ n \in 0..LeaseSeconds)
    BY <1>0, TimeFacts, BoundAssumption DEF HostRow, InWindow
  <2> HIDE DEF n
  <2>4. /\ new.pc = me.pc /\ new.life = me.life /\ new.job = me.job
        /\ new.gen = me.gen /\ new.window = n
    BY <1>0 DEF HostRow
  <2> HIDE DEF new
  <2>5. CASE Become(h, new)
    BY <2>2, <2>3, <2>4, <2>5, BecomeWindow DEF At
  <2> QED
    BY <2>1, <2>2, <2>5, RoundWindow
<1>18. CASE Crash(h)
  <2>1. host'[h] = Resting(me.life + 1) /\ \A i \in Host : i # h => host'[i] = host[i]
    BY <1>0, <1>18 DEF Crash, Become
  <2>2. WindowMove(h)
    BY <2>1 DEF WindowMove, Resting
  <2> QED
    BY <2>1, <2>2, CalmWindow
<1> QED
  BY <1>1, <1>2, <1>3, <1>4, <1>5, <1>6, <1>7, <1>8, <1>9, <1>10, <1>11, <1>12, <1>13, <1>14,
     <1>15, <1>16, <1>17, <1>18 DEF Loop, Beating

LEMMA WindowMoves ==
  ASSUME WorkerInv, LeaseInv, [WorkerNext]_vars, ~Elapse
  PROVE  \A i \in Host : WindowMove(i)
<1>1. ASSUME NEW h \in Host, Loop(h) \/ Beating(h) \/ Crash(h)
      PROVE  \A i \in Host : WindowMove(i)
  BY <1>1, HostWindow
<1>2. UNCHANGED host => \A i \in Host : WindowMove(i)
  BY CalmWindow
<1> QED
  BY <1>1, <1>2 DEF WorkerNext, Replay, ServeLate, Land, Supervise, vars

MeAfter(i) == <<i, host'[i].life>>

OwnedAfter(j, w, g) ==
  /\ job'[j].worker = w /\ job'[j].gen = g /\ job'[j].status \in Leased /\ job'[j].lease > 0

WindowAfter(i) ==
  host'[i].window > 0 =>
    /\ host'[i].pc # Idle
    /\ CoveredAfter(host'[i].job, MeAfter(i), host'[i].gen, host'[i].window)

AnswerAfter(i) ==
  host'[i].pc = Idle /\ receipt'[MeAfter(i)].known =>
    /\ host'[i].waiting
    /\ receipt'[MeAfter(i)].job # None /\ host'[i].timer < LeaseSeconds =>
         CoveredAfter(receipt'[MeAfter(i)].job, MeAfter(i), receipt'[MeAfter(i)].gen,
                      LeaseSeconds - host'[i].timer)

PermitAfter(i) ==
  host'[i].pc = "permitted" /\ host'[i].window > 0 =>
    \/ job'[host'[i].job].canceled
    \/ /\ OwnedAfter(host'[i].job, MeAfter(i), host'[i].gen)
       /\ step'[host'[i].step].status = "write_intent"
       /\ step'[host'[i].step].worker = MeAfter(i) /\ step'[host'[i].step].gen = host'[i].gen

\* What was granted, or will be when the answer is read, is still covered.
LEMMA WindowLease ==
  ASSUME WorkerInv, LeaseInv, [WorkerNext]_vars, ~Elapse, NEW i \in Host
  PROVE  WindowAfter(i)
<1> SUFFICES ASSUME host'[i].window > 0
             PROVE  /\ host'[i].pc # Idle
                    /\ CoveredAfter(host'[i].job, MeAfter(i), host'[i].gen, host'[i].window)
  BY DEF WindowAfter
<1>0. /\ job \in [Job -> JobRow] /\ host \in [Host -> HostRow] /\ host[i] \in HostRow
      /\ host'[i].window \in 0..LeaseSeconds
  BY WorkerTypeStep DEF WorkerInv, WorkerTypeOK, LedgerGood, TypeOK, HostRow
<1>1. WindowMove(i)
  BY WindowMoves
<1>2. CASE /\ ~At(i, Idle) /\ host'[i].pc # Idle /\ SameLife(i)
           /\ host'[i].job = host[i].job /\ host'[i].gen = host[i].gen
           /\ host'[i].window \in {0, host[i].window}
  <2>1. InWindow(i) /\ host'[i].window = host[i].window
    BY <1>2 DEF InWindow
  <2>2. Covered(host[i].job, Me(i), host[i].gen, host[i].window)
    BY <2>1 DEF LeaseInv
  <2>3. host[i].job \in Job /\ host[i].window \in Int
    BY <1>0, <1>2, BusyFacts DEF HostRow
  <2>4. CoveredAfter(host[i].job, Me(i), host[i].gen, host[i].window)
    BY <2>2, <2>3, CoverStays
  <2> QED
    BY <1>2, <2>1, <2>4 DEF MeAfter, Me, SameLife
<1>3. CASE /\ ~At(i, Idle) /\ host'[i].pc # Idle /\ SameLife(i)
           /\ host'[i].job = host[i].job /\ host'[i].gen = host[i].gen
           /\ Heartbeat(host[i].job, Me(i), host[i].gen)
  <2> DEFINE j == host[i].job
  <2>1. j \in Job
    BY <1>3, BusyFacts
  <2>2. Owned(j, Me(i), host[i].gen) /\ job' = [job EXCEPT ![j].lease = LeaseSeconds]
    BY <1>3 DEF Heartbeat
  <2>3. /\ job'[j].worker = Me(i) /\ job'[j].gen = host[i].gen /\ job'[j].status \in Leased
        /\ job'[j].lease = LeaseSeconds
    BY <1>0, <2>1, <2>2 DEF Owned, JobRow
  <2>4. Me(i) = MeAfter(i)
    BY <1>3 DEF Me, MeAfter, SameLife
  <2> QED
    BY <1>0, <1>3, <2>3, <2>4, BoundAssumption DEF CoveredAfter
<1>4. CASE ReadClaim(i) /\ receipt[Me(i)].job # None /\ host'[i] = Granted(i)
  <2> DEFINE n == Left(LeaseSeconds, host[i].timer)
             j == receipt[Me(i)].job
             g == receipt[Me(i)].gen
  <2>1. /\ host'[i].pc = "working" /\ host'[i].job = j /\ host'[i].gen = g
        /\ host'[i].window = n /\ host'[i].life = host[i].life
    BY <1>4 DEF Granted, Resting
  <2>2. At(i, Idle) /\ receipt[Me(i)].known /\ job' = job
    BY <1>4 DEF ReadClaim, NewClaimRequest
  <2>3. /\ host[i].timer \in 0..LeaseSeconds /\ Margin \in Nat /\ LeaseSeconds \in Nat
    BY <1>0, HostAssumption, BoundAssumption DEF HostRow
  <2>4. host[i].timer < LeaseSeconds /\ n <= LeaseSeconds - host[i].timer
    BY <2>1, <2>3 DEF Left
  <2>5. Covered(j, Me(i), g, LeaseSeconds - host[i].timer)
    BY <1>4, <2>2, <2>4 DEF LeaseInv
  <2>6. Me(i) = MeAfter(i)
    BY <2>1 DEF Me, MeAfter
  <2>7. Me(i) \in Worker /\ j \in Job
    BY <1>4, <2>2, HostFacts, AnswerFacts DEF WorkerInv
  <2>8. job[j].lease \in Int /\ n \in Int
    BY <1>0, <2>1, <2>7 DEF JobRow
  <2> HIDE DEF n, j, g
  <2>9. CoveredAfter(j, Me(i), g, n)
    BY <2>2, <2>3, <2>4, <2>5, <2>8 DEF Covered, Owned, CoveredAfter
  <2> QED
    BY <2>1, <2>6, <2>9 DEF Idle
<1> QED
  BY <1>1, <1>2, <1>3, <1>4 DEF WindowMove

LEMMA AnswerLease ==
  ASSUME WorkerInv, LeaseInv, [WorkerNext]_vars, ~Elapse, NEW i \in Host
  PROVE  AnswerAfter(i)
<1> SUFFICES ASSUME host'[i].pc = Idle, receipt'[MeAfter(i)].known PROVE AnswerAfter(i)
  BY DEF AnswerAfter
<1>0. /\ job \in [Job -> JobRow] /\ host \in [Host -> HostRow] /\ host[i] \in HostRow
      /\ receipt \in [Worker -> ReceiptRow] /\ host'[i] \in HostRow
      /\ Me(i) \in Worker /\ MeAfter(i) \in Worker
  <2>1. /\ job \in [Job -> JobRow] /\ host \in [Host -> HostRow] /\ host' \in [Host -> HostRow]
        /\ receipt \in [Worker -> ReceiptRow]
    BY WorkerTypeStep DEF WorkerInv, WorkerTypeOK, LedgerGood, TypeOK
  <2> QED
    BY <2>1, HostFacts, HostAssumption DEF WorkerInv, MeAfter, HostRow
<1>1. WindowMove(i)
  BY WindowMoves
\* Its answer is the one it had, or it has just been given.
<1>2. \/ receipt'[MeAfter(i)] = receipt[MeAfter(i)]
      \/ ServeClaim(i) /\ MeAfter(i) = Me(i)
  <2>1. CASE receipt' = receipt
    BY <2>1
  <2>2. ASSUME NEW h \in Host, ServeClaim(h) \/ ReadClaim(h)
        PROVE  \/ receipt'[MeAfter(i)] = receipt[MeAfter(i)]
               \/ ServeClaim(i) /\ MeAfter(i) = Me(i)
    <3>1. \E r : receipt' = [receipt EXCEPT ![Me(h)] = r]
      BY <2>2 DEF ServeClaim, ReadClaim, ClaimNothing, Claim, NewClaimRequest
    <3>2. CASE Me(h) # MeAfter(i)
      BY <1>0, <3>1, <3>2
    <3>3. CASE Me(h) = MeAfter(i)
      <4>1. h = i
        BY <3>3 DEF Me, MeAfter
      <4>2. ~ReadClaim(i)
        <5>1. ReadClaim(i) => receipt' = [receipt EXCEPT ![Me(i)] = [known |-> FALSE, job |-> None, gen |-> 0]]
          BY DEF ReadClaim, NewClaimRequest
        <5> QED
          BY <1>0, <3>3, <4>1, <5>1
      <4> QED
        BY <2>2, <3>3, <4>1, <4>2
    <3> QED
      BY <3>2, <3>3
  <2> QED
    BY <2>1, <2>2, AnswerMoves
<1>3. CASE ServeClaim(i) /\ MeAfter(i) = Me(i)
  <2>1. host' = host /\ host[i].waiting
    BY <1>3 DEF ServeClaim
  <2>2. CASE ClaimNothing(Me(i))
    <3>1. receipt'[Me(i)].job = None
      BY <1>0, <2>2 DEF ClaimNothing
    <3> QED
      BY <1>3, <2>1, <3>1 DEF AnswerAfter
  <2>3. ASSUME NEW j \in Job, Claim(j, Me(i)) PROVE AnswerAfter(i)
    <3>1. /\ receipt'[Me(i)].job = j /\ receipt'[Me(i)].gen = job[j].gen + 1
      BY <1>0, <2>3 DEF Claim
    <3>2. \E old : job' = [job EXCEPT ![j] = [old EXCEPT !.status = "claimed", !.target = TRUE,
                             !.worker = Me(i), !.gen = job[j].gen + 1, !.lease = LeaseSeconds]]
                   /\ old = job[j]
      BY <2>3 DEF Claim
    <3>3. /\ job'[j].worker = Me(i) /\ job'[j].gen = job[j].gen + 1
          /\ job'[j].status \in Leased /\ job'[j].lease = LeaseSeconds
      BY <1>0, <3>2 DEF JobRow, Leased
    <3>4. host[i].timer \in 0..LeaseSeconds
      BY <1>0 DEF HostRow
    <3>5. CoveredAfter(j, Me(i), job[j].gen + 1, LeaseSeconds - host[i].timer)
      BY <3>3, <3>4, BoundAssumption DEF CoveredAfter
    <3> QED
      BY <1>3, <2>1, <3>1, <3>5 DEF AnswerAfter
  <2> QED
    BY <1>3, <2>2, <2>3 DEF ServeClaim
<1>4. CASE receipt'[MeAfter(i)] = receipt[MeAfter(i)]
  <2>1. receipt[MeAfter(i)].known
    BY <1>4
  \* A new life has no answer; nor has a host that was busy or did not ask.
  <2>2. host'[i].life # host[i].life + 1
    <3> SUFFICES ASSUME host'[i].life = host[i].life + 1 PROVE FALSE
      OBVIOUS
    <3>1. MeAfter(i)[2] <= host[MeAfter(i)[1]].life
      BY <1>0, <2>1 DEF WorkerInv, ThreadInv
    <3>2. host[i].life \in Nat
      BY <1>0, HostAssumption DEF HostRow
    <3> QED
      BY <3>1, <3>2 DEF MeAfter
  <2>3. SameLife(i) => MeAfter(i) = Me(i)
    BY DEF SameLife, Me, MeAfter
  <2>4. ~(~At(i, Idle) /\ SameLife(i))
    BY <2>1, <2>3, BusyFacts
  <2>5. ~(SendClaim(i) /\ SameLife(i))
    BY <2>1, <2>3 DEF SendClaim, LeaseInv
  <2>6. ~(ReadClaim(i) /\ SameLife(i))
    <3>1. ReadClaim(i) => receipt' = [receipt EXCEPT ![Me(i)] = [known |-> FALSE, job |-> None, gen |-> 0]]
      BY DEF ReadClaim, NewClaimRequest
    <3> QED
      BY <1>0, <2>3, <3>1
  <2>7. host'[i].pc = Idle /\ ~(host'[i] = Granted(i))
    <3>1. Granted(i).pc = "working" /\ Idle # "working"
      BY DEF Granted, Resting, Idle
    <3> QED
      BY <3>1
  <2>8. host'[i] = host[i]
    BY <1>1, <2>2, <2>4, <2>5, <2>6, <2>7 DEF WindowMove
  <2>9. MeAfter(i) = Me(i) /\ At(i, Idle) /\ host[i].waiting
    BY <2>1, <2>7, <2>8 DEF MeAfter, Me, At, LeaseInv
  <2>10. ASSUME receipt[Me(i)].job # None, host[i].timer < LeaseSeconds
         PROVE  CoveredAfter(receipt[Me(i)].job, Me(i), receipt[Me(i)].gen,
                             LeaseSeconds - host[i].timer)
    <3>1. Covered(receipt[Me(i)].job, Me(i), receipt[Me(i)].gen, LeaseSeconds - host[i].timer)
      BY <2>1, <2>9, <2>10 DEF LeaseInv
    <3>2. receipt[Me(i)].job \in Job /\ LeaseSeconds - host[i].timer \in Int
      BY <1>0, <2>1, <2>9, <2>10, AnswerFacts, BoundAssumption DEF HostRow
    <3> QED
      BY <3>1, <3>2, CoverStays
  <2> QED
    BY <1>4, <2>8, <2>9, <2>10 DEF AnswerAfter
<1> QED
  BY <1>2, <1>3, <1>4

\* A permit in a live window is still that of the write in progress.
LEMMA PermitLease ==
  ASSUME WorkerInv, LeaseInv, [WorkerNext]_vars, ~Elapse, NEW i \in Host
  PROVE  PermitAfter(i)
<1> SUFFICES ASSUME host'[i].pc = "permitted", host'[i].window > 0,
                    ~job'[host'[i].job].canceled
             PROVE  PermitAfter(i)
  BY DEF PermitAfter
<1> DEFINE s == host[i].step
           j == host[i].job
           g == host[i].gen
<1>0. /\ TypeOK /\ LedgerInv /\ RecordInv /\ Me(i) \in Worker /\ "prepare" \in Request
      /\ host[i] \in HostRow /\ TruthMove(i) /\ WindowMove(i) /\ LeasesMove /\ WindowAfter(i)
      /\ TypeOK' /\ LedgerInv'
  BY HostFacts, HostAssumption, TruthMoves, WindowMoves, WorkerLeases, WindowLease, StepFrame
     DEF WorkerInv, LedgerGood
<1>1. host'[i].step = s /\ (At(i, "permitted") \/ ServeWritePermit(i))
  BY <1>0 DEF TruthMove
<1>2. ~At(i, Idle) /\ ~At(i, "working")
  BY <1>1 DEF ServeWritePermit, At, Idle
<1>3. /\ host'[i].job = j /\ host'[i].gen = g /\ MeAfter(i) = Me(i) /\ InWindow(i)
  <2>1. host'[i] # Granted(i)
    BY DEF Granted, Resting
  <2> QED
    BY <1>0, <2>1 DEF WindowMove, SameLife, MeAfter, Me, Idle, InWindow
<1>4. s \in Step /\ s \in StepsOf(j) /\ s[1] = j /\ j \in Job /\ g \in Nat
  BY <1>2, BusyFacts
<1>5. step'[s].status = "write_intent" /\ step'[s].worker = Me(i) /\ step'[s].gen = g
  <2>1. CASE At(i, "permitted")
    <3>1. job[j].canceled => job'[j].canceled
      BY <1>0, <1>4 DEF LeasesMove, LeaseKept
    <3>2. /\ Owned(j, Me(i), g)
          /\ step[s].status = "write_intent" /\ Intent(s, Me(i), g)
      BY <1>3, <2>1, <3>1 DEF LeaseInv
    <3>3. job[j].lease # 0
      BY <3>2 DEF Owned
    <3>4. SameStep(step[s], step'[s])
      BY <1>0, <1>3, <1>4, <2>1, <3>2, <3>3 DEF LeasesMove, PermitKept, Permitting
    <3> QED
      BY <3>2, <3>4 DEF SameStep, Intent
  <2>2. CASE ServeWritePermit(i)
    <3>1. PrepareWrite(s, Me(i), g, "prepare")
      BY <2>2 DEF ServeWritePermit
    <3> HIDE DEF s, g
    <3>2. ASSUME NEW x \in Step, NEW y \in Worker, NEW z \in Nat, NEW r \in Request,
                 PrepareWrite(x, y, z, r)
          PROVE  step'[x].status = "write_intent" /\ step'[x].worker = y /\ step'[x].gen = z
      BY <1>0, <3>2, PrepareWriteEffect, ZenonT(60)
    <3> QED
      BY <1>0, <1>4, <3>1, <3>2
  <2> QED
    BY <1>1, <2>1, <2>2
<1> HIDE DEF s, j, g
<1>6. job'[j].status = "running" /\ job'[j].worker = Me(i) /\ job'[j].gen = g
  BY <1>0, <1>4, <1>5 DEF LedgerInv, JobInv
<1>7. job'[j].lease > 0
  BY <1>0, <1>3, <1>6 DEF WindowAfter, CoveredAfter, Ended, Active
<1> QED
  BY <1>1, <1>3, <1>5, <1>6, <1>7 DEF PermitAfter, OwnedAfter, Leased

\* A second leaves of a job everything but its lease.
LEMMA JobAfterElapse ==
  ASSUME WorkerInv, Elapse, NEW j \in Job
  PROVE  job'[j].status = job[j].status /\ job'[j].canceled = job[j].canceled
<1>0. job \in [Job -> JobRow] /\ job[j] \in JobRow
  BY DEF WorkerInv, LedgerGood, TypeOK
<1>1. CASE Tick
  <2>1. job'[j] = [job[j] EXCEPT !.lease = IF @ > 0 THEN @ - 1 ELSE 0]
    BY <1>1 DEF Tick
  <2> QED
    BY <1>0, <2>1 DEF JobRow
<1>2. CASE HostsOnly
  BY <1>2 DEF HostsOnly, ledger
<1> QED
  BY <1>1, <1>2 DEF Elapse

\* A second takes as much from a lease as from what it covers.
LEMMA CoverElapses ==
  ASSUME WorkerInv, Elapse, NEW j \in Job, NEW w, NEW g, NEW n \in Int, n > 0,
         Covered(j, w, g, n + 1)
  PROVE  CoveredAfter(j, w, g, n)
<1>0. job \in [Job -> JobRow] /\ job[j] \in JobRow
  BY DEF WorkerInv, LedgerGood, TypeOK
<1>1. CASE job[j].lease > 0 /\ Tick
  <2>1. job'[j] = [job[j] EXCEPT !.lease = job[j].lease - 1]
    BY <1>1 DEF Tick
  <2>2. /\ job'[j].status = job[j].status /\ job'[j].worker = job[j].worker
        /\ job'[j].gen = job[j].gen /\ job'[j].lease = job[j].lease - 1
    BY <1>0, <2>1 DEF JobRow
  <2>3. job[j].lease \in Nat
    BY <1>0, BoundAssumption DEF JobRow
  <2> QED
    BY <2>2, <2>3 DEF Covered, CoveredAfter, Owned, Ended
<1>2. CASE ~(job[j].lease > 0) \/ HostsOnly
  <2>1. ~(job[j].lease > 0)
    BY <1>2 DEF HostsOnly
  <2>2. Ended(job[j])
    BY <2>1 DEF Covered, Owned
  <2>3. job'[j].status = job[j].status
    BY JobAfterElapse
  <2> QED
    BY <2>2, <2>3 DEF CoveredAfter, Ended
<1> QED
  BY <1>1, <1>2 DEF Elapse

\* A second shortens the window of every host, and lengthens the wait of one that asked.
LEMMA ElapseLease ==
  ASSUME WorkerInv, LeaseInv, Elapse, NEW i \in Host
  PROVE  WindowAfter(i) /\ AnswerAfter(i) /\ PermitAfter(i)
<1>0. /\ host[i] \in HostRow /\ receipt' = receipt /\ step' = step /\ Me(i) \in Worker
      /\ host[i].window \in Nat /\ host[i].timer \in Nat /\ LeaseSeconds \in Nat
  <2>1. host[i] \in HostRow /\ Me(i) \in Worker
    BY HostFacts DEF WorkerInv
  <2>2. host[i].window \in Nat /\ host[i].timer \in Nat /\ LeaseSeconds \in Nat
    BY <2>1, BoundAssumption DEF HostRow
  <2> QED
    BY <2>1, <2>2 DEF Elapse, Tick, HostsOnly, ledger
<1>1. /\ host'[i].life = host[i].life /\ host'[i].pc = host[i].pc
      /\ host'[i].waiting = host[i].waiting /\ host'[i].job = host[i].job
      /\ host'[i].gen = host[i].gen /\ host'[i].step = host[i].step
      /\ host'[i].window = Less(host[i].window)
      /\ host'[i].timer = IF Timed(i) THEN More(host[i].timer) ELSE host[i].timer
  <2>1. host'[i] = [host[i] EXCEPT
          !.window = Less(host[i].window), !.limit = Less(host[i].limit),
          !.timer = IF Timed(i) THEN More(host[i].timer) ELSE host[i].timer,
          !.beat = IF host[i].beating THEN More(host[i].beat) ELSE host[i].beat]
    BY DEF Elapse
  <2> QED
    BY <1>0, <2>1 DEF HostRow
<1>2. MeAfter(i) = Me(i)
  BY <1>1 DEF MeAfter, Me
<1>3. WindowAfter(i)
  <2> SUFFICES ASSUME host'[i].window > 0
               PROVE  /\ host'[i].pc # Idle
                      /\ CoveredAfter(host'[i].job, MeAfter(i), host'[i].gen, host'[i].window)
    BY DEF WindowAfter
  <2>1. InWindow(i) /\ host[i].window = host'[i].window + 1 /\ host'[i].window \in Int
    BY <1>0, <1>1 DEF Less, InWindow
  <2>2. ~At(i, Idle) /\ Covered(host[i].job, Me(i), host[i].gen, host'[i].window + 1)
    BY <2>1 DEF LeaseInv
  <2>3. host[i].job \in Job
    BY <2>2, BusyFacts
  <2>4. CoveredAfter(host[i].job, Me(i), host[i].gen, host'[i].window)
    BY <2>1, <2>2, <2>3, CoverElapses
  <2> QED
    BY <1>1, <1>2, <2>2, <2>4 DEF At
<1>4. AnswerAfter(i)
  <2> SUFFICES ASSUME host'[i].pc = Idle, receipt'[MeAfter(i)].known PROVE AnswerAfter(i)
    BY DEF AnswerAfter
  <2>1. At(i, Idle) /\ receipt[Me(i)].known /\ host[i].waiting
    BY <1>0, <1>1, <1>2 DEF At, LeaseInv
  <2>2. ASSUME receipt[Me(i)].job # None, host'[i].timer < LeaseSeconds
        PROVE  CoveredAfter(receipt[Me(i)].job, Me(i), receipt[Me(i)].gen,
                            LeaseSeconds - host'[i].timer)
    <3>1. /\ host'[i].timer = host[i].timer + 1 /\ host[i].timer < LeaseSeconds
          /\ LeaseSeconds - host[i].timer = (LeaseSeconds - host'[i].timer) + 1
          /\ LeaseSeconds - host'[i].timer \in Int /\ LeaseSeconds - host'[i].timer > 0
      BY <1>0, <1>1, <2>1, <2>2 DEF More, Timed
    <3>2. Covered(receipt[Me(i)].job, Me(i), receipt[Me(i)].gen, LeaseSeconds - host[i].timer)
      BY <2>1, <2>2, <3>1 DEF LeaseInv
    <3>3. receipt[Me(i)].job \in Job
      BY <1>0, <2>1, <2>2, AnswerFacts
    <3> QED
      BY <3>1, <3>2, <3>3, CoverElapses
  <2> QED
    BY <1>0, <1>1, <1>2, <2>1, <2>2 DEF AnswerAfter
<1>5. PermitAfter(i)
  <2> SUFFICES ASSUME host'[i].pc = "permitted", host'[i].window > 0,
                      ~job'[host'[i].job].canceled
               PROVE  PermitAfter(i)
    BY DEF PermitAfter
  <2>1. At(i, "permitted") /\ InWindow(i) /\ ~At(i, Idle)
    BY <1>0, <1>1 DEF Less, InWindow, At, Idle
  <2>2. host[i].job \in Job
    BY <2>1, BusyFacts
  <2>3. job'[host[i].job].canceled = job[host[i].job].canceled
    BY <2>2, JobAfterElapse
  <2>4. /\ Owned(host[i].job, Me(i), host[i].gen)
        /\ step[host[i].step].status = "write_intent"
        /\ Intent(host[i].step, Me(i), host[i].gen)
    BY <1>1, <2>1, <2>3 DEF LeaseInv
  <2>5. CoveredAfter(host[i].job, Me(i), host[i].gen, host'[i].window)
    BY <1>1, <1>2, <1>3 DEF WindowAfter
  <2>6. ~Ended(job'[host[i].job])
    <3>1. job'[host[i].job].status = job[host[i].job].status
      BY <2>2, JobAfterElapse
    <3> QED
      BY <2>4, <3>1 DEF Ended, Owned, Leased, Active
  <2>7. OwnedAfter(host[i].job, Me(i), host[i].gen)
    BY <2>5, <2>6 DEF CoveredAfter, OwnedAfter
  <2> QED
    BY <1>0, <1>1, <1>2, <2>4, <2>7 DEF PermitAfter, Intent
<1> QED
  BY <1>3, <1>4, <1>5

LEMMA LeaseStep == WorkerInv /\ LeaseInv /\ [WorkerNext]_vars => LeaseInv'
<1> SUFFICES ASSUME WorkerInv, LeaseInv, [WorkerNext]_vars PROVE LeaseInv'
  OBVIOUS
<1>1. ASSUME NEW i \in Host PROVE WindowAfter(i) /\ AnswerAfter(i) /\ PermitAfter(i)
  BY ElapseLease, WindowLease, AnswerLease, PermitLease
<1> QED
  BY <1>1, ZenonT(60) DEF LeaseInv, WindowAfter, AnswerAfter, PermitAfter, CoveredAfter, OwnedAfter, MeAfter,
    Covered, Owned, Intent, InWindow, At, Me, Ended

LEMMA LeaseStart == WorkerInit => LeaseInv
<1> SUFFICES ASSUME WorkerInit, NEW h \in Host
             PROVE  /\ host[h].window = 0 /\ ~receipt[Me(h)].known /\ host[h].pc = Idle
  BY DEF LeaseInv, InWindow, At, Idle
<1>1. host[h] = Resting(0)
  BY DEF WorkerInit
<1>2. Me(h) \in Worker
  BY <1>1, HostAssumption DEF Me, Resting
<1> QED
  BY <1>1, <1>2 DEF WorkerInit, Init, Resting

\* What a host grants itself, when it reads the answer to its claim or when its heartbeat is
\* answered, never outlasts the lease the control plane keeps for that claim.
THEOREM LeasesCover == WorkerSpec => []LeaseInv
<1>1. WorkerInit => WorkerInv /\ LeaseInv
  BY WorkerStart, LeaseStart
<1>2. WorkerInv /\ LeaseInv /\ [WorkerNext]_vars => (WorkerInv /\ LeaseInv)'
  BY WorkerStep, LeaseStep
<1> QED
  BY <1>1, <1>2, PTL DEF WorkerSpec

LEMMA LeaseHolds == LeaseInv => LeaseCoversWindow
<1> SUFFICES ASSUME LeaseInv, NEW h \in Host, InWindow(h), job[host[h].job].status \in Active
             PROVE  Owned(host[h].job, Me(h), host[h].gen) /\ job[host[h].job].lease >= host[h].window
  BY DEF LeaseCoversWindow
<1> QED
  BY DEF LeaseInv, Covered, Ended

\* Only a permitted write in a live window starts.
LEMMA WriteStarts ==
  ASSUME WorkerInv, LeaseInv, [WorkerNext]_vars, NEW s \in Step, sent'[s] # sent[s]
  PROVE  \/ step[s].status = "write_intent" /\ Owned(s[1], step[s].worker, step[s].gen)
         \/ job[s[1]].canceled
<1>1. PICK h \in Host : StartWrite(h)
  BY RemoteMoves DEF Land, remote
<1>2. At(h, "permitted") /\ InWindow(h) /\ ~At(h, Idle) /\ ~At(h, "working")
  BY <1>1 DEF StartWrite, InTime, At, Idle
<1>3. s = host[h].step /\ s[1] = host[h].job
  <2>1. host[h].step \in Step /\ host[h].step[1] = host[h].job
    BY <1>2, BusyFacts
  <2>2. sent \in [Step -> Nat] /\ sent' = [sent EXCEPT ![host[h].step] = @ + 1]
    BY <1>1 DEF StartWrite, WorkerInv, WorkerTypeOK
  <2> QED
    BY <2>1, <2>2
<1> QED
  BY <1>2, <1>3 DEF LeaseInv, Intent

\* Though it asks nobody at that moment, a worker starts a write only under the live lease
\* and the stored intent of its own claim, unless the job was canceled meanwhile.
THEOREM WritesInsideLease == WorkerSpec => WriteInsideLease
<1>1. WorkerInv /\ LeaseInv /\ [WorkerNext]_vars =>
        [\A s \in Step : sent'[s] # sent[s] =>
            \/ step[s].status = "write_intent" /\ Owned(s[1], step[s].worker, step[s].gen)
            \/ job[s[1]].canceled]_vars
  BY WriteStarts
<1> QED
  BY <1>1, LeaseHolds, WorkersSafe, LeasesCover, PTL DEF WorkerSpec, WriteInsideLease

=============================================================================
