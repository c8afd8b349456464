--------------------------- MODULE StageChain_proofs ---------------------------
(***************************************************************************)
(* Proofs about a generation chain, for any number of stages, attempts,    *)
(* versions, requests and commands under way: its rows are well typed, a   *)
(* run is told the same by stage, attempt and queue, a run stands on       *)
(* approved versions of one input, versions keep their contents and their  *)
(* numbers, and only an old snapshot overruns a draft.                     *)
(***************************************************************************)
EXTENDS StageChain, TLAPS

-----------------------------------------------------------------------------
(* The strengthening, as predicates of the rows: a command that takes new  *)
(* input first detaches what was there and then dispatches, so the rows in *)
(* between must keep it as well.                                           *)

Typed(st, at, ve, qu) ==
  /\ st \in [Stages -> StageRow]
  /\ at \in [Attempts -> AttemptRow]
  /\ ve \in [Versions -> VersionRow]
  /\ qu \in [Requests -> QueueRow]

StageLives(st, at, s) ==
  /\ st[s].active # 0 =>
       /\ at[st[s].active].stage = s
       /\ at[st[s].active].status \in Open
  /\ st[s].current # 0 =>
       /\ at[st[s].current].stage = s
       /\ at[st[s].current].status = "success"

AttemptLives(st, at, qu, a) ==
  /\ at[a].status \in Open => st[at[a].stage].active = a /\ at[a].req # None
  /\ at[a].req # None =>
       /\ qu[at[a].req].run = a
       /\ \/ qu[at[a].req].status = at[a].status
          \/ qu[at[a].req].status \in Ended /\ at[a].status \in Ended
  /\ at[a].status = "none" => at[a].req = None
  /\ at[a].output => at[a].status = "success"

QueueLives(at, qu, r) ==
  qu[r].status # "none" => qu[r].run \in Attempts /\ at[qu[r].run].req = r

Lives(st, at, qu) ==
  /\ \A s \in Stages : StageLives(st, at, s)
  /\ \A a \in Attempts : AttemptLives(st, at, qu, a)
  /\ \A r \in Requests : QueueLives(at, qu, r)

Stands(at, ve) ==
  \A a \in Attempts : \A v \in at[a].ups :
    /\ ve[v].used /\ ve[v].batch = at[a].batch
    /\ at[a].status \in Open => ve[v].live

VersionStands(st, at, ve, v) ==
  /\ ve[v].live => ve[v].used /\ at[ve[v].attempt].output
  /\ ve[v].used =>
       /\ ve[v].attempt \in Attempts
       /\ at[ve[v].attempt].status = "success"
       /\ ve[v].no < st[ve[v].stage].next

Recorded(st, at, ve) == \A v \in Versions : VersionStands(st, at, ve, v)

RowsOK(st, at, ve, qu) ==
  Typed(st, at, ve, qu) /\ Lives(st, at, qu) /\ Stands(at, ve) /\ Recorded(st, at, ve)

CommandOK(cmd) ==
  /\ cmd.what \in {"run", "revise"} => cmd.req \in Requests
  /\ cmd.what # "run" => cmd.expected \in Attempts
  /\ cmd.more => cmd.req \in Requests /\ cmd.stage + 1 \in Stages

HandlerRow == [step : {"idle", "begun", "continue"}, cmd : Command, seen : SUBSET Versions]

Used == {v \in Versions : version[v].used}

CommandsOK ==
  /\ sent \in [Requests -> Command \cup {None}]
  /\ handler \in [Handlers -> HandlerRow]
  /\ \A r \in Requests : sent[r] # None => CommandOK(sent[r])
  /\ \A h \in Handlers :
       /\ handler[h].step # "idle" => CommandOK(handler[h].cmd)
       /\ handler[h].seen \subseteq Used

IInv == RowsOK(stage, attempt, version, queue) /\ CommandsOK

-----------------------------------------------------------------------------
(* Rows and commands that are made *)

LEMMA Ranges ==
  /\ Stages \subseteq Nat /\ 1 \in Stages
  /\ Attempts \subseteq Nat /\ 0 \notin Attempts /\ 0 \in MaybeAttempt
  /\ Requests \subseteq Nat /\ None \notin Requests
  /\ 0 \in 0 .. MaxBatches
BY StageChainAssumption DEF Stages, Attempts, Requests, MaybeAttempt

LEMMA FreshRows ==
  /\ NoAttempt \in AttemptRow
  /\ NoVersion \in VersionRow
  /\ NoQueue \in QueueRow
  /\ Plain \in Command
  /\ Idle \in HandlerRow
<1>1. Plain \in Command
  BY Ranges DEF Plain, Command
<1>2. NoVersion \in VersionRow
  BY Ranges DEF NoVersion, VersionRow
<1>3. NoAttempt \in AttemptRow
  BY Ranges DEF NoAttempt, AttemptRow, Status
<1> QED
  BY <1>1, <1>2, <1>3, Ranges DEF NoQueue, QueueRow, QueueStatus, Idle, HandlerRow

LEMMA LiveUsed == IInv => Live \subseteq Used
BY DEF IInv, RowsOK, Recorded, VersionStands, Live, Used

\* The rows are as they were, and the versions a command knows existed.
LEMMA BecomeOK ==
  ASSUME IInv, NEW h \in Handlers, NEW step \in {"idle", "begun", "continue"},
         NEW cmd \in Command, NEW seen \in SUBSET Versions,
         step # "idle" => CommandOK(cmd),
         \A v \in seen : version'[v].used,
         \A v \in Versions : version[v].used => version'[v].used,
         Become(h, step, cmd, seen),
         sent' \in [Requests -> Command \cup {None}],
         \A r \in Requests : sent'[r] # None => CommandOK(sent'[r])
  PROVE  CommandsOK'
<1> DEFINE row == [step |-> step, cmd |-> cmd, seen |-> seen]
<1>1. /\ row \in HandlerRow /\ row.step = step /\ row.cmd = cmd /\ row.seen = seen
  BY DEF HandlerRow
<1> HIDE DEF row
<1>2. handler' = [handler EXCEPT ![h] = row]
  BY DEF Become, row
<1>3. handler \in [Handlers -> HandlerRow]
  BY DEF IInv, CommandsOK
<1>4. /\ handler' \in [Handlers -> HandlerRow]
      /\ handler'[h] = row
      /\ \A g \in Handlers \ {h} : handler'[g] = handler[g]
  BY <1>1, <1>2, <1>3
<1>5. \A g \in Handlers : handler[g].seen \subseteq Used
                          /\ (handler[g].step # "idle" => CommandOK(handler[g].cmd))
  BY DEF IInv, CommandsOK
<1>6. \A g \in Handlers : handler'[g].seen \subseteq Used'
  BY <1>1, <1>4, <1>5 DEF Used
<1>7. \A g \in Handlers : handler'[g].step # "idle" => CommandOK(handler'[g].cmd)
  BY <1>1, <1>4, <1>5
<1> QED
  BY <1>4, <1>6, <1>7 DEF CommandsOK, CommandOK

LEMMA StopOK ==
  ASSUME IInv, NEW h \in Handlers, Stop(h), UNCHANGED sent,
         \A v \in Versions : version[v].used => version'[v].used
  PROVE  CommandsOK'
BY BecomeOK, FreshRows DEF Stop, IInv, CommandsOK

\* Workers leave the commands alone.
LEMMA AloneOK ==
  ASSUME IInv, UNCHANGED <<sent, handler>>,
         \A v \in Versions : version[v].used => version'[v].used
  PROVE  CommandsOK'
BY DEF IInv, CommandsOK, CommandOK, Used

LEMMA SameRowsOK == IInv /\ UNCHANGED rows => RowsOK(stage, attempt, version, queue)'
BY DEF IInv, rows, RowsOK, Typed, Lives, StageLives, AttemptLives, QueueLives, Stands, Recorded,
       VersionStands

-----------------------------------------------------------------------------
(* Commands begin, end and go on *)

LEMMA BegunOK ==
  ASSUME IInv, NEW h \in Handlers, NEW cmd \in Command, CommandOK(cmd), Begin(h, cmd),
         sent' \in [Requests -> Command \cup {None}],
         \A r \in Requests : sent'[r] # None => CommandOK(sent'[r])
  PROVE  IInv'
<1>1. Live \in SUBSET Versions /\ \A v \in Live : version[v].used
  BY LiveUsed DEF Live, Used
<1>2. UNCHANGED version
  BY DEF Begin, rows
<1>3. CommandsOK'
  BY <1>1, <1>2, BecomeOK DEF Begin
<1> QED
  BY <1>3, SameRowsOK DEF Begin, IInv

LEMMA RequestOK ==
  ASSUME IInv, NEW h \in Handlers, NEW cmd \in Command, CommandOK(cmd), Request(h, cmd),
         cmd.req \in Requests
  PROVE  IInv'
<1>1. sent \in [Requests -> Command \cup {None}] /\ \A r \in Requests : sent[r] # None => CommandOK(sent[r])
  BY DEF IInv, CommandsOK
<1>2. /\ sent' \in [Requests -> Command \cup {None}]
      /\ \A r \in Requests : sent'[r] = IF r = cmd.req THEN cmd ELSE sent[r]
  BY <1>1 DEF Request
<1> QED
  BY <1>1, <1>2, BegunOK DEF Request

LEMMA BeginRunOK ==
  ASSUME IInv, NEW h \in Handlers, NEW s \in Stages, NEW r \in Requests, BeginRun(h, s, r)
  PROVE  IInv'
<1>1. PICK picked \in SUBSET {v \in Live : version[v].stage \in Upstream[s]}, refresh \in BOOLEAN :
        Request(h, [Plain EXCEPT !.stage = s, !.req = r, !.picked = picked, !.refresh = refresh])
  BY DEF BeginRun
<1> DEFINE cmd == [Plain EXCEPT !.stage = s, !.req = r, !.picked = picked, !.refresh = refresh]
<1>2. picked \in SUBSET Versions
  BY DEF Live
<1>3. cmd \in Command /\ cmd.what = "run" /\ cmd.req = r /\ ~cmd.more
  BY <1>2, Ranges DEF Plain, Command
<1> HIDE DEF cmd
<1>4. CommandOK(cmd)
  BY <1>3 DEF CommandOK
<1> QED
  BY <1>1, <1>3, <1>4, RequestOK DEF cmd

LEMMA OnCandidateOK ==
  ASSUME IInv, NEW s \in Stages, stage[s].current # 0, NEW r \in Requests \cup {None},
         NEW what \in {"revise", "save", "approve", "reject"}, what = "revise" => r # None,
         what = "approve" /\ r # None => s \in Stages \ {NStages}
  PROVE  /\ OnCandidate(s, what, r) \in Command
         /\ OnCandidate(s, what, r).req = r
         /\ CommandOK(OnCandidate(s, what, r))
<1> DEFINE cmd == OnCandidate(s, what, r)
<1>1. stage[s].current \in Attempts
  BY DEF IInv, RowsOK, Typed, StageRow, MaybeAttempt
<1>2. /\ cmd \in Command /\ cmd.what = what /\ cmd.req = r /\ cmd.expected = stage[s].current
      /\ cmd.stage = s /\ cmd.more = (what = "approve" /\ r # None)
  BY <1>1, Ranges DEF OnCandidate, Plain, Command, MaybeAttempt
<1>3. s # NStages => s + 1 \in Stages
  BY StageChainAssumption DEF Stages
<1> HIDE DEF cmd
<1>4. CommandOK(cmd)
  BY <1>1, <1>2, <1>3 DEF CommandOK
<1> QED
  BY <1>2, <1>4 DEF cmd

LEMMA BeginOnCandidateOK ==
  ASSUME IInv, NEW h \in Handlers, NEW s \in Stages, NEW what \in {"save", "approve", "reject"},
         BeginOnCandidate(h, s, what)
  PROVE  IInv'
<1>1. sent' \in [Requests -> Command \cup {None}] /\ \A r \in Requests : sent'[r] # None => CommandOK(sent'[r])
  BY DEF IInv, CommandsOK, BeginOnCandidate
<1> QED
  BY <1>1, OnCandidateOK, BegunOK DEF BeginOnCandidate

LEMMA RequestOnCandidateOK ==
  ASSUME IInv, NEW h \in Handlers, NEW s \in Stages, NEW r \in Requests,
         NEW what \in {"revise", "approve"}, what = "approve" => s \in Stages \ {NStages},
         RequestOnCandidate(h, s, what, r)
  PROVE  IInv'
<1>1. r # None
  BY Ranges
<1>2. /\ OnCandidate(s, what, r) \in Command
      /\ OnCandidate(s, what, r).req \in Requests
      /\ CommandOK(OnCandidate(s, what, r))
  BY <1>1, OnCandidateOK DEF RequestOnCandidate
<1> QED
  BY <1>2, RequestOK DEF RequestOnCandidate

LEMMA RetryOK ==
  ASSUME IInv, NEW h \in Handlers, NEW r \in Requests, Retry(h, r)
  PROVE  IInv'
<1>1. sent[r] \in Command /\ CommandOK(sent[r])
  BY DEF IInv, CommandsOK, Retry
<1>2. sent' \in [Requests -> Command \cup {None}] /\ \A q \in Requests : sent'[q] # None => CommandOK(sent'[q])
  BY DEF IInv, CommandsOK, Retry
<1> QED
  BY <1>1, <1>2, BegunOK DEF Retry

LEMMA LeaveOK ==
  ASSUME IInv, NEW h \in Handlers, Leave(h)
  PROVE  IInv'
<1>1. /\ sent' \in [Requests -> Command \cup {None}]
      /\ \A r \in Requests : sent'[r] \in {sent[r], None}
  BY DEF IInv, CommandsOK, Leave
<1>2. CommandsOK'
  BY <1>1, BecomeOK, FreshRows DEF Leave, Stop, rows, IInv, CommandsOK
<1> QED
  BY <1>2, SameRowsOK DEF Leave, IInv

LEMMA ContinueOK ==
  ASSUME IInv, NEW h \in Handlers, Continue(h)
  PROVE  IInv'
<1>1. handler[h].cmd \in Command /\ CommandOK(handler[h].cmd)
  BY DEF IInv, CommandsOK, Continue, HandlerRow
<1>2. Live \in SUBSET Versions /\ \A v \in Live : version[v].used
  BY LiveUsed DEF Live, Used
<1>3. CommandsOK'
  BY <1>1, <1>2, BecomeOK DEF Continue, rows, IInv, CommandsOK
<1> QED
  BY <1>3, SameRowsOK DEF Continue, IInv

\* The command that a continued review turns into.
LEMMA NextStageOK ==
  ASSUME IInv, NEW cmd \in Command, CommandOK(cmd), cmd.more, NEW v \in Versions,
         version' \in [Versions -> VersionRow]
  PROVE  NextStage(v, cmd) \in Command /\ CommandOK(NextStage(v, cmd))
<1> DEFINE picks == {u \in version'[v].ups \cup {v} : version'[u].stage \in Upstream[cmd.stage + 1]}
           next == NextStage(v, cmd)
<1>1. picks \in SUBSET Versions
  BY DEF VersionRow
<1>2. cmd.req \in Requests /\ cmd.stage + 1 \in Stages
  BY DEF CommandOK
<1>3. next = [Plain EXCEPT !.stage = cmd.stage + 1, !.req = cmd.req, !.picked = picks]
  BY DEF NextStage
<1> HIDE DEF picks
<1>4. next \in Command /\ next.what = "run" /\ next.req = cmd.req /\ ~next.more
  BY <1>1, <1>2, <1>3, Ranges DEF Plain, Command
<1> HIDE DEF next
<1>5. CommandOK(next)
  BY <1>2, <1>4 DEF CommandOK
<1> QED
  BY <1>4, <1>5 DEF next

LEMMA ApproveReplayedOK ==
  ASSUME IInv, NEW h \in Handlers, ApproveReplayed(h)
  PROVE  IInv'
<1>1. PICK v \in IF stage[handler[h].cmd.stage].review = "approved" THEN Live ELSE handler[h].seen :
        UNCHANGED version /\ Become(h, "continue", NextStage(v, handler[h].cmd), {})
  BY DEF ApproveReplayed
<1>2. /\ handler[h].cmd \in Command /\ CommandOK(handler[h].cmd)
      /\ handler[h].seen \subseteq Versions /\ handler[h].cmd.more
  BY DEF IInv, CommandsOK, ApproveReplayed, Runs, HandlerRow
<1>3. v \in Versions
  BY <1>1, <1>2 DEF Live
<1>4. version' \in [Versions -> VersionRow]
  BY <1>1 DEF IInv, RowsOK, Typed
<1>5. NextStage(v, handler[h].cmd) \in Command /\ CommandOK(NextStage(v, handler[h].cmd))
  BY <1>2, <1>3, <1>4, NextStageOK
<1>6. CommandsOK'
  BY <1>1, <1>5, BecomeOK DEF ApproveReplayed, IInv, CommandsOK
<1> QED
  BY <1>1, <1>6, SameRowsOK DEF ApproveReplayed, IInv, rows

-----------------------------------------------------------------------------
(* Workers *)

\* A task that has not ended is told of by its attempt and its stage.
LEMMA OpenTask ==
  ASSUME IInv, NEW r \in Requests, queue[r].status \in Open
  PROVE  /\ queue[r].run \in Attempts
         /\ attempt[queue[r].run].req = r
         /\ attempt[queue[r].run].status = queue[r].status
         /\ stage[attempt[queue[r].run].stage].active = queue[r].run
         /\ attempt[queue[r].run].stage \in Stages
         /\ ~attempt[queue[r].run].output
<1> DEFINE a == queue[r].run
<1>1. a \in Attempts /\ attempt[a].req = r /\ r # None
  BY Ranges DEF IInv, RowsOK, Lives, QueueLives, Open
<1>2. attempt[a] \in AttemptRow
  BY <1>1 DEF IInv, RowsOK, Typed
<1> QED
  BY <1>1, <1>2 DEF IInv, RowsOK, Lives, AttemptLives, Open, Ended, AttemptRow

LEMMA MovesOK ==
  ASSUME IInv, NEW r \in Requests, NEW s \in Open, queue[r].status \in Open, Moves(r, s)
  PROVE  IInv'
<1> DEFINE a == queue[r].run
<1>1. /\ a \in Attempts /\ attempt[a].req = r /\ attempt[a].status \in Open
      /\ stage[attempt[a].stage].active = a /\ attempt[a].stage \in Stages /\ ~attempt[a].output
  BY OpenTask
<1>2. /\ attempt \in [Attempts -> AttemptRow] /\ queue \in [Requests -> QueueRow]
  BY DEF IInv, RowsOK, Typed
<1>3. /\ attempt' \in [Attempts -> AttemptRow]
      /\ attempt'[a].status = s
      /\ \A b \in Attempts : /\ attempt'[b].stage = attempt[b].stage /\ attempt'[b].req = attempt[b].req
                             /\ attempt'[b].ups = attempt[b].ups /\ attempt'[b].batch = attempt[b].batch
                             /\ attempt'[b].output = attempt[b].output
                             /\ b # a => attempt'[b] = attempt[b]
  BY <1>1, <1>2 DEF Moves, AttemptRow, Status
<1>4. /\ queue' \in [Requests -> QueueRow] /\ queue'[r].status = s /\ queue'[r].run = a
      /\ \A q \in Requests : q # r => queue'[q] = queue[q]
  BY <1>1, <1>2 DEF Moves, QueueRow, QueueStatus
<1>5. UNCHANGED <<stage, version, sent, handler>>
  BY DEF Moves
<1>6. Typed(stage', attempt', version', queue')
  BY <1>3, <1>4, <1>5 DEF Typed, IInv, RowsOK
<1>7. Lives(stage', attempt', queue')
  <2>1. \A t \in Stages : StageLives(stage', attempt', t)
    BY <1>1, <1>3, <1>5 DEF StageLives, IInv, RowsOK, Lives, Typed, StageRow, MaybeAttempt, Open
  <2>2. \A b \in Attempts : AttemptLives(stage', attempt', queue', b)
    BY <1>1, <1>2, <1>3, <1>4, <1>5 DEF AttemptLives, IInv, RowsOK, Lives, AttemptRow, Open
  <2>3. \A q \in Requests : QueueLives(attempt', queue', q)
    BY <1>1, <1>3, <1>4 DEF QueueLives, IInv, RowsOK, Lives
  <2> QED
    BY <2>1, <2>2, <2>3 DEF Lives
<1>8. Stands(attempt', version')
  BY <1>1, <1>3, <1>5 DEF Stands, IInv, RowsOK
<1>9. Recorded(stage', attempt', version')
  BY <1>1, <1>3, <1>5 DEF Recorded, VersionStands, IInv, RowsOK, Open
<1> QED
  BY <1>5, <1>6, <1>7, <1>8, <1>9, AloneOK DEF IInv, RowsOK

LEMMA PublishOK ==
  ASSUME IInv, NEW r \in Requests, Publish(r)
  PROVE  IInv'
<1> DEFINE a == queue[r].run
           s == attempt[a].stage
<1>1. /\ a \in Attempts /\ attempt[a].req = r /\ attempt[a].status \in Open
      /\ stage[s].active = a /\ s \in Stages /\ ~attempt[a].output /\ s = attempt[a].stage
  BY OpenTask DEF Publish, Held, Open
<1> HIDE DEF a, s
<1>2. /\ attempt \in [Attempts -> AttemptRow] /\ queue \in [Requests -> QueueRow]
      /\ stage \in [Stages -> StageRow]
  BY DEF IInv, RowsOK, Typed
<1>3. /\ attempt' \in [Attempts -> AttemptRow]
      /\ attempt'[a].status = "success" /\ attempt'[a].output
      /\ \A b \in Attempts : /\ attempt'[b].stage = attempt[b].stage /\ attempt'[b].req = attempt[b].req
                             /\ attempt'[b].ups = attempt[b].ups /\ attempt'[b].batch = attempt[b].batch
                             /\ b # a => attempt'[b] = attempt[b]
  <2> DEFINE new == [attempt[a] EXCEPT !.status = "success", !.output = TRUE]
  <2>1. /\ new \in AttemptRow /\ new.status = "success" /\ new.output
        /\ new.stage = attempt[a].stage /\ new.req = attempt[a].req
        /\ new.ups = attempt[a].ups /\ new.batch = attempt[a].batch
    BY <1>1, <1>2, ZenonT(60) DEF AttemptRow, Status
  <2>2. attempt' = [attempt EXCEPT ![a] = new]
    BY <1>1, <1>2 DEF Publish, a, s
  <2> HIDE DEF new
  <2> QED
    BY <1>1, <1>2, <2>1, <2>2
<1>4. /\ queue' \in [Requests -> QueueRow] /\ queue'[r].status = "success" /\ queue'[r].run = a
      /\ \A q \in Requests : q # r => queue'[q] = queue[q]
  BY <1>1, <1>2 DEF Publish, QueueRow, QueueStatus, a
<1>5. UNCHANGED <<version, sent, handler>>
  BY DEF Publish
<1>6. /\ stage' \in [Stages -> StageRow] /\ stage'[s].active = 0 /\ stage'[s].current = a
      /\ \A t \in Stages : stage'[t].next = stage[t].next /\ (t # s => stage'[t] = stage[t])
  <2> DEFINE new == [stage[s] EXCEPT !.active = 0, !.current = a, !.review = "pending"]
  <2>1. /\ new \in StageRow /\ new.active = 0 /\ new.current = a /\ new.next = stage[s].next
    <3>1. a \in MaybeAttempt /\ 0 \in MaybeAttempt /\ stage[s] \in StageRow
      BY <1>1, <1>2, Ranges DEF MaybeAttempt
    <3> QED
      BY <3>1 DEF StageRow
  <2>2. stage' = [stage EXCEPT ![s] = new]
    BY <1>1, <1>2 DEF Publish, a, s
  <2> HIDE DEF new
  <2> QED
    BY <1>1, <1>2, <2>1, <2>2
<1>7. Typed(stage', attempt', version', queue')
  BY <1>3, <1>4, <1>5, <1>6 DEF Typed, IInv, RowsOK
<1>8. Lives(stage', attempt', queue')
  <2>1. \A t \in Stages : StageLives(stage', attempt', t)
    <3> SUFFICES ASSUME NEW t \in Stages PROVE StageLives(stage', attempt', t)
      OBVIOUS
    <3>1. CASE t = s
      BY <1>1, <1>3, <1>6, <3>1 DEF StageLives
    <3>2. CASE t # s
      <4>1. StageLives(stage, attempt, t) /\ stage'[t] = stage[t]
        BY <1>6, <3>2 DEF IInv, RowsOK, Lives
      <4>2. stage[t].active \in MaybeAttempt /\ stage[t].current \in MaybeAttempt
        BY <1>2 DEF StageRow
      <4> QED
        BY <1>1, <1>3, <3>2, <4>1, <4>2 DEF StageLives, MaybeAttempt, Open
    <3> QED
      BY <3>1, <3>2
  <2>2. \A b \in Attempts : AttemptLives(stage', attempt', queue', b)
    <3> SUFFICES ASSUME NEW b \in Attempts PROVE AttemptLives(stage', attempt', queue', b)
      OBVIOUS
    <3>1. CASE b = a
      BY <1>1, <1>3, <1>4, <3>1 DEF AttemptLives, Open
    <3>2. CASE b # a
      <4>1. AttemptLives(stage, attempt, queue, b) /\ AttemptLives(stage, attempt, queue, a)
        BY <1>1 DEF IInv, RowsOK, Lives
      <4>2. attempt[b] \in AttemptRow
        BY <1>2
      <4>3. attempt[b].req # r
        BY <1>1, <3>2, <4>1, Ranges DEF AttemptLives
      <4> QED
        BY <1>1, <1>3, <1>4, <1>6, <3>2, <4>1, <4>2, <4>3 DEF AttemptLives, AttemptRow
    <3> QED
      BY <3>1, <3>2
  <2>3. \A q \in Requests : QueueLives(attempt', queue', q)
    BY <1>1, <1>3, <1>4 DEF QueueLives, IInv, RowsOK, Lives
  <2> QED
    BY <2>1, <2>2, <2>3 DEF Lives
<1>9. Stands(attempt', version')
  BY <1>1, <1>3, <1>5 DEF Stands, IInv, RowsOK, Open
<1>10. Recorded(stage', attempt', version')
  BY <1>1, <1>3, <1>5, <1>6 DEF Recorded, VersionStands, IInv, RowsOK, Open, Typed, VersionRow
<1> QED
  BY <1>5, <1>7, <1>8, <1>9, <1>10, AloneOK DEF IInv, RowsOK

LEMMA EndsOK ==
  ASSUME IInv, NEW r \in Requests, NEW end \in Ended, queue[r].status \in Open, Ends(r, end)
  PROVE  IInv'
<1> DEFINE a == queue[r].run
           s == attempt[a].stage
<1>1. /\ a \in Attempts /\ attempt[a].req = r /\ attempt[a].status \in Open
      /\ stage[s].active = a /\ s \in Stages /\ ~attempt[a].output
  BY OpenTask
<1>2. /\ attempt \in [Attempts -> AttemptRow] /\ queue \in [Requests -> QueueRow]
      /\ stage \in [Stages -> StageRow]
  BY DEF IInv, RowsOK, Typed
<1>3. /\ attempt' \in [Attempts -> AttemptRow]
      /\ attempt'[a].status = "failed"
      /\ \A b \in Attempts : /\ attempt'[b].stage = attempt[b].stage /\ attempt'[b].req = attempt[b].req
                             /\ attempt'[b].ups = attempt[b].ups /\ attempt'[b].batch = attempt[b].batch
                             /\ attempt'[b].output = attempt[b].output
                             /\ b # a => attempt'[b] = attempt[b]
  BY <1>1, <1>2 DEF Ends, Current, AttemptEnd, AttemptRow, Status
<1>4. /\ queue' \in [Requests -> QueueRow] /\ queue'[r].status = end /\ queue'[r].run = a
      /\ \A q \in Requests : q # r => queue'[q] = queue[q]
  BY <1>1, <1>2 DEF Ends, QueueRow, QueueStatus
<1>5. UNCHANGED <<version, sent, handler>>
  BY DEF Ends
<1>6. /\ stage' \in [Stages -> StageRow] /\ stage'[s].active = 0
      /\ \A t \in Stages : /\ stage'[t].next = stage[t].next /\ stage'[t].current = stage[t].current
                           /\ t # s => stage'[t] = stage[t]
  BY <1>1, <1>2, Ranges DEF Ends, Current, StageRow
<1>7. Typed(stage', attempt', version', queue')
  BY <1>3, <1>4, <1>5, <1>6 DEF Typed, IInv, RowsOK
<1>8. Lives(stage', attempt', queue')
  <2>1. \A t \in Stages : StageLives(stage', attempt', t)
    BY <1>1, <1>3, <1>5, <1>6 DEF StageLives, IInv, RowsOK, Lives, Typed, StageRow, MaybeAttempt, Open
  <2>2. \A b \in Attempts : AttemptLives(stage', attempt', queue', b)
    BY <1>1, <1>2, <1>3, <1>4, <1>5, <1>6 DEF AttemptLives, IInv, RowsOK, Lives, AttemptRow, Open, Ended
  <2>3. \A q \in Requests : QueueLives(attempt', queue', q)
    BY <1>1, <1>3, <1>4 DEF QueueLives, IInv, RowsOK, Lives
  <2> QED
    BY <2>1, <2>2, <2>3 DEF Lives
<1>9. Stands(attempt', version')
  BY <1>1, <1>3, <1>5 DEF Stands, IInv, RowsOK, Open
<1>10. Recorded(stage', attempt', version')
  BY <1>1, <1>3, <1>5, <1>6 DEF Recorded, VersionStands, IInv, RowsOK, Open, Typed, VersionRow
<1> QED
  BY <1>5, <1>7, <1>8, <1>9, <1>10, AloneOK DEF IInv, RowsOK

LEMMA WorkerOK ==
  ASSUME IInv, NEW r \in Requests, Worker(r)
  PROVE  IInv'
<1>1. CASE Claim(r)
  BY <1>1, MovesOK DEF Claim, Open
<1>2. CASE Started(r)
  BY <1>2, MovesOK DEF Started, Held, Open
<1>3. CASE Publish(r)
  BY <1>3, PublishOK
<1>4. CASE Fail(r)
  BY <1>4, EndsOK DEF Fail, Held, Open
<1>5. CASE Expire(r)
  BY <1>5, EndsOK DEF Expire, Held, Open, Ended
<1>6. CASE Retire(r)
  BY <1>6, EndsOK DEF Retire, Ended
<1> QED
  BY <1>1, <1>2, <1>3, <1>4, <1>5, <1>6 DEF Worker

-----------------------------------------------------------------------------
(* Drafts and versions *)

\* A command on a candidate was made for the stage's current attempt.
LEMMA Candidate ==
  ASSUME IInv, NEW h \in Handlers, handler[h].step = "begun", handler[h].cmd.what # "run",
         stage[handler[h].cmd.stage].current = handler[h].cmd.expected
  PROVE  /\ handler[h].cmd.stage \in Stages
         /\ handler[h].cmd.expected \in Attempts
         /\ attempt[handler[h].cmd.expected].stage = handler[h].cmd.stage
         /\ attempt[handler[h].cmd.expected].status = "success"
<1>1. handler[h].cmd \in Command /\ CommandOK(handler[h].cmd)
  BY DEF IInv, CommandsOK, HandlerRow
<1>2. handler[h].cmd.stage \in Stages /\ handler[h].cmd.expected \in Attempts
  BY <1>1 DEF Command, CommandOK
<1>3. StageLives(stage, attempt, handler[h].cmd.stage)
  BY <1>2 DEF IInv, RowsOK, Lives
<1> QED
  BY <1>2, <1>3, Ranges DEF StageLives

LEMMA SaveOK ==
  ASSUME IInv, NEW h \in Handlers, Save(h)
  PROVE  IInv'
<1> DEFINE s == handler[h].cmd.stage
           old == attempt[handler[h].cmd.expected]
<1>1. PICK a \in Attempts :
        /\ NewAttempt(a)
        /\ attempt' = [attempt EXCEPT ![a] = [old EXCEPT !.op = "edit", !.req = None]]
        /\ stage' = [stage EXCEPT ![s].current = a]
  BY DEF Save, Decidable
<1>2. /\ s \in Stages /\ old \in AttemptRow /\ old.stage = s /\ old.status = "success"
      /\ handler[h].cmd.expected \in Attempts
  BY Candidate DEF Save, Decidable, Runs, IInv, RowsOK, Typed
<1> DEFINE new == [old EXCEPT !.op = "edit", !.req = None]
<1>3. /\ new \in AttemptRow /\ new.stage = s /\ new.status = "success" /\ new.req = None
      /\ new.ups = old.ups /\ new.batch = old.batch
  BY <1>2 DEF AttemptRow
<1>4. attempt' = [attempt EXCEPT ![a] = new]
  BY <1>1
<1>5. \A v \in old.ups : version[v].used /\ version[v].batch = old.batch
  BY <1>2 DEF IInv, RowsOK, Stands
<1> HIDE DEF new, old
<1>6. /\ attempt \in [Attempts -> AttemptRow] /\ stage \in [Stages -> StageRow]
      /\ attempt[a].status = "none" /\ attempt[a].req = None
  BY <1>1 DEF IInv, RowsOK, Typed, NewAttempt, Unused, Lives, AttemptLives
<1>7. /\ attempt' \in [Attempts -> AttemptRow] /\ attempt'[a] = new
      /\ \A b \in Attempts : b # a => attempt'[b] = attempt[b]
  BY <1>3, <1>4, <1>6
<1>8. /\ stage' \in [Stages -> StageRow] /\ stage'[s].current = a
      /\ \A t \in Stages : /\ stage'[t].active = stage[t].active /\ stage'[t].next = stage[t].next
                           /\ t # s => stage'[t] = stage[t]
  BY <1>1, <1>2, <1>6 DEF StageRow, MaybeAttempt
<1>9. UNCHANGED <<version, queue, sent>>
  BY DEF Save
<1> HIDE DEF s
<1>10. Typed(stage', attempt', version', queue')
  BY <1>7, <1>8, <1>9 DEF Typed, IInv, RowsOK
<1>11. Lives(stage', attempt', queue')
  <2>1. ASSUME NEW t \in Stages PROVE StageLives(stage', attempt', t)
    <3>1. StageLives(stage, attempt, t) /\ stage[t].active \in MaybeAttempt /\ stage[t].current \in MaybeAttempt
      BY <1>6 DEF IInv, RowsOK, Lives, StageRow
    <3>2. stage[t].active # a /\ stage[t].current # a
      BY <1>6, <3>1, Ranges DEF StageLives, Open
    <3> QED
      BY <1>2, <1>3, <1>7, <1>8, <3>1, <3>2 DEF StageLives, MaybeAttempt
  <2>2. ASSUME NEW b \in Attempts PROVE AttemptLives(stage', attempt', queue', b)
    <3>1. AttemptLives(stage, attempt, queue, b) /\ attempt[b] \in AttemptRow
      BY <1>6 DEF IInv, RowsOK, Lives
    <3> QED
      BY <1>3, <1>7, <1>8, <1>9, <3>1 DEF AttemptLives, AttemptRow, Open
  <2>3. ASSUME NEW r \in Requests PROVE QueueLives(attempt', queue', r)
    <3>1. QueueLives(attempt, queue, r)
      BY DEF IInv, RowsOK, Lives
    <3> QED
      BY <1>6, <1>7, <1>9, <3>1, Ranges DEF QueueLives
  <2> QED
    BY <2>1, <2>2, <2>3 DEF Lives
<1>12. Stands(attempt', version')
  <2>1. Stands(attempt, version)
    BY DEF IInv, RowsOK
  <2> QED
    BY <1>3, <1>5, <1>7, <1>9, <2>1 DEF Stands, Open
<1>13. Recorded(stage', attempt', version')
  <2> SUFFICES ASSUME NEW v \in Versions PROVE VersionStands(stage', attempt', version', v)
    BY DEF Recorded
  <2>1. VersionStands(stage, attempt, version, v) /\ version[v].stage \in Stages
    BY DEF IInv, RowsOK, Recorded, Typed, VersionRow
  <2> QED
    BY <1>6, <1>7, <1>8, <1>9, <2>1 DEF VersionStands
<1>14. CommandsOK'
  BY <1>9, StopOK DEF Save
<1> QED
  BY <1>10, <1>11, <1>12, <1>13, <1>14 DEF IInv, RowsOK

LEMMA DeleteOK ==
  ASSUME IInv, NEW v \in Versions, Delete(v)
  PROVE  IInv'
<1>1. /\ attempt \in [Attempts -> AttemptRow] /\ stage \in [Stages -> StageRow]
      /\ version \in [Versions -> VersionRow]
  BY DEF IInv, RowsOK, Typed
<1>2. /\ version' \in [Versions -> VersionRow] /\ ~version'[v].live
      /\ \A w \in Versions : /\ version'[w].used = version[w].used
                             /\ version'[w].batch = version[w].batch
                             /\ version'[w].attempt = version[w].attempt
                             /\ version'[w].stage = version[w].stage /\ version'[w].no = version[w].no
                             /\ w # v => version'[w] = version[w]
  BY <1>1 DEF Delete, VersionRow
<1>3. /\ attempt' \in [Attempts -> AttemptRow]
      /\ \A a \in Attempts : /\ attempt'[a].stage = attempt[a].stage /\ attempt'[a].req = attempt[a].req
                             /\ attempt'[a].ups = attempt[a].ups /\ attempt'[a].batch = attempt[a].batch
                             /\ attempt'[a].output = attempt[a].output
                             /\ attempt'[a].status = attempt[a].status
  <2> DEFINE new(a) == [attempt[a] EXCEPT !.invalid = Invalid(a, v)]
  <2>1. attempt' = [a \in Attempts |-> new(a)]
    BY DEF Delete
  <2>2. ASSUME NEW a \in Attempts
        PROVE  /\ new(a) \in AttemptRow /\ new(a).stage = attempt[a].stage
               /\ new(a).req = attempt[a].req /\ new(a).ups = attempt[a].ups
               /\ new(a).batch = attempt[a].batch /\ new(a).output = attempt[a].output
               /\ new(a).status = attempt[a].status
    <3>1. Invalid(a, v) \in BOOLEAN /\ attempt[a] \in AttemptRow
      BY <1>1 DEF AttemptRow, Invalid
    <3> QED
      BY <3>1 DEF AttemptRow
  <2> HIDE DEF new
  <2> QED
    BY <2>1, <2>2
<1>4. /\ stage' \in [Stages -> StageRow]
      /\ \A t \in Stages : /\ stage'[t].active = stage[t].active /\ stage'[t].current = stage[t].current
                           /\ stage'[t].next = stage[t].next
  BY <1>1 DEF Delete, StageRow
<1>5. UNCHANGED <<queue, sent, handler>>
  BY DEF Delete
<1>6. Typed(stage', attempt', version', queue')
  BY <1>2, <1>3, <1>4, <1>5 DEF Typed, IInv, RowsOK
<1>7. Lives(stage', attempt', queue')
  <2>1. ASSUME NEW t \in Stages PROVE StageLives(stage', attempt', t)
    <3>1. StageLives(stage, attempt, t) /\ stage[t].active \in MaybeAttempt /\ stage[t].current \in MaybeAttempt
      BY <1>1 DEF IInv, RowsOK, Lives, StageRow
    <3> QED
      BY <1>3, <1>4, <3>1 DEF StageLives, MaybeAttempt
  <2>2. ASSUME NEW b \in Attempts PROVE AttemptLives(stage', attempt', queue', b)
    <3>1. AttemptLives(stage, attempt, queue, b) /\ attempt[b] \in AttemptRow
      BY <1>1 DEF IInv, RowsOK, Lives
    <3> QED
      BY <1>3, <1>4, <1>5, <3>1 DEF AttemptLives, AttemptRow
  <2>3. ASSUME NEW r \in Requests PROVE QueueLives(attempt', queue', r)
    <3>1. QueueLives(attempt, queue, r)
      BY DEF IInv, RowsOK, Lives
    <3> QED
      BY <1>3, <1>5, <3>1 DEF QueueLives
  <2> QED
    BY <2>1, <2>2, <2>3 DEF Lives
<1>8. Stands(attempt', version')
  <2>1. Stands(attempt, version) /\ \A a \in Attempts : attempt[a].ups \subseteq Versions
    BY <1>1 DEF IInv, RowsOK, AttemptRow
  <2>2. \A a \in Attempts : attempt[a].status \in Open => v \notin attempt[a].ups
    BY DEF Delete, InUse
  <2> QED
    BY <1>2, <1>3, <2>1, <2>2 DEF Stands
<1>9. Recorded(stage', attempt', version')
  <2> SUFFICES ASSUME NEW w \in Versions PROVE VersionStands(stage', attempt', version', w)
    BY DEF Recorded
  <2>1. VersionStands(stage, attempt, version, w) /\ version[w].stage \in Stages
    BY <1>1 DEF IInv, RowsOK, Recorded, VersionRow
  <2> QED
    BY <1>2, <1>3, <1>4, <2>1 DEF VersionStands
<1> QED
  BY <1>2, <1>5, <1>6, <1>7, <1>8, <1>9, AloneOK DEF IInv, RowsOK

LEMMA RejectOK ==
  ASSUME IInv, NEW h \in Handlers, Reject(h)
  PROVE  IInv'
<1> DEFINE s == handler[h].cmd.stage
           seen == handler[h].seen
<1>1. s \in Stages
  BY Candidate DEF Reject, Decidable, Runs
<1>2. /\ attempt \in [Attempts -> AttemptRow] /\ stage \in [Stages -> StageRow]
  BY DEF IInv, RowsOK, Typed
<1>3. /\ stage' \in [Stages -> StageRow] /\ stage'[s].current = 0
      /\ \A t \in Stages : /\ stage'[t].active = stage[t].active /\ stage'[t].next = stage[t].next
                           /\ t # s => stage'[t] = stage[t]
  BY <1>1, <1>2, Ranges DEF Reject, StageRow
<1> HIDE DEF s, seen
<1>4. /\ attempt' \in [Attempts -> AttemptRow]
      /\ \A a \in Attempts : /\ attempt'[a].stage = attempt[a].stage /\ attempt'[a].req = attempt[a].req
                             /\ attempt'[a].status = attempt[a].status /\ attempt'[a].batch = attempt[a].batch
                             /\ attempt'[a].ups \subseteq attempt[a].ups
                             /\ attempt'[a].output => attempt[a].output
                             /\ a \in Versioned(Live) => attempt'[a].output = attempt[a].output
  <2>1. attempt' = [a \in Attempts |-> Rejected(a, s, seen)]
    BY DEF Reject, s, seen
  <2>2. ASSUME NEW a \in Attempts
        PROVE  LET new == Rejected(a, s, seen) IN
               /\ new \in AttemptRow /\ new.stage = attempt[a].stage /\ new.req = attempt[a].req
               /\ new.status = attempt[a].status /\ new.batch = attempt[a].batch
               /\ new.ups \subseteq attempt[a].ups
               /\ new.output => attempt[a].output
               /\ a \in Versioned(Live) => new.output = attempt[a].output
    <3> DEFINE lost == Discarded(a, s)
               bare == Stripped(a, s, seen)
               ups == IF lost \/ bare THEN {} ELSE attempt[a].ups
               output == attempt[a].output /\ ~lost
               invalid == attempt[a].invalid \/ lost
    <3>1. attempt[a] \in AttemptRow
      BY <1>2
    <3>2. ups \in SUBSET Versions /\ ups \subseteq attempt[a].ups
      BY <3>1 DEF AttemptRow
    <3>3. output \in BOOLEAN /\ invalid \in BOOLEAN /\ (output => attempt[a].output)
      BY <3>1 DEF AttemptRow
    <3>4. a \in Versioned(Live) => ~lost
      BY DEF Discarded
    <3>5. ~lost => output = attempt[a].output
      BY <3>1 DEF AttemptRow
    <3>6. Rejected(a, s, seen) = [attempt[a] EXCEPT !.output = output, !.invalid = invalid, !.ups = ups]
      BY DEF Rejected
    <3> HIDE DEF ups, output, invalid
    <3> QED
      BY <3>1, <3>2, <3>3, <3>4, <3>5, <3>6 DEF AttemptRow
  <2> QED
    BY <2>1, <2>2
<1>5. UNCHANGED <<version, queue, sent>>
  BY DEF Reject
<1>6. Typed(stage', attempt', version', queue')
  BY <1>3, <1>4, <1>5 DEF Typed, IInv, RowsOK
<1>7. Lives(stage', attempt', queue')
  <2>1. ASSUME NEW t \in Stages PROVE StageLives(stage', attempt', t)
    <3>1. StageLives(stage, attempt, t) /\ stage[t].active \in MaybeAttempt /\ stage[t].current \in MaybeAttempt
      BY <1>2 DEF IInv, RowsOK, Lives, StageRow
    <3> QED
      BY <1>3, <1>4, <3>1 DEF StageLives, MaybeAttempt
  <2>2. ASSUME NEW b \in Attempts PROVE AttemptLives(stage', attempt', queue', b)
    <3>1. AttemptLives(stage, attempt, queue, b) /\ attempt[b] \in AttemptRow
      BY <1>2 DEF IInv, RowsOK, Lives
    <3> QED
      BY <1>3, <1>4, <1>5, <3>1 DEF AttemptLives, AttemptRow
  <2>3. ASSUME NEW r \in Requests PROVE QueueLives(attempt', queue', r)
    <3>1. QueueLives(attempt, queue, r)
      BY DEF IInv, RowsOK, Lives
    <3> QED
      BY <1>4, <1>5, <3>1 DEF QueueLives
  <2> QED
    BY <2>1, <2>2, <2>3 DEF Lives
<1>8. Stands(attempt', version')
  <2>1. Stands(attempt, version)
    BY DEF IInv, RowsOK
  <2> QED
    BY <1>4, <1>5, <2>1 DEF Stands
<1>9. Recorded(stage', attempt', version')
  <2> SUFFICES ASSUME NEW v \in Versions PROVE VersionStands(stage', attempt', version', v)
    BY DEF Recorded
  <2>1. VersionStands(stage, attempt, version, v) /\ version[v].stage \in Stages
    BY DEF IInv, RowsOK, Recorded, Typed, VersionRow
  <2>2. version[v].live => version[v].attempt \in Versioned(Live)
    BY DEF Versioned, Live
  <2> QED
    BY <1>3, <1>4, <1>5, <2>1, <2>2 DEF VersionStands
<1>10. CommandsOK'
  BY <1>5, StopOK DEF Reject
<1> QED
  BY <1>6, <1>7, <1>8, <1>9, <1>10 DEF IInv, RowsOK

LEMMA ApproveOK ==
  ASSUME IInv, NEW h \in Handlers, Approve(h)
  PROVE  IInv'
<1> DEFINE cmd == handler[h].cmd
           s == cmd.stage
           a == cmd.expected
<1>1. PICK v \in Versions :
        /\ ~version[v].used
        /\ version' = [version EXCEPT ![v] =
                        [used |-> TRUE, live |-> TRUE, stage |-> s, no |-> Number(s), attempt |-> a,
                         ups |-> attempt[a].ups, batch |-> attempt[a].batch, req |-> cmd.req]]
        /\ IF cmd.more THEN Become(h, "continue", NextStage(v, cmd), {}) ELSE Stop(h)
  BY DEF Approve
<1>2. /\ s \in Stages /\ a \in Attempts /\ attempt[a].stage = s /\ attempt[a].status = "success"
      /\ attempt[a].output
      /\ cmd \in Command /\ CommandOK(cmd)
  BY Candidate DEF Approve, Decidable, Runs, IInv, CommandsOK, HandlerRow
<1>3. /\ attempt \in [Attempts -> AttemptRow] /\ stage \in [Stages -> StageRow]
      /\ version \in [Versions -> VersionRow]
  BY DEF IInv, RowsOK, Typed
<1>4. UNCHANGED <<attempt, queue, sent>>
  BY DEF Approve
<1>5. stage' = [stage EXCEPT ![s].next = stage[s].next + 1, ![s].review = "approved"]
  BY DEF Approve
<1>6. cmd.req \in Requests \cup {None}
  BY <1>2 DEF Command
<1> HIDE DEF cmd, s, a
<1>7. /\ stage' \in [Stages -> StageRow] /\ stage'[s].next = stage[s].next + 1
      /\ \A t \in Stages : /\ stage'[t].active = stage[t].active /\ stage'[t].current = stage[t].current
                           /\ t # s => stage'[t] = stage[t]
  <2> DEFINE n == stage[s].next + 1
             new == [stage[s] EXCEPT !.next = n, !.review = "approved"]
  <2>1. n \in Nat /\ stage[s] \in StageRow
    BY <1>2, <1>3 DEF StageRow
  <2> HIDE DEF n
  <2>2. /\ new \in StageRow /\ new.next = n /\ new.active = stage[s].active
        /\ new.current = stage[s].current
    BY <2>1 DEF StageRow
  <2>3. stage' = [stage EXCEPT ![s] = new]
    BY <1>2, <1>3, <1>5 DEF n
  <2> HIDE DEF new
  <2> QED
    BY <1>2, <1>3, <2>2, <2>3 DEF n
<1>8. /\ version' \in [Versions -> VersionRow]
      /\ version'[v].used /\ version'[v].live /\ version'[v].stage = s /\ version'[v].attempt = a
      /\ version'[v].no = stage[s].next
      /\ \A w \in Versions : w # v => version'[w] = version[w]
  <2> DEFINE new == [used |-> TRUE, live |-> TRUE, stage |-> s, no |-> Number(s), attempt |-> a,
                     ups |-> attempt[a].ups, batch |-> attempt[a].batch, req |-> cmd.req]
  <2>1. Number(s) = stage[s].next /\ stage[s].next \in Nat
    BY <1>2, <1>3 DEF Number, StageRow
  <2>2. attempt[a].ups \in SUBSET Versions /\ attempt[a].batch \in 0 .. MaxBatches
    BY <1>2, <1>3 DEF AttemptRow
  <2>3. new \in VersionRow
    BY <1>2, <1>6, <2>1, <2>2 DEF VersionRow, MaybeAttempt
  <2> QED
    BY <1>1, <1>3, <2>1, <2>3
<1>9. Typed(stage', attempt', version', queue')
  BY <1>4, <1>7, <1>8 DEF Typed, IInv, RowsOK
<1>10. Lives(stage', attempt', queue')
  <2>1. ASSUME NEW t \in Stages PROVE StageLives(stage', attempt', t)
    <3>1. StageLives(stage, attempt, t)
      BY DEF IInv, RowsOK, Lives
    <3> QED
      BY <1>4, <1>7, <3>1 DEF StageLives
  <2>2. ASSUME NEW b \in Attempts PROVE AttemptLives(stage', attempt', queue', b)
    <3>1. AttemptLives(stage, attempt, queue, b) /\ attempt[b] \in AttemptRow
      BY <1>3 DEF IInv, RowsOK, Lives
    <3> QED
      BY <1>4, <1>7, <3>1 DEF AttemptLives, AttemptRow
  <2>3. ASSUME NEW r \in Requests PROVE QueueLives(attempt', queue', r)
    <3>1. QueueLives(attempt, queue, r)
      BY DEF IInv, RowsOK, Lives
    <3> QED
      BY <1>4, <3>1 DEF QueueLives
  <2> QED
    BY <2>1, <2>2, <2>3 DEF Lives
<1>11. Stands(attempt', version')
  <2>1. Stands(attempt, version) /\ \A b \in Attempts : attempt[b].ups \subseteq Versions
    BY <1>3 DEF IInv, RowsOK, AttemptRow
  <2> QED
    BY <1>1, <1>4, <1>8, <2>1 DEF Stands
<1>12. Recorded(stage', attempt', version')
  <2> SUFFICES ASSUME NEW w \in Versions PROVE VersionStands(stage', attempt', version', w)
    BY DEF Recorded
  <2>1. /\ VersionStands(stage, attempt, version, w) /\ version[w].stage \in Stages
        /\ version[w].no \in Nat
    BY <1>3 DEF IInv, RowsOK, Recorded, VersionRow
  <2>2. stage[s].next \in Nat
    BY <1>2, <1>3 DEF StageRow
  <2>3. CASE w = v
    BY <1>2, <1>4, <1>7, <1>8, <2>2, <2>3 DEF VersionStands
  <2>4. CASE w # v
    BY <1>4, <1>7, <1>8, <2>1, <2>2, <2>4 DEF VersionStands
  <2> QED
    BY <2>3, <2>4
<1>13. CommandsOK'
  <2>1. \A w \in Versions : version[w].used => version'[w].used
    BY <1>8
  <2>2. /\ sent' \in [Requests -> Command \cup {None}]
        /\ \A r \in Requests : sent'[r] # None => CommandOK(sent'[r])
    BY <1>4 DEF IInv, CommandsOK
  <2>3. CASE cmd.more
    <3>1. NextStage(v, cmd) \in Command /\ CommandOK(NextStage(v, cmd))
      BY <1>2, <1>8, <2>3, NextStageOK
    <3> QED
      BY <1>1, <2>1, <2>2, <2>3, <3>1, BecomeOK
  <2>4. CASE ~cmd.more
    BY <1>1, <1>4, <2>1, <2>4, StopOK
  <2> QED
    BY <2>3, <2>4
<1> QED
  BY <1>9, <1>10, <1>11, <1>12, <1>13 DEF IInv, RowsOK

-----------------------------------------------------------------------------
(* Dispatches *)

\* Another input batch for the chain.
LEMMA FreshOK ==
  ASSUME IInv, NEW b \in 0 .. MaxBatches
  PROVE  LET fresh == [stage EXCEPT ![1].batch = b] IN
         /\ RowsOK(fresh, attempt, version, queue)
         /\ \A t \in Stages : /\ fresh[t].active = stage[t].active
                              /\ fresh[t].current = stage[t].current
                              /\ fresh[t].review = stage[t].review
                              /\ fresh[t].next = stage[t].next
<1> DEFINE fresh == [stage EXCEPT ![1].batch = b]
<1>1. /\ fresh \in [Stages -> StageRow]
      /\ \A t \in Stages : /\ fresh[t].active = stage[t].active
                           /\ fresh[t].current = stage[t].current
                           /\ fresh[t].review = stage[t].review
                           /\ fresh[t].next = stage[t].next
  BY Ranges DEF IInv, RowsOK, Typed, StageRow
<1> HIDE DEF fresh
<1>2. Typed(fresh, attempt, version, queue)
  BY <1>1 DEF IInv, RowsOK, Typed
<1>3. Lives(fresh, attempt, queue)
  <2>1. ASSUME NEW a \in Attempts PROVE AttemptLives(fresh, attempt, queue, a)
    <3>1. AttemptLives(stage, attempt, queue, a) /\ attempt[a] \in AttemptRow
      BY DEF IInv, RowsOK, Lives, Typed
    <3> QED
      BY <1>1, <3>1 DEF AttemptLives, AttemptRow
  <2> QED
    BY <1>1, <2>1 DEF IInv, RowsOK, Lives, StageLives
<1>4. Recorded(fresh, attempt, version)
  <2> SUFFICES ASSUME NEW v \in Versions PROVE VersionStands(fresh, attempt, version, v)
    BY DEF Recorded
  <2>1. VersionStands(stage, attempt, version, v) /\ version[v].stage \in Stages
    BY DEF IInv, RowsOK, Recorded, Typed, VersionRow
  <2> QED
    BY <1>1, <2>1 DEF VersionStands
<1> QED
  BY <1>1, <1>2, <1>3, <1>4 DEF IInv, RowsOK, fresh

\* A run under way is not a version a command knows.
LEMMA OpenDetached ==
  ASSUME IInv, NEW seen, seen \subseteq Used, NEW a \in Attempts, attempt[a].status \in Open
  PROVE  Detached(a, seen)
<1>1. a \notin Versioned(seen)
  BY DEF IInv, RowsOK, Recorded, VersionStands, Versioned, Used, Open
<1>2. stage[attempt[a].stage].active = a /\ attempt[a].stage \in Stages
  BY DEF IInv, RowsOK, Lives, AttemptLives, Typed, AttemptRow
<1> QED
  BY <1>1, <1>2 DEF Detached

\* detach_old_ui_batch keeps the rows in order and leaves nothing under way.
LEMMA DetachOK ==
  ASSUME IInv, NEW b \in 0 .. MaxBatches, NEW seen, seen \subseteq Used
  PROVE  LET fresh == [stage EXCEPT ![1].batch = b]
             st == [t \in Stages |-> StageDetached(fresh[t], seen)]
             at == [a \in Attempts |-> AttemptDetached(a, seen)]
             qu == [r \in Requests |-> QueueDetached(r, seen)] IN
         /\ RowsOK(st, at, version, qu)
         /\ \A t \in Stages : st[t].active = 0
         /\ \A a \in Attempts : attempt[a].status = "none" => at[a].status = "none"
         /\ \A r \in Requests : queue[r].status = "none" => qu[r].status = "none"
<1> DEFINE fresh == [stage EXCEPT ![1].batch = b]
           st == [t \in Stages |-> StageDetached(fresh[t], seen)]
           at == [a \in Attempts |-> AttemptDetached(a, seen)]
           qu == [r \in Requests |-> QueueDetached(r, seen)]
<1>1. /\ RowsOK(fresh, attempt, version, queue)
      /\ \A t \in Stages : fresh[t].next = stage[t].next
  BY FreshOK
<1> HIDE DEF fresh
<1>2. /\ st \in [Stages -> StageRow]
      /\ \A t \in Stages : st[t].active = 0 /\ st[t].next = fresh[t].next
                           /\ st[t].current \in {0, fresh[t].current}
  <2>1. ASSUME NEW t \in Stages
        PROVE  /\ st[t] \in StageRow /\ st[t].active = 0 /\ st[t].next = fresh[t].next
               /\ st[t].current \in {0, fresh[t].current}
    <3> DEFINE kept == IF fresh[t].current \in Versioned(seen) THEN fresh[t].current ELSE 0
               word == IF kept # 0 THEN "approved" ELSE "pending"
    <3>1. fresh[t] \in StageRow
      BY <1>1 DEF RowsOK, Typed
    <3>2. kept \in MaybeAttempt /\ kept \in {0, fresh[t].current} /\ word \in {"pending", "approved"}
      BY <3>1, Ranges DEF StageRow
    <3>3. st[t] = [fresh[t] EXCEPT !.active = 0, !.current = kept, !.review = word]
      BY DEF StageDetached
    <3> HIDE DEF kept, word
    <3> QED
      BY <3>1, <3>2, <3>3, Ranges DEF StageRow
  <2> QED
    BY <2>1
<1>3. ASSUME NEW a \in Attempts
      PROVE  /\ at[a] \in AttemptRow /\ at[a].stage = attempt[a].stage /\ at[a].req = attempt[a].req
             /\ at[a].ups = attempt[a].ups /\ at[a].batch = attempt[a].batch
             /\ at[a].output = attempt[a].output
             /\ at[a].status = Canceled(attempt[a].status)
  <2>1. attempt[a] \in AttemptRow
    BY DEF IInv, RowsOK, Typed
  <2>2. Canceled(attempt[a].status) \in Status
    BY <2>1 DEF Canceled, AttemptRow, Status
  <2>3. CASE Detached(a, seen)
    BY <2>1, <2>2, <2>3 DEF AttemptDetached, AttemptRow
  <2>4. CASE ~Detached(a, seen)
    BY <2>1, <2>4, OpenDetached DEF AttemptDetached, Canceled
  <2> QED
    BY <2>3, <2>4
<1>4. ASSUME NEW r \in Requests
      PROVE  /\ qu[r] \in QueueRow /\ qu[r].run = queue[r].run
             /\ qu[r].status = Canceled(queue[r].status)
  <2>1. queue[r] \in QueueRow
    BY DEF IInv, RowsOK, Typed
  <2>2. Canceled(queue[r].status) \in QueueStatus
    BY <2>1 DEF Canceled, QueueRow, QueueStatus, Ended
  <2>3. CASE Detached(queue[r].run, seen)
    BY <2>1, <2>2, <2>3 DEF QueueDetached, QueueRow
  <2>4. CASE ~Detached(queue[r].run, seen)
    <3>1. queue[r].status \notin Open
      BY <2>4, OpenTask, OpenDetached
    <3> QED
      BY <2>1, <2>4, <3>1 DEF QueueDetached, Canceled
  <2> QED
    BY <2>3, <2>4
<1>5. at \in [Attempts -> AttemptRow] /\ qu \in [Requests -> QueueRow]
  BY <1>3, <1>4
<1> HIDE DEF st, at, qu
<1>6. Typed(st, at, version, qu)
  BY <1>2, <1>5 DEF Typed, IInv, RowsOK
<1>7. Lives(st, at, qu)
  <2>1. ASSUME NEW t \in Stages PROVE StageLives(st, at, t)
    <3>1. StageLives(fresh, attempt, t) /\ fresh[t].current \in MaybeAttempt
      BY <1>1 DEF RowsOK, Lives, Typed, StageRow
    <3> QED
      BY <1>2, <1>3, <3>1 DEF StageLives, MaybeAttempt, Canceled, Open
  <2>2. ASSUME NEW a \in Attempts PROVE AttemptLives(st, at, qu, a)
    <3>1. AttemptLives(stage, attempt, queue, a) /\ attempt[a] \in AttemptRow
      BY DEF IInv, RowsOK, Lives, Typed
    <3>2. attempt[a].req # None => attempt[a].req \in Requests
      BY <3>1 DEF AttemptRow
    <3> QED
      BY <1>3, <1>4, <3>1, <3>2 DEF AttemptLives, Canceled, Open, Ended
  <2>3. ASSUME NEW r \in Requests PROVE QueueLives(at, qu, r)
    <3>1. QueueLives(attempt, queue, r)
      BY DEF IInv, RowsOK, Lives
    <3> QED
      BY <1>3, <1>4, <3>1 DEF QueueLives, Canceled, Open
  <2> QED
    BY <2>1, <2>2, <2>3 DEF Lives
<1>8. Stands(at, version)
  BY <1>3 DEF IInv, RowsOK, Stands, Canceled, Open
<1>9. Recorded(st, at, version)
  <2> SUFFICES ASSUME NEW v \in Versions PROVE VersionStands(st, at, version, v)
    BY DEF Recorded
  <2>1. VersionStands(stage, attempt, version, v) /\ version[v].stage \in Stages
    BY DEF IInv, RowsOK, Recorded, Typed, VersionRow
  <2> QED
    BY <1>1, <1>2, <1>3, <2>1 DEF VersionStands, Canceled, Open
<1>10. /\ \A a \in Attempts : attempt[a].status = "none" => at[a].status = "none"
       /\ \A r \in Requests : queue[r].status = "none" => qu[r].status = "none"
  BY <1>3, <1>4 DEF Canceled, Open
<1> QED
  BY <1>2, <1>6, <1>7, <1>8, <1>9, <1>10 DEF RowsOK, st, at, qu, fresh

LEMMA DispatchedOK ==
  ASSUME IInv, NEW h \in Handlers, NEW a \in Attempts, NEW row \in AttemptRow,
         NEW st, NEW at, NEW qu, RowsOK(st, at, version, qu),
         at[a].status = "none", row.status = "pending", row.req \in Requests, ~row.output,
         qu[row.req].status = "none", st[row.stage].active = 0,
         \A v \in row.ups : version[v].used /\ version[v].live /\ version[v].batch = row.batch,
         Dispatched(h, a, row, st, at, qu)
  PROVE  IInv'
<1> DEFINE r == row.req
           s == row.stage
<1>1. /\ r \in Requests /\ r # None /\ s \in Stages
  BY Ranges DEF AttemptRow
<1>2. /\ at \in [Attempts -> AttemptRow] /\ st \in [Stages -> StageRow]
      /\ qu \in [Requests -> QueueRow] /\ at[a].req = None
  BY DEF RowsOK, Typed, Lives, AttemptLives
<1>3. /\ attempt' \in [Attempts -> AttemptRow] /\ attempt'[a] = row
      /\ \A b \in Attempts : b # a => attempt'[b] = at[b]
  BY <1>2 DEF Dispatched
<1>4. stage' = [st EXCEPT ![s].active = a, ![s].review = "pending"]
  BY DEF Dispatched
<1>5. queue' = [qu EXCEPT ![r] = [NoQueue EXCEPT !.status = "pending", !.run = a]]
  BY DEF Dispatched
<1>6. UNCHANGED <<version, sent>> /\ Stop(h)
  BY DEF Dispatched
<1>7. row.status = "pending" /\ row.req = r /\ row.stage = s /\ st[s].active = 0 /\ qu[r].status = "none"
  OBVIOUS
<1> HIDE DEF r, s
<1>8. /\ stage' \in [Stages -> StageRow] /\ stage'[s].active = a
      /\ \A t \in Stages : /\ stage'[t].current = st[t].current /\ stage'[t].next = st[t].next
                           /\ t # s => stage'[t] = st[t]
  <2> DEFINE new == [st[s] EXCEPT !.active = a, !.review = "pending"]
  <2>1. a \in MaybeAttempt /\ st[s] \in StageRow
    BY <1>1, <1>2 DEF MaybeAttempt
  <2>2. new \in StageRow /\ new.active = a /\ new.current = st[s].current /\ new.next = st[s].next
    BY <2>1 DEF StageRow
  <2>3. stage' = [st EXCEPT ![s] = new]
    BY <1>1, <1>2, <1>4
  <2> HIDE DEF new
  <2> QED
    BY <1>1, <1>2, <2>2, <2>3
<1>9. /\ queue' \in [Requests -> QueueRow] /\ queue'[r].status = "pending" /\ queue'[r].run = a
      /\ \A q \in Requests : q # r => queue'[q] = qu[q]
  <2> DEFINE new == [NoQueue EXCEPT !.status = "pending", !.run = a]
  <2>1. a \in MaybeAttempt
    BY DEF MaybeAttempt
  <2>2. new \in QueueRow /\ new.status = "pending" /\ new.run = a
    BY <2>1 DEF NoQueue, QueueRow, QueueStatus, Open
  <2> HIDE DEF new
  <2> QED
    BY <1>1, <1>2, <1>5, <2>2 DEF new
<1>10. Typed(stage', attempt', version', queue')
  BY <1>3, <1>6, <1>8, <1>9 DEF Typed, RowsOK
<1>11. Lives(stage', attempt', queue')
  <2>0. \A b \in Attempts : AttemptLives(st, at, qu, b) /\ at[b] \in AttemptRow
    BY <1>2 DEF RowsOK, Lives
  <2>1. ASSUME NEW t \in Stages PROVE StageLives(stage', attempt', t)
    <3>1. StageLives(st, at, t) /\ st[t].active \in MaybeAttempt /\ st[t].current \in MaybeAttempt
      BY <1>2 DEF RowsOK, Lives, StageRow
    <3>2. st[t].active # a /\ st[t].current # a
      BY <3>1, Ranges DEF StageLives, Open
    <3>3. stage'[t].current # 0 => attempt'[stage'[t].current] = at[st[t].current]
      BY <1>3, <1>8, <3>1, <3>2 DEF MaybeAttempt
    <3>4. CASE t = s
      BY <1>3, <1>7, <1>8, <3>1, <3>3, <3>4 DEF StageLives, Open
    <3>5. CASE t # s
      BY <1>3, <1>8, <3>1, <3>2, <3>3, <3>5 DEF StageLives, MaybeAttempt
    <3> QED
      BY <3>4, <3>5
  <2>2. ASSUME NEW b \in Attempts PROVE AttemptLives(stage', attempt', queue', b)
    <3>1. CASE b = a
      BY <1>1, <1>3, <1>7, <1>8, <1>9, <3>1 DEF AttemptLives
    <3>2. CASE b # a
      <4>1. at[b].stage = s => at[b].status \notin Open
        BY <1>7, <2>0, Ranges DEF AttemptLives
      <4>2. at[b].req # r
        BY <1>1, <1>7, <2>0 DEF AttemptLives, Ended
      <4> QED
        BY <1>3, <1>8, <1>9, <2>0, <3>2, <4>1, <4>2 DEF AttemptLives, AttemptRow
    <3> QED
      BY <3>1, <3>2
  <2>3. ASSUME NEW q \in Requests PROVE QueueLives(attempt', queue', q)
    <3>1. QueueLives(at, qu, q)
      BY DEF RowsOK, Lives
    <3>2. CASE q = r
      BY <1>3, <1>7, <1>9, <3>2 DEF QueueLives
    <3>3. CASE q # r
      BY <1>2, <1>3, <1>9, <3>1, <3>3, Ranges, ZenonT(60) DEF QueueLives
    <3> QED
      BY <3>2, <3>3
  <2> QED
    BY <2>1, <2>2, <2>3 DEF Lives
<1>12. Stands(attempt', version')
  <2>1. Stands(at, version)
    BY DEF RowsOK
  <2> QED
    BY <1>3, <1>6, <2>1 DEF Stands
<1>13. Recorded(stage', attempt', version')
  <2> SUFFICES ASSUME NEW v \in Versions PROVE VersionStands(stage', attempt', version', v)
    BY DEF Recorded
  <2>1. VersionStands(st, at, version, v) /\ version[v].stage \in Stages
    BY DEF RowsOK, Recorded, Typed, VersionRow
  <2> QED
    BY <1>3, <1>6, <1>8, <2>1 DEF VersionStands
<1>14. CommandsOK'
  BY <1>6, StopOK
<1> QED
  BY <1>10, <1>11, <1>12, <1>13, <1>14 DEF IInv, RowsOK

LEMMA RunOK ==
  ASSUME IInv, NEW h \in Handlers, Run(h)
  PROVE  IInv'
<1> DEFINE cmd == handler[h].cmd
           seen == handler[h].seen
           s == cmd.stage
           first == Batched /\ s = 1 /\ (stage[1].batch = 0 \/ cmd.refresh)
           detach == first /\ stage[1].batch # 0
           batch == IF first THEN stage[1].batch + 1 ELSE stage[1].batch
           fresh == [stage EXCEPT ![1].batch = batch]
           st == IF detach THEN [t \in Stages |-> StageDetached(fresh[t], seen)] ELSE fresh
           at == IF detach THEN [b \in Attempts |-> AttemptDetached(b, seen)] ELSE attempt
           qu == IF detach THEN [r \in Requests |-> QueueDetached(r, seen)] ELSE queue
           chosen == UNION {Chosen(p, cmd, seen, batch) : p \in Upstream[s]}
           row == [NoAttempt EXCEPT !.stage = s, !.status = "pending", !.req = cmd.req,
                                    !.ups = chosen, !.batch = batch]
<1>1. PICK a \in Attempts : Dispatched(h, a, row, st, at, qu)
  BY DEF Run
<1>2. /\ Runs(h, "run") /\ NewRequest(cmd.req) /\ stage[s].active = 0
      /\ batch <= MaxBatches /\ chosen \subseteq Live
  BY DEF Run
<1>3. cmd \in Command /\ CommandOK(cmd) /\ cmd.what = "run" /\ seen \subseteq Used
  BY <1>2 DEF Runs, IInv, CommandsOK, HandlerRow
<1>4. s \in Stages /\ cmd.req \in Requests
  BY <1>3 DEF Command, CommandOK
<1>5. batch \in 0 .. MaxBatches
  <2>1. stage[1].batch \in 0 .. MaxBatches
    BY Ranges DEF IInv, RowsOK, Typed, StageRow
  <2> QED
    BY <1>2, <2>1, StageChainAssumption
<1>6. \A p, v : v \in Chosen(p, cmd, seen, batch) => version[v].batch = batch
  BY DEF Chosen, InBatch
<1>7. \A v \in chosen : version[v].used /\ version[v].live /\ version[v].batch = batch
  BY <1>2, <1>6, LiveUsed DEF Live, Used
<1>8. chosen \in SUBSET Versions
  BY <1>2 DEF Live
<1>9. attempt[a].status = "none"
  BY <1>1 DEF Dispatched, NewAttempt, Unused
<1>10. queue[cmd.req].status = "none"
  BY <1>2 DEF NewRequest
<1> HIDE DEF batch, chosen
<1>11. /\ RowsOK(st, at, version, qu) /\ st[s].active = 0
       /\ at[a].status = "none" /\ qu[cmd.req].status = "none"
  <2>1. CASE detach
    <3>1. /\ st = [t \in Stages |-> StageDetached(fresh[t], seen)]
          /\ at = [b \in Attempts |-> AttemptDetached(b, seen)]
          /\ qu = [r \in Requests |-> QueueDetached(r, seen)]
      BY <2>1
    <3> HIDE DEF detach, first, st, at, qu
    <3>2. /\ RowsOK(st, at, version, qu)
          /\ \A t \in Stages : st[t].active = 0
          /\ \A b \in Attempts : attempt[b].status = "none" => at[b].status = "none"
          /\ \A r \in Requests : queue[r].status = "none" => qu[r].status = "none"
      BY <1>3, <1>5, <3>1, DetachOK
    <3> QED
      BY <1>4, <1>9, <1>10, <3>2
  <2>2. CASE ~detach
    <3>1. st = fresh /\ at = attempt /\ qu = queue
      BY <2>2
    <3> HIDE DEF detach, first, st, at, qu
    <3>2. RowsOK(fresh, attempt, version, queue) /\ \A t \in Stages : fresh[t].active = stage[t].active
      BY <1>5, FreshOK
    <3> HIDE DEF fresh
    <3> QED
      BY <1>2, <1>4, <1>9, <1>10, <3>1, <3>2
  <2> QED
    BY <2>1, <2>2
<1>12. /\ row \in AttemptRow /\ row.status = "pending" /\ row.req = cmd.req /\ row.stage = s
       /\ row.ups = chosen /\ row.batch = batch /\ ~row.output
  BY <1>4, <1>5, <1>8 DEF NoAttempt, AttemptRow, Status, Open
<1> HIDE DEF row, st, at, qu
<1> QED
  BY <1>1, <1>4, <1>7, <1>11, <1>12, DispatchedOK

LEMMA ReviseOK ==
  ASSUME IInv, NEW h \in Handlers, Revise(h)
  PROVE  IInv'
<1> DEFINE cmd == handler[h].cmd
           s == cmd.stage
           old == attempt[cmd.expected]
           row == [NoAttempt EXCEPT !.stage = s, !.op = "revise", !.status = "pending",
                                    !.req = cmd.req, !.ups = old.ups, !.batch = old.batch]
<1>1. PICK a \in Attempts : Dispatched(h, a, row, stage, attempt, queue)
  BY DEF Revise
<1>2. /\ Runs(h, "revise") /\ NewRequest(cmd.req) /\ stage[s].active = 0
      /\ stage[s].current = cmd.expected /\ old.ups \subseteq Live
  BY DEF Revise
<1>3. cmd \in Command /\ CommandOK(cmd) /\ cmd.what = "revise"
  BY <1>2 DEF Runs, IInv, CommandsOK, HandlerRow
<1>4. s \in Stages /\ cmd.req \in Requests /\ cmd.expected \in Attempts
  BY <1>3 DEF Command, CommandOK
<1>5. old \in AttemptRow
  BY <1>4 DEF IInv, RowsOK, Typed
<1>6. \A v \in old.ups : version[v].used /\ version[v].live /\ version[v].batch = old.batch
  BY <1>2, <1>4, LiveUsed DEF Live, Used, IInv, RowsOK, Stands
<1>7. attempt[a].status = "none" /\ queue[cmd.req].status = "none"
  BY <1>1, <1>2 DEF Dispatched, NewAttempt, Unused, NewRequest
<1> HIDE DEF old
<1>8. /\ row \in AttemptRow /\ row.status = "pending" /\ row.req = cmd.req /\ row.stage = s
      /\ row.ups = old.ups /\ row.batch = old.batch /\ ~row.output
  <2>1. old.ups \in SUBSET Versions /\ old.batch \in 0 .. MaxBatches
    BY <1>5 DEF AttemptRow
  <2> QED
    BY <1>4, <2>1 DEF NoAttempt, AttemptRow, Status, Open
<1>9. RowsOK(stage, attempt, version, queue)
  BY DEF IInv
<1> HIDE DEF row
<1> QED
  BY <1>1, <1>2, <1>4, <1>6, <1>7, <1>8, <1>9, DispatchedOK

-----------------------------------------------------------------------------
(* The invariant is inductive *)

LEMMA InitOK == Init => IInv
<1> SUFFICES ASSUME Init PROVE IInv
  OBVIOUS
<1>1. /\ attempt \in [Attempts -> AttemptRow] /\ version \in [Versions -> VersionRow]
      /\ queue \in [Requests -> QueueRow]
  BY FreshRows DEF Init
<1>2. stage \in [Stages -> StageRow]
  BY Ranges DEF Init, StageRow
<1>3. Lives(stage, attempt, queue)
  BY DEF Init, Lives, StageLives, AttemptLives, QueueLives, NoAttempt, NoQueue, Open
<1>4. Stands(attempt, version) /\ Recorded(stage, attempt, version)
  BY DEF Init, Stands, Recorded, VersionStands, NoAttempt, NoVersion
<1>5. CommandsOK
  BY FreshRows DEF Init, CommandsOK, Idle, Used
<1> QED
  BY <1>1, <1>2, <1>3, <1>4, <1>5 DEF IInv, RowsOK, Typed

LEMMA PeopleOK ==
  ASSUME IInv, NEW h \in Handlers, People(h)
  PROVE  IInv'
<1>1. ASSUME NEW s \in Stages, NEW r \in Requests, BeginRun(h, s, r) PROVE IInv'
  BY <1>1, BeginRunOK
<1>2. ASSUME NEW s \in Stages, NEW what \in {"save", "approve", "reject"}, BeginOnCandidate(h, s, what)
      PROVE  IInv'
  BY <1>2, BeginOnCandidateOK
<1>3. ASSUME NEW s \in Stages, NEW r \in Requests, RequestOnCandidate(h, s, "revise", r) PROVE IInv'
  BY <1>3, RequestOnCandidateOK
<1>4. ASSUME NEW s \in Stages \ {NStages}, NEW r \in Requests, RequestOnCandidate(h, s, "approve", r)
      PROVE  IInv'
  BY <1>4, RequestOnCandidateOK
<1>5. ASSUME NEW r \in Requests, Retry(h, r) PROVE IInv'
  BY <1>5, RetryOK
<1>6. CASE Leave(h)
  BY <1>6, LeaveOK
<1>7. CASE Run(h)
  BY <1>7, RunOK
<1>8. CASE Revise(h)
  BY <1>8, ReviseOK
<1>9. CASE Save(h)
  BY <1>9, SaveOK
<1>10. CASE Approve(h)
  BY <1>10, ApproveOK
<1>11. CASE ApproveReplayed(h)
  BY <1>11, ApproveReplayedOK
<1>12. CASE Continue(h)
  BY <1>12, ContinueOK
<1>13. CASE Reject(h)
  BY <1>13, RejectOK
<1> QED
  BY <1>1, <1>2, <1>3, <1>4, <1>5, <1>6, <1>7, <1>8, <1>9, <1>10, <1>11, <1>12, <1>13 DEF People

LEMMA StutterOK == IInv /\ UNCHANGED vars => IInv'
<1> SUFFICES ASSUME IInv, UNCHANGED vars PROVE IInv'
  OBVIOUS
<1>1. CommandsOK'
  BY AloneOK DEF vars, rows
<1> QED
  BY <1>1, SameRowsOK DEF IInv, vars

LEMMA StepOK == IInv /\ [Next]_vars => IInv'
<1> SUFFICES ASSUME IInv, [Next]_vars PROVE IInv'
  OBVIOUS
<1>1. ASSUME NEW h \in Handlers, People(h) PROVE IInv'
  BY <1>1, PeopleOK
<1>2. ASSUME NEW v \in Versions, Delete(v) PROVE IInv'
  BY <1>2, DeleteOK
<1>3. ASSUME NEW r \in Requests, Worker(r) PROVE IInv'
  BY <1>3, WorkerOK
<1>4. CASE UNCHANGED vars
  BY <1>4, StutterOK
<1> QED
  BY <1>1, <1>2, <1>3, <1>4 DEF Next

LEMMA Inductive == Spec => []IInv
BY InitOK, StepOK, PTL DEF Spec

-----------------------------------------------------------------------------
(* The theorems *)

(* Every row and every command under way is well typed in every reachable      *)
(* state: an attempt never takes an end that its column does not have          *)
(* (StageWorkerTransitions.failed), and a continuation names a stage there is. *)
THEOREM TypeCorrect == Spec => []TypeOK
<1>1. IInv => TypeOK
  BY DEF IInv, RowsOK, Typed, CommandsOK, HandlerRow, TypeOK
<1> QED
  BY <1>1, Inductive, PTL

(* Stage, attempt and queue row agree on whether a run is under way, whoever   *)
(* ends it: worker, lease monitor, revocation or new input.                    *)
THEOREM RunsLiveTogether == Spec => []LivesTogether
<1>1. IInv => LivesTogether
  <2> SUFFICES ASSUME IInv PROVE LivesTogether
    OBVIOUS
  <2> QED
    BY DEF IInv, RowsOK, Lives, StageLives, AttemptLives, LivesTogether, Tells
<1> QED
  BY <1>1, Inductive, PTL

(* A run under way stands on approved versions that exist, all of its own      *)
(* input batch (select_upstream_versions, delete_stage_version).               *)
THEOREM RunsStandOnApproved == Spec => []StandsOnApproved
<1>1. IInv => StandsOnApproved
  <2> SUFFICES ASSUME IInv, NEW a \in Attempts, attempt[a].status \in Open
               PROVE  /\ attempt[a].ups \subseteq Live
                      /\ \A v \in attempt[a].ups : version[v].batch = attempt[a].batch
    BY DEF StandsOnApproved
  <2>1. attempt[a].ups \subseteq Versions
    BY DEF IInv, RowsOK, Typed, AttemptRow
  <2> QED
    BY <2>1 DEF IInv, RowsOK, Stands, Live
<1> QED
  BY <1>1, Inductive, PTL

-----------------------------------------------------------------------------
(* What a step may do to versions and drafts *)

LEMMA PeopleVersions ==
  ASSUME NEW h \in Handlers, People(h), ~Approve(h)
  PROVE  UNCHANGED version
BY ZenonT(60) DEF People, BeginRun, BeginOnCandidate, RequestOnCandidate, Request, Retry, Begin, Leave, Run,
       Revise, Save, ApproveReplayed, Continue, Reject, Dispatched, rows

LEMMA WorkerVersions ==
  ASSUME NEW r \in Requests, Worker(r)
  PROVE  UNCHANGED version
BY DEF Worker, Claim, Started, Publish, Fail, Expire, Retire, Moves, Ends

\* A version is made of a candidate that was made of versions there are, and
\* takes the number its stage gives next.
NewVersions ==
  \A v \in Versions : version'[v].used /\ ~version[v].used =>
    /\ \A u \in version'[v].ups : version[u].live
    /\ \A w \in Versions : version[w].used /\ version[w].stage = version'[v].stage =>
         version[w].no < version'[v].no

LEMMA ApproveNewVersions ==
  ASSUME IInv, NEW h \in Handlers, Approve(h)
  PROVE  NewVersions
<1> DEFINE s == handler[h].cmd.stage
           a == handler[h].cmd.expected
<1>1. PICK v \in Versions :
        version' = [version EXCEPT ![v] =
                        [used |-> TRUE, live |-> TRUE, stage |-> s, no |-> Number(s), attempt |-> a,
                         ups |-> attempt[a].ups, batch |-> attempt[a].batch,
                         req |-> handler[h].cmd.req]]
  BY DEF Approve
<1>2. attempt[a].ups \subseteq Live
  BY DEF Approve, UpstreamStands
<1>3. version \in [Versions -> VersionRow]
  BY DEF IInv, RowsOK, Typed
<1>4. /\ version'[v].ups = attempt[a].ups /\ version'[v].stage = s /\ version'[v].no = stage[s].next
      /\ \A w \in Versions : w # v => version'[w] = version[w]
  BY <1>1, <1>3 DEF Number
<1>5. \A u \in version'[v].ups : version[u].live
  BY <1>2, <1>4 DEF Live
<1>6. \A w \in Versions : version[w].used => version[w].no < stage[version[w].stage].next
  BY DEF IInv, RowsOK, Recorded, VersionStands
<1> HIDE DEF s, a
<1> QED
  BY <1>4, <1>5, <1>6 DEF NewVersions

LEMMA HistoryStep ==
  ASSUME IInv, IInv', [Next]_vars
  PROVE  /\ NewVersions
         /\ \A v \in Versions : version'[v].live => attempt'[version'[v].attempt].output
<1>1. \A v \in Versions : version'[v].live => attempt'[version'[v].attempt].output
  BY DEF IInv, RowsOK, Recorded, VersionStands
<1>2. UNCHANGED version => NewVersions
  BY DEF NewVersions
<1>3. ASSUME NEW h \in Handlers, People(h) PROVE NewVersions
  BY <1>2, <1>3, PeopleVersions, ApproveNewVersions
<1>4. ASSUME NEW v \in Versions, Delete(v) PROVE NewVersions
  <2>1. \A w \in Versions : version'[w].used = version[w].used
    BY <1>4 DEF Delete, IInv, RowsOK, Typed, VersionRow
  <2> QED
    BY <2>1 DEF NewVersions
<1>5. ASSUME NEW r \in Requests, Worker(r) PROVE NewVersions
  BY <1>2, <1>5, WorkerVersions
<1>6. CASE UNCHANGED vars
  <2>1. UNCHANGED version
    BY <1>6 DEF vars, rows
  <2> QED
    BY <1>1, <2>1 DEF NewVersions
<1> QED
  BY <1>1, <1>3, <1>4, <1>5, <1>6 DEF Next

(* What is approved stays (DirectStageStorage.approve and reject,              *)
(* delete_stage_version): a version is made of versions there are, its number  *)
(* is new for its stage, and its attempt keeps its contents.                   *)
THEOREM HistoryIsKept == Spec => HistoryKept
<1>1. IInv /\ IInv' /\ [Next]_vars =>
        /\ NewVersions
        /\ \A v \in Versions : version'[v].live => attempt'[version'[v].attempt].output
  BY HistoryStep
<1> QED
  BY <1>1, Inductive, PTL DEF Spec, HistoryKept, NewVersions

\* The stage's draft is known as a version to a command with an old snapshot.
OldSnapshot(s) == \E h \in Handlers : stage[s].current \in Versioned(handler[h].seen)

Overrun(s) ==
  AwaitsReview(s) /\ stage'[s].active \notin {0, stage[s].active} /\ ~OldSnapshot(s) =>
    attempt'[stage'[s].active].op = "revise" \/ stage'[s].current = 0

Unfounded(s) ==
  stage'[s].review = "approved" /\ stage[s].review # "approved" /\ ~OldSnapshot(s) =>
    \E v \in Versions : version'[v].live /\ version'[v].attempt = stage'[s].current

LEMMA SameStage ==
  ASSUME NEW s \in Stages, stage'[s] = stage[s]
  PROVE  Overrun(s) /\ Unfounded(s)
BY DEF Overrun, Unfounded

LEMMA StageRows ==
  ASSUME IInv
  PROVE  /\ stage \in [Stages -> StageRow]
         /\ version \in [Versions -> VersionRow]
         /\ attempt \in [Attempts -> AttemptRow]
BY DEF IInv, RowsOK, Typed

\* Nothing is begun and nothing approved.
LEMMA QuietStage ==
  ASSUME NEW s \in Stages,
         stage'[s].active \in {0, stage[s].active},
         stage'[s].review \in {"pending", stage[s].review}
  PROVE  Overrun(s) /\ Unfounded(s)
BY DEF Overrun, Unfounded

LEMMA WorkerStages ==
  ASSUME IInv, NEW r \in Requests, Worker(r), NEW s \in Stages
  PROVE  Overrun(s) /\ Unfounded(s)
<1>1. CASE UNCHANGED stage
  BY <1>1, SameStage
<1>2. CASE Publish(r)
  <2> DEFINE t == attempt[queue[r].run].stage
             row == [stage[t] EXCEPT !.active = 0, !.current = queue[r].run, !.review = "pending"]
  <2>1. stage' = [stage EXCEPT ![t] = row]
    BY <1>2 DEF Publish
  <2>2. s = t => row.active = 0 /\ row.review = "pending"
    BY StageRows DEF StageRow
  <2> HIDE DEF t, row
  <2>3. stage'[s] = IF s = t THEN row ELSE stage[s]
    BY <2>1, StageRows
  <2> QED
    BY <2>2, <2>3, QuietStage
<1>3. ASSUME NEW end, Ends(r, end) PROVE Overrun(s) /\ Unfounded(s)
  <2> DEFINE t == attempt[queue[r].run].stage
             row == [stage[t] EXCEPT !.active = 0]
  <2>1. UNCHANGED stage \/ stage' = [stage EXCEPT ![t] = row]
    BY <1>3 DEF Ends
  <2>2. s = t => row.active = 0 /\ row.review = stage[s].review
    BY StageRows DEF StageRow
  <2> HIDE DEF t, row
  <2>3. stage'[s] = stage[s] \/ (s = t /\ stage'[s] = row)
    <3>1. CASE UNCHANGED stage
      BY <3>1
    <3>2. CASE stage' = [stage EXCEPT ![t] = row]
      BY <3>2, StageRows
    <3> QED
      BY <2>1, <3>1, <3>2
  <2> QED
    BY <2>2, <2>3, QuietStage
<1> QED
  BY <1>1, <1>2, <1>3 DEF Worker, Claim, Started, Moves, Fail, Expire, Retire

LEMMA DeleteStages ==
  ASSUME IInv, NEW v \in Versions, Delete(v), NEW s \in Stages
  PROVE  Overrun(s) /\ Unfounded(s)
<1>1. stage'[s] \in {stage[s], [stage[s] EXCEPT !.review = "pending"]}
  BY DEF Delete
<1>2. stage'[s].active = stage[s].active /\ stage'[s].review \in {"pending", stage[s].review}
  BY <1>1, StageRows DEF StageRow
<1> QED
  BY <1>2, QuietStage

\* The commands that change no stage but their own, and there only the candidate.
LEMMA DraftStages ==
  ASSUME IInv, NEW h \in Handlers, Save(h) \/ Reject(h), NEW s \in Stages
  PROVE  Overrun(s) /\ Unfounded(s)
<1> DEFINE t == handler[h].cmd.stage
<1>1. PICK c : stage' = [stage EXCEPT ![t].current = c]
  BY DEF Save, Reject
<1> HIDE DEF t
<1>2. stage'[s] \in {stage[s], [stage[s] EXCEPT !.current = c]}
  BY <1>1, StageRows
<1>3. stage'[s].active = stage[s].active /\ stage'[s].review = stage[s].review
  BY <1>2, StageRows DEF StageRow
<1> QED
  BY <1>3, QuietStage

LEMMA ApproveStages ==
  ASSUME IInv, NEW h \in Handlers, Approve(h), NEW s \in Stages
  PROVE  Overrun(s) /\ Unfounded(s)
<1> DEFINE t == handler[h].cmd.stage
           a == handler[h].cmd.expected
           row == [stage[t] EXCEPT !.next = stage[t].next + 1, !.review = "approved"]
<1>1. stage' = [stage EXCEPT ![t] = row] /\ stage[t].current = a
  BY DEF Approve, Decidable
<1>2. \E v \in Versions : version'[v].live /\ version'[v].attempt = a
  <2>1. PICK v \in Versions :
          version' = [version EXCEPT ![v] =
                        [used |-> TRUE, live |-> TRUE, stage |-> t, no |-> Number(t), attempt |-> a,
                         ups |-> attempt[a].ups, batch |-> attempt[a].batch,
                         req |-> handler[h].cmd.req]]
    BY DEF Approve
  <2>2. version'[v].live /\ version'[v].attempt = a
    BY <2>1, StageRows
  <2> QED
    BY <2>2
<1>3. s = t => row.active = stage[s].active /\ row.current = a
  BY <1>1, StageRows DEF StageRow
<1> HIDE DEF t, a, row
<1>4. stage'[s] = IF s = t THEN row ELSE stage[s]
  BY <1>1, StageRows
<1>5. CASE s = t
  BY <1>2, <1>3, <1>4, <1>5 DEF Overrun, Unfounded
<1>6. CASE s # t
  BY <1>4, <1>6, SameStage
<1> QED
  BY <1>5, <1>6

\* A dispatch begins a run of the stage it is for, in place of a draft that is
\* no longer shown.
LEMMA DispatchedStages ==
  ASSUME NEW h \in Handlers, NEW a \in Attempts, NEW row \in AttemptRow,
         NEW st, NEW at, NEW qu, RowsOK(st, at, version, qu),
         Dispatched(h, a, row, st, at, qu), NEW s \in Stages
  PROVE  /\ row.stage # s => stage'[s] = st[s]
         /\ row.stage = s => /\ stage'[s].active = a /\ stage'[s].review = "pending"
                             /\ stage'[s].current = st[s].current
         /\ attempt'[a] = row
<1> DEFINE t == row.stage
           new == [st[t] EXCEPT !.active = a, !.review = "pending"]
<1>1. stage' = [st EXCEPT ![t] = new] /\ attempt' = [at EXCEPT ![a] = row]
  BY DEF Dispatched
<1>0. st \in [Stages -> StageRow] /\ at \in [Attempts -> AttemptRow]
  BY DEF RowsOK, Typed
<1>2. t = s => /\ new.active = a /\ new.review = "pending" /\ new.current = st[s].current
  BY <1>0 DEF StageRow
<1> HIDE DEF t, new
<1>3. stage'[s] = IF s = t THEN new ELSE st[s]
  BY <1>0, <1>1
<1>4. attempt'[a] = row
  BY <1>0, <1>1
<1> QED
  BY <1>2, <1>3, <1>4 DEF t

LEMMA ReviseStages ==
  ASSUME IInv, NEW h \in Handlers, Revise(h), NEW s \in Stages
  PROVE  Overrun(s) /\ Unfounded(s)
<1> DEFINE cmd == handler[h].cmd
           old == attempt[cmd.expected]
           row == [NoAttempt EXCEPT !.stage = cmd.stage, !.op = "revise", !.status = "pending",
                                    !.req = cmd.req, !.ups = old.ups, !.batch = old.batch]
<1>1. PICK a \in Attempts : Dispatched(h, a, row, stage, attempt, queue)
  BY DEF Revise
<1>2. cmd \in Command /\ CommandOK(cmd) /\ cmd.what = "revise"
  BY DEF Revise, Runs, IInv, CommandsOK, HandlerRow
<1>3. cmd.stage \in Stages /\ cmd.req \in Requests /\ cmd.expected \in Attempts
  BY <1>2 DEF Command, CommandOK
<1>4. old.ups \in SUBSET Versions /\ old.batch \in 0 .. MaxBatches
  BY <1>3, StageRows DEF AttemptRow
<1> HIDE DEF old
<1>5. row \in AttemptRow /\ row.op = "revise" /\ row.stage = cmd.stage
  BY <1>3, <1>4 DEF NoAttempt, AttemptRow, Status, Open
<1> HIDE DEF row, cmd
<1>6. /\ row.stage # s => stage'[s] = stage[s]
      /\ row.stage = s => /\ stage'[s].active = a /\ stage'[s].review = "pending"
      /\ attempt'[a] = row
  <2>1. RowsOK(stage, attempt, version, queue)
    BY DEF IInv
  <2>2. row \in AttemptRow
    BY <1>5
  <2> QED
    BY <1>1, <2>1, <2>2, DispatchedStages
<1>7. CASE row.stage # s
  BY <1>6, <1>7, SameStage
<1>8. CASE row.stage = s
  BY <1>5, <1>6, <1>8 DEF Overrun, Unfounded
<1> QED
  BY <1>7, <1>8

\* A run without new input: the draft would have stopped it.
\* With new input: nothing stays that the command does not know as a version.
LEMMA RunStages ==
  ASSUME IInv, NEW h \in Handlers, Run(h), NEW s \in Stages
  PROVE  Overrun(s) /\ Unfounded(s)
<1> DEFINE cmd == handler[h].cmd
           seen == handler[h].seen
           t == cmd.stage
           first == Batched /\ t = 1 /\ (stage[1].batch = 0 \/ cmd.refresh)
           detach == first /\ stage[1].batch # 0
           batch == IF first THEN stage[1].batch + 1 ELSE stage[1].batch
           fresh == [stage EXCEPT ![1].batch = batch]
           st == IF detach THEN [u \in Stages |-> StageDetached(fresh[u], seen)] ELSE fresh
           at == IF detach THEN [b \in Attempts |-> AttemptDetached(b, seen)] ELSE attempt
           qu == IF detach THEN [r \in Requests |-> QueueDetached(r, seen)] ELSE queue
           chosen == UNION {Chosen(p, cmd, seen, batch) : p \in Upstream[t]}
           row == [NoAttempt EXCEPT !.stage = t, !.status = "pending", !.req = cmd.req,
                                    !.ups = chosen, !.batch = batch]
<1>1. PICK a \in Attempts : Dispatched(h, a, row, st, at, qu)
  BY DEF Run
<1>2. /\ batch <= MaxBatches /\ chosen \subseteq Live /\ ~DraftExists(st[t], seen)
      /\ Runs(h, "run")
  BY DEF Run
<1>3. cmd \in Command /\ CommandOK(cmd) /\ cmd.what = "run" /\ seen \subseteq Used
  BY <1>2 DEF Runs, IInv, CommandsOK, HandlerRow
<1>4. t \in Stages /\ cmd.req \in Requests
  BY <1>3 DEF Command, CommandOK
<1>5. batch \in 0 .. MaxBatches
  <2>1. stage[1].batch \in 0 .. MaxBatches
    BY Ranges, StageRows DEF StageRow
  <2> QED
    BY <1>2, <2>1, StageChainAssumption
<1>6. chosen \in SUBSET Versions
  BY <1>2 DEF Live
<1> HIDE DEF batch, chosen
<1>7. row \in AttemptRow /\ row.stage = t
  BY <1>4, <1>5, <1>6 DEF NoAttempt, AttemptRow, Status, Open
<1>8. \A u \in Stages : /\ fresh[u].active = stage[u].active
                        /\ fresh[u].current = stage[u].current
                        /\ fresh[u].review = stage[u].review
  BY <1>5, FreshOK
<1>9. ASSUME NEW S, NEW A, NEW Q, RowsOK(S, A, version, Q), Dispatched(h, a, row, S, A, Q)
      PROVE  /\ t # s => stage'[s] = S[s]
             /\ t = s => /\ stage'[s].active = a /\ stage'[s].review = "pending"
                         /\ stage'[s].current = S[s].current
  <2>2. row \in AttemptRow
    BY <1>7
  <2> HIDE DEF row
  <2>3. /\ row.stage # s => stage'[s] = S[s]
        /\ row.stage = s => /\ stage'[s].active = a /\ stage'[s].review = "pending"
                            /\ stage'[s].current = S[s].current
    BY <1>9, <2>2, DispatchedStages
  <2> QED
    BY <1>7, <2>3
<1> HIDE DEF row
<1>10. CASE detach
  <2>1. /\ st = [u \in Stages |-> StageDetached(fresh[u], seen)]
        /\ at = [b \in Attempts |-> AttemptDetached(b, seen)]
        /\ qu = [r \in Requests |-> QueueDetached(r, seen)]
    BY <1>10
  <2> HIDE DEF detach, first, st, at, qu
  <2>2. RowsOK(st, at, version, qu) /\ st[s].active = 0
    BY <1>3, <1>5, <2>1, DetachOK
  <2>3. /\ t # s => stage'[s] = st[s]
        /\ t = s => /\ stage'[s].active = a /\ stage'[s].review = "pending"
                    /\ stage'[s].current = st[s].current
    BY <1>1, <1>9, <2>2
  <2>4. st[s] = StageDetached(fresh[s], seen)
    BY <2>1
  <2>5. CASE stage[s].current \in Versioned(seen)
    BY <2>5 DEF Overrun, Unfounded, OldSnapshot
  <2>6. CASE stage[s].current \notin Versioned(seen)
    <3>1. st[s].current = 0 /\ st[s].review = "pending"
      <4>1. fresh[s].current \notin Versioned(seen) /\ fresh[s] \in StageRow
        BY <1>5, <1>8, <2>6, FreshOK DEF RowsOK, Typed
      <4> HIDE DEF fresh
      <4> QED
        BY <2>4, <4>1 DEF StageDetached, StageRow
    <3> QED
      BY <2>2, <2>3, <3>1 DEF Overrun, Unfounded
  <2> QED
    BY <2>5, <2>6
<1>11. CASE ~detach
  <2>1. st = fresh /\ at = attempt /\ qu = queue
    BY <1>11
  <2>2. RowsOK(fresh, attempt, version, queue)
    BY <1>5, FreshOK
  <2> HIDE DEF detach, first, st, at, qu, fresh
  <2>3. /\ t # s => stage'[s] = fresh[s]
        /\ t = s => /\ stage'[s].active = a /\ stage'[s].review = "pending"
                    /\ stage'[s].current = stage[s].current
    BY <1>1, <1>8, <1>9, <2>1, <2>2
  <2>4. CASE t # s
    BY <1>8, <2>3, <2>4, QuietStage
  <2>5. CASE t = s
    <3>1. AwaitsReview(s) => stage[s].current \in Versioned(seen)
      BY <1>2, <1>4, <1>8, <2>1, <2>5, Ranges DEF DraftExists, AwaitsReview
    <3> QED
      BY <2>3, <2>5, <3>1 DEF Overrun, Unfounded, OldSnapshot
  <2> QED
    BY <2>4, <2>5
<1> QED
  BY <1>10, <1>11

LEMMA PeopleStages ==
  ASSUME IInv, NEW h \in Handlers, People(h), NEW s \in Stages
  PROVE  Overrun(s) /\ Unfounded(s)
<1>1. CASE Run(h)
  BY <1>1, RunStages
<1>2. CASE Revise(h)
  BY <1>2, ReviseStages
<1>3. CASE Save(h) \/ Reject(h)
  BY <1>3, DraftStages
<1>4. CASE Approve(h)
  BY <1>4, ApproveStages
<1>5. CASE ~Run(h) /\ ~Revise(h) /\ ~Save(h) /\ ~Reject(h) /\ ~Approve(h)
  <2>1. UNCHANGED stage
    BY <1>5, ZenonT(60) DEF People, BeginRun, BeginOnCandidate, RequestOnCandidate, Request, Retry, Begin,
                Leave, ApproveReplayed, Continue, rows
  <2> QED
    BY <2>1, SameStage
<1> QED
  BY <1>1, <1>2, <1>3, <1>4, <1>5

(* Only a command that read the database before a version was deleted overruns *)
(* a draft under review (DirectStageStorage.prepare) or shows a stage as       *)
(* approved without a version (detach_old_ui_batch).                           *)
THEOREM OnlyOldSnapshots == Spec => OnlyByOldSnapshot
<1>1. IInv /\ [Next]_vars => \A s \in Stages : Overrun(s) /\ Unfounded(s)
  <2> SUFFICES ASSUME IInv, [Next]_vars, NEW s \in Stages PROVE Overrun(s) /\ Unfounded(s)
    OBVIOUS
  <2>1. CASE UNCHANGED vars
    <3>1. UNCHANGED stage
      BY <2>1 DEF vars, rows
    <3> QED
      BY <3>1, SameStage
  <2> QED
    BY <2>1, PeopleStages, DeleteStages, WorkerStages DEF Next
<1>2. (\A s \in Stages : Overrun(s) /\ Unfounded(s)) =>
        \A s \in Stages :
          LET a == stage[s].current
              old == \E h \in Handlers : a \in Versioned(handler[h].seen) IN
          /\ AwaitsReview(s) /\ stage'[s].active \notin {0, stage[s].active} /\ ~old =>
               attempt'[stage'[s].active].op = "revise" \/ stage'[s].current = 0
          /\ stage'[s].review = "approved" /\ stage[s].review # "approved" /\ ~old =>
               \E v \in Versions : version'[v].live /\ version'[v].attempt = stage'[s].current
  BY DEF Overrun, Unfounded, OldSnapshot
<1> QED
  BY <1>1, <1>2, Inductive, PTL DEF Spec, OnlyByOldSnapshot

=============================================================================
