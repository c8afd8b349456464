------------------------------ MODULE StageChain ------------------------------
(***************************************************************************)
(* A generation chain (services/stage_storage): each stage of a chain is   *)
(* drafted by an AI worker, edited, revised and reviewed by people, and    *)
(* what is approved becomes an immutable version that later stages build   *)
(* on.  Commands of people lock the chain's row, workers lock their queue  *)
(* row, and both lock the stage; but a command has read the database       *)
(* before it waits for its lock (REPEATABLE READ), and whatever it does    *)
(* not read again with a lock is as old as that.                           *)
(*                                                                         *)
(* A command is therefore two steps: it takes its snapshot, and later runs *)
(* its transaction.  Of the snapshot only the versions matter.             *)
(***************************************************************************)
EXTENDS Naturals, FiniteSets

CONSTANTS
  NStages,      \* stages of the chain, in order
  Upstream,     \* the stages whose versions a stage needs
  Batched,      \* the chain has input batches (UI generation)
  MaxAttempts,  \* attempts made, at most
  MaxVersions,  \* versions approved, at most
  MaxBatches,   \* input batches, at most
  MaxRequests,  \* request ids clients make up, at most
  Handlers,     \* commands under way at a time
  None

Stages == 1 .. NStages
Attempts == 1 .. MaxAttempts
Versions == 1 .. MaxVersions
Requests == 1 .. MaxRequests

ASSUME StageChainAssumption ==
  /\ NStages \in Nat \ {0}
  /\ MaxAttempts \in Nat
  /\ MaxVersions \in Nat
  /\ MaxRequests \in Nat
  /\ MaxBatches \in Nat
  /\ Batched \in BOOLEAN
  /\ Upstream \in [Stages -> SUBSET Stages]
  /\ \A s \in Stages : \A p \in Upstream[s] : p < s
  /\ None \notin Requests

VARIABLES
  stage,    \* ai_generation_stages
  attempt,  \* ai_generation_attempts, numbered as they are made
  version,  \* ai_generate_stage_versions, numbered as they are made
  queue,    \* worker_tasks of domain "ai", by request id
  sent,     \* the command a client made under each request id
  handler   \* the commands under way

rows == <<stage, attempt, version, queue>>
vars == <<rows, sent, handler>>

-----------------------------------------------------------------------------
(* Rows *)

Open == {"pending", "claimed", "running"}
Held == {"claimed", "running"}
Ended == {"failed", "error", "canceled"}
Status == {"none"} \cup Open \cup {"success", "failed", "canceled"}
QueueStatus == {"none"} \cup Open \cup {"success"} \cup Ended

MaybeAttempt == Attempts \cup {0}

StageRow == [active : MaybeAttempt, current : MaybeAttempt, review : {"pending", "approved"},
             next : Nat, batch : 0 .. MaxBatches]

AttemptRow == [stage : Stages, op : {"generate", "revise", "edit"}, status : Status,
               req : Requests \cup {None}, ups : SUBSET Versions, batch : 0 .. MaxBatches,
               output : BOOLEAN, invalid : BOOLEAN]

VersionRow == [used : BOOLEAN, live : BOOLEAN, stage : Stages, no : Nat, attempt : MaybeAttempt,
               ups : SUBSET Versions, batch : 0 .. MaxBatches, req : Requests \cup {None}]

QueueRow == [status : QueueStatus, run : MaybeAttempt]

Command == [what : {"run", "revise", "save", "approve", "reject"}, stage : Stages,
            req : Requests \cup {None}, expected : MaybeAttempt, picked : SUBSET Versions,
            refresh : BOOLEAN, more : BOOLEAN]

ASSUME NoneIsNoCommand == None \notin Command

NoAttempt == [stage |-> 1, op |-> "generate", status |-> "none", req |-> None, ups |-> {},
              batch |-> 0, output |-> FALSE, invalid |-> FALSE]

NoVersion == [used |-> FALSE, live |-> FALSE, stage |-> 1, no |-> 0, attempt |-> 0, ups |-> {},
              batch |-> 0, req |-> None]

NoQueue == [status |-> "none", run |-> 0]

Plain == [what |-> "run", stage |-> 1, req |-> None, expected |-> 0, picked |-> {},
          refresh |-> FALSE, more |-> FALSE]

Idle == [step |-> "idle", cmd |-> Plain, seen |-> {}]

Live == {v \in Versions : version[v].live}

\* The attempts behind a set of versions.
Versioned(seen) == {version[v].attempt : v \in seen}

Unused == {a \in Attempts : attempt[a].status = "none"}
NewAttempt(a) == a \in Unused /\ \A b \in Unused : a <= b

-----------------------------------------------------------------------------
(* Commands of people *)

Become(h, step, cmd, seen) ==
  handler' = [handler EXCEPT ![h] = [step |-> step, cmd |-> cmd, seen |-> seen]]

Stop(h) == Become(h, "idle", Plain, {})

\* A command takes its snapshot.
Begin(h, cmd) ==
  /\ handler[h].step = "idle"
  /\ Become(h, "begun", cmd, Live)
  /\ UNCHANGED rows

\* A request id stands for one command; ids are taken in order.
Request(h, cmd) ==
  /\ sent[cmd.req] = None
  /\ \A q \in Requests : q < cmd.req => sent[q] # None
  /\ sent' = [sent EXCEPT ![cmd.req] = cmd]
  /\ Begin(h, cmd)

\* Run a stage, with versions picked or the latest ones, or on new input.
BeginRun(h, s, r) ==
  \E picked \in SUBSET {v \in Live : version[v].stage \in Upstream[s]}, refresh \in BOOLEAN :
    /\ \A v, w \in picked : version[v].stage = version[w].stage => v = w
    /\ refresh => Batched /\ s = 1
    /\ Request(h, [Plain EXCEPT !.stage = s, !.req = r, !.picked = picked, !.refresh = refresh])

\* What a client acts on is the candidate it sees.
OnCandidate(s, what, r) ==
  [Plain EXCEPT !.what = what, !.stage = s, !.req = r, !.expected = stage[s].current,
                !.more = what = "approve" /\ r # None]

\* Save, approve or reject the draft.
BeginOnCandidate(h, s, what) ==
  /\ stage[s].current # 0
  /\ Begin(h, OnCandidate(s, what, None))
  /\ UNCHANGED sent

\* Revise the draft, or approve it and continue: commands with a request id.
RequestOnCandidate(h, s, what, r) ==
  /\ stage[s].current # 0
  /\ Request(h, OnCandidate(s, what, r))

\* The client heard nothing and sends its request again.
Retry(h, r) ==
  /\ sent[r] # None
  /\ Begin(h, sent[r])
  /\ UNCHANGED sent

\* The database knows the request, or another command under way carries it.
Known(r, h) ==
  \/ queue[r].status # "none"
  \/ \E v \in Versions : version[v].req = r
  \/ \E g \in Handlers \ {h} : handler[g].cmd.req = r

\* The command ends without a change: it was refused, had been done before,
\* found a row locked, or its process died before the commit.  A request that
\* left nothing behind is as good as a new one.
Leave(h) ==
  LET r == handler[h].cmd.req IN
  /\ handler[h].step # "idle"
  /\ Stop(h)
  /\ sent' = IF r = None \/ Known(r, h) THEN sent ELSE [sent EXCEPT ![r] = None]
  /\ UNCHANGED rows

Runs(h, what) == handler[h].step = "begun" /\ handler[h].cmd.what = what

\* Mutant: only what a worker wrote awaits review.
DraftExistsUnlessEdited(st, seen) ==
  /\ st.review = "pending"
  /\ st.current # 0
  /\ attempt[st.current].op # "edit"
  /\ attempt[st.current].output /\ ~attempt[st.current].invalid
  /\ st.current \notin Versioned(seen)

\* The stage has a draft; seen are the versions the command knows of.
DraftExists(st, seen) ==
  /\ st.review = "pending"
  /\ st.current # 0
  /\ attempt[st.current].output /\ ~attempt[st.current].invalid
  /\ st.current \notin Versioned(seen)

\* Mutant: versions of any input will do.
InAnyBatch(v, batch) == TRUE

InBatch(v, batch) == version[v].batch = batch

\* The version a run takes of a parent stage: the one picked, or the latest.
Chosen(p, cmd, seen, batch) ==
  LET of == {v \in seen : version[v].stage = p /\ InBatch(v, batch)}
      picked == {v \in cmd.picked : version[v].stage = p} IN
  IF picked # {} THEN picked \cap of
  ELSE {v \in of : \A w \in of : version[w].no <= version[v].no}

\* detach_old_ui_batch: what new input makes obsolete.
Detached(a, seen) ==
  /\ a \in {stage[s].current : s \in Stages} \cup {stage[s].active : s \in Stages}
  /\ a \notin Versioned(seen)

StageDetached(st, seen) ==
  LET kept == IF st.current \in Versioned(seen) THEN st.current ELSE 0 IN
  [st EXCEPT !.active = 0, !.current = kept,
             !.review = IF kept # 0 THEN "approved" ELSE "pending"]

Canceled(status) == IF status \in Open THEN "canceled" ELSE status

AttemptDetached(a, seen) ==
  IF Detached(a, seen)
  THEN [attempt[a] EXCEPT !.invalid = TRUE, !.status = Canceled(attempt[a].status)]
  ELSE attempt[a]

QueueDetached(r, seen) ==
  IF Detached(queue[r].run, seen)
  THEN [queue[r] EXCEPT !.status = Canceled(queue[r].status)]
  ELSE queue[r]

\* The attempt, the stage and the queue row of a dispatch are one transaction.
Dispatched(h, a, row, stages, attempts, queues) ==
  /\ NewAttempt(a)
  /\ attempt' = [attempts EXCEPT ![a] = row]
  /\ stage' = [stages EXCEPT ![row.stage].active = a, ![row.stage].review = "pending"]
  /\ queue' = [queues EXCEPT ![row.req] = [NoQueue EXCEPT !.status = "pending", !.run = a]]
  /\ Stop(h)
  /\ UNCHANGED <<version, sent>>

\* Mutant: a request whose run has ended is dispatched again.
NewRequestAfterEnd(r) == queue[r].status \notin Open

\* reserve_worker_identity: the request has not been dispatched.
NewRequest(r) == queue[r].status = "none"

\* start_stage: the run of a stage.
Run(h) ==
  LET cmd == handler[h].cmd
      seen == handler[h].seen
      s == cmd.stage
      first == Batched /\ s = 1 /\ (stage[1].batch = 0 \/ cmd.refresh)
      detach == first /\ stage[1].batch # 0
      batch == IF first THEN stage[1].batch + 1 ELSE stage[1].batch
      fresh == [stage EXCEPT ![1].batch = batch]
      stages == IF detach THEN [t \in Stages |-> StageDetached(fresh[t], seen)] ELSE fresh
      chosen == UNION {Chosen(p, cmd, seen, batch) : p \in Upstream[s]} IN
  /\ Runs(h, "run")
  /\ NewRequest(cmd.req)
  /\ stage[s].active = 0
  /\ batch <= MaxBatches
  /\ \A p \in Upstream[s] : Chosen(p, cmd, seen, batch) # {}
  /\ chosen \subseteq Live
  /\ ~DraftExists(stages[s], seen)
  /\ \E a \in Attempts :
       Dispatched(h, a, [NoAttempt EXCEPT !.stage = s, !.status = "pending", !.req = cmd.req,
                                          !.ups = chosen, !.batch = batch],
                  stages,
                  IF detach THEN [b \in Attempts |-> AttemptDetached(b, seen)] ELSE attempt,
                  IF detach THEN [r \in Requests |-> QueueDetached(r, seen)] ELSE queue)

\* The draft is worked over by a worker, on the input it was made from.
Revise(h) ==
  LET cmd == handler[h].cmd
      s == cmd.stage
      old == attempt[cmd.expected] IN
  /\ Runs(h, "revise")
  /\ NewRequest(cmd.req)
  /\ stage[s].active = 0
  /\ stage[s].current = cmd.expected
  /\ DraftExists(stage[s], handler[h].seen)
  /\ old.ups \subseteq Live
  /\ \E a \in Attempts :
       Dispatched(h, a, [NoAttempt EXCEPT !.stage = s, !.op = "revise", !.status = "pending",
                                          !.req = cmd.req, !.ups = old.ups, !.batch = old.batch],
                  stage, attempt, queue)

\* The candidate a command was made for is still the one to decide about.
Decidable(h, s) ==
  /\ stage[s].active = 0
  /\ stage[s].review = "pending"
  /\ stage[s].current = handler[h].cmd.expected
  /\ stage[s].current \notin Versioned(handler[h].seen)

\* save_draft: an edit is an attempt of its own.
Save(h) ==
  LET s == handler[h].cmd.stage
      old == attempt[stage[s].current] IN
  /\ Runs(h, "save")
  /\ Decidable(h, s)
  /\ ~old.invalid
  /\ \E a \in Attempts :
       /\ NewAttempt(a)
       /\ attempt' = [attempt EXCEPT ![a] = [old EXCEPT !.op = "edit", !.req = None]]
       /\ stage' = [stage EXCEPT ![s].current = a]
  /\ Stop(h)
  /\ UNCHANGED <<version, queue, sent>>

\* Continue with the next stage on this version: run it under the request id.
NextStage(v, cmd) ==
  LET s == cmd.stage + 1
      picks == {u \in version'[v].ups \cup {v} : version'[u].stage \in Upstream[s]} IN
  [Plain EXCEPT !.stage = s, !.req = cmd.req, !.picked = picks]

\* Mutant: a number is taken from the versions that are left.
NumberLeft(s) ==
  LET taken == {version[v].no : v \in {w \in Live : version[w].stage = s}} IN
  CHOOSE n \in 1 .. MaxVersions + 1 : n \notin taken /\ \A m \in taken : m < n

\* next_version_no.
Number(s) == stage[s].next

\* The versions the draft was made from are locked once more.
UpstreamStands(a) == attempt[a].ups \subseteq Live

\* The candidate becomes a version; the next stage may follow in a transaction
\* of its own.  An attempt has one version (uq_ai_stage_version_attempt).
Approve(h) ==
  LET cmd == handler[h].cmd
      s == cmd.stage
      a == cmd.expected IN
  /\ Runs(h, "approve")
  /\ Decidable(h, s)
  /\ a \notin Versioned(Live)
  /\ attempt[a].output /\ ~attempt[a].invalid
  /\ UpstreamStands(a)
  /\ \E v \in Versions :
       /\ ~version[v].used /\ \A w \in Versions : w < v => version[w].used
       /\ version' = [version EXCEPT ![v] =
                        [used |-> TRUE, live |-> TRUE, stage |-> s, no |-> Number(s), attempt |-> a,
                         ups |-> attempt[a].ups, batch |-> attempt[a].batch, req |-> cmd.req]]
       /\ IF cmd.more THEN Become(h, "continue", NextStage(v, cmd), {}) ELSE Stop(h)
  /\ stage' = [stage EXCEPT ![s].next = stage[s].next + 1, ![s].review = "approved"]
  /\ UNCHANGED <<attempt, queue, sent>>

\* The review was saved before, its continuation perhaps not.
ApproveReplayed(h) ==
  LET cmd == handler[h].cmd
      s == cmd.stage IN
  /\ Runs(h, "approve")
  /\ cmd.more
  /\ stage[s].current = cmd.expected
  /\ \E v \in IF stage[s].review = "approved" THEN Live ELSE handler[h].seen :
       /\ version[v].attempt = cmd.expected
       /\ version[v].req = cmd.req
       /\ UNCHANGED version
       /\ Become(h, "continue", NextStage(v, cmd), {})
  /\ UNCHANGED <<stage, attempt, queue, sent>>

\* The continuation begins a transaction: run, with a snapshot of its own.
Continue(h) ==
  /\ handler[h].step = "continue"
  /\ Become(h, "begun", handler[h].cmd, Live)
  /\ UNCHANGED <<rows, sent>>

\* What a rejection throws away: all the stage has that is not a version.
Discarded(a, s) ==
  /\ attempt[a].stage = s
  /\ attempt[a].status \notin Open \cup {"none"}
  /\ a \notin Versioned(Live)

\* The contents go by a current read, the inputs by the snapshot as well.
Stripped(a, s, seen) ==
  /\ attempt[a].stage = s
  /\ attempt[a].status \notin Open \cup {"none"}
  /\ a \notin Versioned(seen)

Rejected(a, s, seen) ==
  [attempt[a] EXCEPT
     !.output = attempt[a].output /\ ~Discarded(a, s),
     !.invalid = attempt[a].invalid \/ Discarded(a, s),
     !.ups = IF Discarded(a, s) \/ Stripped(a, s, seen) THEN {} ELSE attempt[a].ups]

Reject(h) ==
  LET s == handler[h].cmd.stage IN
  /\ Runs(h, "reject")
  /\ Decidable(h, s)
  /\ attempt' = [a \in Attempts |-> Rejected(a, s, handler[h].seen)]
  /\ stage' = [stage EXCEPT ![s].current = 0]
  /\ Stop(h)
  /\ UNCHANGED <<version, queue, sent>>

\* An attempt under way was made from the version.
InUse(v) == \E a \in Attempts : attempt[a].status \in Open /\ v \in attempt[a].ups

\* A draft made from the version is no longer valid; a version of it is.
Invalid(a, v) == attempt[a].invalid \/ (v \in attempt[a].ups /\ a \notin Versioned(Live))

\* delete_stage_version reads everything with a lock.  The candidate the
\* version was made of is a draft again.
Delete(v) ==
  /\ version[v].live
  /\ ~InUse(v)
  /\ version' = [version EXCEPT ![v].live = FALSE]
  /\ attempt' = [a \in Attempts |-> [attempt[a] EXCEPT !.invalid = Invalid(a, v)]]
  /\ stage' = [s \in Stages |->
       IF stage[s].current = version[v].attempt /\ stage[s].review = "approved"
       THEN [stage[s] EXCEPT !.review = "pending"] ELSE stage[s]]
  /\ UNCHANGED <<queue, sent, handler>>

-----------------------------------------------------------------------------
(* Workers.  A call for a task that has ended is refused and changes nothing. *)

\* StageWorkerTransitions.current
Current(a) == stage[attempt[a].stage].active = a /\ attempt[a].status \in Open

Moves(r, status) ==
  LET a == queue[r].run IN
  /\ Current(a)
  /\ queue' = [queue EXCEPT ![r].status = status]
  /\ attempt' = [attempt EXCEPT ![a].status = status]
  /\ UNCHANGED <<stage, version, sent, handler>>

Claim(r) == queue[r].status = "pending" /\ Moves(r, "claimed")

\* started, again perhaps.
Started(r) == queue[r].status \in Held /\ Moves(r, "running")

\* The result becomes the stage's candidate.
Publish(r) ==
  LET a == queue[r].run
      s == attempt[a].stage IN
  /\ queue[r].status \in Held
  /\ Current(a)
  /\ attempt' = [attempt EXCEPT ![a].status = "success", ![a].output = TRUE]
  /\ stage' = [stage EXCEPT ![s].active = 0, ![s].current = a, ![s].review = "pending"]
  /\ queue' = [queue EXCEPT ![r].status = "success"]
  /\ UNCHANGED <<version, sent, handler>>

\* Mutant: the attempt ends the way its queue row does.
AttemptEndsAs(end) == end

\* However its task ends, an attempt without a result has failed.
AttemptEnd(end) == "failed"

\* The run is over without a result.
Ends(r, end) ==
  LET a == queue[r].run IN
  /\ queue' = [queue EXCEPT ![r].status = end]
  /\ IF Current(a)
     THEN /\ attempt' = [attempt EXCEPT ![a].status = AttemptEnd(end)]
          /\ stage' = [stage EXCEPT ![attempt[a].stage].active = 0]
     ELSE UNCHANGED <<attempt, stage>>
  /\ UNCHANGED <<version, sent, handler>>

\* The worker reports a failure, an error or a cancellation.
Fail(r) ==
  /\ queue[r].status \in Held
  /\ Current(queue[r].run)
  /\ \E end \in Ended : Ends(r, end)

\* The lease ran out, as it may at any time: heartbeats and progress only put
\* that off.  The monitor ends the run.
Expire(r) == queue[r].status \in Held /\ Ends(r, "failed")

\* The actor lost the project or the connection: revoked, or found out at a call.
Retire(r) == queue[r].status \in Open /\ Ends(r, "failed")

-----------------------------------------------------------------------------

Init ==
  /\ stage = [s \in Stages |-> [active |-> 0, current |-> 0, review |-> "pending", next |-> 1,
                                batch |-> 0]]
  /\ attempt = [a \in Attempts |-> NoAttempt]
  /\ version = [v \in Versions |-> NoVersion]
  /\ queue = [r \in Requests |-> NoQueue]
  /\ sent = [r \in Requests |-> None]
  /\ handler = [h \in Handlers |-> Idle]

People(h) ==
  \/ \E s \in Stages, r \in Requests : BeginRun(h, s, r)
  \/ \E s \in Stages, what \in {"save", "approve", "reject"} : BeginOnCandidate(h, s, what)
  \/ \E s \in Stages, r \in Requests : RequestOnCandidate(h, s, "revise", r)
  \/ \E s \in Stages \ {NStages}, r \in Requests : RequestOnCandidate(h, s, "approve", r)
  \/ \E r \in Requests : Retry(h, r)
  \/ Leave(h)
  \/ Run(h)
  \/ Revise(h)
  \/ Save(h)
  \/ Approve(h)
  \/ ApproveReplayed(h)
  \/ Continue(h)
  \/ Reject(h)

Worker(r) ==
  \/ Claim(r)
  \/ Started(r)
  \/ Publish(r)
  \/ Fail(r)
  \/ Expire(r)
  \/ Retire(r)

Next ==
  \/ \E h \in Handlers : People(h)
  \/ \E v \in Versions : Delete(v)
  \/ \E r \in Requests : Worker(r)

Spec == Init /\ [][Next]_vars

-----------------------------------------------------------------------------
(* Properties *)

\* Every row and every command under way has its type.
TypeOK ==
  /\ stage \in [Stages -> StageRow]
  /\ attempt \in [Attempts -> AttemptRow]
  /\ version \in [Versions -> VersionRow]
  /\ queue \in [Requests -> QueueRow]
  /\ sent \in [Requests -> Command \cup {None}]
  /\ handler \in [Handlers -> [step : {"idle", "begun", "continue"}, cmd : Command,
                               seen : SUBSET Versions]]

\* The queue row is the attempt's, and has come as far.
Tells(row, a) ==
  /\ row.run = a
  /\ \/ row.status = attempt[a].status
     \/ row.status \in Ended /\ attempt[a].status \in Ended

\* A run is told the same by its stage, its attempt and its queue row, whoever
\* ends it and however late: a stage waits for an attempt exactly while that
\* attempt is under way in the queue, so that no stage waits for ever for a run
\* that ended, or lets a second one begin; and a request is dispatched once.
LivesTogether ==
  /\ \A s \in Stages : stage[s].active # 0 =>
       /\ attempt[stage[s].active].stage = s
       /\ attempt[stage[s].active].status \in Open
  /\ \A a \in Attempts : attempt[a].status \in Open =>
       /\ stage[attempt[a].stage].active = a
       /\ attempt[a].req # None
  /\ \A a \in Attempts : attempt[a].req # None => Tells(queue[attempt[a].req], a)

\* A run under way is made from approved versions that exist, all of one input:
\* none is deleted under it, and new input never mixes with old.
StandsOnApproved ==
  \A a \in Attempts : attempt[a].status \in Open =>
    /\ attempt[a].ups \subseteq Live
    /\ \A v \in attempt[a].ups : version[v].batch = attempt[a].batch

\* What is approved stays: a version is made once of what exists, under a
\* number that the stage never gave before, and as long as it exists the
\* attempt behind it keeps its contents.
HistoryKept ==
  [][/\ \A v \in Versions : version'[v].used /\ ~version[v].used =>
          /\ \A u \in version'[v].ups : version[u].live
          /\ \A w \in Versions : version[w].used /\ version[w].stage = version'[v].stage =>
               version[w].no < version'[v].no
     /\ \A v \in Versions : version'[v].live =>
          attempt'[version'[v].attempt].output]_vars

\* The stage shows its reviewers a draft that has no version.
AwaitsReview(s) ==
  /\ stage[s].review = "pending"
  /\ \E a \in Attempts : /\ stage[s].current = a
                         /\ attempt[a].output /\ ~attempt[a].invalid
                         /\ a \notin Versioned(Live)

\* A draft is not overrun by a run that is not a revision of it, and a stage
\* does not say "approved" of a candidate without a version, unless a command
\* read the database before the candidate's version was deleted.
OnlyByOldSnapshot ==
  [][\A s \in Stages :
       LET a == stage[s].current
           old == \E h \in Handlers : a \in Versioned(handler[h].seen) IN
       /\ AwaitsReview(s) /\ stage'[s].active \notin {0, stage[s].active} /\ ~old =>
            attempt'[stage'[s].active].op = "revise" \/ stage'[s].current = 0
       /\ stage'[s].review = "approved" /\ stage[s].review # "approved" /\ ~old =>
            \E v \in Versions : version'[v].live /\ version'[v].attempt = stage'[s].current]_vars
=============================================================================
