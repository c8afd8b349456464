--------------------------- MODULE FunctionCasePush ---------------------------
(***************************************************************************)
(* Pushing functional test cases to Zentao (function_case_push_flow.py,    *)
(* function_case_push_journal.py, function_case_export.py,                 *)
(* zentao_case_gateway.py).  A push commits an operation row with the one  *)
(* permission to write, calls Zentao outside any transaction, and records  *)
(* the receipt in a second transaction.  Between the two the handler may   *)
(* die, the answer may be lost, the write may land long after everybody    *)
(* stopped waiting, and people settle the operation by hand.               *)
(*                                                                         *)
(* Every case has the same title and cases may have equal bodies: what     *)
(* keeps them apart is their identity alone.                               *)
(***************************************************************************)
EXTENDS Naturals, FiniteSets

CONSTANTS
  Handlers,   \* HTTP requests the control plane serves at a time
  Requests,   \* request ids of clients; one user each
  NCases,     \* cases of the suite, numbered in manifest order
  Bodies,     \* contents a case may have
  RemoteIds,  \* ids Zentao may give
  Users,      \* who pushes: see AllUsers
  Restorable, \* the database may be restored from a backup
  MaxEdits,   \* how often people edit cases, here or in Zentao
  None

Cases == 1 .. NCases

\* A member; the project's owner; the owner who also confirms to have looked
\* at Zentao after a restore.
AllUsers == {"member", "owner", "reviewer"}
Owners == {"owner", "reviewer"}

ASSUME CasePushAssumption ==
  /\ NCases \in Nat \ {0}
  /\ Users \subseteq AllUsers
  /\ Restorable \in BOOLEAN
  /\ MaxEdits \in Nat
  /\ None \notin RemoteIds \cup Bodies
  /\ {"ask", "new"} \cap RemoteIds = {}
  /\ {"failed", "unknown"} \cap RemoteIds = {}

VARIABLES
  body,      \* the current content of each case
  batch,     \* function_case_push_requests
  identity,  \* function_case_remote_identities.remote_case_id of each case
  op,        \* function_case_push_operations, by request and case
  restored,  \* an integration runtime row says the database was restored
  backup,    \* a backup of the rows above
  remote,    \* Zentao's cases under this title
  wire,      \* writes sent to Zentao and not carried out
  handler,   \* the handlers under way
  edits,     \* edits made so far, at most MaxEdits
  touched,   \* history: the remote case each operation's write reached
  judged,    \* history: operations settled by hand
  created,   \* history: how often each case was created in Zentao
  declared   \* history: creations an owner declared not applied

ledger == <<batch, identity, op>>
history == <<touched, judged, created, declared>>
vars == <<body, ledger, restored, backup, remote, wire, handler, edits, history>>

-----------------------------------------------------------------------------
(* Rows *)

MaybeId == RemoteIds \cup {None}
MaybeBody == Bodies \cup {None}
Choices == RemoteIds \cup {"ask", "new"}

Batch == [user : Users, choice : [Cases -> Choices], digest : [Cases -> Bodies]]

ASSUME NoneIsNoBatch == None \notin Batch

Pending == {"prepared", "unknown"}
Settled == {"succeeded", "failed"}
OpStatus == {"none"} \cup Pending \cup Settled

Operation ==
  [status : OpStatus, bound : MaybeId, content : MaybeBody, result : MaybeId,
   due : BOOLEAN, era : BOOLEAN]

NoOperation == [status |-> "none", bound |-> None, content |-> None, result |-> None,
                due |-> FALSE, era |-> FALSE]

Steps == {"idle", "look", "check", "reserve", "wait", "record", "confirm", "declare"}

Handler ==
  [step : Steps, req : Requests \cup {None}, case : Cases \cup {0}, user : AllUsers,
   loaded : [Cases -> MaybeBody], known : MaybeId, catalog : SUBSET MaybeId,
   answer : MaybeId \cup {"failed"}, seen : OpStatus]

Unread == {None}   \* the catalog has not been fetched

Idle == [step |-> "idle", req |-> None, case |-> 0, user |-> "member",
         loaded |-> [c \in Cases |-> None], known |-> None, catalog |-> Unread,
         answer |-> None, seen |-> "none"]

Write == [req : Requests, case : Cases, bound : MaybeId, content : Bodies, era : BOOLEAN]

Live == {i \in RemoteIds : remote[i] # None}

\* Mutant: only operations without any answer are in the way.
ActivePrepared(c) == {r \in Requests : op[r][c].status = "prepared"}

\* The operation that holds the case's active_key.
Active(c) == {r \in Requests : op[r][c].status \in Pending}

\* uk_function_remote_identity: nobody else has the remote case.
Free(c, i) == \A d \in Cases \ {c} : identity[d] # i

\* The case has a settled operation of this restore.
Reviewed(c) == \E r \in Requests : op[r][c].status \in Settled /\ op[r][c].era

\* Mutant: a restored database is written from at once.
PermittedAtOnce(c, confirmed) == TRUE

\* After a restore somebody must have looked before a case is written.
Permitted(c, confirmed) == restored => Reviewed(c) \/ confirmed

Set(h, r) == handler' = [handler EXCEPT ![h] = r]
Stop(h) == Set(h, Idle)

NextCase(r) == [r EXCEPT !.step = "look", !.case = r.case + 1, !.known = None, !.answer = None]

\* Mutant: the last case is followed by another.
GoOnPast(h, success) ==
  IF success /\ handler[h].case <= NCases THEN Set(h, NextCase(handler[h])) ELSE Stop(h)

\* Mutant: the remaining cases are pushed whatever the previous result was.
GoOnAnyway(h, success) ==
  IF handler[h].case < NCases THEN Set(h, NextCase(handler[h])) ELSE Stop(h)

\* The handler's case ended: the next one, or nothing after a failure.
GoOn(h, success) ==
  IF success /\ handler[h].case < NCases THEN Set(h, NextCase(handler[h])) ELSE Stop(h)

-----------------------------------------------------------------------------
(* A push *)

\* The client's request: its selection is frozen the first time, a retry has
\* to ask for the same.  The handler loads the contents.
Submit(h, r) ==
  /\ handler[h].step = "idle"
  /\ \/ /\ batch[r] = None
        /\ \E user \in Users, choice \in [Cases -> {"ask", "new"} \cup Live] :
             batch' = [batch EXCEPT ![r] = [user |-> user, choice |-> choice, digest |-> body]]
     \/ /\ batch[r] # None
        /\ UNCHANGED batch
  /\ Set(h, [Idle EXCEPT !.step = "look", !.req = r, !.case = 1, !.user = batch'[r].user,
                         !.loaded = body])
  /\ UNCHANGED <<body, identity, op, restored, backup, remote, wire, edits, history>>

\* push_one reads the ledger: a replay is answered from the operation row, an
\* undecided operation of anybody is reported, a choice may not replace a mapping.
Look(h) ==
  LET r == handler[h]
      c == r.case
      choice == batch[r.req].choice[c]
      old == op[r.req][c].status IN
  /\ r.step = "look"
  /\ IF old # "none" THEN GoOn(h, old = "succeeded")
     ELSE IF \/ r.loaded[c] # batch[r.req].digest[c]
             \/ Active(c) # {}
             \/ identity[c] # None /\ choice \notin {"ask", identity[c]}
          THEN Stop(h)
          ELSE Set(h, [r EXCEPT !.step = "check",
                                !.known = IF identity[c] # None THEN identity[c]
                                          ELSE IF choice \in RemoteIds THEN choice ELSE None])
  /\ UNCHANGED <<body, ledger, restored, backup, remote, wire, edits, history>>

\* Reads from Zentao: the target exists, or nothing has the title.  The
\* catalog is fetched once per handler.
Check(h) ==
  LET r == handler[h]
      create == r.known = None /\ batch[r.req].choice[r.case] = "new"
      catalog == IF r.catalog = Unread THEN Live ELSE r.catalog IN
  /\ r.step = "check"
  /\ IF create THEN Set(h, [r EXCEPT !.step = "reserve"])
     ELSE IF IF r.known = None THEN catalog = {} ELSE r.known \in catalog
          THEN Set(h, [r EXCEPT !.step = "reserve", !.catalog = catalog])
          ELSE Stop(h)
  /\ UNCHANGED <<body, ledger, restored, backup, remote, wire, edits, history>>

\* Mutant: the mapping read before the remote calls is trusted.
MappingTrusted(c, known) == TRUE

\* The mapping may have been made by somebody else since Look.
MappingAgrees(c, known) ==
  /\ identity[c] \in {None, known}
  /\ known # None => Free(c, known)

\* The transaction that grants the one write: guard, then reserve.  The write
\* follows the commit; if the handler dies first it is one that never lands.
Reserve(h) ==
  LET r == handler[h]
      c == r.case
      old == op[r.req][c].status IN
  /\ r.step = "reserve"
  /\ IF ~Permitted(c, r.user = "reviewer") \/ r.loaded[c] # body[c]
     THEN Stop(h) /\ UNCHANGED <<identity, op, wire>>
     ELSE IF old # "none" THEN GoOn(h, old = "succeeded") /\ UNCHANGED <<identity, op, wire>>
     ELSE IF Active(c) # {} \/ ~MappingAgrees(c, r.known)
     THEN Stop(h) /\ UNCHANGED <<identity, op, wire>>
     ELSE /\ identity' = [identity EXCEPT ![c] = r.known]
          /\ op' = [op EXCEPT ![r.req] = [op[r.req] EXCEPT ![c] =
                      [NoOperation EXCEPT !.status = "prepared", !.bound = r.known,
                                          !.content = r.loaded[c], !.era = restored]]]
          /\ wire' = wire \cup {[req |-> r.req, case |-> c, bound |-> r.known,
                                 content |-> r.loaded[c], era |-> restored]}
          /\ Set(h, [r EXCEPT !.step = "wait", !.known = None,
                               !.loaded = [r.loaded EXCEPT ![c] = None]])
  /\ UNCHANGED <<body, batch, restored, backup, remote, edits, history>>

Waits(h, m) ==
  handler[h].step = "wait" /\ handler[h].req = m.req /\ handler[h].case = m.case /\ m.era = restored

\* The answer reaches whoever waits for it, or is lost.
Answer(m, a) ==
  \/ UNCHANGED handler
  \/ \E h \in Handlers :
       /\ Waits(h, m)
       /\ Set(h, [handler[h] EXCEPT !.step = "record", !.answer = a,
                    !.catalog = IF handler[h].catalog = Unread \/ a = "failed"
                                THEN handler[h].catalog ELSE handler[h].catalog \cup {a}])

\* Zentao carries a write out.
Apply(m) ==
  /\ wire' = wire \ {m}
  /\ \E i \in RemoteIds :
       /\ IF m.bound = None THEN remote[i] = None ELSE i = m.bound
       /\ remote' = [remote EXCEPT ![i] = m.content]
       /\ touched' = IF m.era = restored
                     THEN [touched EXCEPT ![m.req] = [touched[m.req] EXCEPT ![m.case] = i]]
                     ELSE touched
       /\ Answer(m, i)
  /\ created' = IF m.bound = None THEN [created EXCEPT ![m.case] = created[m.case] + 1] ELSE created
  /\ UNCHANGED <<body, ledger, restored, backup, edits, judged, declared>>

\* Zentao definitely refuses a write.
Reject(m) ==
  /\ wire' = wire \ {m}
  /\ Answer(m, "failed")
  /\ UNCHANGED <<body, ledger, restored, backup, remote, edits, history>>

\* CasePushJournal.record, for a receipt of a write or a decision by hand.
RecordAccepted(r, c, s, i) ==
  /\ op[r][c].status \in Pending
  /\ s = "succeeded" => identity[c] \in {None, i} /\ Free(c, i)

Recorded(r, c, s, i) ==
  /\ op' = [op EXCEPT ![r] = [op[r] EXCEPT ![c] = [op[r][c] EXCEPT !.status = s, !.result = i]]]
  /\ identity' = IF s = "succeeded" THEN [identity EXCEPT ![c] = i] ELSE identity
  /\ UNCHANGED batch

\* Mutant: a write without an answer counts as refused.
NoAnswerRefused == "failed"

\* No answer in time, or none that can be read.
NoAnswer == "unknown"

\* The second transaction of push_one, for whatever the write gave.  A receipt
\* that repeats what is settled counts, any other is refused.
Record(h) ==
  LET r == handler[h]
      c == r.case
      o == op[r.req][c]
      answer == IF r.step = "wait" THEN NoAnswer ELSE r.answer
      s == IF answer \in RemoteIds THEN "succeeded" ELSE answer
      i == IF answer \in RemoteIds THEN answer ELSE None IN
  /\ r.step \in {"wait", "record"}
  /\ IF RecordAccepted(r.req, c, s, i)
     THEN Recorded(r.req, c, s, i) /\ GoOn(h, s = "succeeded")
     ELSE GoOn(h, o.status = "succeeded" /\ s = "succeeded" /\ o.result = i) /\ UNCHANGED ledger
  /\ UNCHANGED <<body, restored, backup, remote, wire, edits, history>>

-----------------------------------------------------------------------------
(* Decisions by hand *)

\* Five minutes after the reservation.
Lapse(r, c) ==
  /\ op[r][c].status \in Pending
  /\ ~op[r][c].due
  /\ op' = [op EXCEPT ![r] = [op[r] EXCEPT ![c] = [op[r][c] EXCEPT !.due = TRUE]]]
  /\ UNCHANGED <<body, batch, identity, restored, backup, remote, wire, handler, edits, history>>

Review(h, r, c, user, step, i) ==
  /\ handler[h].step = "idle"
  /\ op[r][c].status \in Pending
  /\ op[r][c].due
  /\ Set(h, [Idle EXCEPT !.step = step, !.req = r, !.case = c, !.user = user, !.known = i,
                         !.seen = op[r][c].status])
  /\ UNCHANGED <<body, ledger, restored, backup, remote, wire, edits, history>>

\* reconcile: somebody names a remote case with exactly the operation's content.
FindResult(h, r, c, user, i) ==
  /\ op[r][c].bound \in {None, i}
  /\ remote[i] = op[r][c].content
  /\ Review(h, r, c, user, "confirm", i)

\* confirm_not_applied: the owner found no such case.
FindNothing(h, r, c, user) ==
  /\ user \in Owners
  /\ IF op[r][c].bound = None
     THEN \A i \in Live : remote[i] # op[r][c].content
     ELSE remote[op[r][c].bound] # op[r][c].content
  /\ Review(h, r, c, user, "declare", None)

StillAsSeen(r) == op[r.req][r.case].status = r.seen

\* The transaction that settles the operation, if it is still as it was seen.
Decide(h) ==
  LET r == handler[h]
      s == IF r.step = "confirm" THEN "succeeded" ELSE "failed" IN
  /\ r.step \in {"confirm", "declare"}
  /\ IF /\ Permitted(r.case, r.user \in Owners)
        /\ StillAsSeen(r)
        /\ RecordAccepted(r.req, r.case, s, r.known)
     THEN /\ Recorded(r.req, r.case, s, r.known)
          /\ judged' = judged \cup {<<r.req, r.case>>}
          /\ declared' = IF s = "failed" /\ op[r.req][r.case].bound = None
                         THEN [declared EXCEPT ![r.case] = declared[r.case] + 1] ELSE declared
     ELSE UNCHANGED <<ledger, judged, declared>>
  /\ Stop(h)
  /\ UNCHANGED <<body, restored, backup, remote, wire, edits, touched, created>>

-----------------------------------------------------------------------------
(* Everything else *)

\* The handler ends: the actor, a binding or the connection no longer allows
\* it, a read of Zentao failed, the client went away or the process died.
Leave(h) ==
  /\ handler[h].step # "idle"
  /\ Stop(h)
  /\ UNCHANGED <<body, ledger, restored, backup, remote, wire, edits, history>>

EditCase(c) ==
  /\ edits < MaxEdits
  /\ edits' = edits + 1
  /\ \E b \in Bodies : body' = [body EXCEPT ![c] = b]
  /\ UNCHANGED <<ledger, restored, backup, remote, wire, handler, history>>

\* People work in Zentao too: they edit cases and make new ones.
EditRemote(i) ==
  /\ edits < MaxEdits
  /\ edits' = edits + 1
  /\ \E b \in Bodies : remote' = [remote EXCEPT ![i] = b]
  /\ UNCHANGED <<body, ledger, restored, backup, wire, handler, history>>

TakeBackup ==
  /\ Restorable /\ ~restored
  /\ backup = None
  /\ backup' = [body |-> body, batch |-> batch, identity |-> identity, op |-> op,
                touched |-> touched, judged |-> judged]
  /\ UNCHANGED <<body, ledger, restored, remote, wire, handler, edits, history>>

\* Everything after the backup is forgotten, everybody starts over, and what
\* was sent to Zentao may still arrive.
Restore ==
  /\ ~restored
  /\ backup # None
  /\ restored' = TRUE
  /\ body' = backup.body
  /\ batch' = backup.batch
  /\ identity' = backup.identity
  /\ op' = backup.op
  /\ handler' = [h \in Handlers |-> Idle]
  /\ touched' = backup.touched
  /\ judged' = backup.judged
  /\ backup' = None
  /\ UNCHANGED <<remote, wire, edits, created, declared>>

Init ==
  /\ body \in [Cases -> Bodies]
  /\ batch = [r \in Requests |-> None]
  /\ identity = [c \in Cases |-> None]
  /\ op = [r \in Requests |-> [c \in Cases |-> NoOperation]]
  /\ restored = FALSE
  /\ backup = None
  /\ remote = [i \in RemoteIds |-> None]
  /\ wire = {}
  /\ handler = [h \in Handlers |-> Idle]
  /\ edits = 0
  /\ touched = [r \in Requests |-> [c \in Cases |-> None]]
  /\ judged = {}
  /\ created = [c \in Cases |-> 0]
  /\ declared = [c \in Cases |-> 0]

HandlerNext(h) ==
  \/ \E r \in Requests : Submit(h, r)
  \/ Look(h)
  \/ Check(h)
  \/ Reserve(h)
  \/ Record(h)
  \/ \E r \in Requests, c \in Cases, user \in Users :
       \/ \E i \in RemoteIds : FindResult(h, r, c, user, i)
       \/ FindNothing(h, r, c, user)
  \/ Decide(h)
  \/ Leave(h)

Next ==
  \/ \E h \in Handlers : HandlerNext(h)
  \/ \E m \in wire : Apply(m) \/ Reject(m)
  \/ \E r \in Requests, c \in Cases : Lapse(r, c)
  \/ \E c \in Cases : EditCase(c)
  \/ \E i \in RemoteIds : EditRemote(i)
  \/ TakeBackup
  \/ Restore

Spec == Init /\ [][Next]_vars

-----------------------------------------------------------------------------
(* Properties *)

\* Every row, every handler and every write on its way has its type.
TypeOK ==
  /\ body \in [Cases -> Bodies]
  /\ batch \in [Requests -> Batch \cup {None}]
  /\ identity \in [Cases -> MaybeId]
  /\ op \in [Requests -> [Cases -> Operation]]
  /\ restored \in BOOLEAN
  /\ remote \in [RemoteIds -> MaybeBody]
  /\ wire \subseteq Write
  /\ handler \in [Handlers -> Handler]
  /\ edits \in 0 .. MaxEdits
  /\ touched \in [Requests -> [Cases -> MaybeId]]
  /\ judged \subseteq Requests \X Cases
  /\ created \in [Cases -> Nat]
  /\ declared \in [Cases -> Nat]

\* However requests are retried, crossed or lost, and however late a write
\* lands, a case is created in Zentao once; once more for each creation that
\* an owner declared not applied, and once for a restore that forgot it.
CreatedOnce ==
  \A c \in Cases : created[c] <= 1 + declared[c] + (IF restored THEN 1 ELSE 0)

\* The inductive invariant behind it, an account of the creations: those carried out
\* and those on their way are paid for by the declarations, by one restore that forgot
\* what was done, and by one more where the case is mapped, or where the write of an
\* undecided operation is on its way or has landed.
Current(r, c) == {m \in wire : m.req = r /\ m.case = c /\ m.era = restored}
Creating(c) == {m \in wire : m.case = c /\ m.bound = None}

Spent(c) ==
  \/ identity[c] # None
  \/ \E r \in Requests :
       /\ op[r][c].status \in Pending
       /\ touched[r][c] # None \/ Current(r, c) # {}

Extra == IF restored THEN 1 ELSE 0
Once(c) == IF Spent(c) THEN 1 ELSE 0

Account ==
  /\ IsFiniteSet(wire)
  /\ \A c \in Cases :
       created[c] + Cardinality(Creating(c)) <= declared[c] + Extra + Once(c)

\* The ledger tells what happened: a failed operation wrote nothing unless an
\* owner declared so; a succeeded one wrote the case its mapping names, or
\* somebody found the content there; no two cases share a remote case, and an
\* update on its way goes to the remote case of its own.
LedgerTellsTruth ==
  /\ \A r \in Requests, c \in Cases : <<r, c>> \notin judged =>
       /\ op[r][c].status = "failed" => touched[r][c] = None
       /\ op[r][c].status = "succeeded" => touched[r][c] = op[r][c].result
  /\ \A r \in Requests, c \in Cases :
       op[r][c].status = "succeeded" => op[r][c].result = identity[c] /\ identity[c] # None
  /\ \A c, d \in Cases : c # d /\ identity[c] # None => identity[c] # identity[d]
  /\ \A m \in wire : m.bound # None /\ m.era = restored => identity[m.case] = m.bound

\* A batch is pushed as it was admitted: what is written is what the client
\* selected, in its order, and never past a case that has not succeeded,
\* however many handlers work on retries of the batch.
BatchAsAdmitted ==
  \A r \in Requests, c \in Cases : op[r][c].status # "none" =>
    /\ batch[r] # None
    /\ op[r][c].content = batch[r].digest[c]
    /\ \A d \in 1 .. c - 1 : op[r][d].status = "succeeded"

\* A mapping is never replaced and a settled operation never reopened or
\* settled otherwise, except by a restore.
MappingStable ==
  [][restored' = restored =>
       \A c \in Cases :
         /\ identity[c] # None => identity'[c] = identity[c]
         /\ \A r \in Requests : op[r][c].status \in Settled => op'[r][c] = op[r][c]]_vars

\* After a restore no case is pushed before the project's owner has confirmed
\* to have looked at it in Zentao.
ReviewAfterRestore ==
  \A c \in Cases : (\E r \in Requests : op[r][c].era) =>
    \E r \in Requests : op[r][c].era /\ batch[r].user = "reviewer"
=============================================================================
