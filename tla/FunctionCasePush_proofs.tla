------------------------ MODULE FunctionCasePush_proofs ------------------------
(***************************************************************************)
(* Proofs about pushing cases to Zentao, for any number of handlers,       *)
(* requests, cases and remote ids, with or without a restore: rows are     *)
(* well typed, the ledger tells the truth, a batch is pushed as it was     *)
(* admitted, mappings are stable, a restore is reviewed first and a case   *)
(* is created in Zentao once.                                              *)
(***************************************************************************)
EXTENDS FunctionCasePush, FiniteSetTheorems, TLAPS

-----------------------------------------------------------------------------
(* The strengthening.  What the properties say of the rows holds of the    *)
(* backup as well; a handler knows what it relies on until its next        *)
(* transaction; a write on its way belongs to an operation that has not    *)
(* been answered.                                                          *)

Backup ==
  [body : [Cases -> Bodies], batch : [Requests -> Batch \cup {None}],
   identity : [Cases -> MaybeId], op : [Requests -> [Cases -> Operation]],
   touched : [Requests -> [Cases -> MaybeId]], judged : SUBSET (Requests \X Cases)]

Admitted(b, o) ==
  \A r \in Requests, c \in Cases : o[r][c].status # "none" =>
    /\ b[r] # None
    /\ o[r][c].content = b[r].digest[c]
    /\ \A d \in 1 .. c - 1 : o[r][d].status = "succeeded"

Mapped(id, o) ==
  /\ \A r \in Requests, c \in Cases :
       /\ o[r][c].status = "succeeded" => o[r][c].result = id[c] /\ id[c] # None
       /\ o[r][c].status # "none" /\ o[r][c].bound # None => id[c] = o[r][c].bound
  /\ \A c, d \in Cases : c # d /\ id[c] # None => id[c] # id[d]

Truthful(o, t, j) ==
  \A r \in Requests, c \in Cases :
    /\ o[r][c].status = "none" => t[r][c] = None /\ <<r, c>> \notin j
    /\ <<r, c>> \notin j =>
         /\ o[r][c].status = "failed" => t[r][c] = None
         /\ o[r][c].status = "succeeded" => t[r][c] = o[r][c].result

BackupOK ==
  backup # None =>
    /\ ~restored
    /\ backup \in Backup
    /\ Admitted(backup.batch, backup.op)
    /\ Mapped(backup.identity, backup.op)
    /\ Truthful(backup.op, backup.touched, backup.judged)
    /\ \A r \in Requests, c \in Cases : ~backup.op[r][c].era

RowsOK ==
  /\ Admitted(batch, op)
  /\ Mapped(identity, op)
  /\ Truthful(op, touched, judged)
  /\ \A r \in Requests, c \in Cases : op[r][c].era => restored /\ op[r][c].status # "none"

Pushing == {"look", "check", "reserve", "wait", "record"}

PushOK(h) ==
  handler[h].step \in Pushing =>
    /\ handler[h].req \in Requests
    /\ handler[h].case \in Cases
    /\ batch[handler[h].req] # None
    /\ handler[h].user = batch[handler[h].req].user
    /\ \A d \in 1 .. handler[h].case - 1 : op[handler[h].req][d].status = "succeeded"
    /\ \A d \in Cases : d > handler[h].case => handler[h].loaded[d] \in Bodies

LoadedOK(h) ==
  /\ handler[h].step \in {"look", "check", "reserve"} =>
       handler[h].loaded[handler[h].case] \in Bodies
  /\ handler[h].step \in {"check", "reserve"} =>
       handler[h].loaded[handler[h].case] = batch[handler[h].req].digest[handler[h].case]

AnswerOK(h) ==
  /\ handler[h].step \in {"wait", "record"} =>
       op[handler[h].req][handler[h].case].status # "none"
  /\ handler[h].step = "record" =>
       /\ handler[h].answer \in RemoteIds \cup {"failed"}
       /\ touched[handler[h].req][handler[h].case] =
            IF handler[h].answer = "failed" THEN None ELSE handler[h].answer
       /\ Current(handler[h].req, handler[h].case) = {}

ReviewOK(h) ==
  handler[h].step \in {"confirm", "declare"} =>
    /\ handler[h].req \in Requests
    /\ handler[h].case \in Cases
    /\ handler[h].seen \in Pending
    /\ handler[h].step = "confirm" => handler[h].known \in RemoteIds

HandlerOK(h) == PushOK(h) /\ LoadedOK(h) /\ AnswerOK(h) /\ ReviewOK(h)

HandlersOK == \A h \in Handlers : HandlerOK(h)

WireOK ==
  \A m \in wire :
    /\ m.era => restored
    /\ m.era = restored =>
         /\ op[m.req][m.case].status # "none"
         /\ m.bound = op[m.req][m.case].bound
         /\ m.content = op[m.req][m.case].content
         /\ touched[m.req][m.case] = None
         /\ <<m.req, m.case>> \notin judged => op[m.req][m.case].status \in Pending

IInv == TypeOK /\ BackupOK /\ RowsOK /\ HandlersOK /\ WireOK /\ ReviewAfterRestore

-----------------------------------------------------------------------------
(* Frames *)

Others == <<body, restored, backup, remote, edits, created, declared>>

\* What a handler relies on is not taken away: a batch stays, a succeeded
\* operation stays, an operation stays an operation, and where nothing is on
\* its way nothing is touched and nothing is sent again.
Grows ==
  /\ \A r \in Requests : batch[r] # None => batch'[r] = batch[r]
  /\ \A r \in Requests, c \in Cases :
       /\ op[r][c].status = "succeeded" => op'[r][c].status = "succeeded"
       /\ op[r][c].status # "none" => op'[r][c].status # "none"
       /\ op[r][c].status # "none" /\ Current(r, c) = {} => touched'[r][c] = touched[r][c]
  /\ \A m \in wire' : m \in wire \/ op[m.req][m.case].status = "none"
  /\ UNCHANGED restored

\* The cases before a case are cases.
LEMMA CasesBelow == \A c \in Cases : \A d \in 1 .. c - 1 : d \in Cases
BY CasePushAssumption DEF Cases

\* A handler that does nothing still knows what it relies on.
LEMMA Kept ==
  ASSUME IInv, Grows, NEW g \in Handlers, handler'[g] = handler[g]
  PROVE  HandlerOK(g)'
<1>1. HandlerOK(g)
  BY DEF IInv, HandlersOK
<1>2. PushOK(g)'
  <2>1. \A c \in Cases : \A d \in 1 .. c - 1 : d \in Cases
    BY CasesBelow
  <2> QED
    BY <1>1, <2>1 DEF HandlerOK, PushOK, Grows
<1>3. LoadedOK(g)'
  BY <1>1 DEF HandlerOK, PushOK, LoadedOK, Grows, Pushing
<1>4. AnswerOK(g)'
  BY <1>1 DEF HandlerOK, PushOK, AnswerOK, Current, Grows, Pushing
<1>5. ReviewOK(g)'
  BY <1>1 DEF HandlerOK, ReviewOK
<1> QED
  BY <1>2, <1>3, <1>4, <1>5 DEF HandlerOK

\* Only handlers move.
LEMMA OnlyHandler ==
  ASSUME IInv, UNCHANGED <<ledger, wire, touched, judged, Others>>,
         handler' \in [Handlers -> Handler], HandlersOK'
  PROVE  IInv'
<1> USE DEF Others, ledger
<1>1. TypeOK'
  BY DEF IInv, TypeOK
<1>2. BackupOK'
  BY DEF IInv, BackupOK
<1>3. RowsOK'
  BY DEF IInv, RowsOK
<1>4. WireOK'
  BY DEF IInv, WireOK
<1>5. ReviewAfterRestore'
  BY DEF IInv, ReviewAfterRestore
<1> QED
  BY <1>1, <1>2, <1>3, <1>4, <1>5 DEF IInv

LEMMA SameGrows ==
  ASSUME UNCHANGED <<ledger, wire, touched, restored>>
  PROVE  Grows
BY DEF Grows, ledger

LEMMA IdleType == Idle \in Handler
BY DEF Idle, Handler, Steps, AllUsers, MaybeBody, MaybeId, OpStatus, Unread

\* An idle handler relies on nothing.
LEMMA IdleOK ==
  ASSUME NEW h \in Handlers, handler'[h] = Idle
  PROVE  HandlerOK(h)'
BY DEF Idle, HandlerOK, PushOK, LoadedOK, AnswerOK, ReviewOK, Pushing

\* A handler that ends.
LEMMA StopOK ==
  ASSUME IInv, Grows, NEW h \in Handlers, Stop(h)
  PROVE  handler' \in [Handlers -> Handler] /\ HandlersOK'
<1>1. handler \in [Handlers -> Handler]
  BY DEF IInv, TypeOK
<1>2. handler' \in [Handlers -> Handler]
  BY <1>1, IdleType DEF Stop, Set
<1>3. ASSUME NEW g \in Handlers
      PROVE  HandlerOK(g)'
  <2>1. CASE g = h
    BY <1>1, <2>1, IdleOK DEF Stop, Set
  <2>2. CASE g # h
    BY <1>1, <2>2, Kept DEF Stop, Set
  <2> QED
    BY <2>1, <2>2
<1> QED
  BY <1>2, <1>3 DEF HandlersOK

\* The next case of a batch, once this one succeeded.
LEMMA GoOnOK ==
  ASSUME IInv, Grows, NEW h \in Handlers, NEW ok \in BOOLEAN, GoOn(h, ok),
         handler[h].step \in Pushing,
         ok => op'[handler[h].req][handler[h].case].status = "succeeded"
  PROVE  handler' \in [Handlers -> Handler] /\ HandlersOK'
<1> DEFINE r == handler[h]
           next == NextCase(r)
<1>1. handler \in [Handlers -> Handler] /\ r \in Handler
  BY DEF IInv, TypeOK
<1>2. CASE Stop(h)
  BY <1>2, StopOK
<1>3. CASE ok /\ r.case < NCases /\ Set(h, next)
  <2>1. HandlerOK(h)
    BY DEF IInv, HandlersOK
  <2>2. r.case \in Cases /\ r.case + 1 \in Cases
    BY <1>3, <2>1, CasePushAssumption DEF HandlerOK, PushOK, Cases
  <2>3. /\ next.step = "look" /\ next.req = r.req /\ next.case = r.case + 1
        /\ next.user = r.user /\ next.loaded = r.loaded
        /\ next \in Handler
    BY <1>1, <2>2 DEF NextCase, Handler, Steps, MaybeId
  <2> HIDE DEF next
  <2>4. handler'[h] = next /\ handler' \in [Handlers -> Handler]
    BY <1>1, <1>3, <2>3 DEF Set
  <2>5. PushOK(h)'
    <3>1. /\ r.req \in Requests
          /\ batch'[r.req] # None
          /\ r.user = batch'[r.req].user
          /\ \A d \in 1 .. r.case - 1 : op'[r.req][d].status = "succeeded"
      BY <2>1, <2>2, CasesBelow DEF HandlerOK, PushOK, Grows
    <3>2. \A d \in 1 .. (r.case + 1) - 1 : op'[r.req][d].status = "succeeded"
      BY <1>3, <2>2, <3>1 DEF Cases
    <3>3. \A d \in Cases : d > r.case + 1 => r.loaded[d] \in Bodies
      BY <2>1, <2>2 DEF HandlerOK, PushOK, Cases
    <3> QED
      BY <2>2, <2>3, <2>4, <3>1, <3>2, <3>3 DEF PushOK
  <2>6. LoadedOK(h)'
    <3>1. r.loaded[r.case + 1] \in Bodies
      BY <2>1, <2>2 DEF HandlerOK, PushOK, Cases
    <3> QED
      BY <2>3, <2>4, <3>1 DEF LoadedOK
  <2>7. AnswerOK(h)' /\ ReviewOK(h)'
    BY <2>3, <2>4 DEF AnswerOK, ReviewOK
  <2>8. ASSUME NEW g \in Handlers, g # h
        PROVE  HandlerOK(g)'
    BY <1>1, <1>3, <2>8, Kept DEF Set
  <2> QED
    BY <2>4, <2>5, <2>6, <2>7, <2>8 DEF HandlersOK, HandlerOK
<1> QED
  BY <1>2, <1>3 DEF GoOn

-----------------------------------------------------------------------------
(* A push *)

LEMMA SubmitOK ==
  ASSUME IInv, NEW h \in Handlers, NEW r \in Requests, Submit(h, r)
  PROVE  IInv'
<1> DEFINE b == batch'[r]
           new == [Idle EXCEPT !.step = "look", !.req = r, !.case = 1, !.user = b.user,
                               !.loaded = body]
<1>1. TypeOK /\ RowsOK
  BY DEF IInv
<1>2. /\ UNCHANGED <<body, identity, op, restored, backup, remote, wire, edits, history>>
      /\ handler' = [handler EXCEPT ![h] = new]
      /\ handler[h].step = "idle"
  BY DEF Submit, Set
<1>3. /\ batch' \in [Requests -> Batch \cup {None}]
      /\ batch'[r] # None
      /\ \A q \in Requests : batch[q] # None => batch'[q] = batch[q]
      /\ b \in Batch
  <2>1. CASE batch[r] # None /\ UNCHANGED batch
    BY <1>1, <2>1 DEF TypeOK
  <2>2. CASE /\ batch[r] = None
             /\ \E user \in Users, choice \in [Cases -> {"ask", "new"} \cup Live] :
                  batch' = [batch EXCEPT ![r] = [user |-> user, choice |-> choice, digest |-> body]]
    <3>1. PICK user \in Users, choice \in [Cases -> {"ask", "new"} \cup Live] :
                  batch' = [batch EXCEPT ![r] = [user |-> user, choice |-> choice, digest |-> body]]
      BY <2>2
    <3> DEFINE row == [user |-> user, choice |-> choice, digest |-> body]
    <3>2. row \in Batch
      BY <1>1 DEF TypeOK, Batch, Choices, Live
    <3>3. row # None
      BY <3>2, NoneIsNoBatch
    <3> HIDE DEF row
    <3> QED
      BY <1>1, <2>2, <3>1, <3>2, <3>3 DEF TypeOK, row
  <2> QED
    BY <2>1, <2>2 DEF Submit
<1>4. 1 \in Cases /\ b.user \in AllUsers
  BY <1>3, CasePushAssumption DEF Cases, Batch
<1>5. /\ new \in Handler
      /\ new.step = "look" /\ new.req = r /\ new.case = 1 /\ new.user = b.user /\ new.loaded = body
  BY <1>1, <1>4, IdleType DEF Idle, Handler, Steps, TypeOK, MaybeBody
<1> HIDE DEF new
<1>6. Grows
  BY <1>2, <1>3 DEF Grows, history
<1>7. handler' \in [Handlers -> Handler] /\ handler'[h] = new
  BY <1>1, <1>2, <1>5 DEF TypeOK
<1>8. HandlerOK(h)'
  <2>1. PushOK(h)'
    <3>1. \A d \in 1 .. 1 - 1 : FALSE
      OBVIOUS
    <3>2. \A d \in Cases : body[d] \in Bodies
      BY <1>1 DEF TypeOK
    <3>3. b = batch'[r] /\ b # None
      BY <1>3
    <3> HIDE DEF b
    <3> QED
      BY <1>4, <1>5, <1>7, <3>1, <3>2, <3>3 DEF PushOK
  <2>2. LoadedOK(h)' /\ AnswerOK(h)' /\ ReviewOK(h)'
    BY <1>1, <1>4, <1>5, <1>7 DEF LoadedOK, AnswerOK, ReviewOK, TypeOK
  <2> QED
    BY <2>1, <2>2 DEF HandlerOK
<1>9. HandlersOK'
  BY <1>1, <1>2, <1>6, <1>8, Kept DEF HandlersOK, TypeOK
<1>10. TypeOK'
  BY <1>1, <1>2, <1>3, <1>7 DEF TypeOK, history
<1>11. BackupOK' /\ WireOK'
  BY <1>2 DEF IInv, BackupOK, WireOK, history
<1>12. RowsOK'
  BY <1>1, <1>2, <1>3 DEF RowsOK, Admitted, Mapped, Truthful, history
<1>13. ReviewAfterRestore'
  BY <1>1, <1>2, <1>3 DEF IInv, ReviewAfterRestore, RowsOK, Admitted
<1> QED
  BY <1>9, <1>10, <1>11, <1>12, <1>13 DEF IInv

LEMMA LookOK ==
  ASSUME IInv, NEW h \in Handlers, Look(h)
  PROVE  IInv'
<1> DEFINE r == handler[h]
           c == r.case
           old == op[r.req][c].status
           choice == batch[r.req].choice[c]
           known == IF identity[c] # None THEN identity[c]
                    ELSE IF choice \in RemoteIds THEN choice ELSE None
           next == [r EXCEPT !.step = "check", !.known = known]
<1>1. TypeOK /\ HandlerOK(h)
  BY DEF IInv, HandlersOK
<1>2. /\ UNCHANGED <<body, ledger, restored, backup, remote, wire, edits, history>>
      /\ r.step = "look"
  BY DEF Look
<1>3. Grows
  BY <1>2, SameGrows DEF history
<1>4. r \in Handler /\ r.req \in Requests /\ c \in Cases
  BY <1>1, <1>2 DEF TypeOK, HandlerOK, PushOK, Pushing
<1>5. CASE old # "none" /\ GoOn(h, old = "succeeded")
  <2>1. op'[r.req][c].status = old
    BY <1>2 DEF ledger
  <2>2. handler' \in [Handlers -> Handler] /\ HandlersOK'
    BY <1>2, <1>3, <1>5, <2>1, GoOnOK DEF Pushing
  <2> QED
    BY <1>2, <2>2, OnlyHandler DEF Others, history
<1>6. CASE Stop(h)
  BY <1>2, <1>3, <1>6, StopOK, OnlyHandler DEF Others, history
<1>7. CASE r.loaded[c] = batch[r.req].digest[c] /\ Set(h, next)
  <2>1. known \in MaybeId
    BY <1>1, <1>4 DEF TypeOK, MaybeId
  <2> HIDE DEF known
  <2>2. /\ next \in Handler
        /\ next.step = "check" /\ next.req = r.req /\ next.case = c
        /\ next.user = r.user /\ next.loaded = r.loaded
    BY <1>4, <2>1 DEF Handler, Steps
  <2> HIDE DEF next
  <2>3. handler' \in [Handlers -> Handler] /\ handler'[h] = next
    BY <1>1, <1>7, <2>2 DEF TypeOK, Set
  <2>4. HandlerOK(h)'
    <3>1. PushOK(h)'
      BY <1>1, <1>2, <2>2, <2>3 DEF HandlerOK, PushOK, Pushing, ledger
    <3>2. LoadedOK(h)' /\ AnswerOK(h)' /\ ReviewOK(h)'
      BY <1>1, <1>2, <1>7, <2>2, <2>3 DEF HandlerOK, LoadedOK, AnswerOK, ReviewOK, ledger
    <3> QED
      BY <3>1, <3>2 DEF HandlerOK
  <2>5. HandlersOK'
    BY <1>1, <1>3, <1>7, <2>4, Kept DEF HandlersOK, TypeOK, Set
  <2> QED
    BY <1>2, <2>3, <2>5, OnlyHandler DEF Others, history
<1> QED
  BY <1>5, <1>6, <1>7 DEF Look

LEMMA CheckOK ==
  ASSUME IInv, NEW h \in Handlers, Check(h)
  PROVE  IInv'
<1> DEFINE r == handler[h]
<1>1. TypeOK /\ HandlerOK(h)
  BY DEF IInv, HandlersOK
<1>2. /\ UNCHANGED <<body, ledger, restored, backup, remote, wire, edits, history>>
      /\ r.step = "check"
  BY DEF Check
<1>3. Grows
  BY <1>2, SameGrows DEF history
<1>4. r \in Handler /\ r.req \in Requests /\ r.case \in Cases
  BY <1>1, <1>2 DEF TypeOK, HandlerOK, PushOK, Pushing
<1>5. CASE Stop(h)
  BY <1>2, <1>3, <1>5, StopOK, OnlyHandler DEF Others, history
<1>6. ASSUME NEW next \in Handler, Set(h, next),
             next.step = "reserve", next.req = r.req, next.case = r.case,
             next.user = r.user, next.loaded = r.loaded
      PROVE  IInv'
  <2>1. handler' \in [Handlers -> Handler] /\ handler'[h] = next
    BY <1>1, <1>6 DEF TypeOK, Set
  <2>2. HandlerOK(h)'
    <3>1. PushOK(h)'
      BY <1>1, <1>2, <1>6, <2>1 DEF HandlerOK, PushOK, Pushing, ledger
    <3>2. LoadedOK(h)' /\ AnswerOK(h)' /\ ReviewOK(h)'
      BY <1>1, <1>2, <1>6, <2>1 DEF HandlerOK, LoadedOK, AnswerOK, ReviewOK, ledger
    <3> QED
      BY <3>1, <3>2 DEF HandlerOK
  <2>3. HandlersOK'
    BY <1>1, <1>3, <1>6, <2>2, Kept DEF HandlersOK, TypeOK, Set
  <2> QED
    BY <1>2, <2>1, <2>3, OnlyHandler DEF Others, history
<1>7. [r EXCEPT !.step = "reserve"] \in Handler
  BY <1>4 DEF Handler, Steps
<1>8. CASE Set(h, [r EXCEPT !.step = "reserve"])
  BY <1>4, <1>6, <1>7, <1>8 DEF Handler
<1>9. ASSUME NEW catalog \in SUBSET MaybeId, Set(h, [r EXCEPT !.step = "reserve", !.catalog = catalog])
      PROVE  IInv'
  <2>1. [r EXCEPT !.step = "reserve", !.catalog = catalog] \in Handler
    BY <1>4 DEF Handler, Steps
  <2> QED
    BY <1>4, <1>6, <1>9, <2>1 DEF Handler
<1>10. (IF r.catalog = Unread THEN Live ELSE r.catalog) \in SUBSET MaybeId
  BY <1>4 DEF Handler, Live, MaybeId
<1> QED
  BY <1>5, <1>8, <1>9, <1>10 DEF Check

-----------------------------------------------------------------------------
(* What settles an operation *)

\* CasePushJournal.record keeps the rows in order, for a receipt and for a
\* decision by hand.
LEMMA RecordedOK ==
  ASSUME IInv, NEW r \in Requests, NEW c \in Cases, NEW s \in Settled \cup {"unknown"},
         NEW i \in MaybeId, s = "succeeded" => i # None,
         RecordAccepted(r, c, s, i), Recorded(r, c, s, i),
         UNCHANGED <<body, restored, backup, remote, wire, edits, touched>>,
         \/ judged' = judged \cup {<<r, c>>}
         \/ /\ judged' = judged
            /\ s # "unknown" =>
                 Current(r, c) = {} /\ touched[r][c] = IF s = "failed" THEN None ELSE i
  PROVE  /\ op' \in [Requests -> [Cases -> Operation]]
         /\ identity' \in [Cases -> MaybeId]
         /\ UNCHANGED batch
         /\ judged' \subseteq Requests \X Cases
         /\ op'[r][c].status = s
         /\ Grows /\ BackupOK' /\ RowsOK' /\ WireOK' /\ ReviewAfterRestore'
<1> DEFINE new == [op[r][c] EXCEPT !.status = s, !.result = i]
           row == [op[r] EXCEPT ![c] = new]
<1>1. TypeOK /\ RowsOK
  BY DEF IInv
<1>2. op[r][c] \in Operation /\ op[r] \in [Cases -> Operation]
  BY <1>1 DEF TypeOK
<1>3. /\ new \in Operation
      /\ new.status = s /\ new.result = i /\ new.bound = op[r][c].bound
      /\ new.content = op[r][c].content /\ new.era = op[r][c].era
  BY <1>2 DEF Operation, OpStatus, Settled, Pending
<1>4. op' = [op EXCEPT ![r] = row]
  BY DEF Recorded
<1> HIDE DEF new
<1>5. row \in [Cases -> Operation] /\ row[c] = new /\ \A d \in Cases : d # c => row[d] = op[r][d]
  BY <1>2, <1>3
<1> HIDE DEF row
<1>6. /\ op' \in [Requests -> [Cases -> Operation]]
      /\ op'[r][c] = new
      /\ \A q \in Requests, d \in Cases : q # r \/ d # c => op'[q][d] = op[q][d]
  BY <1>1, <1>4, <1>5 DEF TypeOK
<1>7. /\ identity' \in [Cases -> MaybeId]
      /\ s = "succeeded" => identity'[c] = i
      /\ \A d \in Cases : s # "succeeded" \/ d # c => identity'[d] = identity[d]
      /\ UNCHANGED batch
  BY <1>1 DEF TypeOK, Recorded
<1>8. /\ op[r][c].status \in Pending
      /\ s = "succeeded" => identity[c] \in {None, i} /\ \A d \in Cases \ {c} : identity[d] # i
  BY DEF RecordAccepted, Free
<1>9. judged' \subseteq Requests \X Cases
  BY <1>1 DEF TypeOK
<1>10. op[r][c].status # "succeeded" /\ op[r][c].status # "none" /\ s # "none"
  BY <1>8 DEF Pending, Settled
<1>11. Grows
  BY <1>3, <1>6, <1>7, <1>10 DEF Grows
<1>12. BackupOK'
  BY DEF IInv, BackupOK
<1>13. Admitted(batch, op)'
  <2>1. \A q \in Requests, d \in Cases : op'[q][d].status # "none" =>
          op[q][d].status # "none" /\ op'[q][d].content = op[q][d].content
    BY <1>3, <1>6, <1>10
  <2>2. \A q \in Requests, d \in Cases :
          op[q][d].status = "succeeded" => op'[q][d].status = "succeeded"
    BY <1>6, <1>10
  <2> QED
    BY <1>1, <1>7, <2>1, <2>2, CasesBelow DEF RowsOK, Admitted
<1>14. Mapped(identity, op)'
  <2>1. CASE s = "succeeded"
    <3>1. \A q \in Requests, d \in Cases : q # r \/ d # c =>
            /\ op'[q][d].status = "succeeded" =>
                 op'[q][d].result = identity'[d] /\ identity'[d] # None
            /\ op'[q][d].status # "none" /\ op'[q][d].bound # None =>
                 identity'[d] = op'[q][d].bound
      BY <1>1, <1>6, <1>7, <1>8, <2>1 DEF RowsOK, Mapped
    <3>2. /\ op'[r][c].result = identity'[c] /\ identity'[c] # None
          /\ op'[r][c].bound # None => identity'[c] = op'[r][c].bound
      BY <1>1, <1>3, <1>6, <1>7, <1>8, <1>10, <2>1 DEF RowsOK, Mapped
    <3>3. \A d, e \in Cases : d # e /\ identity'[d] # None => identity'[d] # identity'[e]
      BY <1>1, <1>7, <1>8, <2>1 DEF RowsOK, Mapped
    <3> QED
      BY <3>1, <3>2, <3>3 DEF Mapped
  <2>2. CASE s # "succeeded"
    BY <1>1, <1>3, <1>6, <1>7, <1>10, <2>2 DEF RowsOK, Mapped
  <2> QED
    BY <2>1, <2>2
<1>15. Truthful(op, touched, judged)'
  <2>1. ASSUME NEW q \in Requests, NEW d \in Cases
        PROVE  /\ op'[q][d].status = "none" => touched[q][d] = None /\ <<q, d>> \notin judged'
               /\ <<q, d>> \notin judged' =>
                    /\ op'[q][d].status = "failed" => touched[q][d] = None
                    /\ op'[q][d].status = "succeeded" => touched[q][d] = op'[q][d].result
    <3>1. CASE q # r \/ d # c
      <4>1. op'[q][d] = op[q][d]
        BY <1>6, <2>1, <3>1
      <4>2. <<q, d>> \in judged' <=> <<q, d>> \in judged
        BY <3>1
      <4> QED
        BY <1>1, <2>1, <4>1, <4>2 DEF RowsOK, Truthful
    <3>2. CASE q = r /\ d = c
      <4>1. <<r, c>> \notin judged' =>
              (s # "unknown" => touched[r][c] = IF s = "failed" THEN None ELSE i)
        OBVIOUS
      <4> QED
        BY <1>3, <1>6, <1>10, <3>2, <4>1
    <3> QED
      BY <3>1, <3>2
  <2> QED
    BY <2>1 DEF Truthful
<1>16. RowsOK'
  <2>1. \A q \in Requests, d \in Cases : op'[q][d].era => restored /\ op'[q][d].status # "none"
    BY <1>1, <1>3, <1>6, <1>10 DEF RowsOK
  <2> QED
    BY <1>13, <1>14, <1>15, <2>1 DEF RowsOK
<1>17. WireOK'
  <2>1. SUFFICES ASSUME NEW m \in wire
                 PROVE  /\ m.era => restored
                        /\ m.era = restored =>
                             /\ op'[m.req][m.case].status # "none"
                             /\ m.bound = op'[m.req][m.case].bound
                             /\ m.content = op'[m.req][m.case].content
                             /\ touched[m.req][m.case] = None
                             /\ <<m.req, m.case>> \notin judged' =>
                                  op'[m.req][m.case].status \in Pending
    BY DEF WireOK
  <2>2. m.req \in Requests /\ m.case \in Cases
    BY <1>1 DEF TypeOK, Write
  <2>3. CASE m.req # r \/ m.case # c
    BY <1>6, <2>2, <2>3 DEF IInv, WireOK
  <2>4. CASE m.req = r /\ m.case = c
    <3>1. m.era = restored => Current(r, c) # {}
      BY <2>4 DEF Current
    <3>2. m.era = restored /\ <<r, c>> \notin judged' => s = "unknown"
      BY <3>1
    <3> QED
      BY <1>3, <1>6, <1>10, <2>4, <3>2 DEF IInv, WireOK, Pending
  <2> QED
    BY <2>3, <2>4
<1>18. ReviewAfterRestore'
  BY <1>3, <1>6, <1>7 DEF IInv, ReviewAfterRestore
<1> QED
  BY <1>3, <1>6, <1>7, <1>9, <1>11, <1>12, <1>16, <1>17, <1>18

LEMMA RecordOK ==
  ASSUME IInv, NEW h \in Handlers, Record(h)
  PROVE  IInv'
<1> DEFINE r == handler[h]
           c == r.case
           o == op[r.req][c]
           answer == IF r.step = "wait" THEN NoAnswer ELSE r.answer
           s == IF answer \in RemoteIds THEN "succeeded" ELSE answer
           i == IF answer \in RemoteIds THEN answer ELSE None
           same == o.status = "succeeded" /\ s = "succeeded" /\ o.result = i
<1>1. TypeOK /\ HandlerOK(h)
  BY DEF IInv, HandlersOK
<1>2. /\ UNCHANGED <<body, restored, backup, remote, wire, edits, history>>
      /\ r.step \in {"wait", "record"}
  BY DEF Record
<1>3. r.step \in Pushing /\ r.req \in Requests /\ c \in Cases
  BY <1>1, <1>2 DEF HandlerOK, PushOK, Pushing
<1>4. CASE RecordAccepted(r.req, c, s, i) /\ Recorded(r.req, c, s, i) /\ GoOn(h, s = "succeeded")
  <2>1. /\ s \in Settled \cup {"unknown"}
        /\ i \in MaybeId
        /\ s = "succeeded" => i # None
        /\ s # "unknown" => /\ Current(r.req, c) = {}
                            /\ touched[r.req][c] = IF s = "failed" THEN None ELSE i
    <3>1. CASE r.step = "wait"
      BY <3>1, CasePushAssumption DEF NoAnswer, Settled, MaybeId
    <3>2. CASE r.step = "record" /\ r.answer = "failed"
      BY <1>1, <3>2, CasePushAssumption DEF HandlerOK, AnswerOK, Settled, MaybeId
    <3>3. CASE r.step = "record" /\ r.answer \in RemoteIds
      BY <1>1, <3>3, CasePushAssumption DEF HandlerOK, AnswerOK, Settled, MaybeId
    <3> QED
      BY <1>1, <1>2, <3>1, <3>2, <3>3 DEF HandlerOK, AnswerOK
  <2> HIDE DEF s, i
  <2>2. /\ op' \in [Requests -> [Cases -> Operation]]
        /\ identity' \in [Cases -> MaybeId]
        /\ UNCHANGED batch
        /\ op'[r.req][c].status = s
        /\ Grows /\ BackupOK' /\ RowsOK' /\ WireOK' /\ ReviewAfterRestore'
    BY <1>2, <1>3, <1>4, <2>1, RecordedOK DEF history
  <2>3. handler' \in [Handlers -> Handler] /\ HandlersOK'
    BY <1>3, <1>4, <2>2, GoOnOK
  <2>4. TypeOK'
    BY <1>1, <1>2, <2>2, <2>3 DEF TypeOK, history
  <2> QED
    BY <2>2, <2>3, <2>4 DEF IInv
<1>5. CASE GoOn(h, same) /\ UNCHANGED ledger
  <2>1. Grows
    BY <1>2, <1>5, SameGrows DEF history
  <2>2. same => op'[r.req][c].status = "succeeded"
    BY <1>5 DEF ledger
  <2> HIDE DEF same
  <2>3. CASE same
    BY <1>2, <1>3, <1>5, <2>1, <2>2, <2>3, GoOnOK, OnlyHandler DEF Others, history, ledger
  <2>4. CASE ~same
    BY <1>2, <1>5, <2>1, <2>4, StopOK, OnlyHandler DEF GoOn, Others, history, ledger
  <2> QED
    BY <2>3, <2>4
<1> QED
  BY <1>4, <1>5 DEF Record

LEMMA DecideOK ==
  ASSUME IInv, NEW h \in Handlers, Decide(h)
  PROVE  IInv'
<1> DEFINE r == handler[h]
           s == IF r.step = "confirm" THEN "succeeded" ELSE "failed"
<1>1. TypeOK /\ HandlerOK(h)
  BY DEF IInv, HandlersOK
<1>2. /\ UNCHANGED <<body, restored, backup, remote, wire, edits, touched, created>>
      /\ r.step \in {"confirm", "declare"}
      /\ Stop(h)
  BY DEF Decide
<1>3. /\ r.req \in Requests /\ r.case \in Cases
      /\ r.known \in MaybeId
      /\ s \in Settled
      /\ s = "succeeded" => r.known # None
  BY <1>1, <1>2, CasePushAssumption DEF HandlerOK, ReviewOK, TypeOK, Handler, Settled, MaybeId
<1> HIDE DEF s
<1>4. CASE /\ RecordAccepted(r.req, r.case, s, r.known)
           /\ Recorded(r.req, r.case, s, r.known)
           /\ judged' = judged \cup {<<r.req, r.case>>}
           /\ declared' = IF s = "failed" /\ op[r.req][r.case].bound = None
                          THEN [declared EXCEPT ![r.case] = declared[r.case] + 1] ELSE declared
  <2>1. /\ op' \in [Requests -> [Cases -> Operation]]
        /\ identity' \in [Cases -> MaybeId]
        /\ UNCHANGED batch
        /\ judged' \subseteq Requests \X Cases
        /\ Grows /\ BackupOK' /\ RowsOK' /\ WireOK' /\ ReviewAfterRestore'
    BY <1>2, <1>3, <1>4, RecordedOK
  <2>2. handler' \in [Handlers -> Handler] /\ HandlersOK'
    BY <1>2, <2>1, StopOK
  <2>3. declared' \in [Cases -> Nat]
    <3>1. declared \in [Cases -> Nat] /\ declared[r.case] + 1 \in Nat
      BY <1>1, <1>3 DEF TypeOK
    <3> QED
      BY <1>4, <3>1
  <2>4. TypeOK'
    BY <1>1, <1>2, <2>1, <2>2, <2>3 DEF TypeOK
  <2> QED
    BY <2>1, <2>2, <2>4 DEF IInv
<1>5. CASE UNCHANGED <<ledger, judged, declared>>
  <2>1. Grows
    BY <1>2, <1>5, SameGrows
  <2> QED
    BY <1>2, <1>5, <2>1, StopOK, OnlyHandler DEF Others
<1> QED
  BY <1>4, <1>5 DEF Decide, s

-----------------------------------------------------------------------------
(* The permission to write, and the write *)

LEMMA ReserveOK ==
  ASSUME IInv, NEW h \in Handlers, Reserve(h)
  PROVE  IInv'
<1> DEFINE r == handler[h]
           q == r.req
           c == r.case
           old == op[q][c].status
           new == [NoOperation EXCEPT !.status = "prepared", !.bound = r.known,
                                      !.content = r.loaded[c], !.era = restored]
           row == [op[q] EXCEPT ![c] = new]
           sent == [req |-> q, case |-> c, bound |-> r.known,
                    content |-> r.loaded[c], era |-> restored]
           next == [r EXCEPT !.step = "wait", !.known = None, !.loaded = [r.loaded EXCEPT ![c] = None]]
<1>1. TypeOK /\ RowsOK /\ HandlerOK(h)
  BY DEF IInv, HandlersOK
<1>2. /\ UNCHANGED <<body, batch, restored, backup, remote, edits, history>>
      /\ r.step = "reserve"
  BY DEF Reserve
<1>3. /\ r \in Handler /\ q \in Requests /\ c \in Cases
      /\ r.loaded[c] \in Bodies /\ r.loaded[c] = batch[q].digest[c]
      /\ batch[q] # None /\ r.user = batch[q].user
      /\ \A d \in 1 .. c - 1 : op[q][d].status = "succeeded"
      /\ r.known \in MaybeId
  BY <1>1, <1>2 DEF TypeOK, HandlerOK, PushOK, LoadedOK, Pushing, Handler
<1>4. CASE Stop(h) /\ UNCHANGED <<identity, op, wire>>
  BY <1>2, <1>4, SameGrows, StopOK, OnlyHandler DEF Others, history, ledger
<1>5. CASE GoOn(h, old = "succeeded") /\ UNCHANGED <<identity, op, wire>>
  <2>1. Grows
    BY <1>2, <1>5, SameGrows DEF history, ledger
  <2>2. op'[q][c].status = old
    BY <1>5
  <2>3. handler' \in [Handlers -> Handler] /\ HandlersOK'
    BY <1>2, <1>5, <2>1, <2>2, GoOnOK DEF Pushing
  <2> QED
    BY <1>2, <1>5, <2>3, OnlyHandler DEF Others, history, ledger
<1>6. CASE /\ Permitted(c, r.user = "reviewer")
           /\ old = "none"
           /\ MappingAgrees(c, r.known)
           /\ identity' = [identity EXCEPT ![c] = r.known]
           /\ op' = [op EXCEPT ![q] = row]
           /\ wire' = wire \cup {sent}
           /\ Set(h, next)
  <2>1. /\ new \in Operation
        /\ new.status = "prepared" /\ new.bound = r.known
        /\ new.content = r.loaded[c] /\ new.era = restored
    BY <1>1, <1>3 DEF TypeOK, NoOperation, Operation, OpStatus, Pending, MaybeBody, MaybeId
  <2>2. /\ sent \in Write
        /\ sent.req = q /\ sent.case = c /\ sent.bound = r.known
        /\ sent.content = r.loaded[c] /\ sent.era = restored
    BY <1>1, <1>3 DEF TypeOK, Write
  <2>3. /\ next \in Handler
        /\ next.step = "wait" /\ next.req = q /\ next.case = c /\ next.user = r.user
        /\ \A d \in Cases : d # c => next.loaded[d] = r.loaded[d]
    <3>1. r.loaded \in [Cases -> MaybeBody]
      BY <1>3 DEF Handler
    <3>2. [r.loaded EXCEPT ![c] = None] \in [Cases -> MaybeBody]
      BY <3>1 DEF MaybeBody
    <3> QED
      BY <1>3, <3>1, <3>2 DEF Handler, Steps, MaybeId
  <2> HIDE DEF new, sent, next
  <2>4. row \in [Cases -> Operation] /\ row[c] = new /\ \A d \in Cases : d # c => row[d] = op[q][d]
    BY <1>1, <1>3, <2>1 DEF TypeOK
  <2> HIDE DEF row
  <2>5. /\ op' \in [Requests -> [Cases -> Operation]]
        /\ op'[q][c] = new
        /\ \A p \in Requests, d \in Cases : p # q \/ d # c => op'[p][d] = op[p][d]
    BY <1>1, <1>3, <1>6, <2>4 DEF TypeOK
  <2>6. /\ identity' \in [Cases -> MaybeId]
        /\ identity'[c] = r.known
        /\ \A d \in Cases : d # c => identity'[d] = identity[d]
        /\ identity[c] # None => r.known = identity[c]
        /\ r.known # None => \A d \in Cases \ {c} : identity[d] # r.known
    BY <1>1, <1>3, <1>6 DEF TypeOK, MappingAgrees, Free
  <2>7. handler' \in [Handlers -> Handler] /\ handler'[h] = next
    BY <1>1, <1>6, <2>3 DEF TypeOK, Set
  <2>8. TypeOK'
    BY <1>1, <1>2, <2>2, <2>5, <2>6, <2>7, <1>6 DEF TypeOK, history
  <2>9. Grows
    <3>1. \A p \in Requests, d \in Cases : op[p][d].status # "none" => op'[p][d] = op[p][d]
      BY <1>6, <2>5
    <3>2. \A m \in wire' : m \in wire \/ op[m.req][m.case].status = "none"
      BY <1>6, <2>2
    <3> QED
      BY <1>2, <3>1, <3>2 DEF Grows, history
  <2>10. BackupOK'
    BY <1>2 DEF IInv, BackupOK, history
  <2>11. RowsOK'
    <3>1. Admitted(batch, op)'
      <4>1. \A p \in Requests, d \in Cases :
              op[p][d].status = "succeeded" => op'[p][d].status = "succeeded"
        BY <1>6, <2>5
      <4>2. ASSUME NEW p \in Requests, NEW d \in Cases, op'[p][d].status # "none"
            PROVE  /\ batch[p] # None
                   /\ op'[p][d].content = batch[p].digest[d]
                   /\ \A e \in 1 .. d - 1 : op'[p][e].status = "succeeded"
        <5>1. CASE p # q \/ d # c
          BY <1>1, <2>5, <4>1, <4>2, <5>1, CasesBelow DEF RowsOK, Admitted
        <5>2. CASE p = q /\ d = c
          BY <1>3, <2>1, <2>5, <4>1, <5>2, CasesBelow
        <5> QED
          BY <5>1, <5>2
      <4> QED
        BY <1>2, <4>2 DEF Admitted
    <3>2. Mapped(identity, op)'
      <4>1. \A p \in Requests, d \in Cases : p # q \/ d # c =>
              /\ op'[p][d].status = "succeeded" =>
                   op'[p][d].result = identity'[d] /\ identity'[d] # None
              /\ op'[p][d].status # "none" /\ op'[p][d].bound # None =>
                   identity'[d] = op'[p][d].bound
        BY <1>1, <2>5, <2>6 DEF RowsOK, Mapped
      <4>2. /\ op'[q][c].status # "succeeded"
            /\ identity'[c] = op'[q][c].bound
        BY <2>1, <2>5, <2>6
      <4>3. \A d, e \in Cases : d # e /\ identity'[d] # None => identity'[d] # identity'[e]
        BY <1>1, <2>6 DEF RowsOK, Mapped
      <4> QED
        BY <4>1, <4>2, <4>3 DEF Mapped
    <3>3. Truthful(op, touched, judged)'
      <4>1. UNCHANGED <<touched, judged>>
        BY <1>2 DEF history
      <4>2. \A p \in Requests, d \in Cases :
              op'[p][d] = op[p][d] \/ op'[p][d].status = "prepared"
        BY <2>1, <2>5
      <4>3. ASSUME NEW p \in Requests, NEW d \in Cases
            PROVE  /\ op'[p][d].status = "none" => touched[p][d] = None /\ <<p, d>> \notin judged
                   /\ <<p, d>> \notin judged =>
                        /\ op'[p][d].status = "failed" => touched[p][d] = None
                        /\ op'[p][d].status = "succeeded" => touched[p][d] = op'[p][d].result
        <5>1. CASE op'[p][d] = op[p][d]
          BY <1>1, <4>3, <5>1 DEF RowsOK, Truthful
        <5>2. CASE op'[p][d].status = "prepared"
          BY <5>2
        <5> QED
          BY <4>2, <5>1, <5>2
      <4> QED
        BY <4>1, <4>3 DEF Truthful
    <3>4. \A p \in Requests, d \in Cases : op'[p][d].era => restored /\ op'[p][d].status # "none"
      BY <1>1, <2>1, <2>5 DEF RowsOK
    <3> QED
      BY <1>2, <3>1, <3>2, <3>3, <3>4 DEF RowsOK
  <2>12. HandlersOK'
    <3>1. ASSUME NEW g \in Handlers, g # h
          PROVE  HandlerOK(g)'
      BY <1>1, <1>6, <2>9, <3>1, Kept DEF TypeOK, Set
    <3>2. PushOK(h)'
      <4>1. \A e \in 1 .. c - 1 : op'[q][e].status = "succeeded"
        BY <1>3, <2>9, CasesBelow DEF Grows
      <4>2. \A d \in Cases : d > c => next.loaded[d] \in Bodies
        <5>1. ASSUME NEW d \in Cases, d > c
              PROVE  d # c
          BY <1>3, <5>1 DEF Cases
        <5>2. \A d \in Cases : d > c => r.loaded[d] \in Bodies
          BY <1>1, <1>2 DEF HandlerOK, PushOK, Pushing
        <5> QED
          BY <2>3, <5>1, <5>2
      <4> QED
        BY <1>2, <1>3, <2>3, <2>7, <4>1, <4>2 DEF PushOK
    <3>3. LoadedOK(h)' /\ ReviewOK(h)'
      BY <2>3, <2>7 DEF LoadedOK, ReviewOK
    <3>4. AnswerOK(h)'
      BY <2>1, <2>3, <2>5, <2>7 DEF AnswerOK
    <3> QED
      BY <3>1, <3>2, <3>3, <3>4 DEF HandlersOK, HandlerOK
  <2>13. WireOK'
    <3>1. ASSUME NEW m \in wire'
          PROVE  /\ m.era => restored'
                 /\ (m.era = restored)' =>
                      /\ op'[m.req][m.case].status # "none"
                      /\ m.bound = op'[m.req][m.case].bound
                      /\ m.content = op'[m.req][m.case].content
                      /\ touched'[m.req][m.case] = None
                      /\ <<m.req, m.case>> \notin judged' =>
                           op'[m.req][m.case].status \in Pending
      <4>1. CASE m = sent
        <5>1. touched[q][c] = None
          BY <1>1, <1>3, <1>6 DEF RowsOK, Truthful
        <5>2. op'[m.req][m.case] = new
          BY <2>2, <2>5, <4>1
        <5> QED
          BY <1>2, <2>1, <2>2, <4>1, <5>1, <5>2 DEF Pending, history
      <4>2. CASE m \in wire
        <5>1. m.req \in Requests /\ m.case \in Cases
          BY <1>1, <4>2 DEF TypeOK, Write
        <5>2. m.era = restored => m.req # q \/ m.case # c
          BY <1>6, <4>2 DEF IInv, WireOK
        <5> QED
          BY <1>2, <2>5, <4>2, <5>1, <5>2 DEF IInv, WireOK, history
      <4> QED
        BY <1>6, <3>1, <4>1, <4>2
    <3> QED
      BY <3>1 DEF WireOK
  <2>14. ReviewAfterRestore'
    <3>1. ASSUME NEW d \in Cases, NEW p \in Requests, op'[p][d].era
          PROVE  \E w \in Requests : op'[w][d].era /\ batch[w].user = "reviewer"
      <4>1. CASE op[p][d].era
        <5>1. PICK w \in Requests : op[w][d].era /\ batch[w].user = "reviewer"
          BY <4>1, <3>1 DEF IInv, ReviewAfterRestore
        <5>2. op[w][d].status # "none"
          BY <1>1, <3>1, <5>1 DEF RowsOK
        <5>3. op'[w][d] = op[w][d]
          BY <1>6, <2>5, <3>1, <5>2
        <5> QED
          BY <5>1, <5>3
      <4>2. CASE ~op[p][d].era
        <5>1. p = q /\ d = c /\ restored
          BY <2>1, <2>5, <3>1, <4>2
        <5>2. CASE r.user = "reviewer"
          BY <1>3, <2>1, <2>5, <5>1, <5>2
        <5>3. CASE Reviewed(c)
          <6>1. PICK w \in Requests : op[w][c].era /\ batch[w].user = "reviewer"
            BY <1>3, <5>3 DEF IInv, ReviewAfterRestore, Reviewed
          <6>2. op[w][c].status # "none"
            BY <1>1, <1>3, <6>1 DEF RowsOK
          <6>3. op'[w][c] = op[w][c]
            BY <1>3, <1>6, <2>5, <6>2
          <6> QED
            BY <5>1, <6>1, <6>3
        <5> QED
          BY <1>6, <5>1, <5>2, <5>3 DEF Permitted
      <4> QED
        BY <4>1, <4>2
    <3> QED
      BY <1>2, <3>1 DEF ReviewAfterRestore
  <2> QED
    BY <2>8, <2>10, <2>11, <2>12, <2>13, <2>14 DEF IInv
<1> HIDE DEF new, row, sent, next
<1> QED
  BY <1>4, <1>5, <1>6 DEF Reserve, new, row, sent, next

\* The answer to a write reaches the handler that waits for it, or nobody; no
\* other write of the operation is on its way.
LEMMA Arrived ==
  ASSUME IInv, NEW m \in wire, NEW a \in RemoteIds \cup {"failed"}, Answer(m, a),
         wire' = wire \ {m},
         UNCHANGED <<body, ledger, restored, backup, edits, judged, declared>>,
         remote' \in [RemoteIds -> MaybeBody],
         touched' \in [Requests -> [Cases -> MaybeId]],
         created' \in [Cases -> Nat],
         m.era = restored =>
           touched'[m.req][m.case] = IF a = "failed" THEN None ELSE a,
         \A q \in Requests, d \in Cases :
           m.era # restored \/ q # m.req \/ d # m.case => touched'[q][d] = touched[q][d]
  PROVE  IInv'
<1>1. TypeOK /\ RowsOK /\ HandlersOK /\ WireOK
  BY DEF IInv
<1>2. m \in Write /\ m.req \in Requests /\ m.case \in Cases
  BY <1>1 DEF TypeOK, Write
<1>3. \A n \in wire' : n.era = restored /\ m.era = restored => n.req # m.req \/ n.case # m.case
  <2>1. SUFFICES ASSUME NEW n \in wire, n # m, n.era = restored, m.era = restored,
                        n.req = m.req, n.case = m.case
                 PROVE  FALSE
    OBVIOUS
  <2>2. n.bound = m.bound /\ n.content = m.content /\ n.era = m.era
    BY <1>1, <2>1 DEF WireOK
  <2>3. n \in Write
    BY <1>1 DEF TypeOK
  <2>4. n = m
    BY <1>2, <2>1, <2>2, <2>3 DEF Write
  <2> QED
    BY <2>1, <2>4
<1>4. Grows
  <2>1. ASSUME NEW q \in Requests, NEW d \in Cases, Current(q, d) = {}
        PROVE  touched'[q][d] = touched[q][d]
    <3>1. m.era # restored \/ q # m.req \/ d # m.case
      BY <2>1 DEF Current
    <3> QED
      BY <3>1
  <2> QED
    BY <2>1 DEF Grows, ledger
<1>5. handler' \in [Handlers -> Handler] /\ HandlersOK'
  <2>1. CASE UNCHANGED handler
    BY <1>1, <1>4, <2>1, Kept DEF HandlersOK, TypeOK
  <2>2. CASE \E h \in Handlers :
               /\ Waits(h, m)
               /\ Set(h, [handler[h] EXCEPT !.step = "record", !.answer = a,
                            !.catalog = IF handler[h].catalog = Unread \/ a = "failed"
                                        THEN handler[h].catalog ELSE handler[h].catalog \cup {a}])
    <3>1. PICK h \in Handlers :
               /\ Waits(h, m)
               /\ Set(h, [handler[h] EXCEPT !.step = "record", !.answer = a,
                            !.catalog = IF handler[h].catalog = Unread \/ a = "failed"
                                        THEN handler[h].catalog ELSE handler[h].catalog \cup {a}])
      BY <2>2
    <3> DEFINE r == handler[h]
               catalog == IF r.catalog = Unread \/ a = "failed" THEN r.catalog ELSE r.catalog \cup {a}
               next == [r EXCEPT !.step = "record", !.answer = a, !.catalog = catalog]
    <3>2. /\ r \in Handler /\ HandlerOK(h) /\ handler \in [Handlers -> Handler]
          /\ r.step = "wait" /\ r.req = m.req /\ r.case = m.case /\ m.era = restored
      BY <1>1, <3>1 DEF HandlersOK, TypeOK, Waits
    <3>3. catalog \in SUBSET MaybeId
      BY <3>2 DEF Handler, MaybeId
    <3> HIDE DEF catalog
    <3>4. /\ next \in Handler
          /\ next.step = "record" /\ next.answer = a /\ next.req = r.req /\ next.case = r.case
          /\ next.user = r.user /\ next.loaded = r.loaded
      BY <3>2, <3>3 DEF Handler, Steps, MaybeId
    <3> HIDE DEF next
    <3>5. handler' = [handler EXCEPT ![h] = next]
      BY <3>1 DEF Set, next, catalog
    <3>6. handler' \in [Handlers -> Handler] /\ handler'[h] = next
      BY <3>2, <3>4, <3>5
    <3>7. HandlerOK(h)'
      <4>1. PushOK(h)'
        BY <3>2, <3>4, <3>6 DEF HandlerOK, PushOK, Pushing, ledger
      <4>2. LoadedOK(h)' /\ ReviewOK(h)'
        BY <3>4, <3>6 DEF LoadedOK, ReviewOK
      <4>3. Current(m.req, m.case)' = {}
        BY <1>3, <3>2 DEF Current
      <4>4. AnswerOK(h)'
        BY <3>2, <3>4, <3>6, <4>3 DEF HandlerOK, AnswerOK, Current, ledger
      <4> QED
        BY <4>1, <4>2, <4>4 DEF HandlerOK
    <3> QED
      BY <1>4, <3>2, <3>5, <3>6, <3>7, Kept DEF HandlersOK
  <2> QED
    BY <2>1, <2>2 DEF Answer
<1>6. TypeOK'
  BY <1>1, <1>5 DEF TypeOK, ledger
<1>7. BackupOK'
  BY DEF IInv, BackupOK
<1>8. RowsOK'
  <2>1. Admitted(batch, op)' /\ Mapped(identity, op)'
    BY <1>1 DEF RowsOK, Admitted, Mapped, ledger
  <2>2. ASSUME NEW q \in Requests, NEW d \in Cases
        PROVE  /\ op[q][d].status = "none" => touched'[q][d] = None /\ <<q, d>> \notin judged
               /\ <<q, d>> \notin judged =>
                    /\ op[q][d].status = "failed" => touched'[q][d] = None
                    /\ op[q][d].status = "succeeded" => touched'[q][d] = op[q][d].result
    <3>1. CASE m.era # restored \/ q # m.req \/ d # m.case
      BY <1>1, <3>1 DEF RowsOK, Truthful
    <3>2. CASE m.era = restored /\ q = m.req /\ d = m.case
      BY <1>1, <3>2 DEF WireOK, Pending
    <3> QED
      BY <3>1, <3>2
  <2>3. Truthful(op, touched, judged)'
    BY <2>2 DEF Truthful, ledger
  <2> QED
    BY <1>1, <2>1, <2>3 DEF RowsOK, ledger
<1>9. WireOK'
  <2>1. ASSUME NEW n \in wire', n.era = restored
        PROVE  touched'[n.req][n.case] = touched[n.req][n.case]
    <3>1. n.req \in Requests /\ n.case \in Cases
      BY <1>1, <2>1 DEF TypeOK, Write
    <3> QED
      BY <1>3, <2>1, <3>1
  <2> QED
    BY <1>1, <2>1 DEF WireOK, ledger
<1>10. ReviewAfterRestore'
  BY DEF IInv, ReviewAfterRestore, ledger
<1> QED
  BY <1>5, <1>6, <1>7, <1>8, <1>9, <1>10 DEF IInv

LEMMA ApplyOK ==
  ASSUME IInv, NEW m \in wire, Apply(m)
  PROVE  IInv'
<1>1. TypeOK /\ WireOK /\ m \in Write
  BY DEF IInv, TypeOK
<1>2. m.req \in Requests /\ m.case \in Cases /\ m.content \in Bodies
  BY <1>1 DEF Write
<1>3. PICK i \in RemoteIds :
        /\ remote' = [remote EXCEPT ![i] = m.content]
        /\ touched' = IF m.era = restored
                      THEN [touched EXCEPT ![m.req] = [touched[m.req] EXCEPT ![m.case] = i]]
                      ELSE touched
        /\ Answer(m, i)
  BY DEF Apply
<1>4. wire' = wire \ {m} /\ UNCHANGED <<body, ledger, restored, backup, edits, judged, declared>>
  BY DEF Apply
<1>5. remote' \in [RemoteIds -> MaybeBody]
  BY <1>1, <1>2, <1>3 DEF TypeOK, MaybeBody
<1>6. touched' \in [Requests -> [Cases -> MaybeId]]
  <2>1. [touched[m.req] EXCEPT ![m.case] = i] \in [Cases -> MaybeId]
    BY <1>1, <1>2 DEF TypeOK, MaybeId
  <2> QED
    BY <1>1, <1>2, <1>3, <2>1 DEF TypeOK
<1>7. created' \in [Cases -> Nat]
  <2>1. created \in [Cases -> Nat] /\ created[m.case] + 1 \in Nat
    BY <1>1, <1>2 DEF TypeOK
  <2> QED
    BY <2>1 DEF Apply
<1>8. /\ m.era = restored => touched'[m.req][m.case] = i
      /\ \A q \in Requests, d \in Cases :
           m.era # restored \/ q # m.req \/ d # m.case => touched'[q][d] = touched[q][d]
  BY <1>1, <1>2, <1>3 DEF TypeOK
<1>9. i # "failed"
  BY CasePushAssumption
<1> QED
  BY <1>3, <1>4, <1>5, <1>6, <1>7, <1>8, <1>9, Arrived

LEMMA RejectOK ==
  ASSUME IInv, NEW m \in wire, Reject(m)
  PROVE  IInv'
<1>1. TypeOK /\ WireOK
  BY DEF IInv
<1>2. /\ wire' = wire \ {m} /\ Answer(m, "failed")
      /\ UNCHANGED <<body, ledger, restored, backup, remote, edits, history>>
  BY DEF Reject
<1>3. m.era = restored => touched'[m.req][m.case] = None
  BY <1>1, <1>2 DEF WireOK, history
<1> QED
  BY <1>1, <1>2, <1>3, Arrived DEF TypeOK, history

-----------------------------------------------------------------------------
(* Everything else *)

LEMMA LapseOK ==
  ASSUME IInv, NEW r \in Requests, NEW c \in Cases, Lapse(r, c)
  PROVE  IInv'
<1> DEFINE new == [op[r][c] EXCEPT !.due = TRUE]
           row == [op[r] EXCEPT ![c] = new]
<1>1. TypeOK /\ RowsOK /\ HandlersOK
  BY DEF IInv
<1>2. /\ UNCHANGED <<body, batch, identity, restored, backup, remote, wire, handler, edits, history>>
      /\ op' = [op EXCEPT ![r] = row]
  BY DEF Lapse
<1>3. op[r][c] \in Operation /\ op[r] \in [Cases -> Operation]
  BY <1>1 DEF TypeOK
<1>4. /\ new \in Operation
      /\ new.status = op[r][c].status /\ new.result = op[r][c].result
      /\ new.bound = op[r][c].bound /\ new.content = op[r][c].content /\ new.era = op[r][c].era
  BY <1>3 DEF Operation
<1> HIDE DEF new
<1>5. row \in [Cases -> Operation] /\ row[c] = new /\ \A d \in Cases : d # c => row[d] = op[r][d]
  BY <1>3, <1>4
<1> HIDE DEF row
<1>6. /\ op' \in [Requests -> [Cases -> Operation]]
      /\ \A q \in Requests, d \in Cases :
           /\ op'[q][d].status = op[q][d].status /\ op'[q][d].result = op[q][d].result
           /\ op'[q][d].bound = op[q][d].bound /\ op'[q][d].content = op[q][d].content
           /\ op'[q][d].era = op[q][d].era
  <2>1. op' \in [Requests -> [Cases -> Operation]] /\ op'[r] = row
        /\ \A q \in Requests : q # r => op'[q] = op[q]
    BY <1>1, <1>2, <1>5 DEF TypeOK
  <2> QED
    BY <1>4, <1>5, <2>1
<1>7. Grows
  BY <1>2, <1>6 DEF Grows, history
<1>8. HandlersOK'
  BY <1>2, <1>7, Kept DEF HandlersOK
<1>9. TypeOK' /\ BackupOK'
  BY <1>1, <1>2, <1>6 DEF TypeOK, IInv, BackupOK, history
<1>10. RowsOK'
  <2>1. Admitted(batch, op)'
    BY <1>1, <1>2, <1>6, CasesBelow DEF RowsOK, Admitted
  <2>2. Mapped(identity, op)'
    BY <1>1, <1>2, <1>6 DEF RowsOK, Mapped
  <2>3. Truthful(op, touched, judged)'
    <3>1. UNCHANGED <<touched, judged>>
      BY <1>2 DEF history
    <3>2. ASSUME NEW q \in Requests, NEW d \in Cases
          PROVE  /\ op'[q][d].status = "none" => touched[q][d] = None /\ <<q, d>> \notin judged
                 /\ <<q, d>> \notin judged =>
                      /\ op'[q][d].status = "failed" => touched[q][d] = None
                      /\ op'[q][d].status = "succeeded" => touched[q][d] = op'[q][d].result
      <4>1. op'[q][d].status = op[q][d].status /\ op'[q][d].result = op[q][d].result
        BY <1>6
      <4>2. Truthful(op, touched, judged)
        BY <1>1 DEF RowsOK
      <4> QED
        BY <4>1, <4>2 DEF Truthful
    <3> QED
      BY <3>1, <3>2 DEF Truthful
  <2> QED
    BY <1>1, <1>2, <1>6, <2>1, <2>2, <2>3 DEF RowsOK
<1>11. WireOK'
  <2>1. UNCHANGED <<wire, restored, touched, judged>>
    BY <1>2 DEF history
  <2>2. ASSUME NEW m \in wire
        PROVE  /\ m.era => restored
               /\ m.era = restored =>
                    /\ op'[m.req][m.case].status # "none"
                    /\ m.bound = op'[m.req][m.case].bound
                    /\ m.content = op'[m.req][m.case].content
                    /\ touched[m.req][m.case] = None
                    /\ <<m.req, m.case>> \notin judged =>
                         op'[m.req][m.case].status \in Pending
    <3>1. m.req \in Requests /\ m.case \in Cases
      BY <1>1, <2>2 DEF TypeOK, Write
    <3>2. /\ op'[m.req][m.case].status = op[m.req][m.case].status
          /\ op'[m.req][m.case].bound = op[m.req][m.case].bound
          /\ op'[m.req][m.case].content = op[m.req][m.case].content
      BY <1>6, <3>1
    <3> QED
      BY <2>2, <3>2 DEF IInv, WireOK
  <2> QED
    BY <2>1, <2>2 DEF WireOK
<1>12. ReviewAfterRestore'
  BY <1>2, <1>6 DEF IInv, ReviewAfterRestore
<1> QED
  BY <1>8, <1>9, <1>10, <1>11, <1>12 DEF IInv

LEMMA ReviewStepOK ==
  ASSUME IInv, NEW h \in Handlers, NEW r \in Requests, NEW c \in Cases, NEW user \in Users,
         NEW step \in {"confirm", "declare"}, NEW i \in MaybeId,
         step = "confirm" => i \in RemoteIds,
         Review(h, r, c, user, step, i)
  PROVE  IInv'
<1> DEFINE new == [Idle EXCEPT !.step = step, !.req = r, !.case = c, !.user = user, !.known = i,
                               !.seen = op[r][c].status]
<1>1. TypeOK /\ handler \in [Handlers -> Handler] /\ op[r][c].status \in OpStatus
  BY DEF IInv, TypeOK, Operation
<1>2. /\ UNCHANGED <<body, ledger, restored, backup, remote, wire, edits, history>>
      /\ handler' = [handler EXCEPT ![h] = new]
      /\ op[r][c].status \in Pending
  BY DEF Review, Set
<1>3. user \in AllUsers
  BY CasePushAssumption
<1>4. /\ new \in Handler
      /\ new.step = step /\ new.req = r /\ new.case = c /\ new.known = i
      /\ new.seen = op[r][c].status
  BY <1>1, <1>3, IdleType DEF Idle, Handler, Steps
<1> HIDE DEF new
<1>5. handler' \in [Handlers -> Handler] /\ handler'[h] = new
  BY <1>1, <1>2, <1>4
<1>6. Grows
  BY <1>2, SameGrows DEF history
<1>7. HandlerOK(h)'
  BY <1>2, <1>4, <1>5 DEF HandlerOK, PushOK, LoadedOK, AnswerOK, ReviewOK, Pushing
<1>8. HandlersOK'
  BY <1>1, <1>2, <1>6, <1>7, Kept DEF HandlersOK
<1> QED
  BY <1>2, <1>5, <1>8, OnlyHandler DEF Others, history

\* What people do changes neither ledger nor handlers.
LEMMA EditOK ==
  ASSUME IInv, UNCHANGED <<ledger, restored, backup, wire, handler, history>>,
         body' \in [Cases -> Bodies], remote' \in [RemoteIds -> MaybeBody],
         edits' \in 0 .. MaxEdits
  PROVE  IInv'
<1>1. Grows
  BY SameGrows DEF history
<1>2. HandlersOK'
  BY <1>1, Kept DEF HandlersOK
<1>3. TypeOK'
  BY DEF IInv, TypeOK, ledger, history
<1>4. BackupOK' /\ RowsOK'
  BY DEF IInv, BackupOK, RowsOK, ledger, history
<1>5. WireOK' /\ ReviewAfterRestore'
  BY DEF IInv, WireOK, ReviewAfterRestore, ledger, history
<1> QED
  BY <1>2, <1>3, <1>4, <1>5 DEF IInv

LEMMA TakeBackupOK ==
  ASSUME IInv, TakeBackup
  PROVE  IInv'
<1> DEFINE new == [body |-> body, batch |-> batch, identity |-> identity, op |-> op,
                   touched |-> touched, judged |-> judged]
<1>1. TypeOK /\ RowsOK
  BY DEF IInv
<1>2. /\ UNCHANGED <<body, ledger, restored, remote, wire, handler, edits, history>>
      /\ backup' = new /\ ~restored
  BY DEF TakeBackup
<1>3. Grows
  BY <1>2, SameGrows DEF history
<1>4. HandlersOK'
  BY <1>2, <1>3, Kept DEF HandlersOK
<1>5. TypeOK' /\ RowsOK'
  BY <1>1, <1>2 DEF TypeOK, RowsOK, ledger, history
<1>6. new \in Backup
  BY <1>1 DEF TypeOK, Backup
<1>7. /\ new.batch = batch /\ new.identity = identity /\ new.op = op
      /\ new.touched = touched /\ new.judged = judged
  OBVIOUS
<1> HIDE DEF new
<1>8. \A r \in Requests, c \in Cases : ~op[r][c].era
  BY <1>1, <1>2 DEF RowsOK
<1>9. ~restored'
  BY <1>2
<1>10. BackupOK'
  BY <1>1, <1>2, <1>6, <1>7, <1>8, <1>9 DEF RowsOK, BackupOK
<1>11. WireOK' /\ ReviewAfterRestore'
  BY <1>2 DEF IInv, WireOK, ReviewAfterRestore, ledger, history
<1> QED
  BY <1>4, <1>5, <1>10, <1>11 DEF IInv

LEMMA RestoreOK ==
  ASSUME IInv, Restore
  PROVE  IInv'
<1>1. TypeOK /\ BackupOK /\ WireOK
  BY DEF IInv
<1>2. /\ backup # None
      /\ restored' = TRUE /\ backup' = None
      /\ body' = backup.body /\ batch' = backup.batch
      /\ identity' = backup.identity /\ op' = backup.op
      /\ touched' = backup.touched /\ judged' = backup.judged
      /\ handler' = [h \in Handlers |-> Idle]
      /\ UNCHANGED <<remote, wire, edits, created, declared>>
  BY DEF Restore
<1>3. backup \in Backup /\ ~restored
  BY <1>1, <1>2 DEF BackupOK
<1>4. TypeOK'
  BY <1>1, <1>2, <1>3, IdleType DEF TypeOK, Backup
<1>5. HandlersOK'
  BY <1>2, IdleOK DEF HandlersOK
<1>6. RowsOK'
  BY <1>1, <1>2 DEF BackupOK, RowsOK, Admitted, Mapped, Truthful
<1>7. BackupOK'
  BY <1>2 DEF BackupOK
<1>8. WireOK'
  <2>1. \A m \in wire : m.era = FALSE
    BY <1>1, <1>3 DEF WireOK, TypeOK, Write
  <2> QED
    BY <1>2, <2>1 DEF WireOK
<1>9. ReviewAfterRestore'
  BY <1>1, <1>2 DEF BackupOK, ReviewAfterRestore
<1> QED
  BY <1>4, <1>5, <1>6, <1>7, <1>8, <1>9 DEF IInv

LEMMA InitOK == Init => IInv
<1> SUFFICES ASSUME Init PROVE IInv
  OBVIOUS
<1>1. TypeOK
  <2>1. NoOperation \in Operation /\ NoOperation.status = "none"
    BY DEF NoOperation, Operation, OpStatus, MaybeId, MaybeBody
  <2>2. 0 \in 0 .. MaxEdits
    BY CasePushAssumption
  <2> QED
    BY <2>1, <2>2, IdleType DEF Init, TypeOK, MaybeId, MaybeBody
<1>2. \A r \in Requests, c \in Cases : op[r][c].status = "none" /\ ~op[r][c].era
  BY DEF Init, NoOperation
<1>3. RowsOK
  BY <1>2 DEF Init, RowsOK, Admitted, Mapped, Truthful
<1>4. BackupOK /\ WireOK
  BY DEF Init, BackupOK, WireOK
<1>5. HandlersOK
  BY DEF Init, HandlersOK, HandlerOK, PushOK, LoadedOK, AnswerOK, ReviewOK, Idle, Pushing
<1>6. ReviewAfterRestore
  BY <1>2 DEF ReviewAfterRestore
<1> QED
  BY <1>1, <1>3, <1>4, <1>5, <1>6 DEF IInv

LEMMA StutterOK == IInv /\ UNCHANGED vars => IInv'
<1> SUFFICES ASSUME IInv, UNCHANGED vars PROVE IInv'
  OBVIOUS
<1>1. UNCHANGED <<ledger, wire, touched, judged, Others>> /\ UNCHANGED handler
  BY DEF vars, history, Others
<1>2. HandlersOK'
  BY <1>1, SameGrows, Kept DEF HandlersOK, Others
<1> QED
  BY <1>1, <1>2, OnlyHandler DEF IInv, TypeOK

\* The strengthening is inductive.
LEMMA StepOK == IInv /\ [Next]_vars => IInv'
<1> SUFFICES ASSUME IInv, Next PROVE IInv'
  BY StutterOK
<1>1. ASSUME NEW h \in Handlers, HandlerNext(h)
      PROVE  IInv'
  <2>1. ASSUME NEW r \in Requests, Submit(h, r)
        PROVE  IInv'
    BY <2>1, SubmitOK
  <2>2. CASE Look(h)
    BY <2>2, LookOK
  <2>3. CASE Check(h)
    BY <2>3, CheckOK
  <2>4. CASE Reserve(h)
    BY <2>4, ReserveOK
  <2>5. CASE Record(h)
    BY <2>5, RecordOK
  <2>6. ASSUME NEW r \in Requests, NEW c \in Cases, NEW user \in Users, NEW i \in RemoteIds,
               FindResult(h, r, c, user, i)
        PROVE  IInv'
    <3>1. Review(h, r, c, user, "confirm", i) /\ i \in MaybeId
      BY <2>6 DEF FindResult, MaybeId
    <3> DEFINE step == "confirm"
    <3>2. step \in {"confirm", "declare"} /\ (step = "confirm" => i \in RemoteIds)
      OBVIOUS
    <3>3. Review(h, r, c, user, step, i)
      BY <3>1
    <3> HIDE DEF step
    <3> QED
      BY <3>1, <3>2, <3>3, ReviewStepOK
  <2>7. ASSUME NEW r \in Requests, NEW c \in Cases, NEW user \in Users,
               FindNothing(h, r, c, user)
        PROVE  IInv'
    <3> DEFINE step == "declare"
    <3>1. Review(h, r, c, user, step, None) /\ None \in MaybeId
      BY <2>7 DEF FindNothing, MaybeId
    <3>2. step \in {"confirm", "declare"} /\ (step = "confirm" => None \in RemoteIds)
      OBVIOUS
    <3> HIDE DEF step
    <3> QED
      BY <3>1, <3>2, ReviewStepOK
  <2>8. CASE Decide(h)
    BY <2>8, DecideOK
  <2>9. CASE Leave(h)
    <3>1. UNCHANGED <<ledger, wire, touched, judged, Others>> /\ Stop(h)
      BY <2>9 DEF Leave, Others, history
    <3> QED
      BY <3>1, SameGrows, StopOK, OnlyHandler DEF Others
  <2> QED
    BY <1>1, <2>1, <2>2, <2>3, <2>4, <2>5, <2>6, <2>7, <2>8, <2>9 DEF HandlerNext
<1>2. ASSUME NEW m \in wire, Apply(m) \/ Reject(m)
      PROVE  IInv'
  BY <1>2, ApplyOK, RejectOK
<1>3. ASSUME NEW r \in Requests, NEW c \in Cases, Lapse(r, c)
      PROVE  IInv'
  BY <1>3, LapseOK
<1>4. \A e \in 0 .. MaxEdits : e < MaxEdits => e + 1 \in 0 .. MaxEdits
  BY CasePushAssumption
<1>5. ASSUME NEW c \in Cases, EditCase(c)
      PROVE  IInv'
  BY <1>4, <1>5, EditOK DEF EditCase, IInv, TypeOK
<1>6. ASSUME NEW i \in RemoteIds, EditRemote(i)
      PROVE  IInv'
  BY <1>4, <1>6, EditOK DEF EditRemote, IInv, TypeOK, MaybeBody
<1>7. CASE TakeBackup
  BY <1>7, TakeBackupOK
<1>8. CASE Restore
  BY <1>8, RestoreOK
<1> QED
  BY <1>1, <1>2, <1>3, <1>5, <1>6, <1>7, <1>8 DEF Next

LEMMA Inductive == Spec => []IInv
BY InitOK, StepOK, PTL DEF Spec

-----------------------------------------------------------------------------
(* A case is created once: an account of the creations, carried out or on  *)
(* their way                                                               *)

LEMMA CreatingCounts ==
  ASSUME IsFiniteSet(wire), NEW c
  PROVE  IsFiniteSet(Creating(c)) /\ Cardinality(Creating(c)) \in Nat
<1>1. Creating(c) \subseteq wire
  BY DEF Creating
<1> QED
  BY <1>1, FS_Subset, FS_CardinalityType

\* Nothing is sent, carried out or declared, and what is spent stays spent.
LEMMA AccountKept ==
  ASSUME IInv, Account, UNCHANGED <<wire, created, declared, restored>>,
         \A c \in Cases : Spent(c) => Spent(c)'
  PROVE  Account'
<1>1. ASSUME NEW c \in Cases
      PROVE  (created[c] + Cardinality(Creating(c)) <= declared[c] + Extra + Once(c))'
  <2>1. Creating(c)' = Creating(c) /\ Extra' = Extra /\ Extra \in Nat
    BY DEF Creating, Extra
  <2>2. Once(c) <= Once(c)' /\ Once(c) \in Nat /\ Once(c)' \in Nat
    BY DEF Once
  <2>3. /\ created[c] \in Nat /\ declared[c] \in Nat /\ Cardinality(Creating(c)) \in Nat
        /\ created[c] + Cardinality(Creating(c)) <= declared[c] + Extra + Once(c)
    BY CreatingCounts DEF IInv, TypeOK, Account
  <2>4. created'[c] = created[c] /\ declared'[c] = declared[c]
    OBVIOUS
  <2> QED
    BY <2>1, <2>2, <2>3, <2>4
<1> QED
  BY <1>1 DEF Account

\* A step after which a case is as mapped, its operations as undecided and its
\* writes as much on their way or landed.
LEMMA SpentKept ==
  ASSUME NEW c \in Cases, Spent(c), UNCHANGED <<wire, restored, touched>>,
         identity[c] # None => identity'[c] # None,
         \A r \in Requests : op[r][c].status \in Pending =>
           \/ op'[r][c].status \in Pending
           \/ identity'[c] # None
           \/ touched[r][c] = None /\ Current(r, c) = {}
  PROVE  Spent(c)'
BY DEF Spent, Current

\* The receipt of a write, or its absence, spends nothing back.
LEMMA RecordAccount ==
  ASSUME IInv, Account, NEW h \in Handlers, Record(h)
  PROVE  Account'
<1> DEFINE r == handler[h]
           c == r.case
           answer == IF r.step = "wait" THEN NoAnswer ELSE r.answer
           s == IF answer \in RemoteIds THEN "succeeded" ELSE answer
           i == IF answer \in RemoteIds THEN answer ELSE None
<1>1. TypeOK /\ HandlerOK(h)
  BY DEF IInv, HandlersOK
<1>2. /\ UNCHANGED <<wire, created, declared, restored, touched>>
      /\ r.step \in {"wait", "record"} /\ r.req \in Requests /\ c \in Cases
  BY <1>1 DEF Record, history, HandlerOK, PushOK, Pushing
<1>3. CASE RecordAccepted(r.req, c, s, i) /\ Recorded(r.req, c, s, i)
  <2>1. /\ s \in {"succeeded", "unknown", "failed"}
        /\ s = "succeeded" => i # None
        /\ s = "failed" => touched[r.req][c] = None /\ Current(r.req, c) = {}
    <3>1. CASE r.step = "wait"
      BY <3>1, CasePushAssumption DEF NoAnswer
    <3>2. CASE r.step = "record"
      BY <1>1, <3>2, CasePushAssumption DEF HandlerOK, AnswerOK
    <3> QED
      BY <1>2, <3>1, <3>2
  <2> HIDE DEF s, i
  <2>2. /\ op'[r.req][c].status = s
        /\ \A q \in Requests, d \in Cases : q # r.req \/ d # c => op'[q][d] = op[q][d]
        /\ identity' = IF s = "succeeded" THEN [identity EXCEPT ![c] = i] ELSE identity
    BY <1>1, <1>2, <1>3 DEF Recorded, TypeOK, Operation
  <2>3. ASSUME NEW d \in Cases, Spent(d)
        PROVE  Spent(d)'
    <3>1. identity[d] # None => identity'[d] # None
      BY <1>1, <1>2, <2>1, <2>2 DEF TypeOK
    <3>2. s = "succeeded" => identity'[c] # None
      BY <1>1, <1>2, <2>1, <2>2 DEF TypeOK
    <3>3. ASSUME NEW q \in Requests, op[q][d].status \in Pending
          PROVE  \/ op'[q][d].status \in Pending
                 \/ identity'[d] # None
                 \/ touched[q][d] = None /\ Current(q, d) = {}
      <4>1. CASE q = r.req /\ d = c
        BY <2>1, <2>2, <3>2, <4>1 DEF Pending
      <4> QED
        BY <2>2, <3>3, <4>1
    <3> QED
      BY <1>2, <2>3, <3>1, <3>3, SpentKept
  <2> QED
    BY <1>2, <2>3, AccountKept
<1>4. CASE UNCHANGED ledger
  <2>1. \A d \in Cases : Spent(d) => Spent(d)'
    BY <1>2, <1>4, SpentKept DEF ledger
  <2> QED
    BY <1>2, <2>1, AccountKept
<1> QED
  BY <1>3, <1>4 DEF Record

\* A decision by hand maps the case, or is paid for by the declaration.
LEMMA DecideAccount ==
  ASSUME IInv, Account, NEW h \in Handlers, Decide(h)
  PROVE  Account'
<1> DEFINE r == handler[h]
           c == r.case
           q == r.req
           s == IF r.step = "confirm" THEN "succeeded" ELSE "failed"
<1>1. TypeOK /\ HandlerOK(h) /\ RowsOK
  BY DEF IInv, HandlersOK
<1>2. /\ UNCHANGED <<wire, created, restored, touched>>
      /\ q \in Requests /\ c \in Cases
      /\ s = "succeeded" => r.known # None
      /\ s \in {"succeeded", "failed"}
  BY <1>1, CasePushAssumption DEF Decide, HandlerOK, ReviewOK
<1>3. CASE UNCHANGED <<ledger, declared>>
  <2>1. \A d \in Cases : Spent(d) => Spent(d)'
    BY <1>2, <1>3, SpentKept DEF ledger
  <2> QED
    BY <1>2, <1>3, <2>1, AccountKept
<1>4. CASE /\ Recorded(q, c, s, r.known)
           /\ declared' = IF s = "failed" /\ op[q][c].bound = None
                          THEN [declared EXCEPT ![c] = declared[c] + 1] ELSE declared
           /\ op[q][c].status \in Pending
  <2> HIDE DEF s
  <2>1. /\ op'[q][c].status = s
        /\ \A p \in Requests, d \in Cases : p # q \/ d # c => op'[p][d] = op[p][d]
        /\ identity' = IF s = "succeeded" THEN [identity EXCEPT ![c] = r.known] ELSE identity
    BY <1>1, <1>2, <1>4 DEF Recorded, TypeOK, Operation
  <2>2. /\ \A d \in Cases : identity[d] # None => identity'[d] # None
        /\ s = "succeeded" => identity'[c] # None
    BY <1>1, <1>2, <2>1 DEF TypeOK
  <2>3. ASSUME NEW d \in Cases, Spent(d), d # c \/ s = "succeeded" \/ op[q][c].bound # None
        PROVE  Spent(d)'
    <3>1. op[q][c].bound # None => identity[c] # None
      BY <1>2, <1>4 , <1>1 DEF RowsOK, Mapped, Pending
    <3>2. ASSUME NEW p \in Requests, op[p][d].status \in Pending
          PROVE  op'[p][d].status \in Pending \/ identity'[d] # None
      BY <1>2, <2>1, <2>2, <2>3, <3>1, <3>2
    <3> QED
      BY <1>2, <2>2, <2>3, <3>2, SpentKept
  <2>4. CASE s = "succeeded" \/ op[q][c].bound # None
    <3>1. declared' = declared
      BY <1>4, <2>4
    <3> QED
      BY <1>2, <2>3, <2>4, <3>1, AccountKept
  <2>5. CASE s = "failed" /\ op[q][c].bound = None
    <3>1. /\ declared'[c] = declared[c] + 1
          /\ \A d \in Cases : d # c => declared'[d] = declared[d]
      BY <1>1, <1>2, <1>4, <2>5 DEF TypeOK
    <3>2. ASSUME NEW d \in Cases
          PROVE  (created[d] + Cardinality(Creating(d)) <= declared[d] + Extra + Once(d))'
      <4>1. Creating(d)' = Creating(d) /\ Extra' = Extra /\ Extra \in Nat
        BY <1>2 DEF Creating, Extra
      <4>2. Once(d) \in {0, 1} /\ Once(d)' \in {0, 1} /\ (d # c => Once(d) <= Once(d)')
        BY <2>3 DEF Once
      <4>3. /\ created[d] \in Nat /\ declared[d] \in Nat /\ Cardinality(Creating(d)) \in Nat
            /\ created[d] + Cardinality(Creating(d)) <= declared[d] + Extra + Once(d)
        BY <1>1, CreatingCounts DEF TypeOK, Account
      <4>4. created'[d] = created[d] /\ (d = c => declared'[d] = declared[d] + 1)
            /\ (d # c => declared'[d] = declared[d])
        BY <1>2, <3>1
      <4> QED
        BY <4>1, <4>2, <4>3, <4>4
    <3> QED
      BY <1>2, <3>2 DEF Account
  <2> QED
    BY <1>2, <2>4, <2>5
<1> QED
  BY <1>3, <1>4 DEF Decide, RecordAccepted

\* A write that creates is granted only where nothing is spent.
LEMMA ReserveAccount ==
  ASSUME IInv, Account, NEW h \in Handlers, Reserve(h)
  PROVE  Account'
<1> DEFINE r == handler[h]
<1>1. TypeOK /\ HandlerOK(h) /\ WireOK
  BY DEF IInv, HandlersOK
<1>2. PICK q \in Requests, c \in Cases : q = r.req /\ c = r.case
  BY <1>1 DEF Reserve, HandlerOK, PushOK, Pushing
<1> DEFINE new == [NoOperation EXCEPT !.status = "prepared", !.bound = r.known,
                                      !.content = r.loaded[c], !.era = restored]
           sent == [req |-> q, case |-> c, bound |-> r.known,
                    content |-> r.loaded[c], era |-> restored]
<1>3. UNCHANGED <<created, declared, restored, touched>>
  BY DEF Reserve, history
<1>4. CASE UNCHANGED <<identity, op, wire>>
  <2>1. \A d \in Cases : Spent(d) => Spent(d)'
    BY <1>3, <1>4, SpentKept
  <2> QED
    BY <1>3, <1>4, <2>1, AccountKept
<1>5. CASE /\ op[q][c].status = "none"
           /\ Active(c) = {}
           /\ MappingAgrees(c, r.known)
           /\ identity' = [identity EXCEPT ![c] = r.known]
           /\ op' = [op EXCEPT ![q] = [op[q] EXCEPT ![c] = new]]
           /\ wire' = wire \cup {sent}
  <2>1. /\ new.status = "prepared"
        /\ sent.req = q /\ sent.case = c /\ sent.bound = r.known /\ sent.era = restored
    BY DEF NoOperation
  <2> HIDE DEF new, sent
  <2>2. sent \notin wire
    BY <1>1, <1>5, <2>1 DEF WireOK
  <2>3. /\ op'[q][c].status = "prepared"
        /\ \A p \in Requests, d \in Cases : p # q \/ d # c => op'[p][d] = op[p][d]
        /\ identity'[c] = r.known /\ \A d \in Cases : d # c => identity'[d] = identity[d]
    BY <1>1, <1>3, <1>5, <2>1 DEF TypeOK
  <2>4. /\ identity[c] # None => r.known # None
        /\ r.known = None => ~Spent(c)
    <3>1. r.known = None => identity[c] = None
      BY <1>5 DEF MappingAgrees
    <3>2. \A p \in Requests : op[p][c].status \notin Pending
      BY <1>5 DEF Active
    <3> QED
      BY <3>1, <3>2 DEF Spent
  <2>5. Spent(c)'
    <3>1. op'[q][c].status \in Pending
      BY <2>3 DEF Pending
    <3>2. Current(q, c)' # {}
      BY <1>3, <1>5, <2>1 DEF Current
    <3> QED
      BY <1>3, <3>1, <3>2 DEF Spent
  <2>6. ASSUME NEW d \in Cases, Spent(d), d # c
        PROVE  Spent(d)'
    <3>1. \A p \in Requests : Current(p, d) \subseteq Current(p, d)'
      BY <1>3, <1>5 DEF Current
    <3> QED
      BY <1>3, <2>3, <2>6, <3>1 DEF Spent
  <2>7. IsFiniteSet(wire')
    BY <1>5, FS_AddElement DEF Account
  <2>8. ASSUME NEW d \in Cases
        PROVE  (created[d] + Cardinality(Creating(d)) <= declared[d] + Extra + Once(d))'
    <3>1. /\ Extra' = Extra /\ Extra \in Nat /\ Once(d) \in {0, 1} /\ Once(d)' \in {0, 1}
          /\ created'[d] = created[d] /\ declared'[d] = declared[d]
          /\ created[d] \in Nat /\ declared[d] \in Nat
          /\ IsFiniteSet(Creating(d)) /\ Cardinality(Creating(d)) \in Nat
          /\ created[d] + Cardinality(Creating(d)) <= declared[d] + Extra + Once(d)
      BY <1>1, <1>3, CreatingCounts DEF TypeOK, Extra, Once, Account
    <3>2. CASE d = c /\ r.known = None
      <4>1. Creating(d)' = Creating(d) \cup {sent} /\ sent \notin Creating(d)
        BY <1>5, <2>1, <2>2, <3>2 DEF Creating
      <4>2. Cardinality(Creating(d)') = Cardinality(Creating(d)) + 1
        BY <3>1, <4>1, FS_AddElement
      <4>3. Once(d) = 0 /\ Once(d)' = 1
        BY <2>4, <2>5, <3>2 DEF Once
      <4> QED
        BY <3>1, <4>2, <4>3
    <3>3. CASE d # c \/ r.known # None
      <4>1. Creating(d)' = Creating(d)
        BY <1>5, <2>1, <3>3 DEF Creating
      <4>2. Once(d) <= Once(d)'
        BY <2>5, <2>6 DEF Once
      <4> QED
        BY <3>1, <4>1, <4>2
    <3> QED
      BY <3>2, <3>3
  <2> QED
    BY <2>7, <2>8 DEF Account
<1> QED
  BY <1>2, <1>4, <1>5 DEF Reserve

\* Fewer writes are on their way.
LEMMA Arrives ==
  ASSUME IInv, Account, NEW m \in wire, wire' = wire \ {m}, restored' = restored, NEW c \in Cases
  PROVE  /\ IsFiniteSet(wire')
         /\ Extra' = Extra /\ Extra \in Nat /\ Once(c) \in {0, 1} /\ Once(c)' \in {0, 1}
         /\ created[c] \in Nat /\ declared[c] \in Nat
         /\ Cardinality(Creating(c)) \in Nat /\ Cardinality(Creating(c)') \in Nat
         /\ created[c] + Cardinality(Creating(c)) <= declared[c] + Extra + Once(c)
         /\ Cardinality(Creating(c)') = IF m.case = c /\ m.bound = None
                                        THEN Cardinality(Creating(c)) - 1
                                        ELSE Cardinality(Creating(c))
<1>1. IsFiniteSet(wire') /\ IsFiniteSet(Creating(c)) /\ Cardinality(Creating(c)) \in Nat
  BY FS_RemoveElement, CreatingCounts DEF Account
<1>2. Creating(c)' = Creating(c) \ {m} /\ (m \in Creating(c) <=> m.case = c /\ m.bound = None)
  BY DEF Creating
<1>3. /\ IsFiniteSet(Creating(c)')
      /\ Cardinality(Creating(c)') = IF m \in Creating(c) THEN Cardinality(Creating(c)) - 1
                                     ELSE Cardinality(Creating(c))
  BY <1>1, <1>2, FS_RemoveElement
<1>4. Cardinality(Creating(c)') \in Nat
  BY <1>3, FS_CardinalityType
<1> QED
  BY <1>1, <1>2, <1>3, <1>4 DEF IInv, TypeOK, Extra, Once, Account

\* A write that lands was on its way, and is spent as long as it is undecided.
LEMMA ApplyAccount ==
  ASSUME IInv, Account, NEW m \in wire, Apply(m)
  PROVE  Account'
<1>1. TypeOK /\ m.req \in Requests /\ m.case \in Cases
  BY DEF IInv, TypeOK, Write
<1>2. PICK i \in RemoteIds :
        touched' = IF m.era = restored
                   THEN [touched EXCEPT ![m.req] = [touched[m.req] EXCEPT ![m.case] = i]]
                   ELSE touched
  BY DEF Apply
<1>3. /\ wire' = wire \ {m} /\ UNCHANGED <<identity, op, restored, declared>>
      /\ created' = IF m.bound = None THEN [created EXCEPT ![m.case] = created[m.case] + 1]
                    ELSE created
  BY DEF Apply, ledger
<1>4. ASSUME NEW c \in Cases, Spent(c)
      PROVE  Spent(c)'
  <2>1. ASSUME NEW r \in Requests, touched[r][c] # None \/ Current(r, c) # {}
        PROVE  touched'[r][c] # None \/ Current(r, c)' # {}
    <3>1. CASE m \in Current(r, c)
      BY <1>1, <1>2, <3>1, CasePushAssumption DEF Current, TypeOK
    <3>2. CASE m \notin Current(r, c)
      <4>1. Current(r, c)' = Current(r, c)
        BY <1>3, <3>2 DEF Current
      <4>2. touched[r][c] # None => touched'[r][c] # None
        BY <1>1, <1>2, CasePushAssumption DEF TypeOK
      <4> QED
        BY <2>1, <4>1, <4>2
    <3> QED
      BY <3>1, <3>2
  <2> QED
    BY <1>3, <1>4, <2>1 DEF Spent
<1>5. ASSUME NEW c \in Cases
      PROVE  (created[c] + Cardinality(Creating(c)) <= declared[c] + Extra + Once(c))'
  <2>1. /\ created'[c] = IF m.case = c /\ m.bound = None THEN created[c] + 1 ELSE created[c]
        /\ declared'[c] = declared[c]
    BY <1>1, <1>3 DEF TypeOK
  <2>2. Once(c) <= Once(c)'
    BY <1>4 DEF Once
  <2> QED
    BY <1>3, <2>1, <2>2, Arrives
<1>6. IsFiniteSet(wire')
  BY <1>1, <1>3, Arrives
<1> QED
  BY <1>5, <1>6 DEF Account

\* A write that is refused is on its way no longer, and spends nothing.
LEMMA RejectAccount ==
  ASSUME IInv, Account, NEW m \in wire, Reject(m)
  PROVE  Account'
<1>1. /\ TypeOK /\ m.req \in Requests /\ m.case \in Cases
      /\ m.era = restored /\ m.bound # None => identity[m.case] # None
  BY DEF IInv, TypeOK, Write, WireOK, RowsOK, Mapped
<1>2. wire' = wire \ {m} /\ UNCHANGED <<identity, op, restored, declared, created, touched>>
  BY DEF Reject, ledger, history
<1>3. ASSUME NEW c \in Cases, Spent(c), ~(m.case = c /\ m.bound = None)
      PROVE  Spent(c)'
  <2>1. \A r \in Requests : m \notin Current(r, c) \/ identity[c] # None
    BY <1>1, <1>3 DEF Current
  <2>2. \A r \in Requests : m \notin Current(r, c) => Current(r, c)' = Current(r, c)
    BY <1>2 DEF Current
  <2> QED
    BY <1>2, <1>3, <2>1, <2>2 DEF Spent
<1>4. ASSUME NEW c \in Cases
      PROVE  (created[c] + Cardinality(Creating(c)) <= declared[c] + Extra + Once(c))'
  <2>1. created'[c] = created[c] /\ declared'[c] = declared[c]
    BY <1>2
  <2>2. ~(m.case = c /\ m.bound = None) => Once(c) <= Once(c)'
    BY <1>3 DEF Once
  <2> QED
    BY <1>2, <2>1, <2>2, Arrives
<1>5. IsFiniteSet(wire')
  BY <1>1, <1>2, Arrives
<1> QED
  BY <1>4, <1>5 DEF Account

\* A restore forgets what is spent, once.
LEMMA RestoreAccount ==
  ASSUME IInv, Account, Restore
  PROVE  Account'
<1>1. UNCHANGED <<wire, created, declared>> /\ restored' = TRUE /\ ~restored
  BY DEF Restore
<1>2. ASSUME NEW c \in Cases
      PROVE  (created[c] + Cardinality(Creating(c)) <= declared[c] + Extra + Once(c))'
  <2>1. Creating(c)' = Creating(c) /\ Extra = 0 /\ Extra' = 1
    BY <1>1 DEF Creating, Extra
  <2>2. Once(c) \in {0, 1} /\ Once(c)' \in {0, 1}
    BY DEF Once
  <2>3. /\ created[c] \in Nat /\ declared[c] \in Nat /\ Cardinality(Creating(c)) \in Nat
        /\ created[c] + Cardinality(Creating(c)) <= declared[c] + Extra + Once(c)
    BY CreatingCounts DEF IInv, TypeOK, Account
  <2> QED
    BY <1>1, <2>1, <2>2, <2>3
<1> QED
  BY <1>1, <1>2 DEF Account

LEMMA StepAccount ==
  ASSUME IInv, Account, [Next]_vars
  PROVE  Account'
<1> DEFINE Calmly == /\ UNCHANGED <<wire, created, declared, restored, touched, identity>>
                     /\ \A r \in Requests, c \in Cases :
                          op[r][c].status \in Pending => op'[r][c].status \in Pending
<1>1. ASSUME Calmly
      PROVE  Account'
  <2>1. \A c \in Cases : Spent(c) => Spent(c)'
    BY <1>1, SpentKept
  <2> QED
    BY <1>1, <2>1, AccountKept
<1>2. ASSUME NEW h \in Handlers, HandlerNext(h)
      PROVE  Account'
  <2>1. CASE Reserve(h) \/ Record(h) \/ Decide(h)
    BY <2>1, ReserveAccount, RecordAccount, DecideAccount
  <2>2. CASE ~(Reserve(h) \/ Record(h) \/ Decide(h))
    <3>1. ASSUME NEW r \in Requests, Submit(h, r)
          PROVE  Calmly
      <4>1. UNCHANGED <<wire, created, declared, restored, touched, identity, op>>
        BY <3>1 DEF Submit, history
      <4> QED
        BY <4>1
    <3>2. ASSUME Look(h) \/ Check(h) \/ Leave(h)
          PROVE  Calmly
      <4>1. UNCHANGED <<wire, created, declared, restored, touched, identity, op>>
        BY <3>2 DEF Look, Check, Leave, ledger, history
      <4> QED
        BY <4>1
    <3>3. ASSUME NEW r \in Requests, NEW c \in Cases, NEW user \in Users,
                 (\E i \in RemoteIds : FindResult(h, r, c, user, i)) \/ FindNothing(h, r, c, user)
          PROVE  Calmly
      <4>1. UNCHANGED <<wire, created, declared, restored, touched, identity, op>>
        BY <3>3 DEF FindResult, FindNothing, Review, ledger, history
      <4> QED
        BY <4>1
    <3> HIDE DEF Calmly
    <3>4. Calmly
      BY <1>2, <2>2, <3>1, <3>2, <3>3 DEF HandlerNext
    <3> QED
      BY <1>1, <3>4
  <2> QED
    BY <2>1, <2>2
<1>3. ASSUME NEW r \in Requests, NEW c \in Cases, Lapse(r, c)
      PROVE  Account'
  <2>1. \A q \in Requests, d \in Cases : op'[q][d].status = op[q][d].status
    BY <1>3 DEF Lapse, IInv, TypeOK, Operation
  <2>2. Calmly
    BY <1>3, <2>1 DEF Lapse, history
  <2> QED
    BY <1>1, <2>2
<1>4. CASE \/ \E c \in Cases : EditCase(c)
           \/ \E i \in RemoteIds : EditRemote(i)
           \/ TakeBackup
           \/ UNCHANGED vars
  <2>1. Calmly
    BY <1>4 DEF EditCase, EditRemote, TakeBackup, vars, ledger, history
  <2> QED
    BY <1>1, <2>1
<1> QED
  BY <1>2, <1>3, <1>4, ApplyAccount, RejectAccount, RestoreAccount DEF Next

LEMMA InitAccount ==
  ASSUME Init
  PROVE  Account
<1>1. \A c \in Cases : Creating(c) = {} /\ created[c] = 0 /\ declared[c] = 0
  BY DEF Init, Creating
<1>2. \A c \in Cases : Once(c) \in {0, 1}
  BY DEF Once
<1>3. Extra = 0 /\ IsFiniteSet(wire)
  BY FS_EmptySet DEF Init, Extra
<1> QED
  BY <1>1, <1>2, <1>3, FS_EmptySet DEF Account

-----------------------------------------------------------------------------
(* The theorems *)

\* Rows, handlers and writes are well typed, for any number of them.
THEOREM TypeCorrect == Spec => []TypeOK
<1>1. IInv => TypeOK
  BY DEF IInv
<1> QED
  BY <1>1, Inductive, PTL

\* The ledger tells what happened in Zentao: what failed wrote nothing, what
\* succeeded wrote the case its mapping names, and no two cases share a
\* remote case, whatever is lost, late, settled by hand or restored.
THEOREM LedgerTruthful == Spec => []LedgerTellsTruth
<1>1. IInv => LedgerTellsTruth
  <2> SUFFICES ASSUME IInv PROVE LedgerTellsTruth
    OBVIOUS
  <2>1. \A m \in wire : m.bound # None /\ m.era = restored => identity[m.case] = m.bound
    BY DEF IInv, WireOK, RowsOK, Mapped, TypeOK, Write
  <2> QED
    BY <2>1 DEF IInv, RowsOK, Mapped, Truthful, LedgerTellsTruth
<1> QED
  BY <1>1, Inductive, PTL

\* A batch is pushed with the contents and in the order it was admitted with,
\* however many handlers work on its retries.
THEOREM BatchPushedAsAdmitted == Spec => []BatchAsAdmitted
<1>1. IInv => BatchAsAdmitted
  BY DEF IInv, RowsOK, Admitted, BatchAsAdmitted
<1> QED
  BY <1>1, Inductive, PTL

\* After a restore no case is pushed before an owner confirmed to have looked.
THEOREM RestoreReviewedFirst == Spec => []ReviewAfterRestore
<1>1. IInv => ReviewAfterRestore
  BY DEF IInv
<1> QED
  BY <1>1, Inductive, PTL

\* A mapping is never replaced and a settled operation never reopened, except
\* by a restore.
THEOREM MappingsStable == Spec => MappingStable
<1> DEFINE Stable ==
      restored' = restored =>
        \A c \in Cases :
          /\ identity[c] # None => identity'[c] = identity[c]
          /\ \A r \in Requests : op[r][c].status \in Settled => op'[r][c] = op[r][c]
<1>1. ASSUME TypeOK, NEW r \in Requests, NEW c \in Cases, NEW s, NEW i,
             RecordAccepted(r, c, s, i), Recorded(r, c, s, i)
      PROVE  Stable
  <2>1. op[r][c].status \notin Settled
    BY <1>1 DEF RecordAccepted, Pending, Settled
  <2>2. \A q \in Requests, d \in Cases : q # r \/ d # c => op'[q][d] = op[q][d]
    BY <1>1 DEF Recorded, TypeOK
  <2>3. \A d \in Cases : identity[d] # None => identity'[d] = identity[d]
    BY <1>1 DEF RecordAccepted, Recorded, TypeOK
  <2> QED
    BY <2>1, <2>2, <2>3
<1>2. UNCHANGED <<identity, op>> => Stable
  OBVIOUS
<1>3. ASSUME IInv, NEW h \in Handlers, Reserve(h)
      PROVE  Stable
  <2> DEFINE r == handler[h]
             new == [NoOperation EXCEPT !.status = "prepared", !.bound = r.known,
                                        !.content = r.loaded[r.case], !.era = restored]
  <2>1. r.req \in Requests /\ r.case \in Cases
    BY <1>3 DEF IInv, HandlersOK, HandlerOK, PushOK, Pushing, Reserve
  <2>2. CASE /\ op[r.req][r.case].status = "none"
             /\ MappingAgrees(r.case, r.known)
             /\ identity' = [identity EXCEPT ![r.case] = r.known]
             /\ op' = [op EXCEPT ![r.req] = [op[r.req] EXCEPT ![r.case] = new]]
    <3> HIDE DEF new
    <3>1. \A q \in Requests, d \in Cases : q # r.req \/ d # r.case => op'[q][d] = op[q][d]
      BY <1>3, <2>1, <2>2 DEF IInv, TypeOK
    <3>2. op[r.req][r.case].status \notin Settled
      BY <2>2 DEF Settled
    <3>3. \A d \in Cases : identity[d] # None => identity'[d] = identity[d]
      BY <1>3, <2>1, <2>2 DEF IInv, TypeOK, MappingAgrees
    <3> QED
      BY <3>1, <3>2, <3>3
  <2> HIDE DEF Stable
  <2> QED
    BY <1>2, <1>3, <2>2 DEF Reserve
<1>4. ASSUME IInv, NEW h \in Handlers, Record(h) \/ Decide(h)
      PROVE  Stable
  <2>1. TypeOK /\ HandlerOK(h)
    BY <1>4 DEF IInv, HandlersOK
  <2>2. handler[h].req \in Requests /\ handler[h].case \in Cases
    BY <1>4, <2>1 DEF HandlerOK, PushOK, ReviewOK, Pushing, Record, Decide
  <2> HIDE DEF Stable
  <2>3. CASE Record(h)
    BY <1>1, <1>2, <2>1, <2>2, <2>3 DEF Record, ledger
  <2>4. CASE Decide(h)
    BY <1>1, <1>2, <2>1, <2>2, <2>4 DEF Decide, ledger
  <2> QED
    BY <1>4, <2>3, <2>4
<1>5. ASSUME NEW r \in Requests, NEW c \in Cases, Lapse(r, c), TypeOK
      PROVE  Stable
  <2>1. \A q \in Requests, d \in Cases : q # r \/ d # c => op'[q][d] = op[q][d]
    BY <1>5 DEF Lapse, TypeOK
  <2>2. op[r][c].status \notin Settled /\ UNCHANGED identity
    BY <1>5 DEF Lapse, Pending, Settled
  <2> QED
    BY <2>1, <2>2
<1>6. ASSUME Restore, TypeOK
      PROVE  restored' # restored
  <2>1. restored' = TRUE /\ ~restored
    BY <1>6 DEF Restore
  <2>2. restored \in BOOLEAN
    BY <1>6 DEF TypeOK
  <2>3. restored = FALSE
    BY <2>1, <2>2
  <2> QED
    BY <2>1, <2>3
<1>7. ASSUME IInv, [Next]_vars PROVE Stable
  <2> HIDE DEF Stable
  <2>1. CASE UNCHANGED vars
    BY <1>2, <2>1 DEF vars, ledger
  <2>2. ASSUME NEW h \in Handlers, HandlerNext(h)
        PROVE  Stable
    <3>1. CASE Reserve(h) \/ Record(h) \/ Decide(h)
      BY <1>3, <1>4, <1>7, <3>1
    <3>2. CASE \E r \in Requests : Submit(h, r)
      BY <1>2, <3>2 DEF Submit
    <3>3. CASE Look(h) \/ Check(h) \/ Leave(h)
      BY <1>2, <3>3 DEF Look, Check, Leave, ledger
    <3>4. ASSUME NEW r \in Requests, NEW c \in Cases, NEW user \in Users, NEW i \in RemoteIds,
                 FindResult(h, r, c, user, i)
          PROVE  Stable
      BY <1>2, <3>4 DEF FindResult, Review, ledger
    <3>5. ASSUME NEW r \in Requests, NEW c \in Cases, NEW user \in Users,
                 FindNothing(h, r, c, user)
          PROVE  Stable
      BY <1>2, <3>5 DEF FindNothing, Review, ledger
    <3> QED
      BY <2>2, <3>1, <3>2, <3>3, <3>4, <3>5 DEF HandlerNext
  <2>3. ASSUME NEW m \in wire, Apply(m) \/ Reject(m)
        PROVE  Stable
    BY <1>2, <2>3 DEF Apply, Reject, ledger
  <2>4. ASSUME NEW c \in Cases, EditCase(c)
        PROVE  Stable
    BY <1>2, <2>4 DEF EditCase, ledger
  <2>5. ASSUME NEW i \in RemoteIds, EditRemote(i)
        PROVE  Stable
    BY <1>2, <2>5 DEF EditRemote, ledger
  <2>6. CASE TakeBackup
    BY <1>2, <2>6 DEF TakeBackup, ledger
  <2>7. TypeOK
    BY <1>7 DEF IInv
  <2>8. CASE Restore
    BY <1>6, <2>7, <2>8 DEF Stable
  <2> QED
    BY <1>5, <1>7, <2>8, <2>1, <2>2, <2>3, <2>4, <2>5, <2>6, <2>7 DEF Next
<1>8. IInv /\ [Next]_vars => [Stable]_vars
  BY <1>7
<1> QED
  BY <1>8, Inductive, PTL DEF Spec, MappingStable

\* However requests are retried, crossed or lost, and however late a write lands, a
\* case is created in Zentao once, once more for each creation that an owner declared
\* not applied, and once for a restore that forgot it.
THEOREM CreatedAtMostOnce == Spec => []CreatedOnce
<1>1. IInv /\ Account => CreatedOnce
  <2> SUFFICES ASSUME IInv, Account, NEW c \in Cases
               PROVE  created[c] <= 1 + declared[c] + Extra
    BY DEF CreatedOnce, Extra
  <2>1. /\ created[c] \in Nat /\ declared[c] \in Nat /\ Cardinality(Creating(c)) \in Nat
        /\ Once(c) \in {0, 1} /\ Extra \in Nat
        /\ created[c] + Cardinality(Creating(c)) <= declared[c] + Extra + Once(c)
    BY CreatingCounts DEF IInv, TypeOK, Account, Once, Extra
  <2> QED
    BY <2>1
<1>2. Init => Account
  BY InitAccount
<1>3. IInv /\ Account /\ [Next]_vars => Account'
  BY StepAccount
<1> QED
  BY <1>1, <1>2, <1>3, Inductive, PTL DEF Spec
=============================================================================
