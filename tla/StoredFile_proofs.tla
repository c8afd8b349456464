--------------------------- MODULE StoredFile_proofs ---------------------------
(***************************************************************************)
(* Proofs about one stored file, for any number of verifications, cleaners *)
(* and claims: its rows are well typed, what can be read is what was       *)
(* verified, a late writer is never forgotten, and no staging object       *)
(* outlives its row.                                                       *)
(***************************************************************************)
EXTENDS StoredFile, TLAPS

-----------------------------------------------------------------------------
(* The strengthening: what the thread of a verification, the row and a     *)
(* cleaner each rely on in the parts of the others.                        *)

ThreadOK(o) ==
  /\ ops[o].state = "unused" => call[o] = "off" /\ thread[o] = "off" /\ late[o] = "no"
  /\ ops[o].state = "published" => thread[o] = "off" /\ late[o] = "no"
  /\ thread[o] \in {"copy", "check", "clean", "ok", "refused"} => late[o] = "no"
  /\ call[o] = "reject" => thread[o] = "off" /\ late[o] = "no"
  /\ Writing(o) => ops[o].state \in {"running", "abandoned"}
  /\ thread[o] = "clean" => kind = "requirement"
  /\ thread[o] = "ok" /\ ops[o].state = "running" => objects[o] = Verified

ThreadsOK == \A o \in Op : ThreadOK(o)

RowOK ==
  /\ row.object # 0 => ops[row.object].state = "published"
  /\ row.status \in Kept => row.object # 0
  /\ row.status = "deleting" => condemned
  /\ row.status = "gone" \/ ~row.staging => clock = "expired"

Claiming   == {"claimed", "active", "swept", "deleted"}
Collecting == {"collect", "collected"}

CleanerOK(c) ==
  /\ cleaner[c].pc \in Collecting =>
       /\ cleaner[c].key \in Op
       /\ ops[cleaner[c].key].state \in {"abandoned", "discarded", "dropped"}
  /\ cleaner[c].pc \in Claiming =>
       /\ clock = "expired"
       /\ cleaner[c].only => cleaner[c].staging
       /\ ~cleaner[c].only => condemned
       /\ ~cleaner[c].only /\ cleaner[c].key # 0 => ops[cleaner[c].key].state = "published"
  /\ cleaner[c].pc = "swept" => ~cleaner[c].only
  /\ cleaner[c].pc \in {"swept", "deleted"} /\ cleaner[c].staging => staging = "none"

CleanersOK == \A c \in Cleaner : CleanerOK(c)

IInv == /\ TypeOK /\ ThreadsOK /\ RowOK /\ CleanersOK
        /\ EvidenceKept /\ StagingReclaimed

-----------------------------------------------------------------------------
(* Types *)

Leasing(r) == r.leased => r.cleanup # 0

LEMMA OpInRange == 0 \in 0..MaxOps /\ \A o \in Op : o \in 0..MaxOps /\ o # 0
BY BoundsAssumption DEF Op

LEMMA NextClaim ==
  ASSUME claims \in 0..MaxClaims, claims < MaxClaims
  PROVE  claims + 1 \in 0..MaxClaims /\ claims + 1 # 0
BY BoundsAssumption

\* The rows that the transactions write are rows again.
Sound(r) == r \in Row /\ Leasing(r)

LEMMA StatusEdit ==
  ASSUME NEW r, Sound(r), NEW s \in Statuses
  PROVE  /\ Sound([r EXCEPT !.status = s])
         /\ Sound([r EXCEPT !.status = s, !.bound = TRUE])
BY DEF Sound, Row, Statuses, Kept, Leasing

LEMMA FreshSound == \A k \in Kinds \cup {"upload"} : Sound(FreshRow(k))
BY BoundsAssumption DEF Sound, Row, Statuses, Kept, Leasing, FreshRow

LEMMA NoRowSound == Sound(NoRow)
<1>1. Sound(FreshRow("upload"))
  BY FreshSound
<1> QED
  BY <1>1, StatusEdit DEF NoRow, Statuses, Kept

LEMMA VerificationEdit ==
  ASSUME NEW r, Sound(r), NEW o \in 0..MaxOps
  PROVE  Sound([r EXCEPT !.verification = o])
BY DEF Sound, Row, Leasing

LEMMA PublishEdit ==
  ASSUME NEW r, Sound(r), NEW o \in 0..MaxOps, NEW s \in {"good", "clean"}
  PROVE  Sound([r EXCEPT !.status = "ready", !.object = o, !.sha = s])
BY DEF Sound, Row, Statuses, Kept, Leasing

LEMMA LeaseEdit ==
  ASSUME NEW r, Sound(r)
  PROVE  /\ Sound([r EXCEPT !.leased = FALSE])
         /\ r.cleanup # 0 => Sound([r EXCEPT !.leased = TRUE])
BY DEF Sound, Row, Leasing

LEMMA UnclaimEdit ==
  ASSUME NEW r, Sound(r)
  PROVE  /\ Sound([r EXCEPT !.cleanup = 0, !.leased = FALSE])
         /\ Sound([r EXCEPT !.staging = FALSE])
<1>1. Sound([r EXCEPT !.cleanup = 0, !.leased = FALSE])
  <2>1. 0 \in 0..MaxClaims
    BY BoundsAssumption
  <2>2. [r EXCEPT !.cleanup = 0, !.leased = FALSE] \in Row
    BY <2>1 DEF Sound, Row
  <2>3. [r EXCEPT !.cleanup = 0, !.leased = FALSE].leased = FALSE
    BY DEF Sound, Row
  <2> QED
    BY <2>2, <2>3 DEF Sound, Leasing
<1>2. Sound([r EXCEPT !.staging = FALSE])
  <2>1. [r EXCEPT !.staging = FALSE] \in Row
    BY DEF Sound, Row
  <2>2. /\ [r EXCEPT !.staging = FALSE].leased = r.leased
        /\ [r EXCEPT !.staging = FALSE].cleanup = r.cleanup
    BY DEF Sound, Row
  <2> QED
    BY <2>1, <2>2 DEF Sound, Leasing
<1> QED
  BY <1>1, <1>2

LEMMA ClaimEdit ==
  ASSUME NEW r, Sound(r), NEW g \in 0..MaxClaims, g # 0
  PROVE  /\ Sound([r EXCEPT !.cleanup = g, !.leased = TRUE])
         /\ Sound([r EXCEPT !.status = "deleting", !.cleanup = g, !.leased = TRUE])
BY DEF Sound, Row, Statuses, Kept, Leasing

LEMMA OpEdits ==
  /\ \A s \in States : Ended(s) \in OpRow
  /\ \A x \in OpRow :
       /\ [x EXCEPT !.overdue = TRUE] \in OpRow
       /\ \A s \in States : [x EXCEPT !.state = s] \in OpRow
BY DEF OpRow, Ended, States

LEMMA JobEdits ==
  /\ Idle \in Job
  /\ \A p \in Phase, k \in 0..MaxOps : [Idle EXCEPT !.pc = p, !.key = k] \in Job
  /\ \A j \in Job, p \in Phase : [j EXCEPT !.pc = p] \in Job
<1>1. Idle \in Job
  BY BoundsAssumption DEF Job, Idle, Phase
<1>2. \A j \in Job, p \in Phase, k \in 0..MaxOps : [j EXCEPT !.pc = p, !.key = k] \in Job
  BY DEF Job
<1>3. \A j \in Job, p \in Phase : [j EXCEPT !.pc = p] \in Job
  BY DEF Job
<1> QED
  BY <1>1, <1>2, <1>3

LEMMA NewJob ==
  ASSUME NEW p \in Phase, NEW g \in 0..MaxClaims, NEW k \in 0..MaxOps,
         NEW s \in BOOLEAN, NEW b \in BOOLEAN
  PROVE  [pc |-> p, gen |-> g, key |-> k, staging |-> s, only |-> b] \in Job
BY DEF Job

LEMMA InitTyped == Init => TypeOK
<1> SUFFICES ASSUME Init PROVE TypeOK
  OBVIOUS
<1>1. row \in Row /\ Leasing(row)
  BY FreshSound DEF Init, Sound
<1>2. ops \in [Op -> OpRow]
  BY DEF Init, OpRow, States
<1>3. cleaner \in [Cleaner -> Job]
  BY JobEdits DEF Init
<1>4. /\ kind \in Kinds /\ clock \in {"ticket", "closed", "expired"}
      /\ call \in [Op -> {"off", "wait", "reject"}]
      /\ thread \in [Op -> {"off", "copy", "check", "clean", "ok", "refused", "failed"}]
      /\ late \in [Op -> {"no", "copy", "put"}]
  BY DEF Init
<1>5. /\ staging \in Content /\ objects \in [Op -> Content]
      /\ condemned \in BOOLEAN
  BY DEF Init, Content
<1>6. claims \in 0..MaxClaims
  BY BoundsAssumption DEF Init
<1> QED
  BY <1>1, <1>2, <1>3, <1>4, <1>5, <1>6 DEF TypeOK, Leasing

\* A claim has a generation.
Numbered == \A c \in Cleaner : cleaner[c].pc \in Claiming => cleaner[c].gen # 0

LEMMA NextTyped == TypeOK /\ Numbered /\ [Next]_vars => TypeOK'
<1> SUFFICES ASSUME TypeOK, Numbered, [Next]_vars PROVE TypeOK'
  OBVIOUS
<1> USE DEF TypeOK, Leasing, States, Statuses, Kept, Content, Phase,
            vars, rows, work, store, cleanup
<1>1. ASSUME NEW v \in {"good", "bad"}, Upload(v) PROVE TypeOK'
  BY <1>1 DEF Upload
<1>2. CASE Age
  BY <1>2 DEF Age, Later
<1>3. CASE LeaseEnds
  BY <1>3, LeaseEdit DEF LeaseEnds, Sound
<1>4. CASE Attach
  BY <1>4, StatusEdit DEF Attach, Sound
<1>5. CASE Archive
  BY <1>5, StatusEdit DEF Archive, Sound
<1>6. ASSUME NEW o \in Op, DeadlinePasses(o) PROVE TypeOK'
  BY <1>6, OpEdits DEF DeadlinePasses
<1>7. ASSUME NEW o \in Op, Begin(o) PROVE TypeOK'
  <2>1. Fence(row.verification) \in [Op -> OpRow]
    BY OpEdits DEF Fence
  <2>2. ops' \in [Op -> OpRow]
    BY <1>7, <2>1, OpEdits DEF Begin
  <2>3. Sound(row')
    BY <1>7, OpInRange, VerificationEdit DEF Begin, Sound
  <2> QED
    BY <1>7, <2>2, <2>3 DEF Begin, Sound
<1>8. ASSUME NEW o \in Op, Copy(o) PROVE TypeOK'
  BY <1>8 DEF Copy, ThreadStep
<1>9. ASSUME NEW o \in Op, WrongSize(o) PROVE TypeOK'
  BY <1>9 DEF WrongSize, ThreadStep, Returns
<1>10. ASSUME NEW o \in Op, Approve(o) PROVE TypeOK'
  BY <1>10 DEF Approve, ThreadStep, Returns
<1>11. ASSUME NEW o \in Op, Refuse(o) PROVE TypeOK'
  BY <1>11 DEF Refuse, ThreadStep, Returns
<1>12. ASSUME NEW o \in Op, Sanitise(o) PROVE TypeOK'
  BY <1>12 DEF Sanitise, ThreadStep, Returns
<1>13. ASSUME NEW o \in Op, Break(o) PROVE TypeOK'
  BY <1>13 DEF Break, ThreadStep, Returns
<1>14. ASSUME NEW o \in Op, Land(o) PROVE TypeOK'
  BY <1>14 DEF Land, ThreadStep
<1>15. ASSUME NEW o \in Op, Publish(o) PROVE TypeOK'
  <2>1. Sound(row')
    BY <1>15, OpInRange, PublishEdit DEF Publish, Sound, Verified
  <2> QED
    BY <1>15, <2>1, OpEdits DEF Publish, Ends, Sound
<1>16. ASSUME NEW o \in Op, Reject(o) PROVE TypeOK'
  BY <1>16 DEF Reject
<1>17. ASSUME NEW o \in Op, Discard(o) PROVE TypeOK'
  <2>1. Sound(row')
    <3>1. Sound(row) /\ Sound([row EXCEPT !.verification = 0])
      BY OpInRange, VerificationEdit DEF Sound
    <3>2. row' = row \/ row' = [row EXCEPT !.verification = 0]
      BY <1>17 DEF Discard
    <3> QED
      BY <3>1, <3>2
  <2>2. ops' \in [Op -> OpRow]
    BY <1>17, OpEdits DEF Discard
  <2>3. call' \in [Op -> {"off", "wait", "reject"}]
    BY <1>17 DEF Discard, Ends
  <2>4. thread' \in [Op -> {"off", "copy", "check", "clean", "ok", "refused", "failed"}]
    BY <1>17 DEF Discard, Ends
  <2> QED
    BY <1>17, <2>1, <2>2, <2>3, <2>4 DEF Discard, Sound
<1>18. ASSUME NEW o \in Op, Cancel(o) PROVE TypeOK'
  BY <1>18 DEF Cancel, Ends
<1>19. ASSUME NEW c \in Cleaner, NEW o \in Op, Collect(c, o) PROVE TypeOK'
  BY <1>19, OpInRange, OpEdits, JobEdits DEF Collect, Fence
<1>20. ASSUME NEW c \in Cleaner, CollectDelete(c) PROVE TypeOK'
  BY <1>20, JobEdits DEF CollectDelete
<1>21. ASSUME NEW c \in Cleaner, CollectDrop(c) PROVE TypeOK'
  BY <1>21, OpEdits, JobEdits DEF CollectDrop, Droppable
<1>22. ASSUME NEW c \in Cleaner, Claim(c) PROVE TypeOK'
  <2>1. claims' \in 0..MaxClaims /\ claims' # 0
    BY <1>22, NextClaim DEF Claim
  <2>2. Sound(row')
    <3>1. Sound([row EXCEPT !.status = "deleting", !.cleanup = claims', !.leased = TRUE])
      BY <2>1, ClaimEdit DEF Sound
    <3> QED
      BY <1>22, <3>1 DEF Claim
  <2>3. row.object \in 0..MaxOps /\ row.staging \in BOOLEAN
    BY DEF Row
  <2>4. cleaner' \in [Cleaner -> Job]
    BY <1>22, <2>1, <2>3, NewJob DEF Claim
  <2> QED
    BY <1>22, <2>1, <2>2, <2>4 DEF Claim, Sound
<1>23. ASSUME NEW c \in Cleaner, Preserve(c) PROVE TypeOK'
  BY <1>23, StatusEdit DEF Preserve, Sound
<1>24. ASSUME NEW c \in Cleaner, ClaimStaging(c) PROVE TypeOK'
  <2>1. claims' \in 0..MaxClaims /\ claims' # 0
    BY <1>24, NextClaim DEF ClaimStaging
  <2>2. Sound(row')
    <3>1. Sound([row EXCEPT !.cleanup = claims', !.leased = TRUE])
      BY <2>1, ClaimEdit DEF Sound
    <3> QED
      BY <1>24, <3>1 DEF ClaimStaging
  <2>3. row.object \in 0..MaxOps
    BY DEF Row
  <2>4. cleaner' \in [Cleaner -> Job]
    BY <1>24, <2>1, <2>3, NewJob DEF ClaimStaging
  <2> QED
    BY <1>24, <2>1, <2>2, <2>4 DEF ClaimStaging, Sound
<1>25. ASSUME NEW c \in Cleaner, Activate(c) PROVE TypeOK'
  <2>1. cleaner' \in [Cleaner -> Job]
    <3>1. CASE StillDue(c)
      <4>1. [cleaner[c] EXCEPT !.pc = "active"] \in Job
        BY JobEdits
      <4>2. cleaner' = [cleaner EXCEPT ![c] = [cleaner[c] EXCEPT !.pc = "active"]]
        BY <1>25, <3>1 DEF Activate
      <4> QED
        BY <4>1, <4>2
    <3>2. CASE ~StillDue(c)
      BY <1>25, <3>2, JobEdits DEF Activate
    <3> QED
      BY <3>1, <3>2
  <2>2. Sound(row')
    <3>1. CASE StillDue(c)
      <4>1. row.cleanup # 0
        BY <1>25, <3>1 DEF Activate, StillDue, Owns, Numbered, Claiming
      <4>2. Sound([row EXCEPT !.leased = TRUE])
        BY <4>1, LeaseEdit DEF Sound
      <4> QED
        BY <1>25, <3>1, <4>2 DEF Activate
    <3>2. CASE ~StillDue(c)
      BY <1>25, <3>2 DEF Activate, Sound
    <3> QED
      BY <3>1, <3>2
  <2> QED
    BY <1>25, <2>1, <2>2 DEF Activate, Sound
<1>26. ASSUME NEW c \in Cleaner, DeleteStaging(c) PROVE TypeOK'
  BY <1>26, JobEdits DEF DeleteStaging
<1>27. ASSUME NEW c \in Cleaner, DeleteObject(c) PROVE TypeOK'
  BY <1>27, JobEdits DEF DeleteObject
<1>28. ASSUME NEW c \in Cleaner, Finish(c) PROVE TypeOK'
  <2>1. Sound(row)
    BY DEF Sound
  <2>4. Sound(Unclaimed)
    BY <2>1, UnclaimEdit DEF Unclaimed
  <2>2. Sound(Receipt(c))
    BY <2>1, <2>4, UnclaimEdit, NoRowSound DEF Receipt
  <2>3. Sound(row')
    BY <1>28, <2>1, <2>2 DEF Finish
  <2> QED
    BY <1>28, <2>3, JobEdits DEF Finish, Sound
<1>29. ASSUME NEW c \in Cleaner, Fail(c) PROVE TypeOK'
  <2>1. Sound(row')
    BY <1>29, UnclaimEdit DEF Fail, Unclaimed, Sound
  <2> QED
    BY <1>29, <2>1, JobEdits DEF Fail, Sound
<1>30. ASSUME NEW c \in Cleaner, Leave(c) PROVE TypeOK'
  BY <1>30, JobEdits DEF Leave
<1>31. CASE UNCHANGED vars
  BY <1>31
<1> QED
  BY <1>1, <1>2, <1>3, <1>4, <1>5, <1>6, <1>7, <1>8, <1>9, <1>10, <1>11, <1>12, <1>13, <1>14, <1>15, <1>16, <1>17, <1>18, <1>19, <1>20, <1>21, <1>22, <1>23, <1>24, <1>25, <1>26, <1>27, <1>28, <1>29, <1>30, <1>31 DEF Next, Verification, Cleaning

-----------------------------------------------------------------------------
(* Threads *)

LEMMA ThreadsKept == IInv /\ [Next]_vars => ThreadsOK'
<1> SUFFICES ASSUME IInv, [Next]_vars, NEW p \in Op PROVE ThreadOK(p)'
  BY DEF ThreadsOK
<1>a. /\ ThreadOK(p)
      /\ ops \in [Op -> OpRow] /\ row.verification \in 0..MaxOps
      /\ call \in [Op -> {"off", "wait", "reject"}]
      /\ thread \in [Op -> {"off", "copy", "check", "clean", "ok", "refused", "failed"}]
      /\ late \in [Op -> {"no", "copy", "put"}]
      /\ objects \in [Op -> Content]
  BY DEF IInv, TypeOK, ThreadsOK, Row
<1> USE DEF ThreadOK, Writing, Verified, rows, work, store, cleanup
<1>1. ASSUME NEW v \in {"good", "bad"}, Upload(v) PROVE ThreadOK(p)'
  BY <1>1, <1>a DEF Upload
<1>2. CASE Age
  BY <1>2, <1>a DEF Age
<1>3. CASE LeaseEnds
  BY <1>3, <1>a DEF LeaseEnds
<1>4. CASE Attach
  BY <1>4, <1>a DEF Attach
<1>5. CASE Archive
  BY <1>5, <1>a DEF Archive
<1>6. ASSUME NEW o \in Op, DeadlinePasses(o) PROVE ThreadOK(p)'
  BY <1>6, <1>a DEF DeadlinePasses, OpRow
<1>7. ASSUME NEW o \in Op, Begin(o) PROVE ThreadOK(p)'
  BY <1>7, <1>a DEF Begin, Fresh, Running, Fence, Busy, Ended, OpRow
<1>8. ASSUME NEW o \in Op, Copy(o) PROVE ThreadOK(p)'
  BY <1>8, <1>a DEF Copy, ThreadStep
<1>9. ASSUME NEW o \in Op, WrongSize(o) PROVE ThreadOK(p)'
  BY <1>9, <1>a DEF WrongSize, ThreadStep, Returns
<1>10. ASSUME NEW o \in Op, Approve(o) PROVE ThreadOK(p)'
  BY <1>10, <1>a DEF Approve, ThreadStep, Returns
<1>11. ASSUME NEW o \in Op, Refuse(o) PROVE ThreadOK(p)'
  BY <1>11, <1>a DEF Refuse, ThreadStep, Returns
<1>12. ASSUME NEW o \in Op, Sanitise(o) PROVE ThreadOK(p)'
  BY <1>12, <1>a DEF Sanitise, ThreadStep, Returns
<1>13. ASSUME NEW o \in Op, Break(o) PROVE ThreadOK(p)'
  BY <1>13, <1>a DEF Break, ThreadStep, Returns
<1>14. ASSUME NEW o \in Op, Land(o) PROVE ThreadOK(p)'
  BY <1>14, <1>a DEF Land, ThreadStep
<1>15. ASSUME NEW o \in Op, Publish(o) PROVE ThreadOK(p)'
  BY <1>15, <1>a DEF Publish, Current, Ends, Ended
<1>16. ASSUME NEW o \in Op, Reject(o) PROVE ThreadOK(p)'
  BY <1>16, <1>a DEF Reject
<1>17. ASSUME NEW o \in Op, Discard(o) PROVE ThreadOK(p)'
  <2>1. CASE ops[o].state \in {"published", "dropped"}
    BY <1>17, <2>1, <1>a DEF Discard, Ends
  <2>2. CASE ops[o].state \notin {"published", "dropped"}
    BY <1>17, <2>2, <1>a DEF Discard, Ends, Settled, Ended
  <2> QED
    BY <2>1, <2>2
<1>18. ASSUME NEW o \in Op, Cancel(o) PROVE ThreadOK(p)'
  BY <1>18, <1>a DEF Cancel, Ends
<1>19. ASSUME NEW c \in Cleaner, NEW o \in Op, Collect(c, o) PROVE ThreadOK(p)'
  BY <1>19, <1>a DEF Collect, Garbage, Fence, Running, Ended
<1>20. ASSUME NEW c \in Cleaner, CollectDelete(c) PROVE ThreadOK(p)'
  BY <1>20, <1>a DEF CollectDelete, IInv, CleanersOK, CleanerOK, Collecting, Claiming, Op
<1>21. ASSUME NEW c \in Cleaner, CollectDrop(c) PROVE ThreadOK(p)'
  BY <1>21, <1>a DEF CollectDrop, Droppable, OpRow
<1>22. ASSUME NEW c \in Cleaner, Claim(c) PROVE ThreadOK(p)'
  BY <1>22, <1>a DEF Claim
<1>23. ASSUME NEW c \in Cleaner, Preserve(c) PROVE ThreadOK(p)'
  BY <1>23, <1>a DEF Preserve
<1>24. ASSUME NEW c \in Cleaner, ClaimStaging(c) PROVE ThreadOK(p)'
  BY <1>24, <1>a DEF ClaimStaging
<1>25. ASSUME NEW c \in Cleaner, Activate(c) PROVE ThreadOK(p)'
  BY <1>25, <1>a DEF Activate
<1>26. ASSUME NEW c \in Cleaner, DeleteStaging(c) PROVE ThreadOK(p)'
  BY <1>26, <1>a DEF DeleteStaging
<1>27. ASSUME NEW c \in Cleaner, DeleteObject(c) PROVE ThreadOK(p)'
  BY <1>27, <1>a DEF DeleteObject, IInv, CleanersOK, CleanerOK, Collecting, Claiming, Op
<1>28. ASSUME NEW c \in Cleaner, Finish(c) PROVE ThreadOK(p)'
  BY <1>28, <1>a DEF Finish
<1>29. ASSUME NEW c \in Cleaner, Fail(c) PROVE ThreadOK(p)'
  BY <1>29, <1>a DEF Fail
<1>30. ASSUME NEW c \in Cleaner, Leave(c) PROVE ThreadOK(p)'
  BY <1>30, <1>a DEF Leave
<1>31. CASE UNCHANGED vars
  BY <1>31, <1>a DEF vars
<1> QED
  BY <1>1, <1>2, <1>3, <1>4, <1>5, <1>6, <1>7, <1>8, <1>9, <1>10, <1>11, <1>12, <1>13, <1>14, <1>15, <1>16, <1>17, <1>18, <1>19, <1>20, <1>21, <1>22, <1>23, <1>24, <1>25, <1>26, <1>27, <1>28, <1>29, <1>30, <1>31 DEF Next, Verification, Cleaning

-----------------------------------------------------------------------------
(* The row, the cleaners and what can be read *)

\* What is discarded was not published, and stays what the collector looks for.
LEMMA DiscardKeeps ==
  ASSUME ops \in [Op -> OpRow], NEW o \in Op, Discard(o), NEW q \in Op
  PROVE  /\ ops[q].state = "published" => ops'[q].state = "published"
         /\ ops[q].state \in {"abandoned", "discarded", "dropped"} =>
              ops'[q].state \in {"abandoned", "discarded", "dropped"}
<1>1. CASE ops[o].state \in {"published", "dropped"}
  BY <1>1 DEF Discard, rows
<1>2. CASE ops[o].state \notin {"published", "dropped"}
  BY <1>2 DEF Discard, Ended
<1> QED
  BY <1>1, <1>2

LEMMA RowKept == IInv /\ [Next]_vars => RowOK'
<1> SUFFICES ASSUME IInv, [Next]_vars PROVE RowOK'
  OBVIOUS
<1>a. /\ RowOK /\ row \in Row /\ ops \in [Op -> OpRow]
      /\ \A c \in Cleaner : CleanerOK(c)
  BY DEF IInv, TypeOK, CleanersOK
<1> USE DEF RowOK, Row, OpRow, Op, Kept, rows, work, store, cleanup
<1>1. ASSUME NEW v \in {"good", "bad"}, Upload(v) PROVE RowOK'
  BY <1>1, <1>a DEF Upload
<1>2. CASE Age
  BY <1>2, <1>a DEF Age, Later
<1>3. CASE LeaseEnds
  BY <1>3, <1>a DEF LeaseEnds
<1>4. CASE Attach
  BY <1>4, <1>a DEF Attach
<1>5. CASE Archive
  BY <1>5, <1>a DEF Archive
<1>6. ASSUME NEW o \in Op, DeadlinePasses(o) PROVE RowOK'
  BY <1>6, <1>a DEF DeadlinePasses
<1>7. ASSUME NEW o \in Op, Begin(o) PROVE RowOK'
  BY <1>7, <1>a DEF Begin, Fresh, Running, Fence, Busy, Ended
<1>8. ASSUME NEW o \in Op, Copy(o) PROVE RowOK'
  BY <1>8, <1>a DEF Copy, ThreadStep
<1>9. ASSUME NEW o \in Op, WrongSize(o) PROVE RowOK'
  BY <1>9, <1>a DEF WrongSize, ThreadStep, Returns
<1>10. ASSUME NEW o \in Op, Approve(o) PROVE RowOK'
  BY <1>10, <1>a DEF Approve, ThreadStep, Returns
<1>11. ASSUME NEW o \in Op, Refuse(o) PROVE RowOK'
  BY <1>11, <1>a DEF Refuse, ThreadStep, Returns
<1>12. ASSUME NEW o \in Op, Sanitise(o) PROVE RowOK'
  BY <1>12, <1>a DEF Sanitise, ThreadStep, Returns
<1>13. ASSUME NEW o \in Op, Break(o) PROVE RowOK'
  BY <1>13, <1>a DEF Break, ThreadStep, Returns
<1>14. ASSUME NEW o \in Op, Land(o) PROVE RowOK'
  BY <1>14, <1>a DEF Land, ThreadStep
<1>15. ASSUME NEW o \in Op, Publish(o) PROVE RowOK'
  BY <1>15, <1>a DEF Publish, Current, Ends, Ended, Verified
<1>16. ASSUME NEW o \in Op, Reject(o) PROVE RowOK'
  BY <1>16, <1>a DEF Reject
<1>17. ASSUME NEW o \in Op, Discard(o) PROVE RowOK'
  <2>1. row' = row \/ row' = [row EXCEPT !.verification = 0]
    BY <1>17 DEF Discard
  <2>2. \A q \in Op : ops[q].state = "published" => ops'[q].state = "published"
    BY <1>17, <1>a, DiscardKeeps
  <2>3. UNCHANGED <<clock, condemned>>
    BY <1>17 DEF Discard
  <2> QED
    BY <2>1, <2>2, <2>3, <1>a
<1>18. ASSUME NEW o \in Op, Cancel(o) PROVE RowOK'
  BY <1>18, <1>a DEF Cancel, Ends
<1>19. ASSUME NEW c \in Cleaner, NEW o \in Op, Collect(c, o) PROVE RowOK'
  BY <1>19, <1>a DEF Collect, Garbage, Fence, Running, Ended
<1>20. ASSUME NEW c \in Cleaner, CollectDelete(c) PROVE RowOK'
  BY <1>20, <1>a DEF CollectDelete
<1>21. ASSUME NEW c \in Cleaner, CollectDrop(c) PROVE RowOK'
  BY <1>21, <1>a DEF CollectDrop, Droppable
<1>22. ASSUME NEW c \in Cleaner, Claim(c) PROVE RowOK'
  BY <1>22, <1>a DEF Claim, Candidate, Free, Preserved
<1>23. ASSUME NEW c \in Cleaner, Preserve(c) PROVE RowOK'
  BY <1>23, <1>a DEF Preserve, Candidate, Free, Preserved
<1>24. ASSUME NEW c \in Cleaner, ClaimStaging(c) PROVE RowOK'
  BY <1>24, <1>a DEF ClaimStaging, Free
<1>25. ASSUME NEW c \in Cleaner, Activate(c) PROVE RowOK'
  BY <1>25, <1>a DEF Activate, StillDue, Owns
<1>26. ASSUME NEW c \in Cleaner, DeleteStaging(c) PROVE RowOK'
  BY <1>26, <1>a DEF DeleteStaging
<1>27. ASSUME NEW c \in Cleaner, DeleteObject(c) PROVE RowOK'
  BY <1>27, <1>a DEF DeleteObject
<1>28. ASSUME NEW c \in Cleaner, Finish(c) PROVE RowOK'
  BY <1>28, <1>a DEF Finish, Receipt, StillDue, Owns, Unclaimed, NoRow, FreshRow, CleanerOK, Claiming
<1>29. ASSUME NEW c \in Cleaner, Fail(c) PROVE RowOK'
  BY <1>29, <1>a DEF Fail, Owns, Unclaimed, CleanerOK, Claiming
<1>30. ASSUME NEW c \in Cleaner, Leave(c) PROVE RowOK'
  BY <1>30, <1>a DEF Leave
<1>31. CASE UNCHANGED vars
  BY <1>31, <1>a DEF vars
<1> QED
  BY <1>1, <1>2, <1>3, <1>4, <1>5, <1>6, <1>7, <1>8, <1>9, <1>10, <1>11, <1>12, <1>13, <1>14, <1>15, <1>16, <1>17, <1>18, <1>19, <1>20, <1>21, <1>22, <1>23, <1>24, <1>25, <1>26, <1>27, <1>28, <1>29, <1>30, <1>31 DEF Next, Verification, Cleaning

LEMMA CleanersKept == IInv /\ [Next]_vars => CleanersOK'
<1> SUFFICES ASSUME IInv, [Next]_vars, NEW d \in Cleaner PROVE CleanerOK(d)'
  BY DEF CleanersOK
<1>a. /\ CleanerOK(d) /\ RowOK
      /\ cleaner \in [Cleaner -> Job] /\ cleaner[d].key \in 0..MaxOps
      /\ ops \in [Op -> OpRow] /\ row \in Row /\ clock \in {"ticket", "closed", "expired"}
  BY DEF IInv, TypeOK, CleanersOK, Job
<1> USE DEF CleanerOK, Collecting, Claiming, Op, OpRow, rows, work, store, cleanup
<1>1. ASSUME NEW v \in {"good", "bad"}, Upload(v) PROVE CleanerOK(d)'
  BY <1>1, <1>a DEF Upload
<1>2. CASE Age
  BY <1>2, <1>a DEF Age, Later
<1>3. CASE LeaseEnds
  BY <1>3, <1>a DEF LeaseEnds
<1>4. CASE Attach
  BY <1>4, <1>a DEF Attach
<1>5. CASE Archive
  BY <1>5, <1>a DEF Archive
<1>6. ASSUME NEW o \in Op, DeadlinePasses(o) PROVE CleanerOK(d)'
  BY <1>6, <1>a DEF DeadlinePasses
<1>7. ASSUME NEW o \in Op, Begin(o) PROVE CleanerOK(d)'
  BY <1>7, <1>a DEF Begin, Fresh, Running, Fence, Busy, Ended
<1>8. ASSUME NEW o \in Op, Copy(o) PROVE CleanerOK(d)'
  BY <1>8, <1>a DEF Copy, ThreadStep
<1>9. ASSUME NEW o \in Op, WrongSize(o) PROVE CleanerOK(d)'
  BY <1>9, <1>a DEF WrongSize, ThreadStep, Returns
<1>10. ASSUME NEW o \in Op, Approve(o) PROVE CleanerOK(d)'
  BY <1>10, <1>a DEF Approve, ThreadStep, Returns
<1>11. ASSUME NEW o \in Op, Refuse(o) PROVE CleanerOK(d)'
  BY <1>11, <1>a DEF Refuse, ThreadStep, Returns
<1>12. ASSUME NEW o \in Op, Sanitise(o) PROVE CleanerOK(d)'
  BY <1>12, <1>a DEF Sanitise, ThreadStep, Returns
<1>13. ASSUME NEW o \in Op, Break(o) PROVE CleanerOK(d)'
  BY <1>13, <1>a DEF Break, ThreadStep, Returns
<1>14. ASSUME NEW o \in Op, Land(o) PROVE CleanerOK(d)'
  BY <1>14, <1>a DEF Land, ThreadStep
<1>15. ASSUME NEW o \in Op, Publish(o) PROVE CleanerOK(d)'
  BY <1>15, <1>a DEF Publish, Current, Ends, Ended, Verified
<1>16. ASSUME NEW o \in Op, Reject(o) PROVE CleanerOK(d)'
  BY <1>16, <1>a DEF Reject
<1>17. ASSUME NEW o \in Op, Discard(o) PROVE CleanerOK(d)'
  <2>1. cleaner[d].key # 0 => cleaner[d].key \in Op
    BY <1>a
  <2>2. \A q \in Op :
          /\ ops[q].state = "published" => ops'[q].state = "published"
          /\ ops[q].state \in {"abandoned", "discarded", "dropped"} =>
               ops'[q].state \in {"abandoned", "discarded", "dropped"}
    BY <1>17, <1>a, DiscardKeeps
  <2>3. UNCHANGED <<clock, cleaner, condemned, staging>>
    BY <1>17 DEF Discard
  <2> QED
    BY <2>1, <2>2, <2>3, <1>a
<1>18. ASSUME NEW o \in Op, Cancel(o) PROVE CleanerOK(d)'
  BY <1>18, <1>a DEF Cancel, Ends
<1>19. ASSUME NEW c \in Cleaner, NEW o \in Op, Collect(c, o) PROVE CleanerOK(d)'
  BY <1>19, <1>a DEF Collect, Garbage, Fence, Running, Ended, Job, Idle, RowOK, Row
<1>20. ASSUME NEW c \in Cleaner, CollectDelete(c) PROVE CleanerOK(d)'
  BY <1>20, <1>a DEF CollectDelete, Job, Idle, RowOK, Row
<1>21. ASSUME NEW c \in Cleaner, CollectDrop(c) PROVE CleanerOK(d)'
  BY <1>21, <1>a DEF CollectDrop, Droppable, Job, Idle, RowOK, Row
<1>22. ASSUME NEW c \in Cleaner, Claim(c) PROVE CleanerOK(d)'
  BY <1>22, <1>a DEF Claim, Candidate, Free, Preserved, Job, Idle, RowOK, Row
<1>23. ASSUME NEW c \in Cleaner, Preserve(c) PROVE CleanerOK(d)'
  BY <1>23, <1>a DEF Preserve, Candidate, Free, Preserved, Job, Idle, RowOK, Row
<1>24. ASSUME NEW c \in Cleaner, ClaimStaging(c) PROVE CleanerOK(d)'
  BY <1>24, <1>a DEF ClaimStaging, Free, Job, Idle, RowOK, Row
<1>25. ASSUME NEW c \in Cleaner, Activate(c) PROVE CleanerOK(d)'
  <2>1. \/ cleaner' = [cleaner EXCEPT ![c].pc = "active"]
        \/ cleaner' = [cleaner EXCEPT ![c] = Idle]
    BY <1>25 DEF Activate
  <2>2. cleaner[c].pc = "claimed" /\ UNCHANGED <<clock, ops, condemned, staging>>
    BY <1>25 DEF Activate
  <2>3. CASE cleaner' = [cleaner EXCEPT ![c].pc = "active"]
    BY <2>2, <2>3, <1>a DEF Job
  <2>4. CASE cleaner' = [cleaner EXCEPT ![c] = Idle]
    BY <2>2, <2>4, <1>a DEF Idle
  <2> QED
    BY <2>1, <2>3, <2>4
<1>26. ASSUME NEW c \in Cleaner, DeleteStaging(c) PROVE CleanerOK(d)'
  BY <1>26, <1>a DEF DeleteStaging, Job, Idle, RowOK, Row
<1>27. ASSUME NEW c \in Cleaner, DeleteObject(c) PROVE CleanerOK(d)'
  BY <1>27, <1>a DEF DeleteObject, Job, Idle, RowOK, Row
<1>28. ASSUME NEW c \in Cleaner, Finish(c) PROVE CleanerOK(d)'
  BY <1>28, <1>a DEF Finish, Receipt, StillDue, Owns, Unclaimed, NoRow, FreshRow, Job, Idle, RowOK, Row
<1>29. ASSUME NEW c \in Cleaner, Fail(c) PROVE CleanerOK(d)'
  BY <1>29, <1>a DEF Fail, Owns, Unclaimed, Job, Idle, RowOK, Row
<1>30. ASSUME NEW c \in Cleaner, Leave(c) PROVE CleanerOK(d)'
  BY <1>30, <1>a DEF Leave, Job, Idle, RowOK, Row
<1>31. CASE UNCHANGED vars
  BY <1>31, <1>a DEF vars
<1> QED
  BY <1>1, <1>2, <1>3, <1>4, <1>5, <1>6, <1>7, <1>8, <1>9, <1>10, <1>11, <1>12, <1>13, <1>14, <1>15, <1>16, <1>17, <1>18, <1>19, <1>20, <1>21, <1>22, <1>23, <1>24, <1>25, <1>26, <1>27, <1>28, <1>29, <1>30, <1>31 DEF Next, Verification, Cleaning

LEMMA EvidenceStep == IInv /\ [Next]_vars => EvidenceKept'
<1> SUFFICES ASSUME IInv, [Next]_vars PROVE EvidenceKept'
  OBVIOUS
<1>a. /\ EvidenceKept /\ RowOK /\ row \in Row /\ ops \in [Op -> OpRow]
      /\ objects \in [Op -> Content]
      /\ \A o \in Op : ThreadOK(o)
      /\ \A c \in Cleaner : CleanerOK(c)
  BY DEF IInv, TypeOK, ThreadsOK, CleanersOK
<1> USE DEF EvidenceKept, RowOK, Row, Verified, Kept, rows, work, store, cleanup
<1>1. ASSUME NEW v \in {"good", "bad"}, Upload(v) PROVE EvidenceKept'
  BY <1>1, <1>a DEF Upload
<1>2. CASE Age
  BY <1>2, <1>a DEF Age, Later
<1>3. CASE LeaseEnds
  BY <1>3, <1>a DEF LeaseEnds
<1>4. CASE Attach
  BY <1>4, <1>a DEF Attach
<1>5. CASE Archive
  BY <1>5, <1>a DEF Archive
<1>6. ASSUME NEW o \in Op, DeadlinePasses(o) PROVE EvidenceKept'
  BY <1>6, <1>a DEF DeadlinePasses
<1>7. ASSUME NEW o \in Op, Begin(o) PROVE EvidenceKept'
  BY <1>7, <1>a DEF Begin, Fresh, Running, Fence, Busy, Ended
<1>8. ASSUME NEW o \in Op, Copy(o) PROVE EvidenceKept'
  BY <1>8, <1>a DEF Copy, ThreadStep, ThreadOK, Writing
<1>9. ASSUME NEW o \in Op, WrongSize(o) PROVE EvidenceKept'
  BY <1>9, <1>a DEF WrongSize, ThreadStep, Returns
<1>10. ASSUME NEW o \in Op, Approve(o) PROVE EvidenceKept'
  BY <1>10, <1>a DEF Approve, ThreadStep, Returns
<1>11. ASSUME NEW o \in Op, Refuse(o) PROVE EvidenceKept'
  BY <1>11, <1>a DEF Refuse, ThreadStep, Returns
<1>12. ASSUME NEW o \in Op, Sanitise(o) PROVE EvidenceKept'
  BY <1>12, <1>a DEF Sanitise, ThreadStep, Returns, ThreadOK, Writing
<1>13. ASSUME NEW o \in Op, Break(o) PROVE EvidenceKept'
  BY <1>13, <1>a DEF Break, ThreadStep, Returns
<1>14. ASSUME NEW o \in Op, Land(o) PROVE EvidenceKept'
  BY <1>14, <1>a DEF Land, ThreadStep, ThreadOK, Writing
<1>15. ASSUME NEW o \in Op, Publish(o) PROVE EvidenceKept'
  BY <1>15, <1>a DEF Publish, Current, Ends, Ended, ThreadOK, Writing
<1>16. ASSUME NEW o \in Op, Reject(o) PROVE EvidenceKept'
  BY <1>16, <1>a DEF Reject
<1>17. ASSUME NEW o \in Op, Discard(o) PROVE EvidenceKept'
  BY <1>17, <1>a DEF Discard, Settled, Ends, Ended
<1>18. ASSUME NEW o \in Op, Cancel(o) PROVE EvidenceKept'
  BY <1>18, <1>a DEF Cancel, Ends
<1>19. ASSUME NEW c \in Cleaner, NEW o \in Op, Collect(c, o) PROVE EvidenceKept'
  BY <1>19, <1>a DEF Collect, Garbage, Fence, Running, Ended
<1>20. ASSUME NEW c \in Cleaner, CollectDelete(c) PROVE EvidenceKept'
  BY <1>20, <1>a DEF CollectDelete, CleanerOK, Collecting, Claiming
<1>21. ASSUME NEW c \in Cleaner, CollectDrop(c) PROVE EvidenceKept'
  BY <1>21, <1>a DEF CollectDrop, Droppable, CleanerOK, Collecting, Claiming
<1>22. ASSUME NEW c \in Cleaner, Claim(c) PROVE EvidenceKept'
  BY <1>22, <1>a DEF Claim, Candidate, Free, Preserved
<1>23. ASSUME NEW c \in Cleaner, Preserve(c) PROVE EvidenceKept'
  BY <1>23, <1>a DEF Preserve, Candidate, Free, Preserved
<1>24. ASSUME NEW c \in Cleaner, ClaimStaging(c) PROVE EvidenceKept'
  BY <1>24, <1>a DEF ClaimStaging, Free
<1>25. ASSUME NEW c \in Cleaner, Activate(c) PROVE EvidenceKept'
  BY <1>25, <1>a DEF Activate, StillDue, Owns
<1>26. ASSUME NEW c \in Cleaner, DeleteStaging(c) PROVE EvidenceKept'
  BY <1>26, <1>a DEF DeleteStaging, CleanerOK, Collecting, Claiming
<1>27. ASSUME NEW c \in Cleaner, DeleteObject(c) PROVE EvidenceKept'
  BY <1>27, <1>a DEF DeleteObject, CleanerOK, Collecting, Claiming
<1>28. ASSUME NEW c \in Cleaner, Finish(c) PROVE EvidenceKept'
  BY <1>28, <1>a DEF Finish, Receipt, StillDue, Owns, Unclaimed, NoRow, FreshRow
<1>29. ASSUME NEW c \in Cleaner, Fail(c) PROVE EvidenceKept'
  BY <1>29, <1>a DEF Fail, Owns, Unclaimed
<1>30. ASSUME NEW c \in Cleaner, Leave(c) PROVE EvidenceKept'
  BY <1>30, <1>a DEF Leave
<1>31. CASE UNCHANGED vars
  BY <1>31, <1>a DEF vars
<1> QED
  BY <1>1, <1>2, <1>3, <1>4, <1>5, <1>6, <1>7, <1>8, <1>9, <1>10, <1>11, <1>12, <1>13, <1>14, <1>15, <1>16, <1>17, <1>18, <1>19, <1>20, <1>21, <1>22, <1>23, <1>24, <1>25, <1>26, <1>27, <1>28, <1>29, <1>30, <1>31 DEF Next, Verification, Cleaning

LEMMA StagingStep == IInv /\ [Next]_vars => StagingReclaimed'
<1> SUFFICES ASSUME IInv, [Next]_vars PROVE StagingReclaimed'
  OBVIOUS
<1>a. /\ StagingReclaimed /\ RowOK /\ row \in Row
      /\ \A c \in Cleaner : CleanerOK(c)
  BY DEF IInv, TypeOK, CleanersOK
<1> USE DEF StagingReclaimed, RowOK, Row, rows, work, store, cleanup
<1>1. ASSUME NEW v \in {"good", "bad"}, Upload(v) PROVE StagingReclaimed'
  BY <1>1, <1>a DEF Upload, ThreadStep
<1>2. CASE Age
  BY <1>2, <1>a DEF Age, Later, ThreadStep
<1>3. CASE LeaseEnds
  BY <1>3, <1>a DEF LeaseEnds, ThreadStep
<1>4. CASE Attach
  BY <1>4, <1>a DEF Attach, ThreadStep
<1>5. CASE Archive
  BY <1>5, <1>a DEF Archive, ThreadStep
<1>6. ASSUME NEW o \in Op, DeadlinePasses(o) PROVE StagingReclaimed'
  BY <1>6, <1>a DEF DeadlinePasses, ThreadStep
<1>7. ASSUME NEW o \in Op, Begin(o) PROVE StagingReclaimed'
  BY <1>7, <1>a DEF Begin, Fresh, Running, Fence, Busy, Ended, ThreadStep
<1>8. ASSUME NEW o \in Op, Copy(o) PROVE StagingReclaimed'
  BY <1>8, <1>a DEF Copy, ThreadStep
<1>9. ASSUME NEW o \in Op, WrongSize(o) PROVE StagingReclaimed'
  BY <1>9, <1>a DEF WrongSize, ThreadStep, Returns
<1>10. ASSUME NEW o \in Op, Approve(o) PROVE StagingReclaimed'
  BY <1>10, <1>a DEF Approve, ThreadStep, Returns
<1>11. ASSUME NEW o \in Op, Refuse(o) PROVE StagingReclaimed'
  BY <1>11, <1>a DEF Refuse, ThreadStep, Returns
<1>12. ASSUME NEW o \in Op, Sanitise(o) PROVE StagingReclaimed'
  BY <1>12, <1>a DEF Sanitise, ThreadStep, Returns
<1>13. ASSUME NEW o \in Op, Break(o) PROVE StagingReclaimed'
  BY <1>13, <1>a DEF Break, ThreadStep, Returns
<1>14. ASSUME NEW o \in Op, Land(o) PROVE StagingReclaimed'
  BY <1>14, <1>a DEF Land, ThreadStep
<1>15. ASSUME NEW o \in Op, Publish(o) PROVE StagingReclaimed'
  BY <1>15, <1>a DEF Publish, Current, Ends, Ended, Verified, ThreadStep
<1>16. ASSUME NEW o \in Op, Reject(o) PROVE StagingReclaimed'
  BY <1>16, <1>a DEF Reject, ThreadStep
<1>17. ASSUME NEW o \in Op, Discard(o) PROVE StagingReclaimed'
  BY <1>17, <1>a DEF Discard, Settled, Ends, Ended, ThreadStep
<1>18. ASSUME NEW o \in Op, Cancel(o) PROVE StagingReclaimed'
  BY <1>18, <1>a DEF Cancel, Ends, ThreadStep
<1>19. ASSUME NEW c \in Cleaner, NEW o \in Op, Collect(c, o) PROVE StagingReclaimed'
  BY <1>19, <1>a DEF Collect, Garbage, Fence, Running, Ended, ThreadStep
<1>20. ASSUME NEW c \in Cleaner, CollectDelete(c) PROVE StagingReclaimed'
  BY <1>20, <1>a DEF CollectDelete, ThreadStep
<1>21. ASSUME NEW c \in Cleaner, CollectDrop(c) PROVE StagingReclaimed'
  BY <1>21, <1>a DEF CollectDrop, Droppable, ThreadStep
<1>22. ASSUME NEW c \in Cleaner, Claim(c) PROVE StagingReclaimed'
  BY <1>22, <1>a DEF Claim, Candidate, Free, Preserved, ThreadStep
<1>23. ASSUME NEW c \in Cleaner, Preserve(c) PROVE StagingReclaimed'
  BY <1>23, <1>a DEF Preserve, Candidate, Free, Preserved, ThreadStep
<1>24. ASSUME NEW c \in Cleaner, ClaimStaging(c) PROVE StagingReclaimed'
  BY <1>24, <1>a DEF ClaimStaging, Free, ThreadStep
<1>25. ASSUME NEW c \in Cleaner, Activate(c) PROVE StagingReclaimed'
  BY <1>25, <1>a DEF Activate, StillDue, Owns, ThreadStep
<1>26. ASSUME NEW c \in Cleaner, DeleteStaging(c) PROVE StagingReclaimed'
  BY <1>26, <1>a DEF DeleteStaging, ThreadStep
<1>27. ASSUME NEW c \in Cleaner, DeleteObject(c) PROVE StagingReclaimed'
  BY <1>27, <1>a DEF DeleteObject, ThreadStep
<1>28. ASSUME NEW c \in Cleaner, Finish(c) PROVE StagingReclaimed'
  BY <1>28, <1>a DEF Finish, Receipt, StillDue, Owns, Unclaimed, NoRow, FreshRow, CleanerOK, Claiming
<1>29. ASSUME NEW c \in Cleaner, Fail(c) PROVE StagingReclaimed'
  BY <1>29, <1>a DEF Fail, Owns, Unclaimed, ThreadStep
<1>30. ASSUME NEW c \in Cleaner, Leave(c) PROVE StagingReclaimed'
  BY <1>30, <1>a DEF Leave, ThreadStep
<1>31. CASE UNCHANGED vars
  BY <1>31, <1>a DEF vars
<1> QED
  BY <1>1, <1>2, <1>3, <1>4, <1>5, <1>6, <1>7, <1>8, <1>9, <1>10, <1>11, <1>12, <1>13, <1>14, <1>15, <1>16, <1>17, <1>18, <1>19, <1>20, <1>21, <1>22, <1>23, <1>24, <1>25, <1>26, <1>27, <1>28, <1>29, <1>30, <1>31 DEF Next, Verification, Cleaning

LEMMA NumbersKept == TypeOK /\ Numbered /\ [Next]_vars => Numbered'
<1> SUFFICES ASSUME TypeOK, Numbered, [Next]_vars, NEW d \in Cleaner,
                    (cleaner[d].pc \in Claiming)'
             PROVE  (cleaner[d].gen # 0)'
  BY DEF Numbered
<1>a. /\ cleaner \in [Cleaner -> Job] /\ claims \in 0..MaxClaims
      /\ cleaner[d].pc \in Claiming => cleaner[d].gen # 0
  BY DEF TypeOK, Numbered
<1> USE DEF Claiming, Job, Idle, rows, work, store, cleanup
<1>1. ASSUME NEW v \in {"good", "bad"}, Upload(v) PROVE (cleaner[d].gen # 0)'
  BY <1>1, <1>a DEF Upload, ThreadStep
<1>2. CASE Age
  BY <1>2, <1>a DEF Age, Later, ThreadStep
<1>3. CASE LeaseEnds
  BY <1>3, <1>a DEF LeaseEnds, ThreadStep
<1>4. CASE Attach
  BY <1>4, <1>a DEF Attach, ThreadStep
<1>5. CASE Archive
  BY <1>5, <1>a DEF Archive, ThreadStep
<1>6. ASSUME NEW o \in Op, DeadlinePasses(o) PROVE (cleaner[d].gen # 0)'
  BY <1>6, <1>a DEF DeadlinePasses, ThreadStep
<1>7. ASSUME NEW o \in Op, Begin(o) PROVE (cleaner[d].gen # 0)'
  BY <1>7, <1>a DEF Begin, Fresh, Running, Fence, Busy, Ended, ThreadStep
<1>8. ASSUME NEW o \in Op, Copy(o) PROVE (cleaner[d].gen # 0)'
  BY <1>8, <1>a DEF Copy, ThreadStep
<1>9. ASSUME NEW o \in Op, WrongSize(o) PROVE (cleaner[d].gen # 0)'
  BY <1>9, <1>a DEF WrongSize, ThreadStep, Returns
<1>10. ASSUME NEW o \in Op, Approve(o) PROVE (cleaner[d].gen # 0)'
  BY <1>10, <1>a DEF Approve, ThreadStep, Returns
<1>11. ASSUME NEW o \in Op, Refuse(o) PROVE (cleaner[d].gen # 0)'
  BY <1>11, <1>a DEF Refuse, ThreadStep, Returns
<1>12. ASSUME NEW o \in Op, Sanitise(o) PROVE (cleaner[d].gen # 0)'
  BY <1>12, <1>a DEF Sanitise, ThreadStep, Returns
<1>13. ASSUME NEW o \in Op, Break(o) PROVE (cleaner[d].gen # 0)'
  BY <1>13, <1>a DEF Break, ThreadStep, Returns
<1>14. ASSUME NEW o \in Op, Land(o) PROVE (cleaner[d].gen # 0)'
  BY <1>14, <1>a DEF Land, ThreadStep
<1>15. ASSUME NEW o \in Op, Publish(o) PROVE (cleaner[d].gen # 0)'
  BY <1>15, <1>a DEF Publish, Current, Ends, Ended, Verified, ThreadStep
<1>16. ASSUME NEW o \in Op, Reject(o) PROVE (cleaner[d].gen # 0)'
  BY <1>16, <1>a DEF Reject, ThreadStep
<1>17. ASSUME NEW o \in Op, Discard(o) PROVE (cleaner[d].gen # 0)'
  BY <1>17, <1>a DEF Discard, Settled, Ends, Ended, ThreadStep
<1>18. ASSUME NEW o \in Op, Cancel(o) PROVE (cleaner[d].gen # 0)'
  BY <1>18, <1>a DEF Cancel, Ends, ThreadStep
<1>19. ASSUME NEW c \in Cleaner, NEW o \in Op, Collect(c, o) PROVE (cleaner[d].gen # 0)'
  BY <1>19, <1>a DEF Collect, Garbage, Fence, Running, Ended, ThreadStep
<1>20. ASSUME NEW c \in Cleaner, CollectDelete(c) PROVE (cleaner[d].gen # 0)'
  BY <1>20, <1>a DEF CollectDelete, ThreadStep
<1>21. ASSUME NEW c \in Cleaner, CollectDrop(c) PROVE (cleaner[d].gen # 0)'
  BY <1>21, <1>a DEF CollectDrop, Droppable, ThreadStep
<1>22. ASSUME NEW c \in Cleaner, Claim(c) PROVE (cleaner[d].gen # 0)'
  BY <1>22, <1>a DEF Claim, Candidate, Free, Preserved, ThreadStep
<1>23. ASSUME NEW c \in Cleaner, Preserve(c) PROVE (cleaner[d].gen # 0)'
  BY <1>23, <1>a DEF Preserve, Candidate, Free, Preserved, ThreadStep
<1>24. ASSUME NEW c \in Cleaner, ClaimStaging(c) PROVE (cleaner[d].gen # 0)'
  BY <1>24, <1>a DEF ClaimStaging, Free, ThreadStep
<1>25. ASSUME NEW c \in Cleaner, Activate(c) PROVE (cleaner[d].gen # 0)'
  BY <1>25, <1>a DEF Activate, StillDue, Owns, ThreadStep
<1>26. ASSUME NEW c \in Cleaner, DeleteStaging(c) PROVE (cleaner[d].gen # 0)'
  BY <1>26, <1>a DEF DeleteStaging, ThreadStep
<1>27. ASSUME NEW c \in Cleaner, DeleteObject(c) PROVE (cleaner[d].gen # 0)'
  BY <1>27, <1>a DEF DeleteObject, ThreadStep
<1>28. ASSUME NEW c \in Cleaner, Finish(c) PROVE (cleaner[d].gen # 0)'
  BY <1>28, <1>a DEF Finish, Receipt, StillDue, Owns, Unclaimed, NoRow, FreshRow, ThreadStep
<1>29. ASSUME NEW c \in Cleaner, Fail(c) PROVE (cleaner[d].gen # 0)'
  BY <1>29, <1>a DEF Fail, Owns, Unclaimed, ThreadStep
<1>30. ASSUME NEW c \in Cleaner, Leave(c) PROVE (cleaner[d].gen # 0)'
  BY <1>30, <1>a DEF Leave, ThreadStep
<1>31. CASE UNCHANGED vars
  BY <1>31, <1>a DEF vars
<1> QED
  BY <1>1, <1>2, <1>3, <1>4, <1>5, <1>6, <1>7, <1>8, <1>9, <1>10, <1>11, <1>12, <1>13, <1>14, <1>15, <1>16, <1>17, <1>18, <1>19, <1>20, <1>21, <1>22, <1>23, <1>24, <1>25, <1>26, <1>27, <1>28, <1>29, <1>30, <1>31 DEF Next, Verification, Cleaning

-----------------------------------------------------------------------------
(* The theorems *)

LEMMA InitIInv == Init => IInv
<1> SUFFICES ASSUME Init PROVE IInv
  OBVIOUS
<1>1. TypeOK
  BY InitTyped
<1>2. ThreadsOK
  BY DEF Init, ThreadsOK, ThreadOK, Writing
<1>3. RowOK /\ EvidenceKept /\ StagingReclaimed
  BY DEF Init, RowOK, EvidenceKept, StagingReclaimed, FreshRow, Kept
<1>4. CleanersOK
  BY DEF Init, CleanersOK, CleanerOK, Idle, Claiming, Collecting
<1> QED
  BY <1>1, <1>2, <1>3, <1>4 DEF IInv

LEMMA InitNumbered == Init => Numbered
BY DEF Init, Numbered, Claiming, Idle

\* The invariant is inductive.
LEMMA NextIInv == IInv /\ Numbered /\ [Next]_vars => IInv' /\ Numbered'
<1> SUFFICES ASSUME IInv, Numbered, [Next]_vars PROVE IInv' /\ Numbered'
  OBVIOUS
<1>1. TypeOK' /\ Numbered'
  BY NextTyped, NumbersKept DEF IInv
<1> QED
  BY <1>1, ThreadsKept, RowKept, CleanersKept, EvidenceStep, StagingStep DEF IInv

(* The inductive invariant: threads, rows, objects and cleaners fit together    *)
(* (FileVerificationWorkflow, StoredFileCleanup), and a cleaner that works on a *)
(* row holds its newest claim or an older one, never a later one.               *)
THEOREM Invariant == Spec => [](IInv /\ Numbered)
BY InitIInv, InitNumbered, NextIInv, PTL DEF Spec

(* Rows, storage and cleaners are well typed in every reachable state, for any *)
(* number of verifications, cleaners and claims.                               *)
THEOREM TypeCorrect == Spec => []TypeOK
<1>1. IInv => TypeOK
  BY DEF IInv
<1> QED
  BY Invariant, <1>1, PTL

(* What can be read or attached is the object that was verified, whatever      *)
(* late threads, collectors and other cleaners do (FileVerificationWorkflow).  *)
THEOREM EvidenceAlwaysKept == Spec => []EvidenceKept
<1>1. IInv => EvidenceKept
  BY DEF IInv
<1> QED
  BY Invariant, <1>1, PTL

(* The row of a verification that may still write is never dropped nor called  *)
(* settled (FileVerificationWorkflow.discard and collect).                     *)
THEOREM LateWriterAlwaysWatched == Spec => []LateWriterWatched
<1>1. IInv => LateWriterWatched
  BY DEF IInv, ThreadsOK, ThreadOK, LateWriterWatched
<1> QED
  BY Invariant, <1>1, PTL

(* No staging object outlives its row or its key (StoredFileCleanup).          *)
THEOREM StagingAlwaysReclaimed == Spec => []StagingReclaimed
<1>1. IInv => StagingReclaimed
  BY DEF IInv
<1> QED
  BY Invariant, <1>1, PTL

=============================================================================
