------------------------------ MODULE StoredFile ------------------------------
(* One file of the control plane in object storage: its row in stored_files,   *)
(* the verifications that copy an upload to a key of their own (one row of     *)
(* file_verifications each), the storage itself, and the cleaners that every   *)
(* instance of the control plane runs.                                         *)
(*                                                                             *)
(* A transaction of the code is one action; every call of the storage is an    *)
(* action of its own, because it happens outside the transactions.  Files      *)
(* share nothing but the batches of a cleaner, so one file is enough.          *)
EXTENDS Integers

CONSTANTS
  Kinds,       \* what the file may be: an upload, a requirement page, a pulled file
  Cleaner,     \* instances of the control plane that run monitor_files
  MaxOps,      \* bound: verifications of the file
  MaxClaims    \* bound: claims of cleaners on the file

ASSUME KindsAssumption == Kinds \subseteq {"upload", "requirement", "pull"}
ASSUME BoundsAssumption == MaxOps \in Nat \ {0} /\ MaxClaims \in Nat \ {0}

Op      == 1..MaxOps
Content == {"none", "good", "bad", "clean"}

VARIABLES
  kind,       \* the kind of the file
  clock,      \* "ticket": it can be uploaded; "closed": not any more; then "expired"
  row,        \* the row of stored_files; its status is "gone" once deleted
  ops,        \* the rows of file_verifications
  call,       \* per verification: the request that waits for it
  thread,     \* per verification: the thread that copies and checks
  late,       \* per verification: a storage request whose caller gave up
  staging,    \* the object at the staging key
  objects,    \* the object at the key of each verification
  cleaner,    \* what each cleaner is doing
  claims,     \* claims so far; the next one is its own generation
  condemned   \* history: a cleaner has claimed the file for deletion

rows    == <<row, ops>>
work    == <<call, thread, late>>
store   == <<staging, objects>>
cleanup == <<cleaner, claims, condemned>>
vars    == <<kind, clock, rows, work, store, cleanup>>

Kept     == {"ready", "attached", "archived"}
Statuses == Kept \cup {"pending", "deleting", "gone"}
States   == {"unused", "running", "published", "discarded", "abandoned", "dropped"}

Row == [status : Statuses, verification : 0..MaxOps, object : 0..MaxOps,
        sha : {"good", "clean"}, staging : BOOLEAN, bound : BOOLEAN,
        cleanup : 0..MaxClaims, leased : BOOLEAN]

\* A pulled file names its bug from the start; another one only when attached.
FreshRow(k) == [status |-> "pending", verification |-> 0, object |-> 0, sha |-> "good",
                staging |-> TRUE, bound |-> k = "pull", cleanup |-> 0, leased |-> FALSE]
NoRow       == [FreshRow("upload") EXCEPT !.status = "gone"]

OpRow == [state : States, overdue : BOOLEAN]

Phase == {"idle", "claimed", "active", "swept", "deleted", "collect", "collected"}
Idle  == [pc |-> "idle", gen |-> 0, key |-> 0, staging |-> FALSE, only |-> FALSE]

Job   == [pc : Phase, gen : 0..MaxClaims, key : 0..MaxOps, staging : BOOLEAN, only : BOOLEAN]

Init ==
  /\ kind \in Kinds
  /\ clock = "ticket"
  /\ row = FreshRow(kind)
  /\ ops = [o \in Op |-> [state |-> "unused", overdue |-> FALSE]]
  /\ call = [o \in Op |-> "off"] /\ thread = [o \in Op |-> "off"]
  /\ late = [o \in Op |-> "no"]
  /\ staging = "none" /\ objects = [o \in Op |-> "none"]
  /\ cleaner = [c \in Cleaner |-> Idle] /\ claims = 0 /\ condemned = FALSE

-----------------------------------------------------------------------------
(* The uploader and the clock.  A ticket lives an hour at most and the file at *)
(* least two, so the ticket is dead before the file expires.                   *)

Upload(v) ==
  /\ clock = "ticket"
  /\ staging' = v
  /\ UNCHANGED <<kind, clock, rows, work, objects, cleanup>>

Later == [ticket |-> "closed", closed |-> "expired"]
Age ==
  /\ clock \in DOMAIN Later
  /\ clock' = Later[clock]
  /\ UNCHANGED <<kind, rows, work, store, cleanup>>

DeadlinePasses(o) ==
  /\ ops[o].state = "running" /\ ~ops[o].overdue
  /\ ops' = [ops EXCEPT ![o].overdue = TRUE]
  /\ UNCHANGED <<kind, clock, row, work, store, cleanup>>

LeaseEnds ==
  /\ row.leased
  /\ row' = [row EXCEPT !.leased = FALSE]
  /\ UNCHANGED <<kind, clock, ops, work, store, cleanup>>

-----------------------------------------------------------------------------
(* FileVerificationWorkflow.complete: the transaction that takes the file into *)
(* verification.  Each verification has a key of its own.                      *)

Running   == {o \in Op : ops[o].state = "running"}
Ended(s)  == [state |-> s, overdue |-> FALSE]
Fence(o)  == IF o \in Running THEN [ops EXCEPT ![o] = Ended("abandoned")] ELSE ops
Busy(o)   == o \in Running /\ ~ops[o].overdue
Fresh(o)  == ops[o].state = "unused" /\ \A p \in 1..o-1 : ops[p].state # "unused"

Begin(o) ==
  /\ Fresh(o)
  /\ row.status = "pending" /\ clock # "expired"
  /\ ~Busy(row.verification)
  /\ ops' = [Fence(row.verification) EXCEPT ![o].state = "running"]
  /\ row' = [row EXCEPT !.verification = o]
  /\ call' = [call EXCEPT ![o] = "wait"]
  /\ thread' = [thread EXCEPT ![o] = "copy"]
  /\ UNCHANGED <<kind, clock, late, store, cleanup>>

-----------------------------------------------------------------------------
(* The thread of a verification: copy the upload to the key, read it back, and *)
(* write a requirement page again in its sanitised form.                       *)

\* The outcome of a thread that nobody waits for any more is forgotten.
Returns(o, outcome) ==
  thread' = [thread EXCEPT ![o] = IF call[o] = "wait" THEN outcome ELSE "off"]

ThreadStep(o) ==
  UNCHANGED <<kind, clock, rows, call, cleanup, staging>>

Copy(o) ==
  /\ thread[o] = "copy" /\ staging # "none"
  /\ objects' = [objects EXCEPT ![o] = staging]
  /\ thread' = [thread EXCEPT ![o] = "check"]
  /\ UNCHANGED late /\ ThreadStep(o)

\* An upload of the wrong size is refused before it is copied.
WrongSize(o) ==
  /\ thread[o] = "copy" /\ staging = "bad"
  /\ Returns(o, "refused")
  /\ UNCHANGED <<late, objects>> /\ ThreadStep(o)

Approve(o) ==
  /\ thread[o] = "check" /\ objects[o] = "good"
  /\ IF kind = "requirement" THEN thread' = [thread EXCEPT ![o] = "clean"]
                             ELSE Returns(o, "ok")
  /\ UNCHANGED <<late, objects>> /\ ThreadStep(o)

Refuse(o) ==
  /\ thread[o] = "check"
  /\ objects[o] = "bad" \/ (objects[o] = "good" /\ kind = "requirement")
  /\ Returns(o, "refused")
  /\ UNCHANGED <<late, objects>> /\ ThreadStep(o)

Sanitise(o) ==
  /\ thread[o] = "clean"
  /\ objects' = [objects EXCEPT ![o] = "clean"]
  /\ Returns(o, "ok")
  /\ UNCHANGED late /\ ThreadStep(o)

\* The storage answers 404, or not at all; in the second case it may still carry
\* out the request that it has.
Break(o) ==
  /\ thread[o] \in {"copy", "check", "clean"}
  /\ Returns(o, "failed")
  /\ late' = [late EXCEPT ![o] = CASE thread[o] = "copy"  -> "copy"
                                   [] thread[o] = "clean" -> "put"
                                   [] OTHER               -> "no"]
  /\ UNCHANGED objects /\ ThreadStep(o)

Land(o) ==
  /\ \/ late[o] = "copy" /\ staging # "none" /\ objects' = [objects EXCEPT ![o] = staging]
     \/ late[o] = "put" /\ objects' = [objects EXCEPT ![o] = "clean"]
  /\ late' = [late EXCEPT ![o] = "no"]
  /\ UNCHANGED thread /\ ThreadStep(o)

-----------------------------------------------------------------------------
(* The end of complete: publish what the thread has verified, or discard it.   *)

CurrentUnfenced(o) ==
  row.status = "pending" /\ row.verification = o /\ clock # "expired"

Current(o) ==
  /\ row.status = "pending" /\ row.verification = o /\ clock # "expired"
  /\ ops[o].state = "running" /\ ~ops[o].overdue

Verified == IF kind = "requirement" THEN "clean" ELSE "good"

Ends(o) == /\ call' = [call EXCEPT ![o] = "off"]
           /\ thread' = [thread EXCEPT ![o] = IF @ \in {"ok", "refused", "failed"}
                                              THEN "off" ELSE @]

Publish(o) ==
  /\ call[o] = "wait" /\ thread[o] = "ok" /\ Current(o)
  /\ row' = [row EXCEPT !.status = "ready", !.object = o, !.sha = Verified]
  /\ ops' = [ops EXCEPT ![o] = Ended("published")]
  /\ Ends(o)
  /\ UNCHANGED <<kind, clock, late, store, cleanup>>

\* The publication is refused, or its transaction fails for another reason.
Reject(o) ==
  /\ call[o] = "wait" /\ thread[o] = "ok"
  /\ call' = [call EXCEPT ![o] = "reject"]
  /\ thread' = [thread EXCEPT ![o] = "off"]
  /\ UNCHANGED <<kind, clock, rows, late, store, cleanup>>

\* A refusal by the program means that the storage has answered; any other
\* failure leaves open what the storage will still do.
SettledAlways(o) == TRUE
Settled(o) == call[o] = "reject" \/ thread[o] = "refused"

Discard(o) ==
  /\ call[o] = "reject" \/ (call[o] = "wait" /\ thread[o] \in {"refused", "failed"})
  /\ IF ops[o].state \in {"published", "dropped"}
     THEN UNCHANGED rows
     ELSE /\ ops' = [ops EXCEPT ![o] = Ended(IF Settled(o) THEN "discarded" ELSE "abandoned")]
          /\ row' = IF row.verification = o THEN [row EXCEPT !.verification = 0] ELSE row
  /\ Ends(o)
  /\ UNCHANGED <<kind, clock, late, store, cleanup>>

\* The request is canceled, or its instance dies; its thread may go on.
Cancel(o) ==
  /\ call[o] # "off"
  /\ Ends(o)
  /\ UNCHANGED <<kind, clock, rows, late, store, cleanup>>

-----------------------------------------------------------------------------
(* The business side.                                                          *)

Attach ==
  /\ \/ row.status \in {"attached", "archived"} /\ row.bound
     \/ row.status = "ready" /\ clock # "expired"
  /\ row' = [row EXCEPT !.status = "attached", !.bound = TRUE]
  /\ UNCHANGED <<kind, clock, ops, work, store, cleanup>>

Archive ==
  /\ row.status = "attached" /\ kind # "requirement"
  /\ row' = [row EXCEPT !.status = "archived"]
  /\ UNCHANGED <<kind, clock, ops, work, store, cleanup>>

-----------------------------------------------------------------------------
(* collect: verifications that will not be published any more.  A row is       *)
(* dropped only when its storage calls are known to have ended.                *)

Garbage(o) == \/ ops[o].state \in {"discarded", "abandoned"}
              \/ ops[o].state = "running" /\ ops[o].overdue

Collect(c, o) ==
  /\ cleaner[c].pc = "idle" /\ Garbage(o)
  /\ ops' = Fence(o)
  /\ cleaner' = [cleaner EXCEPT ![c] = [Idle EXCEPT !.pc = "collect", !.key = o]]
  /\ UNCHANGED <<kind, clock, row, work, store, claims, condemned>>

CollectDelete(c) ==
  /\ cleaner[c].pc = "collect"
  /\ objects' = [objects EXCEPT ![cleaner[c].key] = "none"]
  /\ cleaner' = [cleaner EXCEPT ![c].pc = "collected"]
  /\ UNCHANGED <<kind, clock, rows, work, staging, claims, condemned>>

Droppable(o) == ops[o].state = "discarded"

CollectDrop(c) ==
  /\ cleaner[c].pc = "collected"
  /\ ops' = IF Droppable(cleaner[c].key)
            THEN [ops EXCEPT ![cleaner[c].key].state = "dropped"] ELSE ops
  /\ cleaner' = [cleaner EXCEPT ![c] = Idle]
  /\ UNCHANGED <<kind, clock, row, work, store, claims, condemned>>

-----------------------------------------------------------------------------
(* StoredFileCleanup: claim, and per claim activate, delete, finish.           *)

FreeEarly == ~row.leased
Free == clock = "expired" /\ ~row.leased

Candidate == /\ Free /\ row.status \in {"pending", "ready", "deleting"}
             /\ row.verification \notin Running

\* A deleting file with a completed upload that belongs to an existing bug.
Preserved == row.status = "deleting" /\ row.bound /\ row.object # 0

Claim(c) ==
  /\ cleaner[c].pc = "idle" /\ Candidate /\ ~Preserved /\ claims < MaxClaims
  /\ claims' = claims + 1
  /\ row' = [row EXCEPT !.status = "deleting", !.cleanup = claims', !.leased = TRUE]
  /\ cleaner' = [cleaner EXCEPT ![c] =
                   [pc |-> "claimed", gen |-> claims', key |-> row.object,
                    staging |-> row.staging, only |-> FALSE]]
  /\ condemned' = TRUE
  /\ UNCHANGED <<kind, clock, ops, work, store>>

Preserve(c) ==
  /\ cleaner[c].pc = "idle" /\ Candidate /\ Preserved
  /\ row' = [row EXCEPT !.status = "archived"]
  /\ UNCHANGED <<kind, clock, ops, work, store, cleanup>>

ClaimStaging(c) ==
  /\ cleaner[c].pc = "idle" /\ Free /\ claims < MaxClaims
  /\ row.status \in {"attached", "archived"} /\ row.staging
  /\ claims' = claims + 1
  /\ row' = [row EXCEPT !.cleanup = claims', !.leased = TRUE]
  /\ cleaner' = [cleaner EXCEPT ![c] =
                   [pc |-> "claimed", gen |-> claims', key |-> row.object,
                    staging |-> TRUE, only |-> TRUE]]
  /\ UNCHANGED <<kind, clock, ops, work, store, condemned>>

Owns(c) == row.status # "gone" /\ row.cleanup = cleaner[c].gen

StillDue(c) ==
  /\ Owns(c) /\ row.staging = cleaner[c].staging
  /\ cleaner[c].only \/ (row.status = "deleting" /\ row.object = cleaner[c].key)

Activate(c) ==
  /\ cleaner[c].pc = "claimed"
  /\ IF StillDue(c)
     THEN /\ row' = [row EXCEPT !.leased = TRUE]
          /\ cleaner' = [cleaner EXCEPT ![c].pc = "active"]
     ELSE /\ cleaner' = [cleaner EXCEPT ![c] = Idle]
          /\ UNCHANGED row
  /\ UNCHANGED <<kind, clock, ops, work, store, claims, condemned>>

DeleteStaging(c) ==
  /\ cleaner[c].pc = "active"
  /\ staging' = IF cleaner[c].staging THEN "none" ELSE staging
  /\ cleaner' = [cleaner EXCEPT ![c].pc = IF cleaner[c].only THEN "deleted" ELSE "swept"]
  /\ UNCHANGED <<kind, clock, rows, work, objects, claims, condemned>>

DeleteObject(c) ==
  /\ cleaner[c].pc = "swept"
  /\ objects' = [o \in Op |-> IF o = cleaner[c].key THEN "none" ELSE objects[o]]
  /\ cleaner' = [cleaner EXCEPT ![c].pc = "deleted"]
  /\ UNCHANGED <<kind, clock, rows, work, staging, claims, condemned>>

UnclaimedLeased == [row EXCEPT !.cleanup = 0]
Unclaimed == [row EXCEPT !.cleanup = 0, !.leased = FALSE]

Receipt(c) ==
  IF cleaner[c].only THEN [Unclaimed EXCEPT !.staging = FALSE]
  ELSE IF StillDue(c) THEN NoRow ELSE Unclaimed

Finish(c) ==
  /\ cleaner[c].pc = "deleted"
  /\ row' = IF Owns(c) THEN Receipt(c) ELSE row
  /\ cleaner' = [cleaner EXCEPT ![c] = Idle]
  /\ UNCHANGED <<kind, clock, ops, work, store, claims, condemned>>

\* A storage call or a transaction fails; what it did may have been done.
Fail(c) ==
  /\ cleaner[c].pc \in {"claimed", "active", "swept", "deleted"}
  /\ row' = IF Owns(c) THEN Unclaimed ELSE row
  /\ cleaner' = [cleaner EXCEPT ![c] = Idle]
  /\ UNCHANGED <<kind, clock, ops, work, store, claims, condemned>>

\* The instance dies, or the collection of one verification fails.
Leave(c) ==
  /\ cleaner[c].pc # "idle"
  /\ cleaner' = [cleaner EXCEPT ![c] = Idle]
  /\ UNCHANGED <<kind, clock, rows, work, store, claims, condemned>>

-----------------------------------------------------------------------------
Verification(o) ==
  \/ DeadlinePasses(o) \/ Begin(o)
  \/ Copy(o) \/ WrongSize(o) \/ Approve(o) \/ Refuse(o) \/ Sanitise(o)
  \/ Break(o) \/ Land(o)
  \/ Publish(o) \/ Reject(o) \/ Discard(o) \/ Cancel(o)

Cleaning(c) ==
  \/ \E o \in Op : Collect(c, o)
  \/ CollectDelete(c) \/ CollectDrop(c)
  \/ Claim(c) \/ Preserve(c) \/ ClaimStaging(c) \/ Activate(c)
  \/ DeleteStaging(c) \/ DeleteObject(c) \/ Finish(c) \/ Fail(c) \/ Leave(c)

Next ==
  \/ \E v \in {"good", "bad"} : Upload(v)
  \/ Age \/ LeaseEnds \/ Attach \/ Archive
  \/ \E o \in Op : Verification(o)
  \/ \E c \in Cleaner : Cleaning(c)

Spec == Init /\ [][Next]_vars

-----------------------------------------------------------------------------
(* The rows and the storage hold what their columns and keys may hold; a lease  *)
(* of a cleaner always has its generation.                                      *)
TypeOK ==
  /\ kind \in Kinds /\ clock \in {"ticket", "closed", "expired"}
  /\ row \in Row /\ (row.leased => row.cleanup # 0)
  /\ ops \in [Op -> OpRow]
  /\ call \in [Op -> {"off", "wait", "reject"}]
  /\ thread \in [Op -> {"off", "copy", "check", "clean", "ok", "refused", "failed"}]
  /\ late \in [Op -> {"no", "copy", "put"}]
  /\ staging \in Content /\ objects \in [Op -> Content]
  /\ cleaner \in [Cleaner -> Job]
  /\ claims \in 0..MaxClaims /\ condemned \in BOOLEAN

(* A file that can be read or attached, and that no cleaner has claimed for     *)
(* deletion, has its object, with the content its row declares: no late upload, *)
(* no thread or storage request of another verification, no collector and no    *)
(* cleaner of staging objects has touched it.                                   *)
EvidenceKept ==
  row.status \in Kept /\ ~condemned =>
    row.object \in Op /\ objects[row.object] = row.sha /\ row.sha = Verified

(* While a thread or an open storage request may still write to a key, the row  *)
(* of that verification stays, in a state that the collector comes back to.     *)
Writing(o) == thread[o] \in {"copy", "check", "clean"} \/ late[o] # "no"
LateWriterWatched ==
  \A o \in Op : Writing(o) => ops[o].state \in {"running", "abandoned"}

(* The staging object is gone once the row is, or once the row has forgotten    *)
(* its staging key: whoever uploaded, however often the cleaners died.          *)
StagingReclaimed == row.status = "gone" \/ ~row.staging => staging = "none"

(* A file that a cleaner has claimed for deletion is never attached again (the   *)
(* documentation of the file lifecycle).                                         *)
ClaimedNeverReattached == condemned => row.status # "attached"

=============================================================================
