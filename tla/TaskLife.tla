------------------------------ MODULE TaskLife ------------------------------
(***************************************************************************)
(* What the platform promises about one API or UI test task, whoever runs  *)
(* it and whatever is lost on the way: a queued task is taken at most once *)
(* and never goes back to the queue, a stop request is final, a stopped    *)
(* task never counts as a success, only a stop request cancels, and a      *)
(* finished task keeps its verdict until its record is removed.            *)
(* WorkerTask.tla is the detailed specification and implements this one.   *)
(***************************************************************************)

CONSTANT Tasks

VARIABLE life

\* The verdicts a task taken by a worker can end with: RUN_TERMINAL_STATUSES
\* without and with a stop request.
Finished == {"success", "failed", "error"}
Stopped == {"canceled", "failed", "error"}

Lives == {"waiting", "executing", "stopping", "gone"} \cup Finished \cup Stopped

TypeOK == life \in [Tasks -> Lives]

Init == life = [t \in Tasks |-> "waiting"]

Become(t, from, to) ==
  /\ life[t] \in from
  /\ \E next \in to : life' = [life EXCEPT ![t] = next]

\* A worker is given the task.
Take(t) == Become(t, {"waiting"}, {"executing"})

\* A queued task is stopped, or its owner loses access, before any worker
\* has it.
Withdraw(t) == Become(t, {"waiting"}, {"canceled", "failed"})

\* A user asks for a stop while a worker has it.
AskStop(t) == Become(t, {"executing"}, {"stopping"})

\* The task ends: by the worker's report, by expiry or by lost access.
End(t) == \/ Become(t, {"executing"}, Finished)
          \/ Become(t, {"stopping"}, Stopped)

\* The record of a live debug run is removed once it was delivered.
Forget(t) == Become(t, Finished \cup Stopped, {"gone"})

Next == \E t \in Tasks :
  Take(t) \/ Withdraw(t) \/ AskStop(t) \/ End(t) \/ Forget(t)

SafeSpec == Init /\ [][Next]_life

\* A task somebody took ends, with or without the worker.
Spec == SafeSpec /\ \A t \in Tasks : WF_life(End(t))
=============================================================================
