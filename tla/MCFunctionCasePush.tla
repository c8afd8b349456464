-------------------------- MODULE MCFunctionCasePush --------------------------
(* Instances of FunctionCasePush: handlers, requests and remote ids are alike. *)
EXTENDS FunctionCasePush, TLC

Alike == Permutations(Handlers) \cup Permutations(Requests) \cup Permutations(RemoteIds)
=============================================================================
