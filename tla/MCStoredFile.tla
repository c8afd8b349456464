----------------------------- MODULE MCStoredFile -----------------------------
(* Small instances of StoredFile: the instances of the control plane are alike.*)
EXTENDS StoredFile, TLC

Cleaners == Permutations(Cleaner)
=============================================================================
