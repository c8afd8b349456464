-------------------------- MODULE MCIntegrationWorker --------------------------
(* Small instances of IntegrationWorker.                                    *)
EXTENDS IntegrationWorker, TLC

CONSTANTS j1, j2, b1, b2, t1

MCWorker == Host \X (0..MaxRestarts)

MCKeys  == {"create_bug", "upload", "text", "fields"}
MCKinds == [k \in MCKeys |-> CASE k = "create_bug" -> "create_bug"
                               [] k = "upload"     -> "upload_attachment"
                               [] k = "text"       -> "update_description"
                               [] k = "fields"     -> "update_fields"]
MCDeps  == [k \in MCKeys |-> IF k \in {"upload", "text"} THEN {"create_bug"} ELSE {}]

OneBug    == [j \in Job |-> b1]
OwnBug    == [j \in Job |-> IF j = j1 THEN b1 ELSE b2]
OneTarget == [j \in Job |-> t1]

\* The push of a bug without attachments, of one with an attachment that its text
\* does not show, and an update of the fields of a linked bug.
Bare    == [j \in Job |-> {"create_bug", "text"}]
OneFile == [j \in Job |-> {"create_bug", "upload", "text"}]
FieldsOnly == [j \in Job |-> {"fields"}]

Hosts == Permutations(Host)
=============================================================================
