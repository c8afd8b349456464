--------------------------- MODULE MCIntegrationJob ---------------------------
(* Small instances of IntegrationJob: the plans of real submissions.        *)
EXTENDS IntegrationJob, TLC

CONSTANTS j1, j2, j3, b1, b2, t1

MCKeys  == {"create_bug", "upload", "upload2", "text", "fields"}
MCKinds == [k \in MCKeys |-> CASE k = "create_bug" -> "create_bug"
                               [] k \in {"upload", "upload2"} -> "upload_attachment"
                               [] k = "text"       -> "update_description"
                               [] k = "fields"     -> "update_fields"]
MCDeps  == [k \in MCKeys |-> CASE k \in {"upload", "upload2"} -> {"create_bug"}
                               [] k = "text"   -> {"create_bug", "upload"}
                               [] OTHER        -> {}]

OneBug    == [j \in Job |-> b1]
TwoBugs   == [j \in Job |-> IF j = j3 THEN b2 ELSE b1]
OneTarget == [j \in Job |-> t1]

\* A bug with two attachments, one of them shown in its text, is pushed twice; the
\* other attachment is gone at the second push.
PushTwice == [j \in Job |-> IF j = j1 THEN {"create_bug", "upload", "upload2", "text"}
                            ELSE {"create_bug", "upload", "text"}]
\* Two field updates of one linked bug, and a synchronisation of the text of another,
\* all on one Zentao instance.
TextAndFields == [j \in Job |-> IF j = j3 THEN {"create_bug", "text"} ELSE {"fields"}]

\* The two field updates may be swapped.
Twins == Permutations({j1, j2})

=============================================================================
