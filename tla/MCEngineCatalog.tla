--------------------------- MODULE MCEngineCatalog ---------------------------
EXTENDS EngineCatalog

Raw(m, p, on, sound) == [route |-> Route(m, p), on |-> on, sound |-> sound]

Declaration(version, whole, mine, rows) ==
    [kind |-> "spec", version |-> version, whole |-> whole, mine |-> mine, rows |-> rows]

(* An audio engine's routes, one of them off and one a reserved path; rows *)
(* the second schema refuses; a spec without a version; a broken envelope. *)
MCAnswers ==
    {[kind |-> k] : k \in {"down", "hangs", "absent"}} \cup
    {Declaration(1, TRUE, TRUE, {Raw("POST", "embeddings", TRUE, 2),
                                 Raw("POST", "audio/speech", TRUE, 1),
                                 Raw("GET", "tasks/{id}", FALSE, 1),
                                 Raw("POST", "/api/chat/completions", TRUE, 2)}),
     Declaration(2, TRUE, FALSE, {Raw("POST", "audio/speech", TRUE, 2),
                                  Raw("GET", "tasks/{id}", TRUE, 1),
                                  Raw("GET", "embeddings", TRUE, 2)}),
     Declaration(0, FALSE, TRUE, {Raw("POST", "audio/speech", TRUE, 1)}),
     Declaration(1, FALSE, TRUE, {Raw("POST", "chat/completions", TRUE, 1)})}

MCModes == {"audio", "embedding"}
=============================================================================
