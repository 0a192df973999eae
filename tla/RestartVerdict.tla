--------------------------- MODULE RestartVerdict ---------------------------
(***************************************************************************)
(* What GET /api/engine/restart promises about a restart request, with     *)
(* nothing of how it is found out.                                         *)
(*                                                                         *)
(* The verdict is about the latest request.  From "watching" it is         *)
(* concluded, and a conclusion stands until the next request; the only one *)
(* that moves is "down", when the engine is seen serving again.  Evidence  *)
(* of a supervisor is not lost before the process restarts, which believes *)
(* what is on disk.                                                        *)
(***************************************************************************)
VARIABLES
    generation,     \* identifies the request the verdict is about
    verdict,
    supervised      \* a request has been seen to stop the engine

vars == <<generation, verdict, supervised>>

Verdicts ==
    {"idle", "watching", "down", "back", "no-supervisor", "unverified"}

(* The process starts with no request and whatever evidence is on disk.    *)
Start ==
    /\ verdict = "idle"
    /\ supervised \in BOOLEAN

Request ==
    /\ generation' # generation
    /\ verdict' = "watching"
    /\ UNCHANGED supervised

EngineSeenDown ==
    /\ verdict = "watching"
    /\ verdict' = "down"
    /\ supervised' = TRUE
    /\ UNCHANGED generation

EngineSeenBack ==
    /\ verdict \in {"watching", "down"}
    /\ verdict' = "back"
    /\ supervised' = TRUE
    /\ UNCHANGED generation

GiveUp ==
    /\ verdict = "watching"
    /\ verdict' \in {"no-supervisor", "unverified"}
    /\ UNCHANGED <<generation, supervised>>

Restart == Start' /\ verdict # "idle"

Conclude == verdict = "watching" /\ (EngineSeenDown \/ EngineSeenBack \/ GiveUp)

Next == Request \/ EngineSeenDown \/ EngineSeenBack \/ GiveUp \/ Restart

(* No request is watched for ever. *)
Spec == Start /\ [][Next]_vars /\ WF_vars(Conclude)

=============================================================================
