--------------------------- MODULE RestartTracker ---------------------------
(***************************************************************************)
(* handoff.Tracker: signal the wrapper, then watch the engine to learn     *)
(* whether anybody acted.                                                  *)
(*                                                                         *)
(* Request writes a new generation (Bump, outside the mutex), then, under  *)
(* it, cancels the observation in flight and starts one of its own.  An    *)
(* observation is a goroutine that probes until it has seen the engine go  *)
(* and come back or its window is over; it publishes through settle, which *)
(* is deaf to a generation that is not the current one, and records what   *)
(* it learnt in a file, which is not.                                      *)
(*                                                                         *)
(* The probe and RUN_DIR are taken to be set.  A generation stands for the *)
(* request that made it: the values of the clock are distinct.             *)
(***************************************************************************)
EXTENDS Naturals, FiniteSets

CONSTANTS
    Requests,       \* callers of Request that can be in flight together
    MaxRequests,    \* bound: calls of Request
    Window,         \* bound: probes an observation makes before its deadline
    Supervised,     \* whether a supervise loop runs in the engine container
    MaxFlaps,       \* bound: times the engine goes away by itself
    MaxRestarts     \* bound: restarts of llm-init

ASSUME TrackerAssumption ==
    /\ MaxRequests \in Nat /\ Window \in Nat /\ Supervised \in BOOLEAN
    /\ MaxFlaps \in Nat /\ MaxRestarts \in Nat

Gens == 1..MaxRequests
NoFile == 0                 \* no generation, or no file holding one

VARIABLES
    genFile,        \* RUN_DIR/engine_restart
    tmpFile,        \* RUN_DIR/engine_restart.tmp
    stateFile,      \* "supervised" of RUN_DIR's persisted state
    clock,          \* the last value Bump took from the clock
    rpc, rgen,      \* where each caller of Request is, and its generation
    status,         \* Tracker.status
    opc,            \* where the observation of each generation is
    cancelled,      \* its context is done
    seen,           \* the answer of its last probe
    down, confirmed,\* its local variables of these names
    left,           \* probes before its deadline
    up,             \* the engine answers
    acted,          \* the last generation the supervisor acted on
    sawDown, sawUp, \* history: generations whose live probes found the engine so
    flaps, restarts

request == <<genFile, tmpFile, clock, rpc, rgen>>
observe == <<opc, cancelled, seen, down, confirmed, left>>
engine  == <<up, acted, flaps>>
history == <<sawDown, sawUp>>

vars == <<request, stateFile, status, observe, engine, history, restarts>>

States == {"idle", "watching", "confirmed", "no-supervisor", "unverified"}

(* Status: the timestamps matter only as set or not.                       *)
Status == [state : States, supervision : BOOLEAN, generation : Nat,
           observedDownAt : BOOLEAN, observedBackAt : BOOLEAN]

(* NewTracker: the verdict starts over, the evidence is read back.         *)
FreshStatus(onDisk) ==
    [state |-> "idle", supervision |-> onDisk, generation |-> NoFile,
     observedDownAt |-> FALSE, observedBackAt |-> FALSE]

Relaunching ==
    \/ status.state = "watching"
    \/ status.state = "confirmed" /\ ~status.observedBackAt

Init ==
    /\ genFile = NoFile /\ tmpFile = NoFile /\ stateFile = FALSE /\ clock = 0
    /\ rpc = [r \in Requests |-> "idle"]
    /\ rgen = [r \in Requests |-> NoFile]
    /\ status = FreshStatus(FALSE)
    /\ opc = [g \in Gens |-> "none"]
    /\ cancelled = [g \in Gens |-> FALSE]
    /\ seen = [g \in Gens |-> FALSE]
    /\ down = [g \in Gens |-> FALSE]
    /\ confirmed = [g \in Gens |-> FALSE]
    /\ left = [g \in Gens |-> Window]
    /\ up \in BOOLEAN
    /\ acted = NoFile
    /\ sawDown = {} /\ sawUp = {}
    /\ flaps = 0 /\ restarts = 0

-----------------------------------------------------------------------------
(* Request.                                                                *)

(* Bump takes a generation and writes the temporary file; all callers use  *)
(* the same one.                                                           *)
BumpWrite(r) ==
    /\ rpc[r] = "idle" /\ clock < MaxRequests
    /\ clock' = clock + 1
    /\ rgen' = [rgen EXCEPT ![r] = clock + 1]
    /\ tmpFile' = clock + 1
    /\ rpc' = [rpc EXCEPT ![r] = "rename"]
    /\ UNCHANGED <<genFile, stateFile, status, observe, engine, history, restarts>>

(* The rename publishes whatever the temporary file holds; a caller whose  *)
(* file another has already moved gets an error, and signals nobody.       *)
BumpRename(r) ==
    /\ rpc[r] = "rename"
    /\ IF tmpFile # NoFile
       THEN genFile' = tmpFile /\ rpc' = [rpc EXCEPT ![r] = "arm"]
       ELSE rpc' = [rpc EXCEPT ![r] = "idle"] /\ UNCHANGED genFile
    /\ tmpFile' = NoFile
    /\ UNCHANGED <<clock, rgen, stateFile, status, observe, engine, history, restarts>>

(* The section under the mutex: supersede, reset the verdict, start the    *)
(* observation.                                                            *)
Arm(r) ==
    /\ rpc[r] = "arm"
    /\ rpc' = [rpc EXCEPT ![r] = "idle"]
    /\ cancelled' = [g \in Gens |-> cancelled[g] \/ opc[g] # "none"]
    /\ status' = [status EXCEPT !.generation = rgen[r], !.state = "watching",
                                !.observedDownAt = FALSE, !.observedBackAt = FALSE]
    /\ opc' = [opc EXCEPT ![rgen[r]] = "baseline"]
    /\ UNCHANGED <<genFile, tmpFile, clock, rgen, stateFile, seen, down, confirmed,
                   left, engine, history, restarts>>

-----------------------------------------------------------------------------
(* observe.  A probe made under a context that is done fails.              *)

Probe(g) == up /\ ~cancelled[g]

(* What a probe that was really made has found. *)
RecordEvidence(g) ==
    /\ sawUp' = IF Probe(g) THEN sawUp \cup {g} ELSE sawUp
    /\ sawDown' = IF ~up /\ ~cancelled[g] THEN sawDown \cup {g} ELSE sawDown

(* Mutant: every observation is heard. *)
SettleUngated(g, new) == status' = new

(* settle: nothing happens for a generation that has been replaced.        *)
Settle(g, new) == status' = IF status.generation = g THEN new ELSE status

Baseline(g) ==
    /\ opc[g] = "baseline"
    /\ down' = [down EXCEPT ![g] = ~Probe(g)]
    /\ RecordEvidence(g)
    /\ opc' = [opc EXCEPT ![g] = IF Probe(g) THEN "sleep" ELSE "noteDown"]
    /\ UNCHANGED <<request, stateFile, status, cancelled, seen, confirmed, left,
                   engine, restarts>>

(* Mutant: an engine that is down at the start is taken for a stop. *)
NoteDownAsStop(g) ==
    /\ opc[g] = "noteDown"
    /\ Settle(g, [status EXCEPT !.observedDownAt = TRUE, !.supervision = TRUE])
    /\ opc' = [opc EXCEPT ![g] = "sleep"]
    /\ UNCHANGED <<request, stateFile, cancelled, seen, down, confirmed, left,
                   engine, history, restarts>>

NoteDown(g) ==
    /\ opc[g] = "noteDown"
    /\ Settle(g, [status EXCEPT !.observedDownAt = TRUE])
    /\ opc' = [opc EXCEPT ![g] = "sleep"]
    /\ UNCHANGED <<request, stateFile, cancelled, seen, down, confirmed, left,
                   engine, history, restarts>>

(* The select between the timer and the context: a context that is done    *)
(* ends the observation, unless the timer has fired as well and is picked. *)
Sleep(g) ==
    /\ opc[g] = "sleep"
    /\ \/ opc' = [opc EXCEPT ![g] = "probe"]
       \/ cancelled[g] /\ opc' = [opc EXCEPT ![g] = "done"]
    /\ UNCHANGED <<request, stateFile, status, cancelled, seen, down, confirmed,
                   left, engine, history, restarts>>

ProbeEngine(g) ==
    /\ opc[g] = "probe"
    /\ seen' = [seen EXCEPT ![g] = Probe(g)]
    /\ RecordEvidence(g)
    /\ opc' = [opc EXCEPT ![g] = "judge"]
    /\ UNCHANGED <<request, stateFile, status, cancelled, down, confirmed, left,
                   engine, restarts>>

(* The engine went away since the signal. *)
JudgeDip(g) ==
    /\ opc[g] = "judge" /\ ~seen[g] /\ ~down[g]
    /\ down' = [down EXCEPT ![g] = TRUE]
    /\ confirmed' = [confirmed EXCEPT ![g] = TRUE]
    /\ Settle(g, [status EXCEPT !.state = "confirmed", !.observedDownAt = TRUE,
                                !.supervision = TRUE])
    /\ opc' = [opc EXCEPT ![g] = "persist"]
    /\ UNCHANGED <<request, stateFile, cancelled, seen, left, engine, history, restarts>>

(* It was down, and answers: confirmed here as well for the engine that    *)
(* was already down when the request was made.                             *)
JudgeRise(g) ==
    /\ opc[g] = "judge" /\ seen[g] /\ down[g]
    /\ Settle(g, [status EXCEPT !.state = "confirmed", !.observedBackAt = TRUE,
                                !.supervision = TRUE])
    /\ opc' = [opc EXCEPT ![g] = IF confirmed[g] THEN "done" ELSE "persist"]
    /\ UNCHANGED <<request, stateFile, cancelled, seen, down, confirmed, left,
                   engine, history, restarts>>

JudgeSame(g) ==
    /\ opc[g] = "judge" /\ seen[g] # down[g]
    /\ opc' = [opc EXCEPT ![g] = "deadline"]
    /\ UNCHANGED <<request, stateFile, status, cancelled, seen, down, confirmed,
                   left, engine, history, restarts>>

(* persistSupervision, outside the mutex and whatever generation is        *)
(* current; a write that fails is only logged.  After a rise the           *)
(* observation is over.                                                    *)
Persist(g) ==
    /\ opc[g] = "persist"
    /\ stateFile' \in {stateFile, TRUE}
    /\ opc' = [opc EXCEPT ![g] = IF seen[g] THEN "done" ELSE "deadline"]
    /\ UNCHANGED <<request, status, cancelled, seen, down, confirmed, left,
                   engine, history, restarts>>

Continue(g) ==
    /\ opc[g] = "deadline" /\ left[g] > 0
    /\ left' = [left EXCEPT ![g] = left[g] - 1]
    /\ opc' = [opc EXCEPT ![g] = "sleep"]
    /\ UNCHANGED <<request, stateFile, status, cancelled, seen, down, confirmed,
                   engine, history, restarts>>

(* Mutant: the observation ends without saying so. *)
ExpireSilently(g) ==
    /\ opc[g] = "deadline"
    /\ opc' = [opc EXCEPT ![g] = "done"]
    /\ UNCHANGED <<request, stateFile, status, cancelled, seen, down, confirmed,
                   left, engine, history, restarts>>

(* The window is over.  Slow probes can end it early, so it may be over    *)
(* with probes left.                                                       *)
Expire(g) ==
    /\ opc[g] = "deadline"
    /\ CASE ~down[g] -> Settle(g, [status EXCEPT !.state = "no-supervisor"])
         [] down[g] /\ ~confirmed[g] -> Settle(g, [status EXCEPT !.state = "unverified"])
         [] down[g] /\ confirmed[g] -> UNCHANGED status
    /\ opc' = [opc EXCEPT ![g] = "done"]
    /\ UNCHANGED <<request, stateFile, cancelled, seen, down, confirmed, left,
                   engine, history, restarts>>

-----------------------------------------------------------------------------
(* The engine container, and llm-init's own restarts.                      *)

(* The supervise loop stops the engine for a generation it has not seen.   *)
Supervise ==
    /\ Supervised /\ acted # genFile
    /\ acted' = genFile
    /\ up' = FALSE
    /\ UNCHANGED <<request, stateFile, status, observe, history, flaps, restarts>>

EngineBack ==
    /\ ~up
    /\ up' = TRUE
    /\ UNCHANGED <<request, stateFile, status, observe, acted, flaps, history, restarts>>

EngineFails ==
    /\ up /\ flaps < MaxFlaps
    /\ flaps' = flaps + 1
    /\ up' = FALSE
    /\ UNCHANGED <<request, stateFile, status, observe, acted, history, restarts>>

(* llm-init restarts: callers and observations are gone, the files stay.   *)
RestartProcess ==
    /\ restarts < MaxRestarts
    /\ restarts' = restarts + 1
    /\ rpc' = [r \in Requests |-> "idle"]
    /\ status' = FreshStatus(stateFile)
    /\ opc' = [g \in Gens |-> IF opc[g] = "none" THEN "none" ELSE "done"]
    /\ UNCHANGED <<genFile, tmpFile, stateFile, clock, rgen, cancelled, seen, down,
                   confirmed, left, engine, history>>

-----------------------------------------------------------------------------

Observe(g) ==
    \/ Baseline(g) \/ NoteDown(g) \/ Sleep(g) \/ ProbeEngine(g)
    \/ JudgeDip(g) \/ JudgeRise(g) \/ JudgeSame(g)
    \/ Persist(g) \/ Continue(g) \/ Expire(g)

Request(r) == BumpWrite(r) \/ BumpRename(r) \/ Arm(r)

Next ==
    \/ \E r \in Requests : Request(r)
    \/ \E g \in Gens : Observe(g)
    \/ Supervise \/ EngineBack \/ EngineFails
    \/ RestartProcess

Spec == Init /\ [][Next]_vars

(* A goroutine that is not blocked runs on, and every sleep and probe is   *)
(* bounded; an engine that is relaunched comes up.                         *)
Fairness ==
    /\ \A r \in Requests : WF_vars(BumpRename(r) \/ Arm(r))
    /\ \A g \in Gens : WF_vars(Observe(g))
    /\ WF_vars(EngineBack)

FairSpec == Spec /\ Fairness

-----------------------------------------------------------------------------

TypeOK ==
    /\ genFile \in 0..MaxRequests /\ tmpFile \in 0..MaxRequests
    /\ clock \in 0..MaxRequests
    /\ stateFile \in BOOLEAN
    /\ rpc \in [Requests -> {"idle", "rename", "arm"}]
    /\ rgen \in [Requests -> 0..MaxRequests]
    /\ status \in Status
    /\ opc \in [Gens -> {"none", "baseline", "noteDown", "sleep", "probe",
                         "judge", "persist", "deadline", "done"}]
    /\ cancelled \in [Gens -> BOOLEAN]
    /\ seen \in [Gens -> BOOLEAN]
    /\ down \in [Gens -> BOOLEAN] /\ confirmed \in [Gens -> BOOLEAN]
    /\ left \in [Gens -> 0..Window]
    /\ up \in BOOLEAN /\ acted \in 0..MaxRequests
    /\ sawDown \subseteq Gens /\ sawUp \subseteq Gens
    /\ flaps \in 0..MaxFlaps /\ restarts \in 0..MaxRestarts

(* Whatever Status says of a request was found by live probes made for     *)
(* that very request: an observation it superseded, whose probes fail only *)
(* because they were cancelled, has no say (Tracker.settle).               *)
VerdictHasEvidence ==
    LET g == status.generation
    IN  /\ status.state = "confirmed" => g \in sawDown
        /\ status.observedDownAt => g \in sawDown
        /\ status.observedBackAt => g \in sawDown \cap sawUp
        /\ status.state = "no-supervisor" => g \in sawUp \ sawDown
        /\ status.state = "unverified" => g \in sawDown \ sawUp

(* Before the first restart of the process, supervision is reported only   *)
(* after some observation found the engine on both sides of an edge.       *)
(* What a restart reads back need not be: a superseded observation may     *)
(* have persisted its own cancellation as a dip (persistSupervision).      *)
SupervisionEarned ==
    status.supervision /\ restarts = 0 => sawDown \cap sawUp # {}

(* Relaunching is "about right now: is the engine between two lives": it   *)
(* does not outlast the last relaunch for ever.                            *)
RelaunchingEnds == <>[]up => <>[]~Relaunching

(* The status is a verdict in the sense of RestartVerdict. *)
Verdict == INSTANCE RestartVerdict WITH
    generation <- status.generation,
    supervised <- status.supervision,
    verdict    <- IF status.state # "confirmed" THEN status.state
                  ELSE IF status.observedBackAt THEN "back" ELSE "down"

(* Every verdict is reached and changed as RestartVerdict allows, and none *)
(* stays "watching".                                                       *)
ImplementsVerdict == Verdict!Spec

=============================================================================
