----------------------------- MODULE Lifecycle -----------------------------
(***************************************************************************)
(* internal/lifecycle: how a model gets to serve, and who says so.         *)
(*                                                                         *)
(* Two goroutines write the phase.  Run drives ensure passes and parks     *)
(* between them, on a channel that POST /api/retry and the health loop     *)
(* close to wake it.  The health loop probes the engine and moves the      *)
(* phase between ready and degraded, and to loading while a relaunch that  *)
(* was asked for is in flight.  Each Update of the phase is atomic; what a *)
(* goroutine does around it is not.                                        *)
(*                                                                         *)
(* One source is modelled, the main one.  The bytes are a flag: whether a  *)
(* download record vouches for them.  Shutdown is left out.                *)
(***************************************************************************)
EXTENDS Naturals

CONSTANTS
    Deployments,    \* the <<daemon, source, outages>> to look at: AliveBeforeBoot
                    \* (ollama, as opposed to the proxy engines), the kind of
                    \* the main MODEL_SOURCE, and a bound, how often the engine
                    \* goes away
    Grace,          \* failing probes in a row that EngineDownGrace tolerates
    MaxRetries,     \* bound: POST /api/retry
    MaxFailures,    \* bound: ensure passes that fail
    MaxRelaunches   \* bound: relaunches asked of the wrapper

(* Config.Validate: ollama:// sources need the daemon. *)
ASSUME DeploymentsAssumption ==
    /\ Deployments \subseteq BOOLEAN \X {"library", "ollama-url", "url", "hf"} \X Nat
    /\ \A d \in Deployments : ~d[1] => d[2] \in {"url", "hf"}

ASSUME LimitsAssumption ==
    /\ Grace \in Nat \ {0}
    /\ MaxRetries \in Nat /\ MaxFailures \in Nat
    /\ MaxRelaunches \in Nat

VARIABLES
    deployment,     \* the one llm-init is configured for
    phase,          \* progress.State.Phase
    lastError,      \* who wrote State.LastError, if anybody
    lastReady,      \* Manager.lastReady, the cached probe
    own,            \* Manager.relaunchLoading
    pc,             \* where Run is
    pending,        \* force of Manager.pendingOpts
    force,          \* force of the pass that is running
    woken,          \* the channel Run is waiting on has been closed
    hpc,            \* where the health loop is
    answer,         \* what its probe returned
    failing,        \* length of the current run of failing probes, capped
    recorded,       \* a download record vouches for the bytes on disk
    sentinel,       \* RUN_DIR/model_download_finish is there
    up, model,      \* the engine answers; it has the model
    inflight,       \* Tracker.Relaunching
    outcome,        \* history: how the last pass ended
    claimed,        \* history: the health loop made a loading its own since the
                    \* pass began
    owed, asked,    \* history: a retry accepted and not begun, and its force
    retries, failures, outages, relaunches

Daemon == deployment[1]
Source == deployment[2]
MaxOutages == deployment[3]

published == <<phase, lastError, lastReady>>
owner     == <<own, claimed>>
loop      == <<pc, force, outcome>>
wake      == <<pending, woken, owed, asked, retries>>
health    == <<hpc, answer, failing>>
disk      == <<recorded, sentinel>>
engine    == <<up, model, outages>>
relaunch  == <<deployment, inflight, relaunches>>

vars == <<published, owner, loop, wake, health, disk, engine, relaunch, failures>>

Phases == {"init", "download", "loading", "ready", "degraded", "failed"}

Waiting == pc \in {"parked", "backoff"}

(* What Adapter.Ready finds. *)
Answer == IF ~up THEN "unreachable" ELSE IF model THEN "serving" ELSE "no-model"

(* A pass cannot rely on what is on disk; the daemon's library is never.   *)
MustFetch == force \/ ~recorded \/ Source = "library"

OwnsRelaunchLoading == phase = "loading" /\ own

(* The phase main.go leaves in a restored state: anything but ready is set *)
(* to init.                                                                *)
Restored == {"init", "ready"}

(* llm-init starts: on a warm or a cold volume, beside an engine container *)
(* that may be older than it, with a phase of ready restored or none.      *)
Init ==
    /\ deployment \in Deployments
    /\ phase \in Restored /\ lastError = "none"
    /\ lastReady = "unknown" /\ own = FALSE /\ claimed = FALSE
    /\ pc = IF Daemon THEN "boot" ELSE "top"
    /\ pending = FALSE /\ force = FALSE /\ woken = FALSE
    /\ hpc = "off" /\ answer = "unreachable" /\ failing = 0
    /\ recorded \in BOOLEAN /\ (Source = "library" => ~recorded)
    /\ sentinel \in BOOLEAN
    /\ up \in BOOLEAN /\ model \in BOOLEAN
    /\ ~Daemon => model = up /\ (up => sentinel)
    /\ inflight = FALSE
    /\ outcome = "none" /\ owed = FALSE /\ asked = FALSE
    /\ retries = 0 /\ failures = 0 /\ outages = 0 /\ relaunches = 0

-----------------------------------------------------------------------------
(* Run, and the ensure pass it drives.                                     *)

(* WaitAlive returns: before the first pass for the daemon, which is when  *)
(* its health loop starts, after every successful pass for the others.     *)
EngineAlive ==
    /\ pc \in {"boot", "waitAlive"} /\ up
    /\ pc' = IF pc = "boot" THEN "top" ELSE "firstProbe"
    /\ hpc' = IF pc = "boot" THEN "idle" ELSE hpc
    /\ UNCHANGED <<published, owner, force, outcome, wake, answer, failing, disk,
                   engine, relaunch, failures>>

(* The top of ensure: take the pending options, and disown any loading the *)
(* health loop wrote.  Mutant: not the latter.                             *)
BeginPassKeepsOwner ==
    /\ pc = "top"
    /\ pc' = "fetch"
    /\ force' = pending /\ pending' = FALSE
    /\ UNCHANGED own /\ claimed' = FALSE
    /\ owed' = FALSE /\ asked' = FALSE
    /\ UNCHANGED <<published, outcome, woken, retries, health, disk, engine,
                   relaunch, failures>>

BeginPass ==
    /\ pc = "top"
    /\ pc' = "fetch"
    /\ force' = pending /\ pending' = FALSE
    /\ own' = FALSE /\ claimed' = FALSE
    /\ owed' = FALSE /\ asked' = FALSE
    /\ UNCHANGED <<published, outcome, woken, retries, health, disk, engine,
                   relaunch, failures>>

(* A record that holds makes the pass skip the download, and its phase.    *)
Reuse ==
    /\ pc = "fetch" /\ ~MustFetch
    /\ pc' = "load"
    /\ UNCHANGED <<published, owner, force, outcome, wake, health, disk, engine,
                   relaunch, failures>>

(* enterDownloadPhase.  A forced pass has dropped the record, and, where   *)
(* it deletes the file the sentinel names, the sentinel.                   *)
EnterDownload ==
    /\ pc = "fetch" /\ MustFetch
    /\ pc' = "transfer"
    /\ phase' = "download" /\ lastError' = "none"
    /\ recorded' = FALSE
    /\ sentinel' = (sentinel /\ ~(force /\ Source \in {"url", "ollama-url"}))
    /\ UNCHANGED <<lastReady, owner, force, outcome, wake, health, engine, relaunch,
                   failures>>

(* The bytes have arrived; a record that cannot be written is only logged. *)
(* A pull needs the daemon, and leaves the model with it.                  *)
Transfer ==
    /\ pc = "transfer"
    /\ IF Source = "library"
       THEN up /\ model' = TRUE /\ UNCHANGED recorded
       ELSE recorded' \in BOOLEAN /\ UNCHANGED model
    /\ pc' = "load"
    /\ UNCHANGED <<published, owner, force, outcome, wake, health, sentinel, up, outages,
                   relaunch, failures>>

SetLoading ==
    /\ pc = "load"
    /\ phase' = "loading"
    /\ pc' = IF Source = "library" THEN "announce" ELSE "register"
    /\ UNCHANGED <<lastError, lastReady, owner, force, outcome, wake, health, disk,
                   engine, relaunch, failures>>

(* installer.Register: only the daemon has anything to be told.            *)
Register ==
    /\ pc = "register" /\ (Daemon => up)
    /\ model' = (model \/ Daemon)
    /\ pc' = "sentinel"
    /\ UNCHANGED <<published, owner, force, outcome, wake, health, disk, up, outages,
                   relaunch, failures>>

WriteSentinel ==
    /\ pc = "sentinel"
    /\ sentinel' = TRUE
    /\ pc' = IF Source = "ollama-url" THEN "announce" ELSE "extras"
    /\ UNCHANGED <<published, owner, force, outcome, wake, health, recorded, engine,
                   relaunch, failures>>

(* The ollama:// sources say ready themselves, then cache a probe.         *)
Announce ==
    /\ pc = "announce"
    /\ phase' = "ready" /\ lastError' = "none"
    /\ pc' = "cache"
    /\ UNCHANGED <<lastReady, owner, force, outcome, wake, health, disk, engine,
                   relaunch, failures>>

CacheProbe ==
    /\ lastReady' = IF up THEN Answer ELSE lastReady
    /\ UNCHANGED <<phase, lastError>>

Cache ==
    /\ pc = "cache"
    /\ CacheProbe
    /\ pc' = "extras"
    /\ UNCHANGED <<owner, force, outcome, wake, health, disk, engine, relaunch, failures>>

(* writeExtraPaths, and ensure returns nil. *)
WriteExtras ==
    /\ pc = "extras"
    /\ outcome' = "ok"
    /\ pc' = IF Daemon THEN "toPark" ELSE "waitAlive"
    /\ UNCHANGED <<published, owner, force, wake, health, disk, engine, relaunch, failures>>

(* The proxy engines: Run probes once more, says ready, and starts the     *)
(* health loop if this is the first time.                                  *)
FirstProbe ==
    /\ pc = "firstProbe"
    /\ CacheProbe
    /\ pc' = "runAnnounce"
    /\ UNCHANGED <<owner, force, outcome, wake, health, disk, engine, relaunch, failures>>

RunAnnounce ==
    /\ pc = "runAnnounce"
    /\ phase' = "ready" /\ lastError' = "none"
    /\ pc' = "toPark"
    /\ hpc' = IF hpc = "off" THEN "idle" ELSE hpc
    /\ UNCHANGED <<lastReady, owner, force, outcome, wake, answer, failing, disk,
                   engine, relaunch, failures>>

(* fail: degraded for what a retry may cure, failed for the rest.          *)
Fail(retriable) ==
    /\ failures < MaxFailures
    /\ failures' = failures + 1
    /\ phase' = IF retriable THEN "degraded" ELSE "failed"
    /\ lastError' = "ensure"
    /\ outcome' = IF retriable THEN "retriable" ELSE "permanent"
    /\ pc' = IF retriable THEN "toBackoff" ELSE "toPark"
    /\ UNCHANGED <<lastReady, owner, force, wake, health, disk, engine, relaunch>>

(* The transfer may fail either way; what follows it, for good.            *)
FailPass ==
    \/ pc \in {"fetch", "transfer"} /\ \E retriable \in BOOLEAN : Fail(retriable)
    \/ pc \in {"register", "sentinel", "extras"} /\ Fail(FALSE)
    \/ pc = "load" /\ Source = "hf" /\ Fail(FALSE)

(* waitForRetryOrCtx takes the channel there is NOW.                       *)
Park ==
    /\ pc \in {"toPark", "toBackoff"}
    /\ pc' = IF pc = "toPark" THEN "parked" ELSE "backoff"
    /\ woken' = FALSE
    /\ UNCHANGED <<published, owner, force, outcome, pending, owed, asked, retries,
                   health, disk, engine, relaunch, failures>>

(* The channel, or, after a failure a retry may cure, the timer.           *)
WakeUp ==
    /\ Waiting /\ (woken \/ pc = "backoff")
    /\ pc' = "top"
    /\ UNCHANGED <<published, owner, force, outcome, wake, health, disk, engine,
                   relaunch, failures>>

-----------------------------------------------------------------------------
(* POST /api/retry. *)

(* wakeLocked closes the channel of whoever is waiting; a loop that is not *)
(* will take the fresh one.                                                *)
WakeLocked == woken' = (woken \/ Waiting)

RetryWith(f) ==
    /\ retries < MaxRetries
    /\ retries' = retries + 1
    /\ pending' = f
    /\ WakeLocked
    /\ owed' = TRUE /\ asked' = f
    /\ UNCHANGED <<published, owner, loop, health, disk, engine, relaunch, failures>>

-----------------------------------------------------------------------------
(* The health loop: probeAndPublish.                                       *)

Probe ==
    /\ hpc = "idle"
    /\ answer' = Answer
    /\ hpc' = "publish"
    /\ UNCHANGED <<published, owner, loop, wake, failing, disk, engine, relaunch, failures>>

(* A probe that got no answer leaves the cached one standing.              *)
Publish ==
    /\ hpc = "publish"
    /\ lastReady' = IF answer = "unreachable" THEN lastReady ELSE answer
    /\ IF answer = "serving"
       THEN failing' = 0 /\ hpc' = "recover"
       ELSE /\ failing' = IF failing > Grace THEN failing ELSE failing + 1
            /\ hpc' = "relaunch"
    /\ UNCHANGED <<phase, lastError, owner, loop, wake, answer, disk, engine,
                   relaunch, failures>>

(* The phases that recoverFromEngineOutage takes back.  Mutants: it takes  *)
(* whatever there is; it forgets the loading the loop wrote itself.        *)
RecoversAnything == TRUE

RecoversOutagesOnly == phase = "degraded"

Recoverable == phase = "degraded" \/ OwnsRelaunchLoading

Recover ==
    /\ hpc = "recover"
    /\ IF Recoverable
       THEN phase' = "ready" /\ lastError' = "none" /\ hpc' = "disown"
       ELSE hpc' = "idle" /\ UNCHANGED <<phase, lastError>>
    /\ UNCHANGED <<lastReady, owner, loop, wake, answer, failing, disk, engine,
                   relaunch, failures>>

(* markEngineRelaunching: the phase first, and then whose loading it is.   *)
MarkRelaunching ==
    /\ hpc = "relaunch"
    /\ IF inflight /\ phase = "ready"
       THEN phase' = "loading" /\ hpc' = "own"
       ELSE hpc' = "grace" /\ UNCHANGED phase
    /\ UNCHANGED <<lastError, lastReady, owner, loop, wake, answer, failing, disk,
                   engine, relaunch, failures>>

Own ==
    /\ hpc = "own"
    /\ own' = TRUE /\ claimed' = TRUE
    /\ hpc' = "grace"
    /\ UNCHANGED <<published, loop, wake, answer, failing, disk, engine, relaunch,
                   failures>>

(* markEngineDown, once the grace is over. *)
MarkDown ==
    /\ hpc = "grace"
    /\ lastReady' = IF failing > Grace THEN "down" ELSE lastReady
    /\ IF failing > Grace /\ (phase = "ready" \/ OwnsRelaunchLoading)
       THEN phase' = "degraded" /\ lastError' = "engine" /\ hpc' = "disown"
       ELSE hpc' = "idle" /\ UNCHANGED <<phase, lastError>>
    /\ UNCHANGED <<owner, loop, wake, answer, failing, disk, engine, relaunch, failures>>

(* Having moved the phase, the loop gives the loading back; having moved   *)
(* it down for a daemon that lost its model, it asks for a pass.           *)
Reensures == hpc = "disown" /\ answer = "no-model" /\ Daemon

(* Mutant: the request goes through RetryWith, with no options. *)
ReensureByRetry == WakeLocked /\ pending' = FALSE

RequestReensure == WakeLocked /\ UNCHANGED pending

Disown ==
    /\ hpc = "disown"
    /\ own' = FALSE
    /\ IF Reensures THEN RequestReensure ELSE UNCHANGED <<woken, pending>>
    /\ hpc' = "idle"
    /\ UNCHANGED <<published, claimed, loop, owed, asked, retries, answer, failing,
                   disk, engine, relaunch, failures>>

-----------------------------------------------------------------------------
(* The engine container. *)

(* The daemon comes up by itself, the others once the sentinel is there.   *)
EngineStarts ==
    /\ ~up /\ (Daemon \/ sentinel)
    /\ up' = TRUE
    /\ model' = (model \/ ~Daemon)
    /\ UNCHANGED <<published, owner, loop, wake, health, disk, outages,
                   relaunch, failures>>

(* It goes away, by itself or for a relaunch; the daemon may lose its model. *)
EngineStops ==
    /\ up /\ outages < MaxOutages
    /\ outages' = outages + 1
    /\ up' = FALSE
    /\ model' \in {FALSE, model /\ Daemon}
    /\ UNCHANGED <<published, owner, loop, wake, health, disk, relaunch, failures>>

RelaunchAsked ==
    /\ relaunches < MaxRelaunches
    /\ relaunches' = relaunches + 1
    /\ inflight' = TRUE
    /\ UNCHANGED <<deployment, published, owner, loop, wake, health, disk, engine, failures>>

RelaunchOver ==
    /\ inflight
    /\ inflight' = FALSE
    /\ UNCHANGED <<deployment, published, owner, loop, wake, health, disk, engine, relaunches,
                   failures>>

-----------------------------------------------------------------------------

Run ==
    \/ EngineAlive \/ BeginPass \/ Reuse \/ EnterDownload \/ Transfer
    \/ SetLoading \/ Register \/ WriteSentinel \/ Announce \/ Cache
    \/ WriteExtras \/ FirstProbe \/ RunAnnounce \/ Park \/ WakeUp

HealthLoop ==
    Probe \/ Publish \/ Recover \/ MarkRelaunching \/ Own \/ MarkDown \/ Disown

Next ==
    \/ Run \/ FailPass \/ HealthLoop
    \/ \E f \in BOOLEAN : RetryWith(f)
    \/ EngineStarts \/ EngineStops \/ RelaunchAsked \/ RelaunchOver

Spec == Init /\ [][Next]_vars

(* Neither goroutine blocks for ever on anything but the engine, every     *)
(* timer fires, and an engine that can start does.                         *)
FairSpec == Spec /\ WF_vars(Run) /\ WF_vars(HealthLoop) /\ WF_vars(EngineStarts)

-----------------------------------------------------------------------------

TypeOK ==
    /\ phase \in Phases /\ lastError \in {"none", "ensure", "engine"}
    /\ lastReady \in {"unknown", "down", "no-model", "serving"}
    /\ own \in BOOLEAN /\ claimed \in BOOLEAN
    /\ pc \in {"boot", "top", "fetch", "transfer", "load", "register", "sentinel",
               "announce", "cache", "extras", "waitAlive", "firstProbe",
               "runAnnounce", "toPark", "toBackoff", "parked", "backoff"}
    /\ pending \in BOOLEAN /\ force \in BOOLEAN /\ woken \in BOOLEAN
    /\ hpc \in {"off", "idle", "publish", "recover", "relaunch", "own", "grace",
                "disown"}
    /\ answer \in {"unreachable", "no-model", "serving"}
    /\ failing \in 0..Grace + 1
    /\ recorded \in BOOLEAN /\ sentinel \in BOOLEAN
    /\ up \in BOOLEAN /\ model \in BOOLEAN /\ inflight \in BOOLEAN
    /\ outcome \in {"none", "ok", "retriable", "permanent"}
    /\ owed \in BOOLEAN /\ asked \in BOOLEAN
    /\ retries \in 0..MaxRetries /\ failures \in 0..MaxFailures
    /\ outages \in 0..MaxOutages /\ relaunches \in 0..MaxRelaunches

(* The health loop leaves what ensure wrote alone: a download shows as one *)
(* to its end, and a permanent failure stands until the next pass, however *)
(* the engine behind it comes and goes (healthloop.go, "ensure() remains   *)
(* the only writer of the download and loading path").                     *)
EnsureOwnsItsPhase ==
    /\ pc = "transfer" => phase = "download"
    /\ outcome = "permanent" /\ pc \in {"toPark", "parked"} => phase = "failed"

(* A forced re-download is not downgraded by the health loop's own wake-up *)
(* between the request and the pass (requestReensure).                     *)
ForceHonoured ==
    [][BeginPass => force' = asked]_vars

(* Outages and failures being finite, the console ends up saying what is   *)
(* so, for the proxy engines: the model serves, or an operator has to act. *)
ServesInTheEnd ==
    \/ Daemon
    \/ <>[](phase = "ready" /\ lastReady = "serving")
    \/ <>[](phase = "failed")

(* An accepted retry is followed by a pass: manager.go, "RetryWith asks    *)
(* the lifecycle loop to re-run ensure with the supplied overrides".       *)
RetryIsServed == owed ~> ~owed

(* From SetLoading to the announcement the phase is ensure's, also when    *)
(* the health loop owned a loading before the pass, or was about to give   *)
(* one back: healthloop.go, "a boot load still reaches ready only through  *)
(* Run, after WaitAlive", and the first lines of ensure, which disown what *)
(* the loop wrote.  A pass whose loading the loop claims while it runs     *)
(* (MarkRelaunching between BeginPass and SetLoading, or the late half of  *)
(* an earlier one) is not covered: README, Divergences.                    *)
BootLoadIsRuns ==
    ~claimed /\ pc \in {"register", "sentinel", "announce", "waitAlive", "firstProbe",
                         "runAnnounce"}
        => phase = "loading"

(* A daemon that lost what Register pushed into it gets it back:           *)
(* healthloop.go, "Re-running ensure re-pulls or re-registers".            *)
LostModelComesBack == <>[](up /\ model)

(* A model the daemon has been given and serves is announced: ensure.go,   *)
(* "the engine is ready as soon as the model is registered".               *)
RegisteredModelServes ==
    <>[](up /\ model) => []<>(phase = "ready")

=============================================================================
