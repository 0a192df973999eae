-------------------------- MODULE Lifecycle_proofs --------------------------
(* For every deployment, grace and bound: who may write the phase, and     *)
(* what becomes of a forced retry.                                         *)
EXTENDS Lifecycle, TLAPS

USE DEF published, owner, loop, wake, health, disk, engine, relaunch

(* A pass that came through has said so before Run waits for the engine,   *)
(* so an outcome for good is always of the pass before the park.           *)
OutcomeIsCurrent ==
    pc \in {"waitAlive", "firstProbe", "runAnnounce"} => outcome = "ok"

PhaseInv == OutcomeIsCurrent /\ EnsureOwnsItsPhase

-----------------------------------------------------------------------------

(* Each step of the health loop leaves Run where it is, and moves the      *)
(* phase, if at all, out of ready, degraded or a loading it owns.          *)
LEMMA HealthMovesOwnPhases ==
    ASSUME HealthLoop
    PROVE  /\ UNCHANGED <<loop, deployment, relaunches, inflight>>
           /\ \/ UNCHANGED phase
              \/ phase = "degraded" /\ phase' = "ready"
              \/ phase = "ready" /\ phase' = "degraded"
              \/ phase = "ready" /\ phase' = "loading" /\ inflight
              \/ phase = "loading" /\ own
BY DEF HealthLoop, Probe, Publish, Recover, Recoverable, OwnsRelaunchLoading,
       MarkRelaunching, Own, MarkDown, Disown

(* The engine, the callers of retry and the relaunches touch neither.      *)
LEMMA OthersLeavePhase ==
    ASSUME \/ \E f \in BOOLEAN : RetryWith(f)
           \/ EngineStarts \/ EngineStops \/ RelaunchAsked \/ RelaunchOver
           \/ UNCHANGED vars
    PROVE  UNCHANGED <<loop, phase, deployment>>
BY DEF RetryWith, EngineStarts, EngineStops, RelaunchAsked, RelaunchOver, vars

(* Run goes on to wait for an engine only after a pass that came through,  *)
(* and parks on a failure for good only with the phase that says so.       *)
LEMMA NextPhaseInv == PhaseInv /\ [Next]_vars => PhaseInv'
<1> SUFFICES ASSUME PhaseInv, [Next]_vars PROVE PhaseInv'
  OBVIOUS
<1> USE DEF PhaseInv, OutcomeIsCurrent, EnsureOwnsItsPhase
<1>1. CASE Run
  BY <1>1 DEF Run, EngineAlive, BeginPass, Reuse, EnterDownload, Transfer,
              SetLoading, Register, WriteSentinel, Announce, Cache, CacheProbe,
              WriteExtras, FirstProbe, RunAnnounce, Park, WakeUp, Waiting
<1>2. CASE FailPass
  BY <1>2 DEF FailPass, Fail
<1>3. CASE HealthLoop
  BY <1>3, HealthMovesOwnPhases
<1> QED BY <1>1, <1>2, <1>3, OthersLeavePhase DEF Next

(* Whatever the engine does meanwhile, a download shows as one to its end  *)
(* and a permanent failure stands until the next pass: the health loop     *)
(* never overwrites what ensure wrote.                                     *)
THEOREM EnsureKeepsItsPhase == Spec => []EnsureOwnsItsPhase
<1>1. Init => PhaseInv
  BY DEF Init, PhaseInv, OutcomeIsCurrent, EnsureOwnsItsPhase
<1>2. PhaseInv => EnsureOwnsItsPhase
  BY DEF PhaseInv
<1> QED BY <1>1, <1>2, NextPhaseInv, PTL DEF Spec

-----------------------------------------------------------------------------

(* A loading the health loop owns is one it claimed since the pass began:  *)
(* the pass gave up every earlier one.                                     *)
OwnedIsClaimed == ~claimed => ~own

(* Only the daemon announces by itself, and only for the others does Run   *)
(* wait for the engine after a pass; until the announcement the phase is   *)
(* the pass's own.                                                         *)
LoadIsRuns ==
    /\ Daemon => pc \notin {"waitAlive", "firstProbe", "runAnnounce"}
    /\ ~Daemon => pc \notin {"announce", "cache"}
    /\ ~claimed =>
        /\ pc \in {"register", "sentinel", "announce"} => phase = "loading"
        /\ ~Daemon /\ pc \in {"extras", "waitAlive", "firstProbe", "runAnnounce"} =>
               phase = "loading"

BootInv == deployment \in Deployments /\ OwnedIsClaimed /\ LoadIsRuns

(* What the health loop does not claim it does not own. *)
LEMMA HealthClaims ==
    ASSUME OwnedIsClaimed, HealthLoop
    PROVE  OwnedIsClaimed' /\ (~claimed' => ~claimed)
BY DEF OwnedIsClaimed, HealthLoop, Probe, Publish, Recover, MarkRelaunching, Own,
       MarkDown, Disown

(* A loading phase that nobody claimed is one Run is waiting in. *)
LEMMA NextBootInv == BootInv /\ [Next]_vars => BootInv'
<1> SUFFICES ASSUME BootInv, [Next]_vars PROVE BootInv'
  OBVIOUS
<1> USE DEF Daemon, Source, OwnedIsClaimed
<1>1. CASE Run
  <2>1. deployment' = deployment /\ OwnedIsClaimed'
    BY <1>1 DEF BootInv, Run, EngineAlive, BeginPass, Reuse, EnterDownload, Transfer,
                SetLoading, Register, WriteSentinel, Announce, Cache,
                WriteExtras, FirstProbe, RunAnnounce, Park, WakeUp
  <2>2. ~Daemon => Source \notin {"library", "ollama-url"}
    BY DeploymentsAssumption DEF BootInv, DeploymentsAssumption
  <2>3. LoadIsRuns'
    BY <1>1, <2>1, <2>2
    DEF BootInv, LoadIsRuns, Run, EngineAlive, BeginPass, Reuse, EnterDownload,
        Transfer, SetLoading, Register, WriteSentinel, Announce, Cache, CacheProbe,
        WriteExtras, FirstProbe, RunAnnounce, Park, WakeUp
  <2> QED BY <2>1, <2>3 DEF BootInv
<1>2. CASE FailPass
  BY <1>2 DEF BootInv, LoadIsRuns, FailPass, Fail
<1>3. CASE HealthLoop
  BY <1>3, HealthMovesOwnPhases, HealthClaims DEF BootInv, LoadIsRuns
<1>4. CASE \/ \E f \in BOOLEAN : RetryWith(f)
           \/ EngineStarts \/ EngineStops \/ RelaunchAsked \/ RelaunchOver
           \/ UNCHANGED vars
  <2>1. UNCHANGED <<deployment, own, claimed, pc, phase>>
    BY <1>4 DEF RetryWith, EngineStarts, EngineStops, RelaunchAsked, RelaunchOver, vars
  <2> QED BY <2>1 DEF BootInv, LoadIsRuns
<1> QED BY <1>1, <1>2, <1>3, <1>4 DEF Next

(* A boot load reaches ready through the pass and Run only, whatever the   *)
(* health loop owned before it and whenever relaunches are asked for; it   *)
(* comes early only by a loading claimed while the pass runs.              *)
THEOREM BootLoadStaysRuns == Spec => []BootLoadIsRuns
<1>1. Init => BootInv
  BY DEF Init, BootInv, OwnedIsClaimed, LoadIsRuns, Daemon
<1>2. BootInv => BootLoadIsRuns
  BY DEF BootInv, LoadIsRuns, BootLoadIsRuns
<1> QED BY <1>1, <1>2, NextBootInv, PTL DEF Spec

-----------------------------------------------------------------------------

(* The options that wait for a pass are those of the last retry. *)
PendingIsAsked == pending = asked

(* No step but a retry, and the pass that takes them, touches the options. *)
LEMMA NextPendingIsAsked == PendingIsAsked /\ [Next]_vars => PendingIsAsked'
<1> SUFFICES ASSUME PendingIsAsked, [Next]_vars PROVE PendingIsAsked'
  OBVIOUS
<1> USE DEF PendingIsAsked
<1>1. CASE Run
  BY <1>1 DEF Run, EngineAlive, BeginPass, Reuse, EnterDownload, Transfer,
              SetLoading, Register, WriteSentinel, Announce, Cache, WriteExtras,
              FirstProbe, RunAnnounce, Park, WakeUp
<1>2. CASE FailPass
  BY <1>2 DEF FailPass, Fail
<1>3. CASE HealthLoop
  BY <1>3 DEF HealthLoop, Probe, Publish, Recover, MarkRelaunching, Own, MarkDown,
              Disown, RequestReensure
<1>4. ASSUME NEW f \in BOOLEAN, RetryWith(f) PROVE PendingIsAsked'
  BY <1>4 DEF RetryWith
<1>5. CASE EngineStarts \/ EngineStops \/ RelaunchAsked \/ RelaunchOver
           \/ UNCHANGED vars
  BY <1>5 DEF EngineStarts, EngineStops, RelaunchAsked, RelaunchOver, vars
<1> QED BY <1>1, <1>2, <1>3, <1>4, <1>5 DEF Next

(* The pass that follows a retry is forced exactly when the last retry     *)
(* asked for it: the health loop's own wake-up does not take the option    *)
(* away.                                                                   *)
THEOREM RetryKeepsForce == Spec => ForceHonoured
<1>1. Init => PendingIsAsked
  BY DEF Init, PendingIsAsked
<1>2. PendingIsAsked => [BeginPass => force' = asked]_vars
  BY DEF PendingIsAsked, BeginPass
<1> QED BY <1>1, <1>2, NextPendingIsAsked, PTL DEF Spec, ForceHonoured

=============================================================================
