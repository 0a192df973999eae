--------------------------- MODULE EngineHandoff ---------------------------
(***************************************************************************)
(* How an edit of the model card's engine_args reaches the engine.         *)
(*                                                                         *)
(* Two containers share RUN_DIR and never talk otherwise.  llm-init writes *)
(* the launch flags to RUN_DIR/engine_args and a fresh generation to       *)
(* RUN_DIR/engine_restart; the wrapper in the engine container polls the   *)
(* generation and, when it moves, stops the engine and launches it again   *)
(* on the flags it then reads.  The card itself (MODEL_SPEC_PATH) is a     *)
(* third file that outlives both containers.                               *)
(*                                                                         *)
(* Of a model card only engine_args is kept: no other field changes what   *)
(* the engine launches with.  ENGINE_KIND, RUN_DIR and MODEL_SPEC_PATH are *)
(* taken to be set, which is the deployment that has an engine at all.     *)
(***************************************************************************)
EXTENDS Naturals

CONSTANTS
    Args,           \* the engine_args values a card can carry
    Empty,          \* the empty flag string, a legal value
    Chart,          \* ENGINE_ARGS as the chart sets it, in both containers
    Merge,          \* card value -> the value with the flags its mode requires
    Requests,       \* HTTP requests that can be in flight together
    MaxCalls,       \* bound: PUT /api/model-spec and POST /api/engine/restart calls
    MaxCrashes,     \* bound: restarts of the llm-init container
    MaxFaults,      \* bound: writes into RUN_DIR that fail
    MaxExits        \* bound: times the engine container goes away by itself

Missing  == "missing"       \* no such file
NoEngine == "no-engine"     \* the wrapper has no child

ASSUME ArgsAssumption ==
    /\ Empty \in Args
    /\ Chart \in Args
    /\ Missing \notin Args /\ NoEngine \notin Args

(* EnsureModeRequiredEngineArgs only appends a flag that is not there.     *)
ASSUME MergeAssumption ==
    /\ Merge \in [Args -> Args]
    /\ \A a \in Args : Merge[Merge[a]] = Merge[a]

ASSUME BoundsAssumption ==
    /\ MaxCalls \in Nat /\ MaxCrashes \in Nat
    /\ MaxFaults \in Nat /\ MaxExits \in Nat

VARIABLES
    card,           \* engine_args of the card at MODEL_SPEC_PATH
    argsFile,       \* RUN_DIR/engine_args
    genFile,        \* RUN_DIR/engine_restart; 0 stands for "no file"
    clock,          \* the last value Bump took from the clock
    lpc,            \* where llm-init is between its start and serving
    mem,            \* engine_args of the card runtimecfg.Store holds
    pc,             \* where each HTTP request is
    want,           \* the flags a PUT is storing
    reply,          \* the X-Engine-Restart header of the last answer
    wpc,            \* where the wrapper is in supervise_engine
    wgen,           \* the wrapper's shell variable gen
    wenv,           \* the wrapper's environment variable ENGINE_ARGS
    wread,          \* what the wrapper read from engine_args when it last launched
    engine,         \* the flags the running engine was launched with
    unsignalled,    \* history: the handoff changed and no generation followed
    torn,           \* history: a PUT wrote the card and failed on the handoff
    calls, crashes, faults, exits

files    == <<card, argsFile, genFile, clock>>
requests == <<pc, want, reply>>
wrapper  == <<wpc, wgen, wenv, wread, engine>>
history  == <<unsignalled, torn>>
counts   == <<calls, crashes, faults, exits>>

vars == <<files, lpc, mem, requests, wrapper, history, counts>>

-----------------------------------------------------------------------------

(* The store's mutex: held from the card write to the in-memory swap.      *)
StoreFree == \A r \in Requests : pc[r] # "handoff"

Serving == lpc = "serving"

(* A generation that is on its way: a request, or the boot, that has       *)
(* written the handoff and has still to bump.                              *)
BumpPending == lpc = "bump" \/ \E r \in Requests : pc[r] = "bump"

(* handoff.WriteEngineArgs *)
WriteEngineArgs(a) ==
    /\ argsFile' = a
    /\ unsignalled' = (unsignalled \/ argsFile # a)

(* Mutant: the generation is taken from a clock too coarse to move. *)
BumpCoarse ==
    /\ clock' = clock + 1
    /\ genFile' = IF genFile = 0 THEN clock + 1 ELSE genFile
    /\ unsignalled' = FALSE

(* handoff.Bump: the clock never repeats the generation on disk.           *)
Bump ==
    /\ clock' = clock + 1
    /\ genFile' = clock + 1
    /\ unsignalled' = FALSE

Init ==
    /\ card \in Args \cup {Missing}     \* the card outlives the application
    /\ argsFile = Missing
    /\ genFile = 0 /\ clock = 0
    /\ lpc = "reconcile"
    /\ mem = Empty
    /\ pc = [r \in Requests |-> "idle"]
    /\ want = [r \in Requests |-> Empty]
    /\ reply = [r \in Requests |-> "none"]
    /\ wpc = "start" /\ wgen = 0 /\ wenv = Chart
    /\ wread = Missing /\ engine = NoEngine
    /\ unsignalled = FALSE /\ torn = FALSE
    /\ calls = 0 /\ crashes = 0 /\ faults = 0 /\ exits = 0

-----------------------------------------------------------------------------
(* llm-init's boot.                                                        *)

(* Mutant: no card on disk, and none is seeded. *)
BootWithoutSeed ==
    /\ lpc = "reconcile"
    /\ mem' = card
    /\ lpc' = "handoff"
    /\ torn' = FALSE
    /\ UNCHANGED <<files, requests, wrapper, unsignalled, counts>>

(* ReconcileModelSpecFile: the card on disk wins over the chart, an absent *)
(* one is seeded from it; either is normalised and written back.           *)
BootReconcile ==
    /\ lpc = "reconcile"
    /\ LET seed == IF card = Missing THEN Chart ELSE card
       IN  /\ mem' = Merge[seed]
           /\ card' = Merge[seed]
    /\ lpc' = "handoff"
    /\ torn' = FALSE
    /\ UNCHANGED <<argsFile, genFile, clock, requests, wrapper, unsignalled, counts>>

(* applySpecSideEffects: publish the flags, and bump only if they differ   *)
(* from the file that was there.                                           *)
BootHandoff ==
    /\ lpc = "handoff"
    /\ WriteEngineArgs(mem)
    /\ lpc' = IF argsFile # mem THEN "bump" ELSE "serving"
    /\ UNCHANGED <<card, genFile, clock, mem, requests, wrapper, torn, counts>>

BootBump ==
    /\ lpc = "bump"
    /\ Bump
    /\ lpc' = "serving"
    /\ UNCHANGED <<card, argsFile, mem, requests, wrapper, torn, counts>>

(* The container dies, or boot fails, and kubelet starts it again: the     *)
(* requests in flight are gone, the files stay.                            *)
Crash ==
    /\ crashes < MaxCrashes
    /\ crashes' = crashes + 1
    /\ lpc' = "reconcile"
    /\ mem' = Empty
    /\ pc' = [r \in Requests |-> "idle"]
    /\ reply' = [r \in Requests |-> "none"]
    /\ UNCHANGED <<files, want, wrapper, history, calls, faults, exits>>

-----------------------------------------------------------------------------
(* The control plane.                                                      *)

(* Mutant: the card is written before the mutex is taken. *)
PutCardUnlocked(r, a) ==
    /\ Serving
    /\ pc[r] = "idle" /\ calls < MaxCalls
    /\ calls' = calls + 1
    /\ want' = [want EXCEPT ![r] = Merge[a]]
    /\ card' = Merge[a]
    /\ pc' = [pc EXCEPT ![r] = "handoff"]
    /\ reply' = [reply EXCEPT ![r] = "none"]
    /\ UNCHANGED <<argsFile, genFile, clock, lpc, mem, wrapper, history,
                   crashes, faults, exits>>

(* PUT /api/model-spec, first half of Store.ApplySpec: under the mutex,    *)
(* normalise the card and write it.  A card it refuses changes nothing.    *)
PutCard(r, a) ==
    /\ Serving /\ StoreFree
    /\ pc[r] = "idle" /\ calls < MaxCalls
    /\ calls' = calls + 1
    /\ want' = [want EXCEPT ![r] = Merge[a]]
    /\ card' = Merge[a]
    /\ pc' = [pc EXCEPT ![r] = "handoff"]
    /\ reply' = [reply EXCEPT ![r] = "none"]
    /\ UNCHANGED <<argsFile, genFile, clock, lpc, mem, wrapper, history,
                   crashes, faults, exits>>

(* Mutant: the comparison is made after the swap, and finds nothing new.   *)
PutHandoffComparesLate(r) ==
    /\ pc[r] = "handoff"
    /\ WriteEngineArgs(want[r])
    /\ mem' = want[r]
    /\ torn' = FALSE
    /\ pc' = [pc EXCEPT ![r] = "idle"]
    /\ reply' = [reply EXCEPT ![r] = "not-needed"]
    /\ UNCHANGED <<card, genFile, clock, lpc, want, wrapper, counts>>

(* Second half: publish the flags, swap the card into memory and release   *)
(* the mutex.  Whether the engine must restart is decided against the card *)
(* the store was holding.                                                  *)
PutHandoff(r) ==
    /\ pc[r] = "handoff"
    /\ WriteEngineArgs(want[r])
    /\ mem' = want[r]
    /\ torn' = FALSE
    /\ IF mem # want[r]
       THEN pc' = [pc EXCEPT ![r] = "bump"] /\ UNCHANGED reply
       ELSE /\ pc' = [pc EXCEPT ![r] = "idle"]
            /\ reply' = [reply EXCEPT ![r] = "not-needed"]
    /\ UNCHANGED <<card, genFile, clock, lpc, want, wrapper, counts>>

(* WriteEngineArgs fails: 500 persist_failed, with the card already on     *)
(* disk and the old one still in memory.                                   *)
PutHandoffFails(r) ==
    /\ pc[r] = "handoff" /\ faults < MaxFaults
    /\ faults' = faults + 1
    /\ torn' = (card # mem)
    /\ pc' = [pc EXCEPT ![r] = "idle"]
    /\ reply' = [reply EXCEPT ![r] = "failed"]
    /\ UNCHANGED <<files, lpc, mem, want, wrapper, unsignalled, calls, crashes, exits>>

(* POST /api/engine/restart goes straight to the signal.                   *)
PostRestart(r) ==
    /\ Serving
    /\ pc[r] = "idle" /\ calls < MaxCalls
    /\ calls' = calls + 1
    /\ pc' = [pc EXCEPT ![r] = "bump"]
    /\ reply' = [reply EXCEPT ![r] = "none"]
    /\ UNCHANGED <<files, lpc, mem, want, wrapper, history, crashes, faults, exits>>

(* Tracker.Request, outside the store's mutex.                             *)
RequestRestart(r) ==
    /\ pc[r] = "bump"
    /\ Bump
    /\ pc' = [pc EXCEPT ![r] = "idle"]
    /\ reply' = [reply EXCEPT ![r] = "signaled"]
    /\ UNCHANGED <<card, argsFile, lpc, mem, want, wrapper, torn, counts>>

(* Bump cannot write: 500 restart_failed.                                  *)
RequestFails(r) ==
    /\ pc[r] = "bump" /\ faults < MaxFaults
    /\ faults' = faults + 1
    /\ pc' = [pc EXCEPT ![r] = "idle"]
    /\ reply' = [reply EXCEPT ![r] = "failed"]
    /\ UNCHANGED <<files, lpc, mem, want, wrapper, history, calls, crashes, exits>>

(* Store.RecordCapacity rewrites the whole card from memory.               *)
RecordCapacity ==
    /\ Serving /\ StoreFree
    /\ card' = mem
    /\ torn' = FALSE
    /\ UNCHANGED <<argsFile, genFile, clock, lpc, mem, requests, wrapper,
                   unsignalled, counts>>

-----------------------------------------------------------------------------
(* The wrapper: supervise_engine in common.sh.                             *)

(* The waits before it are over: the sentinel is there, and the handoff is *)
(* there or has timed out.                                                 *)
ReadGeneration ==
    /\ wpc = "start"
    /\ wgen' = genFile
    /\ wpc' = "launch"
    /\ UNCHANGED <<files, lpc, mem, requests, wenv, wread, engine, history, counts>>

(* load_engine_args_from_handoff: only a non-empty file replaces, and      *)
(* exports, ENGINE_ARGS.                                                   *)
HandoffSpeaks == argsFile \notin {Missing, Empty}

(* Mutant: the handoff is loaded once, not before every launch. *)
LaunchLoadsOnce ==
    /\ wpc = "launch"
    /\ wread' = argsFile
    /\ wenv' = IF HandoffSpeaks /\ wread = Missing THEN argsFile ELSE wenv
    /\ engine' = wenv'
    /\ wpc' = "running"
    /\ UNCHANGED <<files, lpc, mem, requests, wgen, history, counts>>

Launch ==
    /\ wpc = "launch"
    /\ wread' = argsFile
    /\ wenv' = IF HandoffSpeaks THEN argsFile ELSE wenv
    /\ engine' = wenv'
    /\ wpc' = "running"
    /\ UNCHANGED <<files, lpc, mem, requests, wgen, history, counts>>

(* The poll sees a generation that is not the one it launched under.       *)
PollRestart ==
    /\ wpc = "running" /\ genFile # wgen
    /\ wgen' = genFile
    /\ wpc' = "stopping"
    /\ UNCHANGED <<files, lpc, mem, requests, wenv, wread, engine, history, counts>>

(* stop_engine_child, and the settle loop: the child is gone.              *)
StopEngine ==
    /\ wpc = "stopping"
    /\ engine' = NoEngine
    /\ wpc' = "launch"
    /\ UNCHANGED <<files, lpc, mem, requests, wgen, wenv, wread, history, counts>>

(* The engine exits by itself.                                             *)
EngineExit ==
    /\ wpc = "running" /\ engine # NoEngine /\ exits < MaxExits
    /\ exits' = exits + 1
    /\ engine' = NoEngine
    /\ UNCHANGED <<files, lpc, mem, requests, wpc, wgen, wenv, wread, history,
                   calls, crashes, faults>>

(* kill -0 finds no child: the wrapper exits with its status and kubelet   *)
(* starts the container, and the chart's environment, afresh.              *)
WrapperExit ==
    /\ wpc = "running" /\ engine = NoEngine
    /\ wpc' = "start"
    /\ wenv' = Chart
    /\ UNCHANGED <<files, lpc, mem, requests, wgen, wread, engine, history, counts>>

-----------------------------------------------------------------------------

RequestStep(r) ==
    \/ PutHandoff(r) \/ PutHandoffFails(r)
    \/ RequestRestart(r) \/ RequestFails(r)

Boot == BootReconcile \/ BootHandoff \/ BootBump

WrapperStep ==
    ReadGeneration \/ Launch \/ PollRestart \/ StopEngine \/ WrapperExit

Next ==
    \/ Boot \/ Crash
    \/ \E r \in Requests :
          \/ \E a \in Args : PutCard(r, a)
          \/ PostRestart(r)
          \/ RequestStep(r)
    \/ RecordCapacity
    \/ WrapperStep \/ EngineExit

Spec == Init /\ [][Next]_vars

(* What is already started goes on: llm-init boots, a handler runs to its  *)
(* end, the shell keeps polling.  No call, crash or fault is ever due.     *)
Fairness ==
    /\ WF_vars(Boot)
    /\ \A r \in Requests : WF_vars(RequestStep(r))
    /\ WF_vars(WrapperStep)

FairSpec == Spec /\ Fairness

-----------------------------------------------------------------------------

StateTypeOK ==
    /\ card \in Args \cup {Missing}
    /\ argsFile \in Args \cup {Missing}
    /\ genFile \in Nat /\ clock \in Nat
    /\ lpc \in {"reconcile", "handoff", "bump", "serving"}
    /\ mem \in Args
    /\ pc \in [Requests -> {"idle", "handoff", "bump"}]
    /\ want \in [Requests -> Args]
    /\ reply \in [Requests -> {"none", "not-needed", "signaled", "failed"}]
    /\ wpc \in {"start", "launch", "running", "stopping"}
    /\ wgen \in Nat
    /\ wenv \in Args
    /\ wread \in Args \cup {Missing}
    /\ engine \in Args \cup {NoEngine}
    /\ calls \in 0..MaxCalls /\ crashes \in 0..MaxCrashes
    /\ faults \in 0..MaxFaults /\ exits \in 0..MaxExits

HistoryTypeOK == unsignalled \in BOOLEAN /\ torn \in BOOLEAN

(* The values every variable can have, bounds included.                    *)
TypeOK == StateTypeOK /\ HistoryTypeOK

(* The engine is running and the wrapper sees no reason to restart it.     *)
Settled == wpc = "running" /\ engine # NoEngine /\ wgen = genFile

(* The wrapper reads the generation BEFORE the flags, so an edit that      *)
(* lands between the two reads is either seen by the second or announced   *)
(* by a generation the wrapper has still to notice: an engine the wrapper  *)
(* is content with runs the published flags, once every change of them has *)
(* been signalled.  common.sh: gen=$(read_restart_gen) before the launch   *)
(* loop, gen=$new on a restart.                                            *)
SettledRunsHandoff ==
    Settled /\ ~unsignalled /\ HandoffSpeaks => engine = argsFile

(* ApplySpec holds the mutex over both writes, so between requests memory, *)
(* the handoff and the card tell one story; the card is ahead only after a *)
(* PUT that failed on the handoff, until something rewrites it.            *)
OneStory ==
    Serving /\ StoreFree =>
        /\ argsFile = mem
        /\ ~torn => card = mem

(* A PUT answered "not-needed" leaves no engine on other flags than the    *)
(* card's, unless the signal that will move it is already on its way.  A   *)
(* crash or a failed write between the two writes may have lost the signal.*)
StaleEngine == Settled /\ HandoffSpeaks /\ engine # argsFile

Undisturbed == crashes = 0 /\ faults = 0

NotNeededIsTrue ==
    [][\A r \in Requests :
         Undisturbed /\ reply'[r] = "not-needed" /\ reply[r] # "not-needed"
            => ~StaleEngine' \/ BumpPending']_vars

(* The same when only writes fail: a PUT that is sent again because its    *)
(* signal could not be written is told the truth as well.                  *)
NotNeededOnRetry ==
    [][\A r \in Requests :
         crashes = 0 /\ reply'[r] = "not-needed" /\ reply[r] # "not-needed"
            => ~StaleEngine' \/ BumpPending']_vars

(* An llm-init that has finished booting leaves no stale engine behind:    *)
(* boot compares the handoff with the card precisely to correct an edit    *)
(* that raced ahead of the engine (config/modelspec.go, applySpecSideEffects). *)
BootCorrectsStaleArgs ==
    [][Boot /\ Serving' => ~StaleEngine']_vars

(* The calls are finite, so every edit gets there unless llm-init dies or  *)
(* a write fails: in the end the engine runs, and on the flags of the card *)
(* (an empty card publishes none).                                         *)
EditReachesEngine ==
    []Undisturbed => <>[](/\ engine # NoEngine
                          /\ card # Empty => engine = card)

=============================================================================
