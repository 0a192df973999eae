----------------------------- MODULE HFDownload -----------------------------
(***************************************************************************)
(* hf:// sources: the download records, the hf subprocess behind its stall *)
(* watchdog, the Hub's branch that moves underneath, and the ensure pass   *)
(* that puts the sources together (lifecycle/ensure.go ensureHF and runHF, *)
(* lifecycle/sidecar.go, lifecycle/drift.go, adapter/hfwrap).              *)
(*                                                                         *)
(* All sources live in one repository, as a GGUF and its projector do, and *)
(* track its branch.  The cache is huggingface_hub's: refs/<branch> names  *)
(* the commit last fetched, snapshots/<commit> holds links, and a link     *)
(* leads to a blob shared by every commit that has the file unchanged.     *)
(* llm-init's records lie beside them, one per commit and source.  The hf  *)
(* command itself is external: it resolves the branch, writes the ref and  *)
(* fetches what no link leads to, and against a link that leads somewhere  *)
(* it is the "fast metadata diff" ensureHF describes.                      *)
(***************************************************************************)
EXTENDS Naturals, FiniteSets, Sequences

CONSTANTS
  Files,      \* the repository's files
  Wants,      \* Wants[s]: what source s includes; source 1 is the main one
  Commits,    \* 1 .. n, the commits the branch goes through
  Blob,       \* Blob[c][f]: the content of f in commit c
  MaxPasses, MaxFailures, MaxHangs, MaxDamage, MaxCrashes   \* bounds

Sources == DOMAIN Wants
Levels == {"size", "sha256", "remote"}
Blobs == {Blob[c][f] : c \in Commits, f \in Files}

ASSUME SourcesAssumption ==
  /\ Wants \in Seq(SUBSET Files) /\ Wants # <<>>
  /\ \A s \in Sources : Wants[s] # {}
  /\ Commits # {} /\ IsFiniteSet(Commits) /\ Commits = 1 .. Cardinality(Commits)

ASSUME BoundsAssumption ==
  /\ MaxPasses \in Nat /\ MaxFailures \in Nat /\ MaxHangs \in Nat
  /\ MaxDamage \in Nat /\ MaxCrashes \in Nat

VARIABLES
  hub, online,        \* where the branch points; whether the Hub answers
  ref, snap, store,   \* refs/<branch>; linked files per commit; blobs
  rec,                \* rec[c][s]: the files a record lists with their state
  sentinel,           \* the commit model_path leads into, 0 for none
  phase, note,        \* the card's phase and drift banner
  pc, pass,           \* the lifecycle and the pass at hand
  hf,                 \* the subprocess
  follow,             \* VERIFY_ON_DRIFT
  count               \* what has been spent of the bounds

cache == <<ref, snap, store, rec>>
world == <<hub, online, follow>>
vars == <<world, cache, sentinel, phase, note, pc, pass, hf, count>>

NoRec == [f \in {} |-> "full"]
NoProcess == [c |-> 0, todo |-> {}, hung |-> FALSE]
NoPass == [at |-> 1, force |-> FALSE, level |-> "size", got |-> [s \in Sources |-> 0],
           said |-> "", drifted |-> {}, failed |-> {}]

Spend(what) == count' = [count EXCEPT ![what] = @ - 1]

-----------------------------------------------------------------------------
(* What is on disk. *)

\* A link is there and leads to a blob.
Linked(c, f) == f \in snap[c] /\ store[Blob[c][f]] # "gone"

\* A blob's length, all a size check looks at.
Length(b) == IF store[b] = "short" THEN "short" ELSE "full"

\* A source's --include and --exclude, which both sides must read alike: the
\* argument list hf is given, and the filter over the snapshot it leaves.
MatchPatterns(f, s) == f \in Wants[s]
BuildArgs(s) == {f \in Files : MatchPatterns(f, s)}

\* scanHFSnapshot: what of a snapshot a source's patterns match, or all of it
\* when they match nothing, with the lengths found.
ScanHFSnapshot(c, s) ==
  LET all == {f \in Files : Linked(c, f)}
      mine == {f \in all : MatchPatterns(f, s)}
  IN  [f \in IF mine = {} THEN all ELSE mine |-> Length(Blob[c][f])]

\* CheckLocal: every recorded file is there with its length, and from sha256
\* up with the digest its blob is named after.
CheckLocal(r, c, level) ==
  /\ DOMAIN r # {}
  /\ \A f \in DOMAIN r :
       /\ Linked(c, f) /\ Length(Blob[c][f]) = r[f]
       /\ level # "size" => store[Blob[c][f]] = "ok"

\* reuseHFDownload up to the remote question: the ref names a commit, and the
\* source's record of it checks out.
Reusable(s, level) == ref # 0 /\ CheckLocal(rec[ref][s], ref, level)

\* checkHFDrift: a recorded file the branch now serves otherwise.
Drifts(s) == \E f \in DOMAIN rec[ref][s] : Blob[hub][f] # Blob[ref][f]

Verdicts(s) ==
  IF ~online THEN {"unknown"} ELSE {IF Drifts(s) THEN "found" ELSE "none"}

\* setDriftNote keeps a pass's verdicts by the name it is given, and the name
\* is the repository, so all sources here share one.  It retracts only a
\* banner this pass wrote.
Text(v) == IF v = "none" THEN "" ELSE v
SetDriftNote(v) ==
  note' = IF v = "none" /\ note # pass.said THEN note ELSE Text(v)

\* resolveDrift: reuse the local bytes whatever the answer, but for a drift
\* the operator asked to follow.
ResolveDrift(v) == v # "found" \/ ~follow

-----------------------------------------------------------------------------
Init ==
  /\ hub = 1 /\ online \in BOOLEAN /\ follow \in BOOLEAN
  /\ ref = 0 /\ snap = [c \in Commits |-> {}]
  /\ store = [b \in Blobs |-> "gone"]
  /\ rec = [c \in Commits |-> [s \in Sources |-> NoRec]]
  /\ sentinel = 0 /\ phase = "init" /\ note = ""
  /\ pc = "idle" /\ pass = NoPass /\ hf = NoProcess
  /\ count = [passes |-> MaxPasses, failures |-> MaxFailures, hangs |-> MaxHangs,
              damage |-> MaxDamage, crashes |-> MaxCrashes]

\* A pass: at boot, after a backoff, or on /api/retry with its options.
Start(force, level) ==
  /\ pc = "idle" /\ count.passes > 0
  /\ Spend("passes")
  /\ pass' = [NoPass EXCEPT !.force = force, !.level = level]
  /\ pc' = "source"
  /\ UNCHANGED <<world, cache, sentinel, phase, note, hf>>

\* The next source, or none left.
Result(c) == [pass EXCEPT !.got[pass.at] = c, !.at = @ + 1]
More(p) == pc' = IF p.at > Len(Wants) THEN "finish" ELSE "source"

\* runHF with a record that checks out: hf is never spawned.
Reuse(v) ==
  /\ pc = "source" /\ ~pass.force /\ Reusable(pass.at, pass.level)
  /\ IF pass.level = "remote"
     THEN /\ v \in Verdicts(pass.at) /\ ResolveDrift(v)
          /\ SetDriftNote(v)
          /\ pass' = [Result(ref) EXCEPT !.said = Text(v),
                        !.drifted = IF v = "found" THEN @ \cup {pass.at} ELSE @]
     ELSE v = "none" /\ note' = note /\ pass' = Result(ref)
  /\ More(pass')
  /\ UNCHANGED <<world, cache, sentinel, phase, hf, count>>

\* removeHFSidecars: every record of this source, and of no other.
RemoveHFSidecars(s) == [c \in Commits |-> [rec[c] EXCEPT ![s] = NoRec]]

\* runHF otherwise: enter the download phase and spawn hf.
Spawn ==
  /\ pc = "source"
  /\ \/ pass.force
     \/ ~Reusable(pass.at, pass.level)
     \/ /\ pass.level = "remote" /\ Reusable(pass.at, pass.level)
        /\ \E v \in Verdicts(pass.at) : ~ResolveDrift(v)
  /\ rec' = IF pass.force THEN RemoveHFSidecars(pass.at) ELSE rec
  /\ pass' = [pass EXCEPT !.failed = IF ref # 0 /\ DOMAIN rec[ref][pass.at] # {}
                                        /\ ~Reusable(pass.at, pass.level)
                                     THEN @ \cup {pass.at} ELSE @]
  /\ phase' = "download"
  /\ hf' = NoProcess
  /\ pc' = "run"
  /\ UNCHANGED <<world, ref, snap, store, sentinel, note, count>>

-----------------------------------------------------------------------------
(* The subprocess. *)

Running == pc = "run" /\ ~hf.hung

\* It asks the Hub for the branch's commit, and writes that to the ref.
Resolve ==
  /\ Running /\ hf.c = 0 /\ online
  /\ hf' = [hf EXCEPT !.c = hub,
              !.todo = {f \in BuildArgs(pass.at) : pass.force \/ ~Linked(hub, f)}]
  /\ ref' = hub
  /\ UNCHANGED <<world, snap, store, rec, sentinel, phase, note, pc, pass, count>>

\* It links a file, fetching the blob unless it is there and not forced.
Fetch(f) ==
  /\ Running /\ f \in hf.todo
  /\ LET b == Blob[hf.c][f]
         fresh == pass.force \/ store[b] = "gone"
     IN  /\ fresh => online
         /\ store' = IF fresh THEN [store EXCEPT ![b] = "ok"] ELSE store
  /\ snap' = [snap EXCEPT ![hf.c] = @ \cup {f}]
  /\ hf' = [hf EXCEPT !.todo = @ \ {f}]
  /\ UNCHANGED <<world, ref, rec, sentinel, phase, note, pc, pass, count>>

Hang ==
  /\ Running /\ count.hangs > 0
  /\ hf' = [hf EXCEPT !.hung = TRUE]
  /\ Spend("hangs")
  /\ UNCHANGED <<world, cache, sentinel, phase, note, pc, pass>>

\* classifyExit: what stderr names decides, and an error nobody knows is given
\* another try.
Permanent == {"repo", "gated", "revision", "token", "disk", "permission", "4xx", "usage"}
Stderr == Permanent \cup {"connection", "5xx", "unknown"}
ClassifyExit(why) == why \notin Permanent

\* runHF's error path: Manager.fail with what the error allows.
Fail(retriable) ==
  /\ phase' = IF retriable THEN "degraded" ELSE "failed"
  /\ pc' = "idle" /\ hf' = NoProcess
  /\ UNCHANGED <<world, cache, sentinel, note, pass>>

\* Mutant: no watchdog.
KillNever == FALSE /\ UNCHANGED vars
\* The watchdog kills a process that has said nothing for activityTimeout,
\* and a kill is retriable whatever its stderr says.
Kill == pc = "run" /\ hf.hung /\ Fail(TRUE) /\ UNCHANGED count

\* Mutant: a non-zero exit is taken for the end of the download.
ExitIgnored(why) ==
  /\ Running
  /\ \/ count.failures > 0 /\ Spend("failures")
     \/ ~online /\ why = "connection" /\ UNCHANGED count
  /\ hf.c # 0 /\ pc' = "exited"
  /\ UNCHANGED <<world, cache, sentinel, phase, note, pass, hf>>
\* hf exits non-zero.  With the Hub out of reach it always does so.
Exit(why) ==
  /\ Running
  /\ \/ count.failures > 0 /\ Spend("failures")
     \/ ~online /\ why = "connection" /\ UNCHANGED count
  /\ Fail(ClassifyExit(why))

\* hf exits zero.  The commit is read back from the ref.
ExitOk ==
  /\ Running /\ hf.c # 0 /\ hf.todo = {}
  /\ pc' = "exited"
  /\ UNCHANGED <<world, cache, sentinel, phase, note, pass, hf, count>>

\* Mutant: one record per commit, whichever source wrote it.
WriteHFSidecarPerCommit(s, c) ==
  [rec EXCEPT ![c] = [t \in Sources |-> IF t = s THEN ScanHFSnapshot(c, s) ELSE NoRec]]

WriteHFSidecar(s, c) == [rec EXCEPT ![c][s] = ScanHFSnapshot(c, s)]

Record ==
  /\ pc = "exited"
  /\ rec' = WriteHFSidecar(pass.at, ref)
  /\ pass' = Result(ref)
  /\ More(pass')
  /\ hf' = NoProcess
  /\ UNCHANGED <<world, ref, snap, store, sentinel, phase, note, count>>

\* Mutant: the engine is bound to whatever the ref names by now.
FinishAtRef ==
  /\ pc = "finish"
  /\ phase' = "loading"
  /\ sentinel' = ref
  /\ pc' = "idle"
  /\ UNCHANGED <<world, cache, note, pass, hf, count>>
\* ensureHF: the engine is bound to the main source's snapshot.
Finish ==
  /\ pc = "finish"
  /\ phase' = "loading"
  /\ sentinel' = pass.got[1]
  /\ pc' = "idle"
  /\ UNCHANGED <<world, cache, note, pass, hf, count>>

-----------------------------------------------------------------------------
(* The world. *)

BranchMoves ==
  /\ hub + 1 \in Commits
  /\ hub' = hub + 1
  /\ UNCHANGED <<online, follow, cache, sentinel, phase, note, pc, pass, hf, count>>

Network ==
  /\ online' = ~online
  /\ UNCHANGED <<hub, follow, cache, sentinel, phase, note, pc, pass, hf, count>>

\* The volume loses a blob, or truncates it, or flips bits in it.
Damage(b, how) ==
  /\ pc = "idle" /\ count.damage > 0 /\ store[b] = "ok"
  /\ store' = [store EXCEPT ![b] = how]
  /\ Spend("damage")
  /\ UNCHANGED <<world, ref, snap, rec, sentinel, phase, note, pc, pass, hf>>

\* The process dies, and hf with it.  The banner is in the progress state, which
\* a graceful stop saves and the next boot restores without clearing it.
Crash ==
  /\ pc # "idle" /\ count.crashes > 0
  /\ Spend("crashes")
  /\ pc' = "idle" /\ pass' = NoPass /\ hf' = NoProcess /\ phase' = "init"
  /\ note' \in {"", note}
  /\ UNCHANGED <<world, cache, sentinel>>

Subprocess ==
  Resolve \/ (\E f \in Files : Fetch(f)) \/ Kill \/ ExitOk \/ (~online /\ Exit("connection"))
Lifecycle == (\E v \in {"none", "found", "unknown"} : Reuse(v)) \/ Spawn \/ Record \/ Finish

Next ==
  \/ \E force \in BOOLEAN, level \in Levels : Start(force, level)
  \/ Lifecycle \/ Subprocess
  \/ Hang \/ \E why \in Stderr : Exit(why)
  \/ BranchMoves \/ Network \/ Crash
  \/ \E b \in DOMAIN store, how \in {"gone", "short", "flipped"} : Damage(b, how)

Spec == Init /\ [][Next]_vars
FairSpec == Spec /\ WF_vars(Lifecycle) /\ WF_vars(Subprocess)

-----------------------------------------------------------------------------
\* What a record lists.
Records == UNION {[F -> {"full", "short"}] : F \in SUBSET Files}

Passes == [at : 1 .. Len(Wants) + 1, force : BOOLEAN, level : Levels,
           got : [Sources -> Commits \cup {0}], said : {"", "found", "unknown"},
           drifted : SUBSET Sources, failed : SUBSET Sources]

CacheTypeOK ==
  /\ hub \in Commits /\ online \in BOOLEAN /\ follow \in BOOLEAN
  /\ ref \in Commits \cup {0} /\ sentinel \in Commits \cup {0}
  /\ snap \in [Commits -> SUBSET Files]
  /\ store \in [Blobs -> {"gone", "ok", "short", "flipped"}]
  /\ rec \in [Commits -> [Sources -> Records]]

PassTypeOK ==
  /\ phase \in {"init", "download", "loading", "degraded", "failed"}
  /\ note \in {"", "found", "unknown"}
  /\ pc \in {"idle", "source", "run", "exited", "finish"}
  /\ pass \in Passes
  /\ pc \in {"source", "run", "exited"} => pass.at \in Sources
  /\ pc = "finish" => pass.at = Len(Wants) + 1
  /\ hf \in [c : Commits \cup {0}, todo : SUBSET Files, hung : BOOLEAN]
  /\ count \in [passes : Nat, failures : Nat, hangs : Nat, damage : Nat, crashes : Nat]

\* The type invariant of the hf cache, the records and the pass.
TypeOK == CacheTypeOK /\ PassTypeOK

\* A record is written only by a download that ended well, so it lists every
\* file its source wants and each of them has been linked (writeHFSidecar after
\* Run returned without an error): killed, crashed and failed downloads leave
\* no record that calls a part the whole.
RecordIsComplete ==
  \A c \in Commits, s \in Sources :
    DOMAIN rec[c][s] # {} => Wants[s] \subseteq DOMAIN rec[c][s] \cap snap[c]

\* The path handed to the engine leads into a snapshot that holds every file
\* of the main source, also when the branch moves between the main download
\* and the projector's (ensureHF binds mainRes, not the ref), as long as the
\* volume keeps what was written to it.
SentinelIsWhole ==
  sentinel # 0 /\ count.damage = MaxDamage => \A f \in Wants[1] : Linked(sentinel, f)

\* A pass that completed leaves a record for every source under the commit the
\* ref names, the siblings' records beside each other, unless the branch moved
\* between two of its downloads: the next boot needs no Hub.
CompletedPassBootsOffline ==
  /\ pc = "idle" /\ pass.at > Len(Wants) /\ count.damage = MaxDamage
  /\ \A s \in Sources : pass.got[s] = pass.got[1]
  => \A s \in Sources : Reusable(s, "sha256")

\* Every pass ends, whatever the Hub and the hf process do: an unreachable Hub
\* is an error and a silent process is killed by the watchdog.
PassEnds == pc = "source" ~> pc = "idle"

\* What setDriftNote says of itself, "Verdicts accumulate here and are shown
\* together" (drift.go:95): a pass that found one of its sources drifted still
\* shows it when its checks are through.
DriftIsShown == pc = "finish" /\ pass.drifted # {} => note = "found"

\* What the warning of reuseHFDownload says of a snapshot that fails its check,
\* "downloading again" (sidecar.go:309): a pass that found a source damaged and
\* completed has its bytes back.
DamageIsRepaired ==
  pc = "finish" => \A s \in pass.failed : \A f \in Wants[s] :
    store[Blob[pass.got[s]][f]] = "ok"
=============================================================================
