# Model Console: a verification development

TLA+ modules, TLC configurations and TLAPS proofs for Model Console (`llm-init`),
the Go sidecar that gets a model onto a volume, tells an engine container how to
launch, watches it, and fronts it with an OpenAI-compatible data plane. Every
definition is translated from the Go and shell sources; `PROJECT.json` maps each
one to its lines.

## 1. The system

Two containers share the directory `RUN_DIR` and the model volume. **llm-init**
(Go) resolves `MODEL_SOURCE`, downloads, writes the readiness sentinel and the
launch flags, and serves HTTP. The **engine container** runs a shell wrapper
(`deploy/wrappers/common.sh`) that waits for the sentinel, launches the engine
(vLLM, SGLang, llama.cpp, ...; for Ollama the daemon runs from the start) and polls
for a restart generation. They communicate through files and HTTP probes only.

| Component | State | Operations | Talks to |
| --- | --- | --- | --- |
| Model card and `runtimecfg.Store` | card file, in-memory card, mutex | boot reconcile, `ApplySpec` (PUT), `RecordCapacity` | handoff files, lifecycle |
| Handoff (`engine_args`, `engine_restart`) | two files in `RUN_DIR` | `WriteEngineArgs`, `Bump` | polled by the wrapper |
| Wrapper (`common.sh`) | last generation, exported `ENGINE_ARGS`, child | wait, launch, poll, stop, exit | engine process |
| Restart tracker | status, supervision evidence (file), one goroutine per request | `Request`, `observe`, `settle`, `persistSupervision`, `Relaunching` | handoff, engine probe, health loop |
| Lifecycle | phase, last error, cached probe, pending retry options, wake channel | `Run`, `ensure`, `healthLoop`, `RetryWith`, `requestReensure` | everything |
| Download record, drift | `*.llm-init.json` beside the file | reuse, write, remove, drift check | fetch, upstream |
| Readiness sentinel | three files in `RUN_DIR` | `Write`, `WriteExtra`, `Remove` | wrapper |
| `fetch.RangeDownloader` | `.part` file | HEAD, ranged GET, retry, rename, verify | upstream |
| hf wrapper | subprocess, watchdog, aggregator | run, kill on stall, classify | Hugging Face CLI |
| Progress manager | state, file rows, subscribers | sink calls, `Seed*`, save and load | UI, SSE |
| Capacity reporter | attempts, settled reading, restart token | `Run`, `record` | engine, store |
| KV budget | a weighted semaphore as large as the pool | `admit`, release, rebuild | data plane |
| Engine-spec cache, endpoint catalogue, mode guard | cached report, its age, a mutex; boot mode | `engineEndpoints`, `fetchEngineSpec`, `ModeGuard` | engine, UI |
| Chat and Anthropic routes | per request: accumulators of a stream | translate, stream, buffer | engine, client |
| Retry limiter, queue depth, probes, not-ready gate | one value under a mutex each | HTTP handlers | lifecycle |
| Config parsing, other routes, diagnostics, metrics, UI | none that lasts | pure functions, reporting | - |

What is hard here, and what makes each part correct:

* **Handoff.** Two processes race over two files that are written one after the
  other. Correct: an edit is either seen by the launch that follows or announced by
  a generation the wrapper has yet to notice; memory, handoff and card agree; a crash
  or a failing write between the two files does not strand the engine.
* **Tracker.** Observations are superseded, cancelled and time out while the engine
  flaps. Correct: what the status says about a request was found by probes made for it,
  and every request gets a verdict.
* **Lifecycle.** `Run` and the health loop both write the phase, wake-ups use a
  channel that is replaced, and probes are older than what they are compared with.
  Correct: each writer leaves the other's phases alone, a retry is honoured, the
  console ends up saying what is so.
* **Downloads.** The process may die between the bytes, the record and the sentinel;
  the upstream moves; partial files outlive both; `hf` hangs or is killed as it ends.
  Correct: a record never vouches for bytes it did not see, a pinned digest is never
  announced with other bytes, a sentinel names a file that is there, what an earlier pass
  left cannot block later ones, and every pass ends.
* **Progress.** Bars of several files interleave under shortened labels and start over;
  a pass is resumed, forced or restored. Correct: every byte is charged once, and neither
  a row nor the card reads finished while something is owed.
* **KV budget.** A semaphore is replaced while requests hold it and queue on it. Correct:
  room is given back exactly as it was taken, nobody waits for room nobody holds, and what
  is let in fits the pool.
* **Card and capacity.** Boots, edits, relaunches and readings of the engine interleave.
  Correct: the card says what its flags mean, a restart changes nothing an operator set,
  and the capacity on the card is in the end that of the engine that runs.
* **Catalogue.** One reader asks the engine while the others queue on its mutex; answers
  fail, change and age. Correct: the last verdict stands, for a TTL at most; nobody waits
  for ever; what is offered is served.
* **Streams.** Text and fragments of several calls interleave, and the upstream stops
  anywhere. Correct: the client gets everything once and in order, in events that follow
  the protocol, and the request ends.

## 2. Modules

| Module | Models | Uses |
| --- | --- | --- |
| `EngineHandoff` | card, store, handoff files, boot, wrapper | - |
| `RestartVerdict` | abstract: what `GET /api/engine/restart` promises | - |
| `RestartTracker` | `handoff.Tracker`, its observations and callers | instance of `RestartVerdict` |
| `Lifecycle` | `Run`, `ensure`, health loop, retry, engine | - |
| `UrlDownload` | URL passes: record, drift, sentinel, range download | - |
| `HFDownload` | `hf://` passes: hf subprocess, watchdog, ref, snapshots, records, drift | - |
| `ProgressFeed` | progress manager, file rows, hf aggregator, seeding, save and restore | - |
| `EngineFlags` | what `ENGINE_ARGS` means: parsing, window, slots, pool | - |
| `EngineCapacity` | what an engine publishes, and what a reading is made of | `EngineFlags` |
| `ModelCard` | the card: boot, edit, relaunch, capacity reporter | `EngineCapacity` |
| `KVBudget` | the gate: charge, reserve, queue, release, rebuild | - |
| `EngineCatalog` | engine-spec cache, catalogue rows, mode guard | - |
| `AnthropicStream` | abstract: what a client of `/v1/messages` is promised | - |
| `MessageStream` | one request through the translators and their streams | instance of `AnthropicStream` |
| `..._proofs` | theorems about the module each is named after (section 4) | that module, `TLAPS` |
| `Accounts_proofs` | theorems about `KVBudget` and `ProgressFeed`, which share the theory of sums | both, `TLAPS` |
| `DataPlane_proofs` | theorems about `EngineCatalog` and `MessageStream` | both, `TLAPS` |
| `MC...` | small instances of the module each is named after | that module |

**EngineHandoff.** `lpc` is where `llm-init` is between its start and serving
(`ReconcileModelSpecFile`, `WriteEngineArgs`, `Bump` are separate steps); `pc[r]` is
where an HTTP request is. `PutCard` takes the store's mutex and writes the card,
`PutHandoff` the handoff and the in-memory card, `RequestRestart` bumps. The wrapper's
`wgen`, `wenv`, `wread` are its shell variables: `ReadGeneration` comes before `Launch`,
as in `supervise_engine`. Of a card only `engine_args` is kept. `Bump` is one
step here; that its temporary file is shared by callers is `RestartTracker`'s subject.
A published empty handoff says nothing about the engine's flags (`HandoffSpeaks`):
see Divergences.

**RestartTracker.** One state machine per generation (`opc`), with the goroutine's locals
`down`, `confirmed`, and callers (`rpc`) whose `Bump` is a write to the shared temporary
file and a rename. `Settle` is the generation gate; `Persist` is not gated, as in the
code. A probe made under a cancelled context fails. `sawDown` and `sawUp` are history:
what probes that were really made have found. `ImplementsVerdict` is a refinement:
state `confirmed` maps to `down` or `back` by `ObservedBackAt`.

**Lifecycle.** `pc` is where `Run` and the pass it drives are, `hpc` where the health
loop is; each `Update` of the phase is a step and so is what comes before and after it
(`MarkRelaunching` then `Own`; `Recover` or `MarkDown` then `Disown`). `woken` says that
the channel `Run` *waits on* has been closed: `Park` takes a fresh one. A `deployment` is
chosen in the initial state: whether the engine is alive before boot (`Daemon`), the main
source's kind (`Source`), and how many outages happen. The time grace of the health loop is
a count of failing probes in a row. A relaunch is in flight for as long as its environment
likes.

**UrlDownload.** A file is the sequence of the objects its blocks come from, so mixtures
are values and stand for their own digests. A pass goes through `reuse`, `unrecord`, HEAD,
attempts, `rename`, `verify`, `record`, `publish`; a crash can fall between any two, a
transfer can break after any block. If-Range carries the ETag of the HEAD of *this*
Download, because lifecycle sets no other. `Register` is part of `publish`. The model
covers `ensureURL` and `ensureOllamaURL`, which differ in where the file is.

**HFDownload.** The cache is huggingface_hub's: `ref` names the last commit, `snap[c]` the
links of a commit, `store` the blobs several commits share. The `hf` command is external:
it resolves the branch, writes the ref, then fetches link by link what leads nowhere; it
may hang, fail in any class that stderr can be put in, or be killed by the watchdog. `rec`
is llm-init's own record, one per commit and source. The pass takes source after source
(main, then mmproj), each with the reuse check at its level, the drift check, the run, the
record; the branch can move between any two steps and the process can crash.

**ProgressFeed.** The card's state (`st`) with its rows, the manager's flags and name sets
(`mgr`), and the aggregator (`agg`) that charges tqdm lines to files. A line carries a
shortened label and rounded counts, so two files can look alike (`Candidates`). History:
`best`, the furthest a bar showed; `owed`, what the pass must still transfer. All writers
are on one goroutine or the stderr pump it waits for: a line's sink calls are one step.

**EngineFlags, EngineCapacity, ModelCard.** `EngineFlags` has the parser and the derived
numbers for every kind; llama.cpp's window, slots and pool depend on each other, on
padding and on `--kv-unified`. `EngineCapacity` puts together a reading from what the kind
publishes and what is declared. `ModelCard` has the life: `Boot` reconciles the card on
disk with the chart, `Put` normalises and replaces it, `Launch` and `Relaunch` resolve
the flags as the wrapper hands them on, and the reporter reads the flags, asks the engine
and records in three steps. The crash windows within a PUT are `EngineHandoff`'s subject; here
a PUT is one step under the store's mutex.

**KVBudget.** A request reads the pool off the card (outside the lock), charges itself by a
loose bound or by the tokenizer's count, takes the live semaphore or replaces it when the
size differs, then acquires, queues, times out or is refused, and releases on the
semaphore it was given. The weighted semaphore is external: first come, first served.
`engine` is the card the running engine was launched with.

**EngineCatalog.** `Ask` reads the mode and whether the engine is worth asking; `Reuse` and
`StartFetch` take the mutex; `Answered`, `Lost` and `TimedOut` end a fetch. `Catalog` is the
rows in the code's order of corrections: own rows, what an authoritative spec drops and
adds, what an unknown one leaves unconfirmed, then the mode. A PUT changes the mode on the
`card` only (`PutCard`); `Boot` reads it into the config the catalogue is built from (`mode`)
and into the guard (`bootMode`). `verdict` and `settled` are history. Time is in ticks, two to a TTL and one to a timeout (5 s and 2 s in the code).

**AnthropicStream, MessageStream.** `AnthropicStream` is the event protocol: blocks one at
a time, numbered from 0, one `message_delta`, one `message_stop`. Each of its actions adds an
event to `told`, so whatever a client sees must be an action's step: an event repeated or sent
after the end is none, and no stutter either. `MessageStream` is a
request on one of four routes: its conversation on the way up (`posted`), the
retry without a thinking level the daemon refuses, the engine's frames, the translator's
accumulators (`acc`), and events one at a time (`out`). A fragment is known by the number
of its frame, so a loss, a repetition and a swap all show. `FollowsProtocol` is the
refinement: the client's view of the emitted events is a behaviour of `AnthropicStream`.

## 3. Runs

Deadlock is checked for the handoff and the catalogue, which always have a step. The other
models stop when their bounded environment is used up and everyone is parked, so their
configurations say `CHECK_DEADLOCK FALSE`; that nobody is stuck is what the liveness
properties say.

| Run | Question | Bounds |
| --- | --- | --- |
| `handoff` | Does a settled engine run the published flags, do memory, handoff and card agree, is `not-needed` true, does every edit get there? | 2 concurrent requests, 3 calls, 1 each of crash, fault, exit; embedding flags, merged |
| `tracker_verdict` | Does the status rest on evidence for the request it names, and implement `RestartVerdict`? | 2 concurrent callers, 2 requests, a window of at most 2 probes, 1 flap, 1 restart |
| `lifecycle_phases` | Do `Run` and the health loop leave each other's phases alone, is a forced retry forced, does a proxy engine's console end up right? | proxy with `hf://` and 2 outages; daemon with `ollama-url` and 1; 1 each of retry, failure, relaunch |
| `lifecycle_lostmodel` | Does a daemon that lost its model get it back? **No**, when it was away past the grace. | 1 outage |
| `url_safety` | Are record and sentinel true of the file, does a pinned source get its bytes, do the passes come to rest? | 3 objects of 1 and 2 blocks, 2 sources, 1 retry of a transfer, 1 each of the rest |
| `hf_snapshot` | Does a record list a whole snapshot, does the sentinel name one, does a completed pass boot offline, does every pass end? | 2 sources over 3 files, 2 commits that share 2 blobs, 2 passes, 1 each of failure, hang, damage, crash |
| `progress_card` | Is every byte charged once, and is what reads done done? | 3 files, two with one base name, in 2 runs of hf; 2 passes, 1 restart, 1 bar that starts over |
| `kv_room` | Is room given back as taken, does nobody wait for nothing, does what is inside fit? | 3 requests, 6 kinds of body, 4 cards, 1 edit |
| `card_life` | Is the card honest, does a restart keep it, does the capacity follow the engine? | llama.cpp, 1 chart with split slots, 2 edits' flags in 2 modes, 2 boots, 1 outage, 2 attempts |
| `card_slots` | Can every card's window be worked out? **No**: `-c N -np 0` divides by zero. | 1 edit |
| `message_wire` | Does the client get everything, in the protocol's order, and does the request end? | 4 routes, 2 calls, 5 frames, 5 conversations and 2 chats |
| `catalog` | Does the last verdict stand, for a TTL at most, is what is offered served, is every reader answered? | 2 readers, 7 answers of the engine, 2 modes, with and without an engine |

The type invariants (`TypeOK` of each module) were checked along with the properties while
the models were written; the run of `handoff` keeps its own because it is proved.

Why the bounds are enough. The hazards listed in `PROJECT.json` need at most two
concurrent callers, one superseded observation, and one crash or fault between two steps;
the bounds admit those, and the mutants (a plausible bug for every property of every
passing run) are all found within them. Two
blocks are the least with which a partial file and a mixture exist; two objects of equal
length are what makes a length check blind, a third of another length what makes it see.
`Window = 1` lets an observation see both sides of an edge and also run out before it.
Two commits that share a blob and differ in another are what lets a damaged blob serve both
and a branch move between main and mmproj. Two files of one base name, one of which prints
its full size early, are what the aggregator can confuse. Three requests are the least for
one that holds, one that waits and one that overtakes; the bodies include one that never
fits, one on the fast path and one the tokenizer is not asked about. Five frames hold two
interleaved calls, text on both sides, and the end.

Fairness. `handoff`: a booting process goes on, a handler that has begun ends, the
wrapper keeps polling. `tracker`: a goroutine that is not blocked runs, sleeps and
probes are bounded by timers; an engine being relaunched comes up. `Lifecycle`:
`Run` and the health loop run on unless they wait for the engine or a wake-up, the backoff
timer fires; an engine that can start does. `UrlDownload`, `HFDownload`: a pass goes on, a
due pass begins, the subprocess goes on unless it hangs, and the watchdog's timer fires.
`ModelCard`: the wrapper launches, the health loop polls, the reporter's ticker ticks.
`MessageStream`: the handler runs, and a silent engine runs into the client's timeout
(30 minutes on both upstream clients), a broken read. No call, crash, fault, outage, frame
or upstream change is ever due. Weak fairness is enough, on the disjunction of one thread's
steps, but for `EngineCatalog`: taking the mutex is strongly fair, as Go's mutex hands itself
to a waiter that has starved; the timeout and the clock are weakly fair.

What the properties exclude by name: `NotNeededIsTrue` and `EditReachesEngine` speak of
runs in which nothing crashed and no write failed (Divergences says what happens then).
`DeclaredBytesOnly` and `RecordIsTrue` say nothing of
a stale record that could not be *removed* (the code logs this and goes on).
`RecordIsTrue` says nothing of a file damaged since; `DeclaredBytesOnly` does, at the
levels that hash.
`SentinelNamesFile` excepts the file a failed digest deletes (Divergences).
`BootLoadIsRuns` excepts passes during which the health loop records a loading as its own
(`claimed`), and `SupervisionEarned` speaks of the first process, for the reasons under
Divergences. `DownloadSettles` supposes that the upstream
ends up serving what the source declares: a wrong pin is retried for ever by design.
`SentinelIsWhole` and `CompletedPassBootsOffline` are about volumes that keep what was
written. The properties of `ProgressFeed` suppose that the bars of a pass can be told apart
by label and size (`Nameable`), and those about what is owed that the branch has not replaced
a file on disk (`ProgressFeed_moved.cfg` is what happens then). `SteadyPoolHolds` is about an unedited card, and about
requests the gate meters. `StreamSaysItAll` is about streams that reached their last frame.

## 4. Proofs

Eight `..._proofs` modules hold the theorems; `PROJECT.json` lists 33. Each is a statement
`Spec => []P` or `Spec => [][A]_vars` for every value of the constants, from an inductive
invariant that contains `P`, `Init`, and one step per action; two are refinements, initial
state and steps. Every invariant and action property of a run is one of them. The invariants
were checked by TLC on the runs' constants before they were proved. The assumptions are named
in the module that declares the constants, and TLC evaluates them in every run.

**EngineHandoff.** Any set of flags, merge, number of requests and bounds, from
`ArgsAssumption` (the chart's and the empty flags are flags, the two file markers are not),
`MergeAssumption` (merging is idempotent, as appending a missing flag is) and
`BoundsAssumption`.

* `TypeCorrect`: `TypeOK`.
* `SettledEngineRunsHandoff`: `SettledRunsHandoff` is not inductive: a wrapper that launched
  on an old generation must be known not to *meet* it again. `FlagsInv` adds that every
  generation anybody holds is at most the clock, so a bump always makes the wrapper's
  differ. The steps fall into a few kinds (`StepKinds`): those that touch nothing relevant,
  a write of the flags, a bump, a launch.
* `StoreTellsOneStory`: `OneStory`. `StoryInv` says that between the two writes of a PUT
  there is exactly one writer (`OneWriter`: the mutex) and what half of the story it has told
  (`HalfStory`).
* `NotNeededIsSo`: `NotNeededIsTrue`. `SignalIsComing`: undisturbed, flags that no
  generation has announced have a bump on its way. It needs both invariants above: a PUT
  compares with the memory, and only `HalfStory` says that this is what was published.

**UrlDownload.** Any objects and lengths, sources with any pins, either standing level and
any bounds, from `ObjectsAssumption` (an object has at least one block) and
`NoFileAssumption` (that there is no file is not a file). None of the three properties is
inductive; `UrlInv` is their conjunction with

* `FilesOK`: the file and the `.part` are files. Resuming (`PartIsFile`) and damage keep it.
* `Unvouched`: while bytes are being replaced the record is gone, or could not be removed.
  Hence `RecordTrue`: `RecordIsTrue`.
* `Checked`: past the download there is a file, past its check it fits. `Withdrawn`: a forced
  pass that is about to remove the file has dealt with the sentinel. Hence `SentinelTrue`:
  `SentinelNamesFile`.
* `PinRecorded`: the record of a pinned source holds the pinned digest. So the shortcut
  over a local file is as good as a download: `PinnedBytes`: `DeclaredBytesOnly`.

**Lifecycle.** Any set of deployments in which an engine that is not alive before boot gets
its model from a URL or the Hub (`DeploymentsAssumption`), any grace and bounds.

* `EnsureKeepsItsPhase`: `EnsureOwnsItsPhase`. The lemma `HealthMovesOwnPhases` says that the
  health loop moves the phase out of ready, degraded or a loading it owns only;
  `OutcomeIsCurrent` that the outcome `Run` parks with is of the pass before the park.
* `BootLoadStaysRuns`: `BootLoadIsRuns`. `OwnedIsClaimed`: what the health loop owns it has
  claimed since the pass began, as the pass gave up the rest; `LoadIsRuns`: a proxy engine's
  pass does not announce by itself, and until somebody claims it or it is announced the phase
  stays loading.
* `RetryKeepsForce`: `ForceHonoured`, as the options that wait are always those of the last
  retry (`PendingIsAsked`).

**RestartTracker.** Any callers, window and numbers of requests, flaps and restarts.
`TrackerInv` is `TypeOK`, the two properties, and

* `GenerationsAreNew`: a generation is armed once, by the caller it was given to.
* `CurrentIsLive`: the observation the status names exists and was not cancelled.
* `ProbesTell`: the locals of an observation that was not cancelled repeat what its probes
  found, one probe behind between a probe and its judgement. `StatusTells`: the status repeats
  the locals. `IdleBelievesDisk`: an idle process observes nothing.

Hence `VerdictsHaveEvidence`, `SupervisionIsEarned`, and `TrackerRefinesVerdict`: the initial
state is one of `RestartVerdict` and every step is a step or a stutter there. That the
verdict arrives (the fairness half of `ImplementsVerdict`) is checked by TLC.

**HFDownload.** Any files, blobs and finite number of commits numbered from 1, any non-empty
list of sources each of which wants something (`SourcesAssumption`; the runs have
two), any bounds. `CacheInv` is `TypeOK`, two of the properties, and `DownloadTells` (what hf has
not still to do is linked, so an exit without an error leaves everything linked),
`RecordsHold` (on an undamaged volume what is recorded is there in full, under every
commit), `PassTells` (each source the pass has behind it has a record under the commit it was
found at, the last one's is what the ref names). Hence `RecordsAreComplete`,
`SentinelStaysWhole`, `CompletedPassesBootOffline`.

**KVBudget.** Any finite set of requests, any bodies whose tokens are at most their bytes,
any cards, reserve and fast path. `GateInv` is `TypeOK`, `RoomIsAccounted`,
`WaitsForSomebody` and

* `AskersTell`: who will ask a semaphore for room was given one as large as the capacity it
  was measured against, and waits only for what that semaphore could give.
* `HoldersTell`: room is held on a semaphore there is, by a request past the gate.
* `LinesTell`: a line holds those who wait on its semaphore, each once. Without it a
  request let in twice would break the account.
* `SteadyTells`: until the first edit there is one semaphore, of the card's size, and nobody is
  charged less than measuring the request says.

Hence `RoomStaysAccounted`, `WaitersHaveCause`, `SteadyPoolIsKept`. The account is a sum over a
set of requests; the first part of `Accounts_proofs` is its theory (a sum is a number, changes by
one summand, is monotonic, is that of a disjoint union), the second that of a line from which
the longest prefix that fits is let in (`LineSplits`, `LetInFits`).

**ProgressFeed.** Any files of any sizes, with any base names, in any number of sources and any
queue; any rounding and a tolerance of at least half of it (`SizesAreReal`), sources that share
no file and a queue that lists each file once (`SourcesAreApart`); any numbers of passes,
restarts and bars that start over. `EveryByteOnce` alone is not inductive: that a line charges
the card what its bar has gained needs that the aggregator remembers what the bar showed
before, and that a line of one file does not reach the bar or the row of another. `FeedInv` is
`EveryByteOnce` and

* `FeedTypes`, `Stages`: the phase is that of the stage; only a file of the running source
  that is still owed has been shown by a bar.
* `CardHolds`: the rows of a pinned card are the queue's, of any other one per base name met
  so far; no row and no count of files exceeds its total; every bar has its row.
* `BarsTell`: among bars that can be told apart (`Nameable`) the aggregator holds of each what
  it last showed, or nothing when it has shown nothing. It rests on `RouteNameable`: the
  label and the size of such a line lead to its own file.
* `RowsTell`: a row reads done while its file is owed only when its bar closed it, and was
  counted done then, once.

Hence `BytesCountedOnce`, `RowsDoneAreDone` and, from both, `FinishedCardIsWhole`;
`CardNeverStepsBack` is the action property, as no sink call takes bytes back within a pass.

**EngineCatalog.** Any readers, modes, answers, TTL and timeout. `SpecInv` is `Clocks`,
`ReportIsVerdict` (the kept report is the last verdict, and lists rows), `YoungReportIsCurrent`
(a report younger than what the engine says *is* what the engine says) and `AnswerTells` (the
same of the response under way). With lemmas about each correction of the rows, hence
`VerdictsStand` and `ReportsAreFresh`. `OffersAreServed` rests on `OneMode`: the catalogue, the
guard and every reader under way go by one mode, that of the boot, whatever is on the card.
`RequestsAssumption` (no reader is called nobody) keeps the mutex apart from its holders.

**MessageStream.** Any of the four routes (`RoutesAssumption`), any finite set of calls
(`CallsAssumption`), any cap on the answer (`TokensAssumption`), any number of frames in any
order, and any end. The properties speak of what was emitted, but the translator decides on
several events at once; so `StreamInv` speaks of the `Wire`, what was emitted and what is about
to be, and is

* `StreamTypes`, `BeforeFrames`: nothing is accumulated before the engine has answered.
* `WireFollows`: of any two neighbours on the wire the second may follow the first
  (`MayFollow`, `MayFollowChunk`), and the first event is one that may begin. Order is then a
  matter of joints: a translated frame is in order by itself, and only its first event meets
  the last one before.
* `WireStands`: while frames come the text's block is open, on `/v1/chat/completions` the role
  has been told if anything was said, and a stream that ended has its end marker.
* `BlocksCount`: as many blocks have begun as the number of the block at hand tells.
* `AccTells`: what is accumulated of a call are its fragments in order, and the stop reason is
  tool use when a frame said so.
* `SaidSoFar`: the text on the wire is that of the frames, once and in order; at the end the
  calls are, too. `InOrderLists` says that the buffered calls are listed each once and in the order
  of their index (or their arrival), `ToolBlocks` then has three events for each.

Hence `StreamsSayItAll`, `ChatStreamsKeepShape`, and `StreamFollowsProtocol`: the initial state is
one of `AnthropicStream`, every `Emit` on `/v1/messages` is a step there (`EmitRefines`: one case
for each kind of event, the event heard being the one the action tells), and every other step
shows the client nothing. `ResultsAlwaysFollow` is about the way up: in a conversation of any length, with any
blocks, in which each result answers a call of the assistant's turn before it, with only
other results between (`ConversationsAssumption`, `ChatsAssumption`: both APIs ask this of
their clients). By induction on the turns, what was put together so far has the results in their
place, *and* every assistant's message in it is followed by results only, for as long as only
results came (`SaidUpstream`, `TurnMore`).

**ModelCard**, with `EngineFlags` and `EngineCapacity`. Any kind of engine, any padding, any
flags that are sequences of tokens whose numbers are integers (`FlagsAssumption`), any charts,
edits and bounds; a card without a mode is refused (`ModesAssumption`:
`validateModelSpec`). `CardInv` says that whoever runs serves what is on disk and has handed
over flags; that flags that were handed over are those of a card on disk which is `Honest`
and `Made` (it has its key and a mode), *also while llm-init is down*. The two lemmas it rests
on are that what `Normalised` returns is honest (`NormalisedIsHonest`) and that an honest card
is what `Normalised` makes of it (`HonestIsNormal`); so a reboot neither changes a card nor
divides by zero on one that was ever served. Hence `CardStaysHonest`, `RestartsKeepTheCard`.
`UngatedSlotsAlwaysFit` is the arithmetic of pools, quotients and padding (`SlotsFit`), on
numbers that the parser delivers as such (`KnownHoldsValues`).

Some proofs need induction over data: sums over a set, the parser's state after each token, a
conversation flattened turn by turn. The library's induction theorems take a predicate, which
the provers cannot instantiate. These inductions are therefore done by a least counterexample:
`SmallestNat` and `SmallestSet` follow from well-foundedness (`WFMin`), which speaks of sets, and
a step shows that what is least is not.

Only model-checked is liveness and everything about `ENABLED`, which are beyond the prover:
`EditReachesEngine`, `ServesInTheEnd`, `DownloadSettles`, `PassEnds`, `CapacityFollowsEngine`,
`RequestEnds`, `ReadersAreAnswered`, and the fairness half of `ImplementsVerdict`. What a request
without streaming is answered (`CollectProxy` and its like, folds over the frames) has no
theorem; a run only tells its stop reason from the stream's (`MessageStream_stop.cfg`).

## 5. Divergences

Two of these are runs of `PROJECT.json`; each of the others has a configuration here whose
counterexample is the trace.

* `card_slots` (`ModelCard_slots.cfg`): `LlamacppContextSize` divides the pool by the slot
  count, and `-np 0` is parsed as a zero although it "counts as auto". Such a card is accepted
  by a PUT, or comes with the chart, and working out its window panics.
* `lifecycle_lostmodel` (`Lifecycle_lostmodel.cfg`): the self-heal is asked for only on the
  edge ready to degraded. A daemon unreachable at that moment that comes back empty is not
  asked about again.
* `EngineHandoff_crash.cfg`: PUT writes the flags, llm-init dies before `Bump`. The next boot
  finds equal bytes and does not signal; the engine keeps the old flags.
* `EngineHandoff_retry.cfg`: a PUT whose `Bump` fails answers 500 with the new card in memory;
  repeated, it compares equal and answers `not-needed` while the engine runs the old flags
  (`store.go:142`; `engine_restart.go:16`, "the card changed nothing the engine launches with").
* `RestartTracker_relaunching.cfg`: an observation that saw the engine go and reaches its
  deadline leaves `confirmed` with no `ObservedBackAt`; `Relaunching` stays true until the next
  request. A model that takes longer than the window to load is enough.
* `Lifecycle_lostretry.cfg`: `wakeLocked` closes a channel; a loop inside a pass waits on the
  one that replaced it. The retry was answered 202, and nothing follows.
* `Lifecycle_stuckloading.cfg`: `ready` is written by `ensure` for `ollama://` sources and by
  `Run` for engines that are not alive before boot; Ollama with `hf://` has neither.
* `UrlDownload_damaged.cfg`: a file of the advertised length is a finished download to
  `Download`, also when the caller has just rejected it. At `sha256` level without a pin the
  damaged bytes are then hashed and recorded, and pass from then on. The same shortcut makes
  `VERIFY_ON_DRIFT=follow` keep the old bytes, under the new ETag, when lengths agree.
* `HFDownload_damage.cfg`: likewise, `hf` without `--force-download` does not fetch a blob
  whose link leads somewhere, so a damaged snapshot is "downloading again"
  (`sidecar.go:309`) and keeps its bytes.
* `HFDownload_drift.cfg`: verdicts are kept by repository, so a projector that has not drifted
  takes back what was said of the model beside it (`drift.go:95`, "Verdicts accumulate here
  and are shown together").
* `KVBudget_rebuilt.cfg`: an edit changes the pool at once and the engine only at its relaunch;
  until then requests holding room on the discarded semaphore are still at the engine
  (`kvbudget.go:248-250`, "the engine they were talking to no longer exists").
* `ModelCard_capacity.cfg`: a PUT whose body has no capacity block clears the card's, and the
  reporter, settled, does not put it back when the flags and the engine are the same
  (`controlplane/modelspec.go:26-27`, "retains ownership of extensions.capacity").
* `ModelCard_pending.cfg`: the fields named as pending compare with the card before, not with
  what the process was built from; a second edit drops them from the list.
* `ProgressFeed_moved.cfg`: a file of an older snapshot is seeded as on disk; when the branch has
  since replaced it, hf fetches it, its bytes count twice and the pinned total is overshot
  (`download_budget.go:140-143`).
* `MessageStream_stop.cfg`: a completion that ends with `stop` exactly at the cap is
  `max_tokens` in a stream and `end_turn` in a buffered answer (`proxy/messages.go:458-460`,
  "matches the non-streaming heuristic"). One cut by length with a call in it differs too.

Seen while modelling, and left without a configuration of their own:

* `common.sh:126` exports a non-empty handoff over `ENGINE_ARGS` for the wrapper's life, so
  clearing a card's flags relaunches on the previous card's, not the chart's
  (`common.sh:119-120`, "keeps the chart ENGINE_ARGS env").
* `persistSupervision` is not gated on the generation: an observation whose probe failed
  because it was cancelled writes `supervised=true`, which the next process believes
  (`tracker.go:334`; `:59-60`, "has been observed to stop the engine at least once"). Hence
  the condition in `SupervisionEarned`.
* `Request` calls `Bump` outside the mutex over one shared temporary file: two callers can
  leave one generation on disk and the other in the status (`tracker.go:184`).
* `recoverFromEngineOutage` takes back any `degraded`, also one a failing pass wrote, and
  clears its error (`healthloop.go:303`; `:297-298`, "both phases it accepts are ones this
  loop wrote"). Hence `EnsureOwnsItsPhase` speaks of permanent failures only.
* A relaunch noticed in a pass that reuses its bytes marks the `loading` that `ensure` is
  about to write as the health loop's, which then makes it `ready` before `WaitAlive`
  (`healthloop.go:253`); so does one noticed before the pass whose owner is recorded after the
  pass disowned it. Hence `~claimed` in `BootLoadIsRuns`.
* Probes that failed during a download count towards the grace, so one stale answer just
  after `ready` degrades it and asks for a needless pass (`healthloop.go:184`).
* lifecycle never sets `RangeOptions.ETag`, so a `.part` of an object the upstream has
  replaced is resumed and mixed when the HEAD of this Download gives the new ETag or none
  (`range.go:354`; `tests/download/README.md:45` has an ETag change discard it). Only a
  pinned digest catches it. Likewise the record keeps HEAD's ETag though GET may have
  found the next object.
* A digest mismatch in a pass that was not forced deletes the file the sentinel still
  names (`ensure.go:547`), the window `clearSentinelForForce` was written to close.
* `cost.go:20-23` says that a body past `maxBodyBytes` is forwarded in full; `bodyOf`
  truncates it at 8 MiB and one byte. A request whose tokenizer call fails, or a batch of
  prompts, whose loose bound exceeds the pool is forwarded without being metered.
* A PUT that turns a chat app into an embedding one relaunches llama.cpp with `--embedding`
  while the port still serves the chat routes.
* When the listing of one source failed, no rows are pinned and a row goes by base name
  (`progress/file.go`, `matchFileIndex`): two files of one name in different directories share
  one, which can read done while the second is owed. Hence `mgr.files \/ NamesDiffer` in
  `DoneRowsAreDone`.
* Two hf sources with one relative path share a progress row. A verdict of drift is not taken
  back by a later pass that finds none (`drift.go:64-66`). When the branch moves between main
  and mmproj, the next boot finds main's record under the old commit and needs the Hub.
* The progress bus drops the newest frame for a slow subscriber, so gauges can stay on an
  older phase (`progress.go:295-297`, "never stale ones").
* Streams: Ollama's buffered `/v1/messages` keeps only the last frame when the daemon sends
  frames; the aggregate keeps the calls of the last frame that has any; a malformed frame is
  skipped where `translate_messages.go` announces an error event; a cut chat stream ends
  with `[DONE]`, without a finish chunk and without its buffered calls.
* Catalogue: the alias `/api/chat/completions`, `/v1/completions` and the token count stay
  offered while an audio engine's spec is unknown. `Declares` compares the method and the
  spelling of `{id}`, `ServesPath` does not, so a row can read refused while the port forwards.

## 6. Not modelled, and why

* Lifecycle leaves out extra sources as passes of their own, the byte budget and shutdown.
  Removal of the extra-paths file, an engine that reads it, and `readiness.go`'s reader.
* `HFDownload` has one repository, one branch and one writer of the hf cache; of `hf` only what
  llm-init depends on (that a transport may skip the ref is not).
* `ProgressFeed` leaves out rates, the ETA and subscribers.
* `card_life` has llama.cpp, whose numbers depend on each other; the tables of the other kinds
  are in `EngineFlags` and `EngineCapacity` and have no run of their own.
* `MessageStream` leaves out images, token counts and whether arguments are JSON.
* Other adapter routes (pass-through, embeddings, model lists, the translate surface),
  diagnostics, metrics, logging, UI: stateless or reporting only.
* Token bucket and queue depth: one value under one mutex.
* Configuration parsing: string processing, once, before anything runs.
* Durations: timers fire at some time. Durability of renames beyond a process crash.
* Tests, deployment manifests, static assets.

## 7. Plan

What could follow:

1. The hazards of `PROJECT.json` without a property: the flags a wrapper keeps exporting, the
   two reads of `readiness.go`, extra paths written after the sentinel, a record that cannot be
   removed, and a slow subscriber's newest frame.
2. The buffered answers: an abstract answer that both the stream and the body implement.

## 8. Running

```
tlc -workers 2 -config RestartTracker_verdict.cfg RestartTracker.tla
tlc -workers 2 -config KVBudget_room.cfg MCKVBudget.tla
tlapm EngineHandoff_proofs.tla
tlapm Accounts_proofs.tla
tlapm DataPlane_proofs.tla
```
