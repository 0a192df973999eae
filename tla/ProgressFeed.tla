---------------------------- MODULE ProgressFeed ----------------------------
(***************************************************************************)
(* The download card: what internal/progress tells the dashboard and the   *)
(* metrics while an ensure pass fetches its hf:// sources.                 *)
(*                                                                         *)
(* Three layers write it.  The lifecycle enters the download phase, sizes  *)
(* the pass from the Hub listing and seeds the counters; hfwrap's          *)
(* aggregator turns the tqdm lines of up to max_workers interleaved bars   *)
(* into sink calls; the manager applies each call under its lock.  All     *)
(* writers run on the lifecycle goroutine or on the stderr pump it waits   *)
(* for, so the sink calls of one line are one step here.                   *)
(*                                                                         *)
(* Bytes are counted in small units, and a bar prints them rounded to      *)
(* Grain, as tqdm prints three significant digits.  Rates, the ETA and the *)
(* timestamps are left out: no counter depends on them.                    *)
(***************************************************************************)
EXTENDS Naturals, Sequences, FiniteSets, FiniteSetsExt, SequencesExt

CONSTANTS
  Files,      \* repository paths; Base[f] = f for a file at the root
  Base,       \* Base[f]: the file name hf prints as the label of f's bar
  Size,       \* Size[f]: its bytes, from the Hub listing
  Runs,       \* the sources in the order the pass runs hf: main, then mmproj
  Queue,      \* the order estimateDownloadBudget lists the files in
  Grain,      \* the rounding of a printed byte count
  Tolerance,  \* tqdmSizeTolerance
  MaxPasses, MaxBoots, MaxRewinds   \* bounds: passes, restarts, bars starting over

(* The base name of a base name is itself. *)
ASSUME SizesAreReal ==
  /\ Size \in [Files -> Nat \ {0}]
  /\ DOMAIN Base = Files
  /\ \A f \in Files : Base[f] \in Files => Base[Base[f]] = Base[f]
  /\ Grain \in Nat \ {0} /\ Tolerance \in Nat /\ 2 * Tolerance >= Grain

(* Each source lists files of its own: sources that share one are left out. *)
ASSUME SourcesAreApart ==
  /\ Runs \in Seq(SUBSET Files) /\ UNION Range(Runs) = Files
  /\ \A i, j \in DOMAIN Runs : i # j => Runs[i] \cap Runs[j] = {}
  /\ Queue \in Seq(Files) /\ Range(Queue) = Files
  /\ \A i, j \in DOMAIN Queue : Queue[i] = Queue[j] => i = j

VARIABLES
  st,     \* progress.State: phase, counters, file rows
  mgr,    \* the manager's budget flags and its seen / done name sets
  agg,    \* the running hf's aggregator: key -> bar state
  stage,  \* the lifecycle: idle, choose, run, loading
  pass,   \* the pass: force, entered, the trees it fetched, the source at hand,
          \* and those it ran hf for
  rec,    \* sources with a download record
  have,   \* files in the snapshot the ref names
  stale,  \* those of them the Hub has since replaced
  bar,    \* bar[f]: where hf's bar for f stands
  best,   \* the furthest a line of this pass showed it
  owed,   \* what this pass still has to transfer
  seed,   \* the bytes it was seeded with
  saved,  \* progress_state.json, as the next process will take it
  passes, boots, rewinds

shown == <<st, mgr, agg>>
disk == <<rec, have, stale>>
count == <<passes, boots, rewinds>>
transfer == <<bar, best, owed, seed>>
feedVars == <<shown, stage, pass, disk, transfer, saved, count>>

Names == Files \cup Range(Base)
Phases == {"init", "download", "loading", "ready", "degraded"}
Total(S) == SumFunctionOnSet(Size, S)
Larger(a, b) == IF a > b THEN a ELSE b
Smaller(a, b) == IF a < b THEN a ELSE b

-----------------------------------------------------------------------------
(* File rows (progress/file.go).                                           *)

FileBase(p) == IF p \in Files THEN Base[p] ELSE p

\* Mutant: the base name decides alone.
MatchFileIndexByBase(rows, p) ==
  LET fits == {i \in DOMAIN rows : FileBase(rows[i].path) = FileBase(p)}
  IN  IF fits = {} THEN 0 ELSE Min(fits)

\* The row a name belongs to, 0 when there is none: the exact path, else a
\* waiting row with that base name, else any row with it.
MatchFileIndex(rows, p) ==
  LET exact == {i \in DOMAIN rows : rows[i].path = p}
      any == {i \in DOMAIN rows : FileBase(rows[i].path) = FileBase(p)}
      waiting == {i \in any : rows[i].status = "waiting"}
  IN  CASE exact # {} -> Min(exact)
        [] exact = {} /\ waiting # {} -> Min(waiting)
        [] exact = {} /\ waiting = {} /\ any # {} -> Min(any)
        [] OTHER -> 0

\* A name no row carries appends one, and raises files_total unless pinned.
AppendRow(s, row, grow) ==
  LET rows == Append(s.files, row)
  IN  [s EXCEPT !.files = rows,
                !.ftotal = IF grow THEN Larger(@, Len(rows)) ELSE @]

\* Mutant: a bar that starts on a finished row reopens it.
MarkFileStartReopens(s, p, n, grow) ==
  LET i == MatchFileIndex(s.files, p)
  IN  IF i = 0
      THEN AppendRow(s, [path |-> p, total |-> n, done |-> 0, status |-> "downloading"], grow)
      ELSE [s EXCEPT !.cur = p, !.files[i].status = "downloading"]

MarkFileStart(s, p, n, grow) ==
  LET i == MatchFileIndex(s.files, p)
      t == [s EXCEPT !.cur = p]
  IN  IF i = 0
      THEN AppendRow(t, [path |-> p, total |-> n, done |-> 0, status |-> "downloading"], grow)
      ELSE [t EXCEPT !.files[i].status = IF @ = "done" THEN @ ELSE "downloading",
                     !.files[i].total = Larger(@, n)]

AddFileBytes(s, p, d, grow) ==
  LET i == MatchFileIndex(s.files, p)
      Clip(row) == IF row.total > 0 THEN Smaller(row.done + d, row.total) ELSE row.done + d
  IN  IF i = 0
      THEN AppendRow(s, [path |-> p, total |-> 0, done |-> d, status |-> "downloading"], grow)
      ELSE [s EXCEPT !.files[i].status = IF @ = "waiting" THEN "downloading" ELSE @,
                     !.files[i].done = Clip(s.files[i])]

MarkFileDone(s, p, grow) ==
  LET i == MatchFileIndex(s.files, p)
  IN  IF i = 0
      THEN AppendRow(s, [path |-> p, total |-> 0, done |-> 0, status |-> "done"], grow)
      ELSE [s EXCEPT !.files[i].status = "done",
                     !.files[i].done = IF s.files[i].total > 0 THEN s.files[i].total ELSE @]

-----------------------------------------------------------------------------
(* The manager.  A write is a record x: the state, and the manager's own   *)
(* bookkeeping beside it.                                                  *)

Now == [st |-> st, mgr |-> mgr]
NoBudget == [bytes |-> FALSE, files |-> FALSE, seen |-> {}, done |-> {}]

Update(x, s) == [x EXCEPT !.st = s]

OnFileStart(x, p, n) ==
  LET m == IF x.mgr.files THEN x.mgr ELSE [x.mgr EXCEPT !.seen = @ \cup {p}]
      seen == IF x.mgr.files THEN 0 ELSE Cardinality(m.seen)
      s == [x.st EXCEPT !.total = IF m.bytes THEN @ ELSE @ + n,
                        !.ftotal = Larger(@, seen)]
  IN  Update([x EXCEPT !.mgr = m], MarkFileStart(s, p, n, ~m.files))

OnFileBytes(x, p, d) ==
  Update(x, AddFileBytes([x.st EXCEPT !.done = @ + d, !.cur = p], p, d, ~x.mgr.files))

OnFileDone(x, p) ==
  LET Closed(s) == [s EXCEPT !.cur = IF @ = p THEN "" ELSE @]
      Counted(s) == [s EXCEPT !.fdone = IF s.ftotal > 0 THEN Smaller(@ + 1, s.ftotal) ELSE @ + 1]
  IN  IF p \in x.mgr.done
      THEN Update(x, Closed(x.st))
      ELSE Update([x EXCEPT !.mgr.done = @ \cup {p}],
                  Closed(MarkFileDone(Counted(x.st), p, ~x.mgr.files)))

OnFilesTotal(x, n) == Update(x, [x.st EXCEPT !.ftotal = Larger(@, n)])

OnPhase(x, p) == Update(x, [x.st EXCEPT !.phase = p])

SeedDownloadBudget(x, total, completed) ==
  LET y == Update(x, [x.st EXCEPT !.total = total, !.done = Smaller(completed, total)])
  IN  [y EXCEPT !.mgr.bytes = total > 0]

SeedDownloadFileList(x, rows) ==
  LET y == Update(x, [x.st EXCEPT !.files = rows, !.ftotal = Len(rows),
                        !.fdone = Cardinality({i \in DOMAIN rows : rows[i].status = "done"})])
  IN  [y EXCEPT !.mgr.files = rows # <<>>]

Publish(x) == st' = x.st /\ mgr' = x.mgr

-----------------------------------------------------------------------------
(* The aggregator (hfwrap/aggregator.go, labels.go, scanner.go).           *)

\* A byte count as tqdm prints it and parseHFProgressLine reads it back.
Printed(n) == ((n + Grain \div 2) \div Grain) * Grain

SizeMatchesTQDM(want, total) == want <= total + Tolerance /\ total <= want + Tolerance

\* The listed files a bar can be counting: by name, and by size when several
\* share the name.
Candidates(tree, label, total) ==
  LET named == {f \in tree : Base[f] = label}
  IN  IF Cardinality(named) <= 1 THEN named
      ELSE {f \in named : SizeMatchesTQDM(Size[f], total)}

\* An unnameable bar is keyed by its label, where one that rewinds, or that
\* counts to another total after the last one finished, is the next bar.
IsNextBar(fs, down, total) == down < fs.down \/ (fs.completed /\ total # fs.total)

NewBar(p) == [path |-> p, down |-> 0, total |-> 0, started |-> FALSE, completed |-> FALSE]

\* Mutant: bars are keyed by the label alone.
RouteByLabel(a, tree, label, down, total) ==
  LET key == <<"label", label>>
  IN  [key |-> key, fs |-> IF key \in DOMAIN a THEN a[key] ELSE NewBar(label)]

\* The state a line belongs to, with the key it is kept under.
Route(a, tree, label, down, total) ==
  LET hits == Candidates(tree, label, total)
      key == IF Cardinality(hits) = 1 THEN <<"path", CHOOSE f \in hits : TRUE>>
             ELSE <<"label", label>>
      kept == key \in DOMAIN a /\ (key[1] = "label" => ~IsNextBar(a[key], down, total))
  IN  [key |-> key, fs |-> IF kept THEN a[key] ELSE NewBar(key[2])]

\* One parsed line: start or top up the bar, report the bytes it gained over
\* its last line, and report it done once.
OnProgress(x, a, tree, label, down, total) ==
  LET r == Route(a, tree, label, down, total)
      p == r.fs.path
      grown == ~r.fs.started \/ total > r.fs.total
      x1 == IF grown THEN OnFileStart(x, p, total - r.fs.total) ELSE x
      f1 == IF grown THEN [r.fs EXCEPT !.started = TRUE, !.total = total] ELSE r.fs
      x2 == IF down > f1.down THEN OnFileBytes(x1, p, down - f1.down) ELSE x1
      f2 == [f1 EXCEPT !.down = Larger(@, down)]
      ends == ~f2.completed /\ f2.down >= f2.total
      x3 == IF ends THEN OnFileDone(x2, p) ELSE x2
      f3 == [f2 EXCEPT !.completed = @ \/ ends]
  IN  [x |-> x3, agg |-> [k \in DOMAIN a \cup {r.key} |-> IF k = r.key THEN f3 ELSE a[k]]]

-----------------------------------------------------------------------------
(* The lifecycle's writes (lifecycle/download_budget.go, ensure.go).       *)

SettleFileRows(s) ==
  LET rows == [i \in DOMAIN s.files |->
                 [s.files[i] EXCEPT !.status = "done",
                                    !.done = IF s.files[i].total > 0 THEN s.files[i].total ELSE @]]
      n == Larger(s.ftotal, Len(rows))
  IN  [s EXCEPT !.files = rows, !.ftotal = n, !.fdone = n]

SetPhase(x, p) ==
  LET s == [x.st EXCEPT !.phase = p]
      zero == [s EXCEPT !.total = 0, !.done = 0, !.ftotal = 0, !.fdone = 0,
                        !.cur = "", !.files = <<>>]
  IN  CASE p = "download" -> [Update(x, zero) EXCEPT !.mgr = NoBudget]
        [] p = "loading" -> Update(x, SettleFileRows(s))
        [] OTHER -> Update(x, s)

\* The queue of an estimate: what the snapshot already holds is done.
QueueRows(cached) ==
  [i \in DOMAIN Queue |->
     IF Queue[i] \in cached
     THEN [path |-> Queue[i], total |-> Size[Queue[i]], done |-> Size[Queue[i]], status |-> "done"]
     ELSE [path |-> Queue[i], total |-> Size[Queue[i]], done |-> 0, status |-> "waiting"]]

\* Mutant: a forced pass is seeded with what it is about to fetch again.
CachedAlways(force) == have

\* Force re-fetches what is cached, so nothing of it is seeded.
Cached(force) == IF force THEN {} ELSE have

\* The listings are fetched for mmproj, then main, and the first that fails
\* gives up the pin and keeps the listings before it.
Listings == {UNION {Runs[i] : i \in k .. Len(Runs)} : k \in 1 .. Len(Runs) + 1}

EnterDownloadPhase(x, force, tree) ==
  LET y == SetPhase(x, "download")
  IN  IF tree # Files THEN y
      ELSE SeedDownloadFileList(SeedDownloadBudget(y, Total(Files), Total(Cached(force))),
                                QueueRows(Cached(force)))

ReconcileModelBytes(x) ==
  LET n == Larger(x.st.total, Total(have))
  IN  Update(x, [x.st EXCEPT !.total = n, !.done = n])

-----------------------------------------------------------------------------
Idle == [force |-> FALSE, entered |-> FALSE, moved |-> FALSE, tree |-> {}, at |-> 1,
         ran |-> {}]
Fresh == [phase |-> "init", total |-> 0, done |-> 0, ftotal |-> 0, fdone |-> 0,
          cur |-> "", files |-> <<>>]
Zero == [f \in Files |-> 0]

\* hf is gone, and the pass's own counts with it.
Quiet == agg' = <<>> /\ bar' = Zero /\ best' = Zero /\ owed' = {} /\ seed' = 0

\* What a process that loads the saved state starts from: a ready card keeps
\* its bytes, every other one is reset, and the rows never survive.
Sanitised(s) ==
  IF s.phase = "ready" THEN [Fresh EXCEPT !.phase = "ready", !.total = s.total, !.done = s.done]
  ELSE Fresh

FeedInit ==
  /\ st = Fresh /\ mgr = NoBudget /\ agg = <<>>
  /\ stage = "idle" /\ pass = Idle
  /\ rec = {} /\ have \in SUBSET Files /\ stale = {}
  /\ bar = Zero /\ best = Zero /\ owed = {} /\ seed = 0
  /\ saved = Fresh
  /\ passes = 0 /\ boots = 0 /\ rewinds = 0

\* A pass begins: at boot, on POST /api/retry, or after a failure's backoff.
Start(force) ==
  /\ stage = "idle" /\ passes < MaxPasses
  /\ passes' = passes + 1
  /\ pass' = [Idle EXCEPT !.force = force]
  /\ stage' = "choose"
  /\ UNCHANGED <<shown, disk, transfer, saved, boots, rewinds>>

\* runHF: a record short-circuits the subprocess and the phase with it.
Reuse ==
  /\ stage = "choose" /\ pass.at <= Len(Runs)
  /\ ~pass.force /\ pass.at \in rec
  /\ pass' = [pass EXCEPT !.at = @ + 1]
  /\ UNCHANGED <<shown, stage, disk, transfer, saved, count>>

\* runHF otherwise: enter the download phase once per pass and spawn hf.
Spawn(tree) ==
  /\ stage = "choose" /\ pass.at <= Len(Runs)
  /\ pass.force \/ pass.at \notin rec
  /\ rec' = rec \ {pass.at}
  /\ pass.entered => tree = pass.tree
  /\ LET x == IF pass.entered THEN Now ELSE EnterDownloadPhase(Now, pass.force, tree)
     IN  /\ Publish(OnPhase(x, "download"))
         /\ IF pass.entered THEN UNCHANGED <<best, owed, seed>>
            ELSE /\ best' = Zero
                 /\ owed' = IF pass.force THEN Files ELSE (Files \ have) \cup stale
                 /\ seed' = x.st.done
  /\ pass' = [pass EXCEPT !.entered = TRUE, !.tree = tree, !.ran = @ \cup {pass.at},
                          !.moved = @ \/ (~pass.entered /\ stale # {})]
  /\ agg' = <<>>
  /\ bar' = Zero
  /\ stage' = "run"
  /\ UNCHANGED <<have, stale, saved, count>>

\* hf finishes a file and links it into the snapshot.
Fetched(f) ==
  /\ have' = have \cup {f}
  /\ stale' = stale \ {f}
  /\ owed' = owed \ {f}

\* A bar prints a line; it counts up, or starts over after hf's own retry.
Line(f, n) ==
  /\ stage = "run" /\ f \in owed \cap Runs[pass.at]
  /\ n = 0 /\ bar[f] > 0 => rewinds < MaxRewinds
  /\ n = 0 \/ n > bar[f]
  /\ rewinds' = IF n < bar[f] THEN rewinds + 1 ELSE rewinds
  /\ LET r == OnProgress(Now, agg, pass.tree \cap Runs[pass.at],
                         Base[f], Printed(n), Printed(Size[f]))
     IN  Publish(r.x) /\ agg' = r.agg
  /\ bar' = [bar EXCEPT ![f] = n]
  /\ best' = [best EXCEPT ![f] = Larger(@, n)]
  /\ IF n = Size[f] THEN Fetched(f) ELSE UNCHANGED <<have, stale, owed>>
  /\ UNCHANGED <<stage, pass, rec, seed, saved, passes, boots>>

\* A file may finish without its last line reaching the pump.
Silent(f) ==
  /\ stage = "run" /\ f \in owed \cap Runs[pass.at]
  /\ Fetched(f)
  /\ UNCHANGED <<shown, stage, pass, rec, bar, best, seed, saved, count>>

\* "Fetching N files" is one hf batch, not the whole pass.
Banner ==
  /\ stage = "run"
  /\ st.ftotal < Cardinality(Runs[pass.at])
  /\ Publish(OnFilesTotal(Now, Cardinality(Runs[pass.at])))
  /\ UNCHANGED <<agg, stage, pass, disk, transfer, saved, count>>

ExitOk ==
  /\ stage = "run" /\ owed \cap Runs[pass.at] = {}
  /\ rec' = rec \cup {pass.at}
  /\ pass' = [pass EXCEPT !.at = @ + 1]
  /\ stage' = "choose"
  /\ agg' = <<>> /\ bar' = Zero
  /\ UNCHANGED <<st, mgr, have, stale, best, owed, seed, saved, count>>

ExitFail ==
  /\ stage = "run"
  /\ Publish(OnPhase(Now, "degraded"))     \* Manager.fail, retriable
  /\ stage' = "idle" /\ Quiet
  /\ UNCHANGED <<pass, disk, saved, count>>

\* Every source is there: reconcile the counters, settle the rows.
Load ==
  /\ stage = "choose" /\ pass.at > Len(Runs)
  /\ Publish(SetPhase(ReconcileModelBytes(Now), "loading"))
  /\ stage' = "loading" /\ Quiet
  /\ UNCHANGED <<pass, disk, saved, count>>

Alive ==
  /\ stage = "loading"
  /\ Publish(SetPhase(Now, "ready"))
  /\ stage' = "idle"
  /\ UNCHANGED <<agg, pass, disk, transfer, saved, count>>

\* The branch moves on the Hub and a pass drops the records to follow it;
\* the ref, and so what counts as cached, is still the old commit's.
BranchMoves(S) ==
  /\ stage = "idle" /\ stale = {} /\ rec # {} /\ S # {} /\ S \subseteq have
  /\ stale' = S
  /\ rec' = {}
  /\ UNCHANGED <<shown, stage, pass, have, transfer, saved, count>>

\* The process stops, saving its state when it is asked to and not when it
\* is killed, and the next one loads the file and sanitises it.
Restart(graceful) ==
  /\ boots < MaxBoots
  /\ boots' = boots + 1
  /\ saved' = IF graceful THEN Sanitised(st) ELSE saved
  /\ st' = saved'
  /\ mgr' = NoBudget /\ stage' = "idle" /\ pass' = Idle /\ Quiet
  /\ UNCHANGED <<disk, passes, rewinds>>

FeedNext ==
  \/ \E force \in BOOLEAN : Start(force)
  \/ Reuse
  \/ \E tree \in Listings : Spawn(tree)
  \/ \E f \in Files : \E n \in 0 .. Size[f] : Line(f, n)
  \/ \E f \in Files : Silent(f)
  \/ Banner \/ ExitOk \/ ExitFail \/ Load \/ Alive
  \/ \E S \in SUBSET Files : BranchMoves(S)
  \/ \E graceful \in BOOLEAN : Restart(graceful)

FeedSpec == FeedInit /\ [][FeedNext]_feedVars

-----------------------------------------------------------------------------
Row == [path : Names, total : Nat, done : Nat, status : {"waiting", "downloading", "done"}]

\* The state is a well-formed card with one row per name, and the disk holds
\* what it can hold.
FeedTypeOK ==
  /\ st.phase \in Phases /\ st.cur \in Names \cup {""}
  /\ {st.total, st.done, st.ftotal, st.fdone} \subseteq Nat
  /\ \A i \in DOMAIN st.files : st.files[i] \in Row
  /\ \A i, j \in DOMAIN st.files : st.files[i].path = st.files[j].path => i = j
  /\ mgr \in [bytes : BOOLEAN, files : BOOLEAN, seen : SUBSET Names, done : SUBSET Names]
  /\ stage \in {"idle", "choose", "run", "loading"}
  /\ pass.at \in 1 .. Len(Runs) + 1 /\ pass.tree \in Listings
  /\ pass.ran \subseteq DOMAIN Runs
  /\ rec \subseteq DOMAIN Runs /\ stale \subseteq have /\ have \subseteq Files
  /\ \A f \in Files : bar[f] <= best[f] /\ best[f] <= Size[f]

\* The bars of the sources hf was run for could each be told from every other.
Nameable ==
  \A i \in pass.ran : \A f \in Runs[i] :
     Candidates(pass.tree \cap Runs[i], Base[f], Printed(Size[f])) = {f}

NamesDiffer == \A f, g \in pass.tree : Base[f] = Base[g] => f = g

Downloading == pass.entered /\ st.phase = "download"
AsPrinted(f) == Printed(best[f]) = Printed(Size[f])

\* Aggregator.OnProgress: however hf's bars interleave, two of them sharing a
\* label and any of them starting over, bytes_completed is the seed plus what
\* each bar showed at its furthest, every byte once and none left out.
EveryByteOnce ==
  Downloading /\ Nameable =>
    st.done = seed + SumFunctionOnSet([f \in Files |-> Printed(best[f])], Files)

\* matchFileIndex, markFileDone and the seeded queue: a row that reads done
\* is a file that needs no more transfer, to the precision hf prints, in a
\* forced pass over a full cache as well.  (Two files of one base name share a
\* row when no queue was seeded.)
DoneRowsAreDone ==
  Downloading /\ Nameable /\ ~pass.moved /\ (mgr.files \/ NamesDiffer) =>
    \A i \in DOMAIN st.files :
       st.files[i].status = "done" =>
         \/ st.files[i].path \notin owed
         \/ AsPrinted(st.files[i].path)

\* progress.State.FilesTotal: "the dashboard treats bytes_completed >=
\* bytes_total as finished only if every file is accounted for": with the
\* totals pinned, a card that reads finished owes nothing.
FinishedCardOwesNothing ==
  /\ Downloading /\ Nameable /\ ~pass.moved
  /\ mgr.bytes /\ mgr.files
  /\ st.done >= st.total /\ st.fdone >= st.ftotal
  => \A f \in owed : AsPrinted(f)

\* estimateDownloadBudget: "rather than pinning a total the stream would then
\* overshoot": a pinned total holds, up to what printing rounds up.
PinnedTotalHolds ==
  Downloading /\ Nameable /\ mgr.bytes =>
    st.done <= st.total
               + SumFunctionOnSet([f \in Files |-> Larger(Printed(Size[f]), Size[f]) - Size[f]], Files)

\* Within one download phase the card never steps back: not the bytes, not the
\* file counts, no row out of done.
NoStepBack ==
  [][Downloading /\ st'.phase = "download" /\ pass'.entered =>
       /\ st'.done >= st.done /\ st'.fdone >= st.fdone /\ st'.ftotal >= st.ftotal
       /\ \A i \in DOMAIN st.files :
            /\ st'.files[i].done >= st.files[i].done
            /\ st.files[i].status = "done" => st'.files[i].status = "done"]_feedVars

=============================================================================
