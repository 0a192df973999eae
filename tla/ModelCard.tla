----------------------------- MODULE ModelCard ------------------------------
(***************************************************************************)
(* The model card: internal/config makes it at boot, PUT /api/model-spec   *)
(* replaces it, and the capacity reporter writes what the engine says of   *)
(* itself onto it.                                                         *)
(*                                                                         *)
(* The card is on a disk that outlives llm-init, and in memory; the engine *)
(* runs with the flags that were on it when its wrapper last launched it.  *)
(* The store serialises the writers; the reporter reads the flags, asks    *)
(* the engine and records the answer in three steps, with edits and        *)
(* relaunches in between.                                                  *)
(***************************************************************************)
EXTENDS EngineCapacity

CONSTANTS
    Kind,           \* ENGINE_KIND
    Charts,         \* of [mode, raw, rule]: what the environment declares
    Raws,           \* the flags an edit may carry
    Modes,          \* the modes an edit may carry
    Ladders,        \* the reasoning ladders an edit may put in place of its own
    KeepsCapacity,  \* an edit carries the capacity block it was served
    Configured,     \* ENGINE_MAX_CONCURRENCY, 0 if unset
    Attempts,       \* retryLimit
    MaxPuts, MaxBoots, MaxOutages, MaxMisses    \* bounds

ASSUME LimitsAssumption ==
    /\ KeepsCapacity \in BOOLEAN /\ Configured \in Nat
    /\ Attempts \in Nat \ {0}
    /\ MaxPuts \in Nat /\ MaxBoots \in Nat /\ MaxOutages \in Nat /\ MaxMisses \in Nat

EmbeddingFlag == Bare("--embedding")

(* What comes from outside, and the tokens there can be. *)
Given  == Raws \cup {chart.raw : chart \in Charts} \cup {NoArgs}
Tokens == {EmbeddingFlag} \cup UNION {ToSet(raw.tokens) : raw \in Given}

RawFlags == [balanced : BOOLEAN, tokens : Seq(Tokens)]

ASSUME FlagsAssumption ==
    /\ Given \subseteq RawFlags
    /\ \A t \in Tokens : t.val.num \in Int

(* A card without a mode is refused, whoever makes it. *)
ASSUME ModesAssumption ==
    "" \notin Modes /\ \A chart \in Charts : chart.mode # ""

VARIABLES
    up,             \* llm-init runs
    panicked,       \* working a card out has divided by zero
    disk,           \* the card's file
    card,           \* Store.cfg.Spec
    built,          \* what main assembled from the card it booted with
    named,          \* the fields the last edit named as pending
    handoff,        \* RUN_DIR/engine_args, and whether it is there
    engine,         \* [live, raw, actual]
    relaunch,       \* the wrapper has been asked to relaunch
    unseen,         \* an engine has come back and nobody has noticed
    token,          \* what Restarted() identifies
    reporter,       \* [step, attempts, settled, probed, token, target, answer]
    puts, boots, outages, misses

vars == <<up, panicked, disk, card, built, named, handoff, engine, relaunch,
          unseen, token, reporter, puts, boots, outages, misses>>

store  == <<disk, card>>
bounds == <<puts, boots, outages, misses>>

WithFlag(raw) == [raw EXCEPT !.tokens = Append(@, EmbeddingFlag)]

(* The flags there can be, and what the parser makes of them.              *)
AllRaws == Given \cup {WithFlag(raw) : raw \in Given}

Parsed == [raw \in AllRaws |-> Known(Kind, raw)]

Args(c) == Parsed[c.raw]

-----------------------------------------------------------------------------
(* What makes a card of what was submitted. *)

Blank == [mode |-> "chat", raw |-> NoArgs, keyed |-> TRUE, context |-> 0, output |-> 0,
          rule |-> "none", reading |-> NoReading]

NoCard == [Blank EXCEPT !.mode = ""]

(* EnsureModeRequiredEngineArgs. *)
WithModeFlags(c) ==
    IF Kind = "llamacpp" /\ c.mode = "embedding"
       /\ EmbeddingFlag \notin ToSet(c.raw.tokens)
    THEN [c EXCEPT !.raw = WithFlag(@)]
    ELSE c

(* The flags win over a stored window; what they leave open stays.         *)
(* Mutant: a window that is there is kept.                                 *)
WithContextOnce(c) == IF c.context > 0 THEN c ELSE [c EXCEPT !.context = ContextSize(Kind, Args(c))]

WithContext(c) ==
    LET n == ContextSize(Kind, Args(c))
    IN  IF n = 0 THEN c ELSE [c EXCEPT !.context = n]

(* A reply as large as the window is read as no ceiling. *)
WithOutput(c) ==
    IF c.mode # "chat" \/ c.context \div 4 = 0 \/ c.output \in 1..c.context - 1
    THEN c
    ELSE [c EXCEPT !.output = c.context \div 4]

Normalised(c) == WithOutput(WithContext(WithModeFlags(c)))

(* NormalizeSpecForEngine returns an error, or does not return. *)
Acceptable(c) == Parses(Kind, WithModeFlags(c).raw)
Panics(c)     == Acceptable(c) /\ ~Computable(Kind, Args(WithModeFlags(c)))

(* loadSpec: the card the environment would seed. *)
Seed(chart) == [Blank EXCEPT !.mode = chart.mode, !.raw = chart.raw, !.rule = chart.rule]

(* Flags come back from the chart only onto a card that never had the key. *)
(* Mutant: onto one whose flags were cleared, too.                         *)
BackfilledEmpty(c, chart) ==
    IF c.keyed /\ c.raw # NoArgs THEN c ELSE [c EXCEPT !.raw = chart.raw, !.keyed = TRUE]

Backfilled(c, chart) ==
    IF c.keyed THEN c ELSE [c EXCEPT !.raw = chart.raw, !.keyed = TRUE]

(* The disk wins, except for the reasoning ladder. *)
Reconciled(chart) ==
    IF disk = NoCard THEN Seed(chart)
    ELSE LET c == Backfilled(disk, chart)
         IN  IF chart.rule = "none" THEN c ELSE [c EXCEPT !.rule = chart.rule]

-----------------------------------------------------------------------------

NotProbing ==
    [step |-> "tick", attempts |-> 0, settled |-> FALSE, probed |-> NoArgs,
     token |-> 0, target |-> NoArgs, answer |-> Silent]

Resolved(raw) ==
    {[n \in Numbers |-> IF n = shrunk THEN Declared(Kind, Parsed[raw], 0)[n] \div 2
                        ELSE Declared(Kind, Parsed[raw], 0)[n]] :
        shrunk \in PublishedBy(Kind)}

Down == [live |-> FALSE, raw |-> NoArgs, actual |-> [n \in Numbers |-> 0]]

(* A cold volume, or a card from a version that had no engine_args key.    *)
Init ==
    /\ up = FALSE /\ panicked = FALSE
    /\ disk \in {NoCard, [Blank EXCEPT !.keyed = FALSE]}
    /\ card = NoCard /\ built = NoCard /\ named = {}
    /\ handoff = [there |-> FALSE, raw |-> NoArgs]
    /\ engine = Down
    /\ relaunch = FALSE /\ unseen = FALSE /\ token = 0
    /\ reporter = NotProbing
    /\ puts = 0 /\ boots = 0 /\ outages = 0 /\ misses = 0

(* Load, Reconcile and the side effects: the card is written back, the     *)
(* flags are handed over, and a wrapper that has others is told.           *)
Boot ==
    /\ ~up /\ ~panicked /\ boots < MaxBoots
    /\ boots' = boots + 1
    /\ \E chart \in Charts :
         LET seen == Reconciled(chart) IN
         /\ Acceptable(seen)
         /\ IF Panics(seen)
            THEN /\ panicked' = TRUE /\ disk' = seen
                 /\ UNCHANGED <<up, card, built, handoff, relaunch>>
            ELSE /\ up' = TRUE
                 /\ card' = Normalised(seen) /\ disk' = card' /\ built' = seen
                 /\ handoff' = [there |-> TRUE, raw |-> card'.raw]
                 /\ relaunch' = (relaunch \/ handoff' # handoff)
                 /\ UNCHANGED panicked
    /\ named' = {}
    /\ reporter' = [NotProbing EXCEPT !.token = token]
    /\ UNCHANGED <<engine, unseen, token, puts, outages, misses>>

Stop ==
    /\ up /\ boots < MaxBoots
    /\ up' = FALSE
    /\ UNCHANGED <<panicked, store, built, named, handoff, engine, relaunch, unseen,
                   token, reporter, bounds>>

(* The fields of an edit that nothing in this process can act on.          *)
PendingFields(before, after) ==
    (IF before.mode # after.mode THEN {"mode"} ELSE {})
    \cup (IF before.rule # after.rule THEN {"parameter_rules"} ELSE {})

(* PUT /api/model-spec: the card that was served, edited, and replaced as  *)
(* a whole by Store.ApplySpec.  A panic leaves everything as it was.       *)
Put ==
    /\ up /\ puts < MaxPuts
    /\ puts' = puts + 1
    /\ \E raw \in Raws, mode \in Modes, rule \in {card.rule} \cup Ladders,
          keep \in {TRUE, KeepsCapacity} :
         LET c == [card EXCEPT !.raw = raw, !.mode = mode, !.rule = rule,
                               !.reading = IF keep THEN @ ELSE NoReading]
         IN  /\ Acceptable(c)
             /\ IF Panics(c)
                THEN panicked' = TRUE /\ UNCHANGED <<store, named, handoff, relaunch>>
                ELSE /\ card' = Normalised(c) /\ disk' = card'
                     /\ named' = PendingFields(card, card')
                     /\ handoff' = [there |-> TRUE, raw |-> card'.raw]
                     /\ relaunch' = (relaunch \/ card'.raw # card.raw)
                     /\ UNCHANGED panicked
    /\ UNCHANGED <<up, built, engine, unseen, token, reporter, boots, outages, misses>>

-----------------------------------------------------------------------------
(* The engine container. *)

(* The wrapper launches with what is in the hand-off, once it is there;    *)
(* the engine resolves the flags as the hardware lets it.                  *)
Launch ==
    /\ ~engine.live /\ handoff.there
    /\ \E actual \in Resolved(handoff.raw) :
           engine' = [live |-> TRUE, raw |-> handoff.raw, actual |-> actual]
    /\ relaunch' = FALSE
    /\ unseen' = TRUE
    /\ UNCHANGED <<up, panicked, store, built, named, handoff, token, reporter, bounds>>

Relaunch ==
    /\ engine.live /\ relaunch
    /\ engine' = Down
    /\ UNCHANGED <<up, panicked, store, built, named, handoff, relaunch, unseen,
                   token, reporter, bounds>>

(* Its pod is replaced, or it crashes. *)
Outage ==
    /\ engine.live /\ outages < MaxOutages
    /\ outages' = outages + 1
    /\ engine' = Down
    /\ UNCHANGED <<up, panicked, store, built, named, handoff, relaunch, unseen,
                   token, reporter, puts, boots, misses>>

(* The tracker sees the relaunch it was asked for end, or the health loop  *)
(* an engine that answers again.                                           *)
Noticed ==
    /\ up /\ unseen /\ engine.live
    /\ unseen' = FALSE
    /\ token' = token + 1
    /\ UNCHANGED <<up, panicked, store, built, named, handoff, engine, relaunch,
                   reporter, bounds>>

-----------------------------------------------------------------------------
(* Reporter.Run: once a second, while the model is ready, which it stays   *)
(* through the grace of an outage.                                         *)

Reporting == <<up, panicked, built, named, handoff, engine, relaunch, unseen, token,
               puts, boots, outages>>

(* An outage longer than the grace. *)
Unready ==
    /\ up /\ ~engine.live /\ reporter.step = "tick"
    /\ reporter' = [reporter EXCEPT !.attempts = 0, !.settled = FALSE]
    /\ UNCHANGED <<Reporting, store, misses>>

Spent == reporter.settled \/ reporter.attempts >= Attempts

(* An engine that came back, or flags other than those of the last reading *)
(* once there is one.  Mutant: the flags alone.                            *)
RearmedByFlags == Spent /\ reporter.probed # card.raw

Rearmed == token # reporter.token \/ (Spent /\ reporter.probed # card.raw)

(* A probe starts, for the flags the card has now. *)
Tick ==
    /\ up /\ reporter.step = "tick"
    /\ Rearmed \/ ~Spent
    /\ reporter' =
         [reporter EXCEPT
            !.step = "asking", !.target = card.raw, !.token = token, !.settled = FALSE,
            !.attempts = IF Rearmed THEN 1 ELSE @ + 1]
    /\ UNCHANGED <<Reporting, store, misses>>

(* The engine answers, if it is there; it may not have its numbers yet.    *)
Ask ==
    /\ up /\ reporter.step = "asking"
    /\ \/ /\ engine.live
          /\ \E answer \in Answers(Kind, engine.actual) :
                 reporter' = [reporter EXCEPT !.step = "recording", !.answer = answer]
          /\ UNCHANGED misses
       \/ /\ ~engine.live \/ misses < MaxMisses
          /\ reporter' = [reporter EXCEPT !.step = "recording", !.answer = Silent]
          /\ misses' = IF engine.live THEN misses + 1 ELSE misses
    /\ UNCHANGED <<Reporting, store>>

(* A declared reading is not published while there are attempts left.      *)
RecordReading ==
    /\ up /\ reporter.step = "recording"
    /\ LET reading  == Reading(Kind, Parsed[reporter.target], Configured, reporter.answer)
           measured == reading.source \notin Unmeasured
       IN  IF measured \/ reporter.attempts >= Attempts
           THEN /\ reporter' = [reporter EXCEPT !.step = "tick", !.settled = measured,
                                                !.probed = reporter.target, !.answer = Silent]
                /\ card' = [card EXCEPT !.reading = reading]
                /\ disk' = card'
           ELSE /\ reporter' = [reporter EXCEPT !.step = "tick", !.answer = Silent]
                /\ UNCHANGED store
    /\ UNCHANGED <<Reporting, misses>>

Report == Tick \/ Ask \/ RecordReading

Next ==
    \/ Boot \/ Stop \/ Put \/ Launch \/ Relaunch \/ Outage \/ Noticed
    \/ Unready \/ Report

Spec == Init /\ [][Next]_vars

(* The wrapper launches and relaunches, the health loop polls, the ticker  *)
(* ticks.                                                                  *)
FairSpec ==
    /\ Spec
    /\ WF_vars(Launch) /\ WF_vars(Relaunch) /\ WF_vars(Noticed) /\ WF_vars(Report)

-----------------------------------------------------------------------------

TypeOK ==
    /\ up \in BOOLEAN /\ panicked \in BOOLEAN
    /\ \A c \in {disk, card, built} :
           /\ c.mode \in Modes \cup {""} \cup {chart.mode : chart \in Charts}
           /\ c.context \in Nat /\ c.output \in Nat
           /\ c.rule \in {"none", "chart"} \cup Ladders
    /\ named \subseteq {"mode", "parameter_rules"}
    /\ reporter.step \in {"tick", "asking", "recording"}
    /\ reporter.attempts \in 0..Attempts

(* Whatever order boots, edits and readings come in, what is served is     *)
(* what the next boot will read, and it says what the flags mean: the      *)
(* window the flags pin, a reply that leaves room for a prompt, the flag   *)
(* an embedding model cannot do without (NormalizeSpecForEngine: a card    *)
(* "kept advertising the old window to Router until the next restart").    *)
CardIsHonest ==
    up => /\ disk = card
          /\ ContextSize(Kind, Args(card)) \in {0, card.context}
          /\ card.mode = "chat" /\ card.context > 3 => card.output \in 1..card.context - 1
          /\ Kind = "llamacpp" /\ card.mode = "embedding"
                => EmbeddingFlag \in ToSet(card.raw.tokens)

(* A restart, with the same chart or an upgraded one, changes nothing on a *)
(* card that has its key: what an operator set or cleared stays, but for   *)
(* the reasoning ladder, and an engine that has these flags is left alone  *)
(* (ReconcileModelSpecFile: "an explicit empty string means the operator   *)
(* cleared the card").                                                     *)
RestartKeepsCard ==
    [][Boot /\ disk # NoCard /\ disk.keyed /\ handoff.there =>
         /\ [disk' EXCEPT !.rule = ""] = [disk EXCEPT !.rule = ""]
         /\ handoff' = handoff /\ relaunch' = relaunch]_vars

(* Without the gate of internal/dataplane/kvbudget the slots, each with    *)
(* the window the card advertises, cannot promise more than the pool, the  *)
(* padding of their shares apart (LlamacppKVOversubscribed: "a per-slot    *)
(* ceiling only opts out when the slots' shares add up to no more than the *)
(* pool").                                                                 *)
UngatedSlotsFit ==
    LET args == Args(card) IN
    up /\ Kind = "llamacpp" /\ ~Oversubscribed(args) /\ LlamacppPool(args) > 0
        => Slots(args) * LlamacppContext(args) < LlamacppPool(args) + Slots(args) * Align

(* Once edits and outages are over, the card says what the engine that     *)
(* runs has said, about the flags it runs with, and the gate accounts for  *)
(* that pool (Reporter: "the card keeps the capacity of an engine that no  *)
(* longer exists.  That number is the one Router admits requests           *)
(* against").                                                              *)
Current ==
    /\ engine.raw = card.raw
    /\ \E answer \in Answers(Kind, engine.actual) :
           card.reading = Reading(Kind, Parsed[engine.raw], Configured, answer)

CapacityFollowsEngine == <>[](up /\ engine.live) => <>[]Current

(* GET /api/model-spec: "Model Console retains ownership of                *)
(* extensions.capacity".                                                   *)
CapacityIsOurs == CapacityFollowsEngine

(* Applied.PendingAppRestart "names the card fields whose new values are   *)
(* stored and served but not in force".                                    *)
PendingIsWhatIsNotInForce ==
    up /\ named # {} => named = PendingFields(built, card)

(* kvunified.go: a slot count that is "present-but-unusable", "-np 0" with *)
(* it, "counts as auto".                                                   *)
NeverPanics == ~panicked

=============================================================================
