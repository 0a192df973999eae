---------------------------- MODULE EngineCatalog ----------------------------
(***************************************************************************)
(* GET /api/endpoints: the routes this application says it serves.         *)
(*                                                                         *)
(* The rows are llm-init's own, corrected by the spec the engine declares  *)
(* of itself. The spec is fetched at most once in engineSpecTTL, by one    *)
(* request at a time, under a mutex every other reader queues on, from an  *)
(* engine that may be down, silent, broken or hanging. The rows and the    *)
(* guard of the port behind them go by the mode the process booted with;   *)
(* a mode edit stays on the card until the next boot.                      *)
(*                                                                         *)
(* Time is counted in ticks. GET /api/model-spec takes the same report by  *)
(* the same steps, and overlays its extensions on the card.                *)
(***************************************************************************)
EXTENDS Naturals, FiniteSets

CONSTANTS
    Requests,           \* concurrent readers of the catalogue
    Modes,              \* MODEL_MODE at boot, and in a card edit
    Answers,            \* what the engine may say when asked for its spec
    Wirings,            \* of BOOLEAN: FALSE is download-only, without an engine
    TTL,                \* engineSpecTTL, in ticks
    Timeout             \* engineSpecTimeout, in ticks

ASSUME TimesAssumption ==
    /\ TTL \in Nat \ {0} /\ Timeout \in Nat
    /\ Wirings \subseteq BOOLEAN

VARIABLES
    wired,      \* cfg.Engine.Kind is set: there is an engine and a data plane
    card,       \* the mode on the card
    mode,       \* cfg.Model.Type of the config the control plane serves from
    bootMode,   \* the mode Mount gave ModeGuard
    engine,     \* what the engine says when asked
    alive,      \* the engine answered the last health probe
    report,     \* engineSpec.report
    age,        \* ticks since engineSpec.fetched, at most TTL; TTL if never
    lock,       \* engineSpec.mu: who fetches, or Nobody
    spent,      \* ticks the fetch under way has taken
    req,        \* [pc, mode, asks] of each request
    verdict,    \* what the engine last said that settled anything
    settled,    \* ticks the engine has been saying the same, undisturbed
    answer      \* what the last step answered a request with, or Nothing

vars == <<wired, card, mode, bootMode, engine, alive, report, age, lock, spent, req,
          verdict, settled, answer>>

Nobody == "nobody"
ASSUME RequestsAssumption == Nobody \notin Requests

Nothing == [mode |-> "none"]

-----------------------------------------------------------------------------
(* The routes: a method and a catalogue path. Paths stand for themselves;  *)
(* the ones under /api/ are reserved to llm-init.                          *)

Route(m, p) == [m |-> m, p |-> p]

(* moderoutes.declared; "*" is AnyMethod. *)
TaskRoutes == {Route("*", "tasks/{id}"), Route("*", "tasks/{id}/result")}

Restricted(md) == md \in {"embedding", "rerank", "system_one", "ocr"}

Declared(md) ==
    {r \in {Route("GET", "models")} : Restricted(md)} \cup
    CASE md = "embedding" ->
            {Route("POST", "embeddings"), Route("POST", "embedding-tasks")} \cup TaskRoutes
      [] md = "rerank" -> {Route("POST", "rerank")}
      [] md = "system_one" -> {Route("POST", "systemone")}
      [] md = "ocr" ->
            {Route("POST", "ocr"), Route("GET", "ocr/queue"), Route("GET", "ocr/jobs/{id}"),
             Route("DELETE", "ocr/jobs/{id}"), Route("*", "tasks")} \cup TaskRoutes
      [] OTHER -> {}

Declares(md, route) ==
    \E r \in Declared(md) : r.p = route.p /\ r.m \in {"*", route.m}

(* The method is not consulted here: a wrong verb is the engine's to refuse. *)
ServesPath(md, path) == \E r \in Declared(md) : r.p = path

(* ModeGuard, in front of everything Mount registers. *)
Refuses(md, path) == Restricted(md) /\ ~ServesPath(md, path)

(* The static rows and when each is on. Only the rows under "proxied" are  *)
(* forwarded to the engine; one translate row and one control row stand    *)
(* for the rest.                                                           *)
Row(route, on, proxied) == [route |-> route, on |-> on, proxied |-> proxied]

AnyModeRoutes ==
    {Route("POST", p) : p \in {"chat/completions", "completions", "embeddings", "rerank",
                               "systemone", "responses", "/api/chat/completions",
                               "messages", "messages/count_tokens"}}
    \cup {Route("GET", "models")}

OCRRoutes ==
    {Route("POST", "ocr"), Route("GET", "ocr/queue"),
     Route("GET", "ocr/jobs/{id}"), Route("DELETE", "ocr/jobs/{id}")}

MusicRoutes ==
    {Route("POST", "music/generations"), Route("GET", "music/generations/{id}"),
     Route("GET", "music/generations/{id}/content"), Route("DELETE", "music/generations/{id}"),
     Route("POST", "music/formats"), Route("GET", "music/formats/{id}"),
     Route("POST", "music/drafts"), Route("GET", "music/drafts/{id}")}

TaskListing ==
    {Route("GET", "tasks"), Route("GET", "tasks/{id}"),
     Route("GET", "tasks/{id}/result"), Route("DELETE", "tasks/{id}")}

OwnRows(md) ==
    {Row(r, wired, TRUE) : r \in AnyModeRoutes}
    \cup {Row(Route("POST", "embedding-tasks"), wired /\ md = "embedding", TRUE)}
    \cup {Row(r, wired /\ md = "ocr", TRUE) : r \in OCRRoutes}
    \cup {Row(r, wired /\ md = "music_generation", TRUE) : r \in MusicRoutes}
    \cup {Row(r, wired /\ md \in {"embedding", "ocr", "audio", "tts"}, TRUE) : r \in TaskListing}
    \cup {Row(Route("POST", "/translate"), wired /\ md = "translate", FALSE),
          Row(Route("GET", "/healthz"), TRUE, FALSE)}

-----------------------------------------------------------------------------
(* What a fetch makes of the engine's answer.                              *)
(*                                                                         *)
(* An answer of kind "spec" has a schema version (0: none, or not one we   *)
(* know), an envelope that is complete or not, a model name that is ours   *)
(* or not, and rows; each row's "sound" is the highest schema version      *)
(* whose demands it meets, 0 if it meets none.                             *)

Unknown == [state |-> "unknown", rows |-> {}, overlay |-> FALSE]
Silent == [Unknown EXCEPT !.state = "silent"]

Authoritative(e) == e.version \in {1, 2}

(* engineSpecRowDropReason. *)
Accepted(e, r) ==
    /\ r.sound >= IF e.version = 2 THEN 2 ELSE 1
    /\ r.route.p # "/api/chat/completions"

AcceptedRows(e) == {Row(r.route, r.on, TRUE) : r \in {x \in e.rows : Accepted(e, x)}}

SpecReport(e) ==
    IF Authoritative(e) /\ ~e.whole THEN Unknown
    ELSE LET declared == Authoritative(e) /\ AcceptedRows(e) # {}
         IN [state |-> IF declared THEN "declared" ELSE "silent",
             rows |-> AcceptedRows(e),
             overlay |-> declared /\ e.mine]

(* fetchEngineSpec. A 404, 405 or 501 is an answer: no spec here. *)
ReportOf(e) ==
    CASE e.kind = "absent" -> Silent
      [] e.kind = "spec" -> SpecReport(e)
      [] OTHER -> Unknown

Settles(r) == r.state # "unknown"

-----------------------------------------------------------------------------
(* buildEndpointCatalog, in the order of its steps. *)

RowsOf(rows) == {x.route : x \in rows}

ReportedOn(rep, route) == \E x \in rep.rows : x.route = route /\ x.on

mergeEngineReportState(rep, rows) ==
    {IF x.proxied /\ rep.state = "declared" /\ x.route \in RowsOf(rep.rows)
     THEN [x EXCEPT !.on = ReportedOn(rep, x.route)] ELSE x : x \in rows}

newEngineRows(rep, rows) == {x \in rep.rows : x.route \notin RowsOf(rows)}

dropUndeclaredProxyRows(rep, rows) ==
    {x \in rows : rep.state = "declared" /\ x.proxied => x.route \in RowsOf(rep.rows)}

applyDataPlaneCatalog(md, rows) ==
    {IF x.proxied /\ Restricted(md) /\ ~(wired /\ Declares(md, x.route))
     THEN [x EXCEPT !.on = FALSE] ELSE x : x \in rows}

(* dataPlaneOwners: the mode whose model is the reason a row exists. *)
Claimed == {"chat/completions", "responses", "messages", "embeddings", "rerank",
            "systemone", "ocr", "ocr/queue", "ocr/jobs/{id}"}

Owner(path) ==
    CASE path = "embeddings" -> "embedding"
      [] path = "rerank" -> "rerank"
      [] path = "systemone" -> "system_one"
      [] path \in {"ocr", "ocr/queue", "ocr/jobs/{id}"} -> "ocr"
      [] OTHER -> "chat"

markUnconfirmedProxyRows(md, rows) ==
    {IF x.proxied /\ x.route.p \in Claimed /\ Owner(x.route.p) # md
     THEN [x EXCEPT !.on = FALSE] ELSE x : x \in rows}

(* Mutant: the mode's filter runs before the engine's rows are added. *)
CatalogFilteredFirst(md, rep) ==
    LET filtered == applyDataPlaneCatalog(md, mergeEngineReportState(rep, OwnRows(md)))
        kept == dropUndeclaredProxyRows(rep, filtered \cup newEngineRows(rep, filtered))
    IN IF rep.state = "unknown" THEN markUnconfirmedProxyRows(md, kept) ELSE kept

Catalog(md, rep) ==
    LET merged == mergeEngineReportState(rep, OwnRows(md))
        all == merged \cup newEngineRows(rep, merged)
        kept == applyDataPlaneCatalog(md, dropUndeclaredProxyRows(rep, all))
    IN IF rep.state = "unknown" THEN markUnconfirmedProxyRows(md, kept) ELSE kept

-----------------------------------------------------------------------------
Idle == [pc |-> "idle", mode |-> "none", asks |-> FALSE]

Init ==
    /\ wired \in Wirings
    /\ card \in Modes /\ mode = card /\ bootMode = card
    /\ engine = [kind |-> "down"] /\ alive = FALSE
    /\ report = Unknown /\ age = TTL /\ lock = Nobody /\ spent = 0
    /\ req = [r \in Requests |-> Idle]
    /\ verdict = Unknown /\ settled = 0 /\ answer = Nothing

(* The response is made of the report rep, for the mode read at the start; *)
(* with it, what the engine had said and owed the reader by then.          *)
Respond(r, rep, said, owed) ==
    /\ answer' = [report |-> rep, mode |-> req[r].mode, guard |-> bootMode,
                  verdict |-> said, owed |-> owed]
    /\ req' = [req EXCEPT ![r] = Idle]

(* handleEndpoints up to the mutex. Without an engine there is nobody to   *)
(* ask: llm-init's own rows are the catalogue.                             *)
Ask(r) ==
    /\ req[r].pc = "idle"
    /\ req' = [req EXCEPT ![r] = [pc |-> IF wired THEN "lock" ELSE "alone",
                                  mode |-> mode, asks |-> alive]]
    /\ answer' = Nothing
    /\ UNCHANGED <<wired, card, mode, bootMode, engine, alive, report, age, lock, spent,
                   verdict, settled>>

AnswerAlone(r) ==
    /\ req[r].pc = "alone"
    /\ Respond(r, Silent, Silent, Unknown)
    /\ UNCHANGED <<wired, card, mode, bootMode, engine, alive, report, age, lock, spent,
                   verdict, settled>>

(* What a reader who found the engine alive is owed: the engine's answer,  *)
(* once it has stood for a whole TTL.                                      *)
Owed(r) == IF req[r].asks /\ settled >= TTL THEN ReportOf(engine) ELSE Unknown

(* Mutant: the TTL runs from the last reader, not from the last fetch. *)
ReuseSliding(r) ==
    /\ req[r].pc = "lock" /\ lock = Nobody
    /\ ~req[r].asks \/ age < TTL
    /\ Respond(r, report, verdict, Owed(r))
    /\ age' = IF req[r].asks THEN 0 ELSE age
    /\ UNCHANGED <<wired, card, mode, bootMode, engine, alive, report, lock, spent,
                   verdict, settled>>

(* The mutex is taken and the cached report is enough: the engine was not  *)
(* alive, or the report is younger than the TTL.                           *)
Reuse(r) ==
    /\ req[r].pc = "lock" /\ lock = Nobody
    /\ ~req[r].asks \/ age < TTL
    /\ Respond(r, report, verdict, Owed(r))
    /\ UNCHANGED <<wired, card, mode, bootMode, engine, alive, report, age, lock, spent,
                   verdict, settled>>

(* The mutex is taken and kept for a fetch. *)
StartFetch(r) ==
    /\ req[r].pc = "lock" /\ lock = Nobody
    /\ req[r].asks /\ age >= TTL
    /\ req' = [req EXCEPT ![r].pc = "fetch"]
    /\ lock' = r /\ spent' = 0 /\ answer' = Nothing
    /\ UNCHANGED <<wired, card, mode, bootMode, engine, alive, report, age,
                   verdict, settled>>

(* Mutant: every fetch overwrites the report. *)
KeepAny(rep) == rep

(* A fetch that reached no verdict does not overwrite one that did. *)
Keep(rep) ==
    IF Settles(rep) \/ ~Settles(report) THEN rep ELSE report

(* The fetch brought rep. The report is dated when the fetch began. *)
EndFetch(r, rep, owed) ==
    /\ lock = r
    /\ report' = Keep(rep)
    /\ verdict' = IF Settles(rep) THEN rep ELSE verdict
    /\ age' = IF spent > TTL THEN TTL ELSE spent
    /\ lock' = Nobody /\ spent' = 0
    /\ Respond(r, Keep(rep), verdict', owed)
    /\ UNCHANGED <<wired, card, mode, bootMode, engine, alive>>

Answered(r) ==
    /\ engine.kind # "hangs"
    /\ EndFetch(r, ReportOf(engine), Owed(r))
    /\ UNCHANGED settled

(* The connection is reset. *)
Lost(r) == EndFetch(r, Unknown, Unknown) /\ settled' = 0

(* Mutant: the fetch runs on a context without a deadline. *)
TimedOutNever(r) ==
    /\ engine.kind # "hangs"
    /\ spent = Timeout
    /\ EndFetch(r, Unknown, Unknown)
    /\ settled' = 0

(* context.WithTimeout(engineSpecTimeout). *)
TimedOut(r) ==
    /\ spent = Timeout
    /\ EndFetch(r, Unknown, Unknown)
    /\ settled' = 0

(* A tick. No fetch outlives its deadline. *)
Tick ==
    /\ lock # Nobody => spent < Timeout
    /\ age' = IF age < TTL THEN age + 1 ELSE TTL
    /\ spent' = IF lock = Nobody THEN 0 ELSE spent + 1
    /\ settled' = IF settled < TTL THEN settled + 1 ELSE TTL
    /\ answer' = Nothing
    /\ UNCHANGED <<wired, card, mode, bootMode, engine, alive, report, lock, req, verdict>>

-----------------------------------------------------------------------------
(* The engine comes, goes, and changes what it declares. *)
EngineBecomes(e) ==
    /\ wired /\ e # engine
    /\ engine' = e /\ settled' = 0 /\ answer' = Nothing
    /\ UNCHANGED <<wired, card, mode, bootMode, alive, report, age, lock, spent, req,
                   verdict>>

(* The health loop's probe, and the cached answer readiness() reads. *)
Probe ==
    /\ wired /\ alive # (engine.kind # "down")
    /\ alive' = ~alive /\ answer' = Nothing
    /\ UNCHANGED <<wired, card, mode, bootMode, engine, report, age, lock, spent, req,
                   verdict, settled>>

(* Mutant: the running config adopts the mode, as other fields of a card.  *)
PutCardAdopted(m) ==
    /\ m # card
    /\ card' = m /\ mode' = m /\ answer' = Nothing
    /\ UNCHANGED <<wired, bootMode, engine, alive, report, age, lock, spent, req,
                   verdict, settled>>

(* PUT /api/model-spec with another mode: stored, and pending an app       *)
(* restart; cfg.Model.Type is left alone (Store.ApplySpec).                *)
PutCard(m) ==
    /\ m # card
    /\ card' = m /\ answer' = Nothing
    /\ UNCHANGED <<wired, mode, bootMode, engine, alive, report, age, lock, spent, req,
                   verdict, settled>>

(* llm-init restarts: the cache is memory, the mode comes off the card     *)
(* (applyModelSpec) and goes to Mount with the rest of the config.         *)
Boot ==
    /\ mode' = card /\ bootMode' = card /\ alive' = FALSE
    /\ report' = Unknown /\ age' = TTL /\ lock' = Nobody /\ spent' = 0
    /\ req' = [r \in Requests |-> Idle]
    /\ verdict' = Unknown /\ answer' = Nothing
    /\ UNCHANGED <<wired, card, engine, settled>>

Next ==
    \/ \E r \in Requests :
        \/ Ask(r) \/ AnswerAlone(r)
        \/ Reuse(r) \/ StartFetch(r)
        \/ Answered(r) \/ Lost(r) \/ TimedOut(r)
    \/ \E e \in Answers : EngineBecomes(e)
    \/ \E m \in Modes : PutCard(m)
    \/ Probe \/ Tick \/ Boot

(* Handlers run; time passes; a mutex hands itself to a waiter in the end. *)
Fairness ==
    /\ WF_vars(Tick)
    /\ \A r \in Requests :
        /\ WF_vars(AnswerAlone(r))
        /\ SF_vars(Reuse(r)) /\ SF_vars(StartFetch(r))
        /\ WF_vars(TimedOut(r))

Spec == Init /\ [][Next]_vars
FairSpec == Spec /\ Fairness

-----------------------------------------------------------------------------
TypeOK ==
    /\ wired \in BOOLEAN /\ {card, mode, bootMode} \subseteq Modes /\ alive \in BOOLEAN
    /\ engine \in Answers \cup {[kind |-> "down"]}
    /\ report.state \in {"unknown", "silent", "declared"}
    /\ age \in 0..TTL /\ settled \in 0..TTL /\ spent \in 0..Timeout
    /\ lock \in Requests \cup {Nobody}
    /\ req \in [Requests -> [pc : {"idle", "alone", "lock", "fetch"},
                             mode : Modes \cup {"none"}, asks : BOOLEAN]]

(* The rows of the last response, and the routes it offers. *)
Shown == Catalog(answer.mode, answer.report)
Offered == {x.route : x \in {y \in Shown : y.on /\ y.proxied}}

(* What the engine last said of itself decides what a reader is told, for  *)
(* as long as it says nothing else: a failed fetch between two readers     *)
(* neither brings a removed route back nor claims one nobody confirmed     *)
(* (engineEndpoints, dropUndeclaredProxyRows, markUnconfirmedProxyRows).   *)
VerdictStands ==
    answer # Nothing =>
        /\ answer.verdict.state = "declared" =>
            /\ \A x \in Shown : x.proxied => x.route \in RowsOf(answer.verdict.rows)
            /\ \A route \in Offered : ReportedOn(answer.verdict, route)
        /\ answer.verdict.state = "unknown" =>
            \A route \in Offered : route.p \in Claimed => Owner(route.p) = answer.mode
        /\ answer.report.overlay = answer.verdict.overlay

(* A reader who found the engine alive gets what the engine says, once the *)
(* engine has said it for a TTL: caching never holds a report longer       *)
(* (engineSpecTTL, engineEndpoints).                                       *)
FreshWithinTTL ==
    answer # Nothing /\ Settles(answer.owed) => Shown = Catalog(answer.mode, answer.owed)

(* A route the catalogue offers is one the port does not refuse, whatever  *)
(* the engine declared and whatever mode has been put on the card since    *)
(* the boot (applyDataPlaneCatalog and ModeGuard read one table, for the   *)
(* one mode of the process).                                               *)
OfferedIsServed ==
    answer # Nothing => \A route \in Offered : ~Refuses(answer.guard, route.p)

(* Every reader is answered, however long the engine hangs and however     *)
(* many readers queue on the mutex of the one that asked (fetchEngineSpec).*)
ReadersAreAnswered ==
    \A r \in Requests : req[r].pc # "idle" ~> req[r].pc = "idle"

=============================================================================
