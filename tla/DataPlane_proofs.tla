------------------------- MODULE DataPlane_proofs -------------------------
(***************************************************************************)
(* Proofs about what a client of the data plane is told.                   *)
(*                                                                         *)
(* EngineCatalog: for every set of readers, modes and answers of an        *)
(* engine, and for every TTL and timeout, what the endpoint catalogue says *)
(* of the data plane.                                                      *)
(*                                                                         *)
(* MessageStream: for any tool calls, any number of frames in any order    *)
(* and any way of ending them, what a streamed answer says, and in which   *)
(* order; for any conversation, where upstream its tool results stand.     *)
(***************************************************************************)
EXTENDS EngineCatalog, MessageStream, FiniteSetTheorems, SequenceTheorems, WellFoundedInduction,
        TLAPS

-----------------------------------------------------------------------------
(***************************************************************************)
(* The endpoint catalogue.                                                 *)
(***************************************************************************)

(* The clocks. *)
Clocks == age \in 0..TTL /\ settled \in 0..TTL /\ spent \in Nat

IsRow(x) == x = Row(x.route, x.on, x.proxied)
AreRows(rows) == \A x \in rows : IsRow(x)

(* A report lists rows, or nothing is known. *)
IsReport(rep) == AreRows(rep.rows) /\ (~Settles(rep) => rep = Unknown)

(* A report that settled nothing is never kept in place of one that did.   *)
ReportIsVerdict == report = verdict /\ IsReport(report)

(* A report younger than what the engine says is what the engine says.     *)
YoungReportIsCurrent ==
    settled > age /\ Settles(ReportOf(engine)) => report = ReportOf(engine)

(* The same of the response that was given. *)
AnswerTells ==
    answer # Nothing =>
        /\ answer.report = answer.verdict /\ IsReport(answer.report)
        /\ Settles(answer.owed) => answer.report = answer.owed

SpecInv == Clocks /\ ReportIsVerdict /\ YoungReportIsCurrent /\ AnswerTells

-----------------------------------------------------------------------------
(* What the catalogue is made of, whatever the report.                     *)

(* The rows before the mode and the missing verdict are applied. *)
Kept(md, rep) ==
    LET merged == mergeEngineReportState(rep, OwnRows(md))
    IN  dropUndeclaredProxyRows(rep, merged \cup newEngineRows(rep, merged))

(* Switching a row leaves its route alone. *)
LEMMA SwitchedRow ==
    ASSUME NEW x, IsRow(x), NEW b
    PROVE  [x EXCEPT !.on = b] = Row(x.route, b, x.proxied)
<1>1. x = [route |-> x.route, on |-> x.on, proxied |-> x.proxied]
  BY DEF IsRow, Row
<1> DEFINE rt == x.route  o == x.on  px == x.proxied
<1>2. x = [route |-> rt, on |-> o, proxied |-> px]
  BY <1>1
<1> HIDE DEF rt, o, px
<1>3. [x EXCEPT !.on = b] = [route |-> rt, on |-> b, proxied |-> px]
  BY <1>2
<1> QED BY <1>3 DEF Row, rt, px

(* What a row is made of. *)
LEMMA RowFields ==
    ASSUME NEW rt, NEW o, NEW px
    PROVE  /\ IsRow(Row(rt, o, px)) /\ Row(rt, o, px).route = rt
           /\ Row(rt, o, px).on = o /\ Row(rt, o, px).proxied = px
BY DEF IsRow, Row

(* llm-init's own rows are rows. *)
LEMMA OwnAreRows == \A md : AreRows(OwnRows(md))
<1> SUFFICES ASSUME NEW md, NEW x \in OwnRows(md) PROVE IsRow(x)
  BY DEF AreRows
<1>1. \E rt, o, px : x = Row(rt, o, px)
  BY Zenon DEF OwnRows
<1> QED BY <1>1, RowFields

(* What a fetch makes of an answer is a report. *)
LEMMA ReportOfIsReport == IsReport(Unknown) /\ IsReport(Silent) /\ \A e : IsReport(ReportOf(e))
<1>0. IsReport(Unknown) /\ IsReport(Silent)
  BY DEF IsReport, AreRows, Unknown, Silent, Settles
<1> SUFFICES ASSUME NEW e PROVE IsReport(ReportOf(e))
  BY <1>0
<1>1. AreRows(AcceptedRows(e)) /\ AreRows({})
  <2>1. ASSUME NEW x \in AcceptedRows(e) PROVE IsRow(x)
    <3>1. \E rt, o, px : x = Row(rt, o, px)
      BY Zenon DEF AcceptedRows
    <3> QED BY <3>1, RowFields
  <2> QED BY <2>1 DEF AreRows
<1>2. ReportOf(e).rows \in {AcceptedRows(e), {}}
  BY DEF ReportOf, SpecReport, Unknown, Silent
<1>3. ~Settles(ReportOf(e)) => ReportOf(e) = Unknown
  BY DEF ReportOf, SpecReport, Settles, Unknown, Silent
<1> QED BY <1>1, <1>2, <1>3 DEF IsReport

(* With an engine that declares itself, its rows alone say what the data   *)
(* plane has and what of it is on.                                         *)
LEMMA DeclaredRowsRule ==
    ASSUME NEW md, NEW rep, rep.state = "declared", NEW x \in Kept(md, rep), x.proxied
    PROVE  x.route \in RowsOf(rep.rows) /\ (x.on => ReportedOn(rep, x.route))
<1> DEFINE merged == mergeEngineReportState(rep, OwnRows(md))
<1>1. x \in merged \cup newEngineRows(rep, merged) /\ x.route \in RowsOf(rep.rows)
  BY DEF Kept, dropUndeclaredProxyRows
<1>2. CASE x \in newEngineRows(rep, merged)
  BY <1>1, <1>2 DEF newEngineRows, ReportedOn
<1>3. CASE x \in merged
  <2>1. PICK y \in OwnRows(md) :
            x = IF y.proxied /\ rep.state = "declared" /\ y.route \in RowsOf(rep.rows)
                THEN [y EXCEPT !.on = ReportedOn(rep, y.route)] ELSE y
    BY <1>3 DEF mergeEngineReportState
  <2>2. IsRow(y)
    BY OwnAreRows DEF AreRows
  <2>3. [y EXCEPT !.on = ReportedOn(rep, y.route)]
            = Row(y.route, ReportedOn(rep, y.route), y.proxied)
    BY <2>2, SwitchedRow
  <2>4. CASE y.proxied /\ y.route \in RowsOf(rep.rows)
    BY <2>1, <2>3, <2>4, RowFields
  <2>5. CASE ~(y.proxied /\ y.route \in RowsOf(rep.rows))
    BY <1>1, <2>1, <2>5
  <2> QED BY <2>4, <2>5
<1> QED BY <1>1, <1>2, <1>3

(* So every row that is listed is one. *)
LEMMA KeptAreRows ==
    ASSUME NEW md, NEW rep, AreRows(rep.rows)
    PROVE  AreRows(Kept(md, rep))
<1> DEFINE merged == mergeEngineReportState(rep, OwnRows(md))
<1>1. AreRows(merged)
  <2> SUFFICES ASSUME NEW x \in merged PROVE IsRow(x)
    BY DEF AreRows
  <2>1. PICK y \in OwnRows(md) :
            x = IF y.proxied /\ rep.state = "declared" /\ y.route \in RowsOf(rep.rows)
                THEN [y EXCEPT !.on = ReportedOn(rep, y.route)] ELSE y
    BY DEF mergeEngineReportState
  <2>2. IsRow(y)
    BY OwnAreRows DEF AreRows
  <2>3. [y EXCEPT !.on = ReportedOn(rep, y.route)]
            = Row(y.route, ReportedOn(rep, y.route), y.proxied)
    BY <2>2, SwitchedRow
  <2> QED BY <2>1, <2>2, <2>3, RowFields
<1>2. newEngineRows(rep, merged) \subseteq rep.rows
  BY DEF newEngineRows
<1>3. Kept(md, rep) \subseteq merged \cup newEngineRows(rep, merged)
  BY DEF Kept, dropUndeclaredProxyRows
<1> HIDE DEF merged
<1> QED BY <1>1, <1>2, <1>3 DEF AreRows

(* The mode's table switches off what the port refuses. *)
LEMMA FilteredRows ==
    ASSUME NEW md, NEW rows, AreRows(rows), NEW x \in applyDataPlaneCatalog(md, rows)
    PROVE  /\ IsRow(x)
           /\ \E y \in rows : /\ y.route = x.route /\ y.proxied = x.proxied
                              /\ x.on => y.on
           /\ x.on /\ x.proxied /\ Restricted(md) => Declares(md, x.route)
<1>1. PICK y \in rows :
          x = IF y.proxied /\ Restricted(md) /\ ~(wired /\ Declares(md, y.route))
              THEN [y EXCEPT !.on = FALSE] ELSE y
  BY DEF applyDataPlaneCatalog
<1>2. IsRow(y) /\ [y EXCEPT !.on = FALSE] = Row(y.route, FALSE, y.proxied)
  BY SwitchedRow DEF AreRows
<1>3. CASE y.proxied /\ Restricted(md) /\ ~(wired /\ Declares(md, y.route))
  <2>1. x = Row(y.route, FALSE, y.proxied)
    BY <1>1, <1>2, <1>3
  <2>2. IsRow(x) /\ x.route = y.route /\ x.proxied = y.proxied /\ x.on = FALSE
    BY <2>1 DEF IsRow, Row
  <2> QED BY <2>2
<1>4. CASE ~(y.proxied /\ Restricted(md) /\ ~(wired /\ Declares(md, y.route)))
  <2>1. x = y
    BY <1>1, <1>4
  <2> QED BY <1>2, <1>4, <2>1, Zenon
<1> QED BY <1>3, <1>4

(* A missing verdict switches off what another mode's model would serve. *)
LEMMA UnconfirmedRows ==
    ASSUME NEW md, NEW rows, AreRows(rows), NEW x \in markUnconfirmedProxyRows(md, rows)
    PROVE  /\ \E y \in rows : /\ y.route = x.route /\ y.proxied = x.proxied
                              /\ x.on => y.on
           /\ x.on /\ x.proxied /\ x.route.p \in Claimed => Owner(x.route.p) = md
<1>1. PICK y \in rows :
          x = IF y.proxied /\ y.route.p \in Claimed /\ Owner(y.route.p) # md
              THEN [y EXCEPT !.on = FALSE] ELSE y
  BY DEF markUnconfirmedProxyRows
<1>2. IsRow(y) /\ [y EXCEPT !.on = FALSE] = Row(y.route, FALSE, y.proxied)
  BY SwitchedRow DEF AreRows
<1>3. CASE y.proxied /\ y.route.p \in Claimed /\ Owner(y.route.p) # md
  BY <1>1, <1>2, <1>3, RowFields
<1>4. CASE ~(y.proxied /\ y.route.p \in Claimed /\ Owner(y.route.p) # md)
  BY <1>1, <1>2, <1>4
<1> QED BY <1>3, <1>4

(* Both only switch off: a row of the catalogue is one of the rows kept,   *)
(* and the port serves what it offers.                                     *)
LEMMA CatalogRows ==
    ASSUME NEW md, NEW rep, AreRows(rep.rows), NEW x \in Catalog(md, rep)
    PROVE  /\ \E y \in Kept(md, rep) : /\ y.route = x.route /\ y.proxied = x.proxied
                                       /\ x.on => y.on
           /\ x.on /\ x.proxied /\ Restricted(md) => Declares(md, x.route)
           /\ rep.state = "unknown" /\ x.on /\ x.proxied /\ x.route.p \in Claimed
                  => Owner(x.route.p) = md
<1> DEFINE filtered == applyDataPlaneCatalog(md, Kept(md, rep))
<1>1. Catalog(md, rep) = IF rep.state = "unknown" THEN markUnconfirmedProxyRows(md, filtered)
                         ELSE filtered
  BY DEF Catalog, Kept
<1>2. AreRows(filtered)
  BY KeptAreRows, FilteredRows DEF AreRows
<1>3. CASE rep.state = "unknown"
  <2>1. x \in markUnconfirmedProxyRows(md, filtered)
    BY <1>1, <1>3
  <2>2. /\ \E z \in filtered : /\ z.route = x.route /\ z.proxied = x.proxied
                               /\ x.on => z.on
        /\ x.on /\ x.proxied /\ x.route.p \in Claimed => Owner(x.route.p) = md
    BY <1>2, <2>1, UnconfirmedRows
  <2> HIDE DEF filtered
  <2>3. PICK z \in filtered : z.route = x.route /\ z.proxied = x.proxied /\ (x.on => z.on)
    BY <2>2
  <2>4. /\ \E y \in Kept(md, rep) : /\ y.route = z.route /\ y.proxied = z.proxied
                                    /\ z.on => y.on
        /\ z.on /\ z.proxied /\ Restricted(md) => Declares(md, z.route)
    BY KeptAreRows, FilteredRows DEF filtered
  <2> QED BY <2>2, <2>3, <2>4
<1>4. CASE rep.state # "unknown"
  BY <1>1, <1>4, KeptAreRows, FilteredRows
<1> QED BY <1>3, <1>4

-----------------------------------------------------------------------------
(* The steps.                                                              *)

(* A response says what the report it is made of says. *)
LEMMA RespondIs ==
    ASSUME NEW r, NEW rep, NEW said, NEW owed, Respond(r, rep, said, owed)
    PROVE  answer'.report = rep /\ answer'.verdict = said /\ answer'.owed = owed
BY DEF Respond

(* A fetch ends with a report that is the verdict: what settled nothing    *)
(* leaves both as they were.                                               *)
LEMMA EndFetchIs ==
    ASSUME SpecInv, NEW r, NEW rep, IsReport(rep), NEW owed, EndFetch(r, rep, owed)
    PROVE  /\ ReportIsVerdict' /\ age' \in 0..TTL /\ spent' \in Nat
           /\ Settles(rep) => report' = rep
           /\ answer'.report = report' /\ answer'.verdict = report' /\ answer'.owed = owed
           /\ engine' = engine
<1>1. /\ report' = Keep(rep) /\ verdict' = (IF Settles(rep) THEN rep ELSE verdict)
      /\ Respond(r, Keep(rep), verdict', owed) /\ engine' = engine
      /\ age' = (IF spent > TTL THEN TTL ELSE spent) /\ spent' = 0
  BY DEF EndFetch
<1>2. answer'.report = report' /\ answer'.verdict = verdict' /\ answer'.owed = owed
  BY <1>1, RespondIs
<1>3. /\ report' = verdict' /\ IsReport(report')
      /\ Settles(rep) => report' = rep
  BY <1>1 DEF SpecInv, ReportIsVerdict, IsReport, Keep
<1>4. age' \in 0..TTL /\ spent' \in Nat
  BY <1>1, TimesAssumption DEF SpecInv, Clocks, TimesAssumption
<1>5. ReportIsVerdict'
  BY <1>3 DEF ReportIsVerdict, IsReport, AreRows, IsRow, Settles
<1> QED BY <1>1, <1>2, <1>3, <1>4, <1>5

(* Every step keeps the report current, and responses true to it. *)
LEMMA NextSpecInv == SpecInv /\ [Next]_vars => SpecInv'
<1> SUFFICES ASSUME SpecInv, [Next]_vars PROVE SpecInv'
  OBVIOUS
<1>t. TTL \in Nat \ {0} /\ age \in 0..TTL /\ settled \in 0..TTL /\ spent \in Nat
  BY TimesAssumption DEF SpecInv, Clocks, TimesAssumption
<1>1. ASSUME UNCHANGED <<engine, report, age, spent, verdict, settled>>, AnswerTells'
      PROVE  SpecInv'
  BY <1>1 DEF SpecInv, Clocks, ReportIsVerdict, YoungReportIsCurrent
<1>2. ASSUME NEW r, Ask(r) \/ StartFetch(r) PROVE SpecInv'
  BY <1>2, <1>t DEF Ask, StartFetch, SpecInv, Clocks, ReportIsVerdict, YoungReportIsCurrent, AnswerTells
<1>3. ASSUME NEW r, AnswerAlone(r) PROVE SpecInv'
  <2>1. /\ UNCHANGED <<engine, report, age, spent, verdict, settled>>
        /\ Respond(r, Silent, Silent, Unknown)
    BY <1>3 DEF AnswerAlone
  <2>2. AnswerTells'
    BY <2>1, RespondIs, ReportOfIsReport DEF AnswerTells, Settles, Unknown
  <2> QED BY <1>1, <2>1, <2>2
<1>4. ASSUME NEW r, Reuse(r) PROVE SpecInv'
  <2>1. /\ UNCHANGED <<engine, report, age, spent, verdict, settled>>
        /\ Respond(r, report, verdict, Owed(r)) /\ (req[r].asks => age < TTL)
    BY <1>4 DEF Reuse
  <2>2. Settles(Owed(r)) => report = Owed(r)
    <3>1. CASE req[r].asks /\ settled >= TTL
      BY <1>t, <2>1, <3>1 DEF Owed, SpecInv, YoungReportIsCurrent
    <3>2. CASE ~(req[r].asks /\ settled >= TTL)
      BY <3>2 DEF Owed, Settles, Unknown
    <3> QED BY <3>1, <3>2
  <2>3. AnswerTells'
    BY <2>1, <2>2, RespondIs DEF SpecInv, ReportIsVerdict, AnswerTells
  <2> QED BY <1>1, <2>1, <2>3
<1>5. ASSUME NEW r, Answered(r) PROVE SpecInv'
  <2>1. EndFetch(r, ReportOf(engine), Owed(r)) /\ settled' = settled
    BY <1>5 DEF Answered
  <2>2. Settles(Owed(r)) => Owed(r) = ReportOf(engine)
    BY DEF Owed, Settles, Unknown
  <2>3. /\ ReportIsVerdict' /\ age' \in 0..TTL /\ spent' \in Nat
        /\ Settles(ReportOf(engine)) => report' = ReportOf(engine)
        /\ answer'.report = report' /\ answer'.verdict = report' /\ answer'.owed = Owed(r)
        /\ engine' = engine
    BY <2>1, EndFetchIs, ReportOfIsReport
  <2>4. Clocks'
    BY <1>t, <2>1, <2>3 DEF Clocks
  <2>5. AnswerTells'
    BY <2>2, <2>3 DEF AnswerTells, ReportIsVerdict
  <2>6. YoungReportIsCurrent'
    BY <2>3 DEF YoungReportIsCurrent
  <2> QED BY <2>3, <2>4, <2>5, <2>6 DEF SpecInv
<1>6. ASSUME NEW r, Lost(r) \/ TimedOut(r) PROVE SpecInv'
  <2>1. EndFetch(r, Unknown, Unknown) /\ settled' = 0
    BY <1>6 DEF Lost, TimedOut
  <2>2. /\ ReportIsVerdict' /\ age' \in 0..TTL /\ spent' \in Nat
        /\ answer'.report = report' /\ answer'.verdict = report' /\ answer'.owed = Unknown
    BY <2>1, EndFetchIs, ReportOfIsReport
  <2>3. Clocks' /\ YoungReportIsCurrent'
    BY <1>t, <2>1, <2>2 DEF Clocks, YoungReportIsCurrent
  <2>4. AnswerTells'
    BY <2>2 DEF AnswerTells, ReportIsVerdict, Settles, Unknown
  <2> QED BY <2>2, <2>3, <2>4 DEF SpecInv
<1>7. CASE Tick
  <2>1. /\ age' = (IF age < TTL THEN age + 1 ELSE TTL)
        /\ spent' = (IF lock = Nobody THEN 0 ELSE spent + 1)
        /\ settled' = (IF settled < TTL THEN settled + 1 ELSE TTL)
        /\ answer' = Nothing /\ UNCHANGED <<engine, report, verdict>>
    BY <1>7 DEF Tick
  <2>2. Clocks' /\ (settled' > age' => settled > age)
    BY <1>t, <2>1 DEF Clocks
  <2> QED BY <2>1, <2>2
      DEF SpecInv, ReportIsVerdict, YoungReportIsCurrent, AnswerTells
<1>8. ASSUME NEW e, EngineBecomes(e) PROVE SpecInv'
  <2>1. settled' = 0 /\ answer' = Nothing /\ UNCHANGED <<report, age, spent, verdict>>
    BY <1>8 DEF EngineBecomes
  <2> QED BY <1>t, <2>1
      DEF SpecInv, Clocks, ReportIsVerdict, YoungReportIsCurrent, AnswerTells
<1>9. ASSUME Probe \/ \E m \in Modes : PutCard(m) PROVE SpecInv'
  <2>1. /\ UNCHANGED <<engine, report, age, spent, verdict, settled>>
        /\ answer' = Nothing
    BY <1>9 DEF Probe, PutCard
  <2> QED BY <1>1, <2>1 DEF AnswerTells
<1>10. CASE Boot
  <2>1. /\ report' = Unknown /\ verdict' = Unknown /\ age' = TTL /\ spent' = 0
        /\ answer' = Nothing /\ settled' = settled
    BY <1>10 DEF Boot
  <2> QED BY <1>t, <2>1, ReportOfIsReport
      DEF SpecInv, Clocks, ReportIsVerdict, YoungReportIsCurrent, AnswerTells
<1>11. CASE UNCHANGED vars
  BY <1>11, <1>1 DEF vars, SpecInv, AnswerTells
<1> QED BY <1>2, <1>3, <1>4, <1>5, <1>6, <1>7, <1>8, <1>9, <1>10, <1>11 DEF Next

(* The invariant of the report and its responses. *)
LEMMA SpecInvariant == Spec => []SpecInv
<1>1. Init => SpecInv
  BY TimesAssumption, ReportOfIsReport
  DEF Init, SpecInv, Clocks, ReportIsVerdict, YoungReportIsCurrent, AnswerTells,
      TimesAssumption
<1> QED BY <1>1, NextSpecInv, PTL DEF Spec

-----------------------------------------------------------------------------

(* What the engine last said of itself decides what a reader is told, for  *)
(* as long as it says nothing else, whatever fetches fail in between       *)
(* (engineEndpoints, dropUndeclaredProxyRows, markUnconfirmedProxyRows).   *)
THEOREM VerdictsStand == Spec => []VerdictStands
<1>1. SpecInv => VerdictStands
  <2> SUFFICES ASSUME SpecInv, answer # Nothing
               PROVE  /\ answer.verdict.state = "declared" =>
                          /\ \A x \in Shown : x.proxied => x.route \in RowsOf(answer.verdict.rows)
                          /\ \A rt \in Offered : ReportedOn(answer.verdict, rt)
                      /\ answer.verdict.state = "unknown" =>
                          \A rt \in Offered :
                              rt.p \in Claimed => Owner(rt.p) = answer.mode
                      /\ answer.report.overlay = answer.verdict.overlay
    BY DEF VerdictStands
  <2> DEFINE rep == answer.report
  <2>1. rep = answer.verdict /\ AreRows(rep.rows) /\ Shown = Catalog(answer.mode, rep)
    BY DEF SpecInv, AnswerTells, IsReport, Shown
  <2> HIDE DEF rep
  <2>2. ASSUME rep.state = "declared", NEW x \in Shown, x.proxied
        PROVE  x.route \in RowsOf(rep.rows) /\ (x.on => ReportedOn(rep, x.route))
    <3>0. x \in Catalog(answer.mode, rep) /\ AreRows(rep.rows)
      BY <2>1, <2>2
    <3>1. \E y \in Kept(answer.mode, rep) :
              /\ y.route = x.route /\ y.proxied = x.proxied
              /\ x.on => y.on
      BY ONLY <3>0, CatalogRows
    <3>2. PICK y \in Kept(answer.mode, rep) :
              y.route = x.route /\ y.proxied = x.proxied /\ (x.on => y.on)
      BY <3>1
    <3> QED BY <2>2, <3>2, DeclaredRowsRule
  <2>3. ASSUME rep.state = "unknown", NEW x \in Shown, x.proxied, x.on,
               x.route.p \in Claimed
        PROVE  Owner(x.route.p) = answer.mode
    BY <2>1, <2>3, CatalogRows
  <2> QED BY <2>1, <2>2, <2>3 DEF Offered, rep
<1> QED BY <1>1, SpecInvariant, PTL

(* Caching never keeps a reader who found the engine alive from what the   *)
(* engine has been saying for a TTL (engineSpecTTL).                       *)
THEOREM ReportsAreFresh == Spec => []FreshWithinTTL
<1>1. SpecInv => FreshWithinTTL
  BY DEF SpecInv, AnswerTells, FreshWithinTTL, Shown
<1> QED BY <1>1, SpecInvariant, PTL

(* What a request may be doing. *)
Readings ==
    [pc : {"idle", "alone", "lock", "fetch"}, mode : Modes \cup {"none"}, asks : BOOLEAN]

(* The process has one mode: the rows and the port go by it, and so does   *)
(* every request that is under way, whoever holds the mutex.               *)
OneMode ==
    /\ alive \in BOOLEAN /\ card \in Modes /\ mode \in Modes /\ bootMode = mode
    /\ req \in [Requests -> Readings]
    /\ \A r \in Requests : req[r].pc # "idle" => req[r].mode = mode
    /\ \A r \in Requests : lock = r => req[r].pc = "fetch"
    /\ answer # Nothing => answer.mode = answer.guard

(* A reader under way is answered for the one mode. *)
LEMMA RespondKeepsMode ==
    ASSUME OneMode, NEW r \in Requests, req[r].pc # "idle", lock' # r,
           NEW rep, NEW said, NEW owed, Respond(r, rep, said, owed),
           UNCHANGED <<card, mode, bootMode, alive>>, lock' \in {lock, Nobody}
    PROVE  OneMode'
<1>1. /\ req' = [req EXCEPT ![r] = Idle]
      /\ answer'.mode = req[r].mode /\ answer'.guard = bootMode
  BY DEF Respond
<1>2. req[r].mode = mode /\ bootMode = mode
  BY DEF OneMode
<1>3. Idle \in Readings /\ Idle.pc = "idle"
  BY DEF Idle, Readings
<1>4. /\ req' \in [Requests -> Readings]
      /\ \A q \in Requests : req'[q] = IF q = r THEN Idle ELSE req[q]
  BY <1>1, <1>3 DEF OneMode
<1> QED BY <1>1, <1>2, <1>3, <1>4, RequestsAssumption DEF OneMode, RequestsAssumption

(* A card edit waits for a boot, and a boot gives one mode to both. *)
LEMMA NextOneMode == OneMode /\ [Next]_vars => OneMode'
<1> SUFFICES ASSUME OneMode, [Next]_vars PROVE OneMode'
  OBVIOUS
<1>1. ASSUME NEW r \in Requests, Ask(r) PROVE OneMode'
  <2> DEFINE q == [pc |-> IF wired THEN "lock" ELSE "alone", mode |-> mode, asks |-> alive]
  <2>1. /\ req[r].pc = "idle" /\ req' = [req EXCEPT ![r] = q] /\ answer' = Nothing
        /\ UNCHANGED <<card, mode, bootMode, alive, lock>>
    BY <1>1 DEF Ask
  <2>2. q \in Readings /\ q.mode = mode
    BY DEF OneMode, Readings
  <2> HIDE DEF q
  <2>3. \A o \in Requests : req'[o] = IF o = r THEN q ELSE req[o]
    BY <2>1 DEF OneMode
  <2> QED BY <2>1, <2>2, <2>3 DEF OneMode
<1>2. ASSUME NEW r \in Requests, AnswerAlone(r) PROVE OneMode'
  <2>1. /\ req[r].pc = "alone" /\ Respond(r, Silent, Silent, Unknown)
        /\ UNCHANGED <<card, mode, bootMode, alive, lock>>
    BY <1>2 DEF AnswerAlone
  <2>2. lock # r
    BY <2>1 DEF OneMode
  <2> QED BY <2>1, <2>2, RespondKeepsMode
<1>3. ASSUME NEW r \in Requests, Reuse(r) PROVE OneMode'
  <2>1. /\ req[r].pc = "lock" /\ Respond(r, report, verdict, Owed(r))
        /\ UNCHANGED <<card, mode, bootMode, alive, lock>>
    BY <1>3 DEF Reuse
  <2>2. lock # r
    BY <2>1 DEF OneMode
  <2> QED BY <2>1, <2>2, RespondKeepsMode
<1>4. ASSUME NEW r \in Requests, StartFetch(r) PROVE OneMode'
  <2>1. /\ req[r].pc = "lock" /\ req' = [req EXCEPT ![r].pc = "fetch"]
        /\ lock' = r /\ answer' = Nothing
        /\ UNCHANGED <<card, mode, bootMode, alive>>
    BY <1>4 DEF StartFetch
  <2>2. \A o \in Requests : req'[o] = IF o = r THEN [req[o] EXCEPT !.pc = "fetch"] ELSE req[o]
    BY <2>1 DEF OneMode
  <2>3. /\ req' \in [Requests -> Readings]
        /\ req'[r].pc = "fetch" /\ req'[r].mode = req[r].mode
    BY <2>1, <2>2 DEF OneMode, Readings
  <2> QED BY <2>1, <2>2, <2>3 DEF OneMode
<1>5. ASSUME NEW r \in Requests, Answered(r) \/ Lost(r) \/ TimedOut(r) PROVE OneMode'
  <2>1. PICK rep, owed : EndFetch(r, rep, owed)
    BY <1>5 DEF Answered, Lost, TimedOut
  <2>2. /\ lock = r /\ lock' = Nobody /\ Respond(r, Keep(rep), verdict', owed)
        /\ UNCHANGED <<card, mode, bootMode, alive>>
    BY <2>1 DEF EndFetch
  <2>3. req[r].pc = "fetch" /\ Nobody # r
    BY <2>2, RequestsAssumption DEF OneMode, RequestsAssumption
  <2> QED BY <2>2, <2>3, RespondKeepsMode
<1>6. ASSUME NEW m \in Modes, PutCard(m) PROVE OneMode'
  BY <1>6 DEF PutCard, OneMode
<1>7. CASE Boot
  <2>1. Idle \in Readings /\ Idle.pc = "idle"
    BY DEF Idle, Readings
  <2>2. /\ mode' = card /\ bootMode' = card /\ card' = card /\ alive' = FALSE
        /\ lock' = Nobody /\ req' = [r \in Requests |-> Idle] /\ answer' = Nothing
    BY <1>7 DEF Boot
  <2> QED BY <2>1, <2>2, RequestsAssumption DEF OneMode, RequestsAssumption
<1>8. CASE Probe \/ Tick \/ \E e \in Answers : EngineBecomes(e)
  <2>1. /\ UNCHANGED <<card, mode, bootMode, lock, req>>
        /\ alive' \in BOOLEAN /\ answer' = Nothing
    BY <1>8 DEF Probe, Tick, EngineBecomes, OneMode
  <2> QED BY <2>1 DEF OneMode
<1>9. CASE UNCHANGED vars
  BY <1>9 DEF vars, OneMode
<1> QED BY <1>1, <1>2, <1>3, <1>4, <1>5, <1>6, <1>7, <1>8, <1>9 DEF Next

(* What the catalogue offers the port serves, whatever the engine declares *)
(* and whatever mode was put on the card since the boot                    *)
(* (applyDataPlaneCatalog, ModeGuard, Store.ApplySpec).                    *)
THEOREM OffersAreServed == Spec => []OfferedIsServed
<1>1. SpecInv /\ OneMode => OfferedIsServed
  <2> SUFFICES ASSUME SpecInv, OneMode, answer # Nothing, NEW x \in Shown, x.on, x.proxied
               PROVE  ~Refuses(answer.guard, x.route.p)
    BY DEF OfferedIsServed, Offered
  <2>1. AreRows(answer.report.rows)
    BY DEF SpecInv, AnswerTells, IsReport
  <2>2. Restricted(answer.mode) => Declares(answer.mode, x.route)
    BY <2>1, CatalogRows DEF Shown
  <2>3. answer.guard = answer.mode
    BY DEF OneMode
  <2> QED BY <2>2, <2>3 DEF Refuses, Declares, ServesPath
<1>2. Init => OneMode
  <2> SUFFICES ASSUME Init PROVE OneMode
    OBVIOUS
  <2>1. /\ card \in Modes /\ mode = card /\ bootMode = card /\ alive = FALSE
        /\ lock = Nobody /\ req = [r \in Requests |-> Idle] /\ answer = Nothing
    BY DEF Init
  <2>2. Idle \in Readings /\ Idle.pc = "idle"
    BY DEF Idle, Readings
  <2> QED BY <2>1, <2>2, RequestsAssumption DEF OneMode, RequestsAssumption
<1> QED BY <1>1, <1>2, NextOneMode, SpecInvariant, PTL DEF Spec

-----------------------------------------------------------------------------
(***************************************************************************)
(* The wire: what a stream has emitted and what it is about to emit.       *)
(***************************************************************************)

Wire == out \o todo

Kinds == {"message_start", "block_start", "block_delta", "block_stop", "message_delta",
          "message_stop", "error", "chunk", "role_chunk", "calls", "role_calls", "finish", "done"}
Accumulators == [tools : [Calls -> Seq(Nat)], stop : {"end_turn", "max_tokens", "tool_use"},
                 tokens : Nat, role : BOOLEAN]
Reasons == {"stop", "tool_calls", "end_turn", "max_tokens", "tool_use"}
Data == Seq(Nat \cup Reasons \cup [Calls -> Seq(Nat)])
Emitted == [e : Kinds, idx : Int, data : Data]

(* The stream goes on; no frame said why it finished. *)
Unended(how) == how = ""
Unfinished(s) == \A k \in DOMAIN s : s[k].fin = ""

StreamTypes ==
  /\ route \in Routes /\ streams \in BOOLEAN
  /\ sent \in Seq(EveryFrame) /\ acc \in Accumulators
  /\ todo \in Seq(Emitted) /\ out \in Seq(Emitted)
  /\ pc \in {"body", "posted", "frames", "end"}

(* Which event may follow which: on /v1/messages, and on the OpenAI routes. *)
MayFollow(x, y) ==
  \/ /\ y.e = "block_start"
     /\ \/ x.e = "message_start" /\ y.idx = 0
        \/ x.e = "block_stop" /\ y.idx = x.idx + 1
  \/ /\ y.e \in {"block_delta", "block_stop"}
     /\ x.e \in {"block_start", "block_delta"} /\ y.idx = x.idx
  \/ y.e = "message_delta" /\ x.e = "block_stop"
  \/ y.e = "message_stop" /\ x.e = "message_delta"
  \/ y.e = "error" /\ x.e \in {"block_start", "block_delta"}

MayFollowChunk(x, y) ==
  \/ y.e = "chunk" /\ x.e \in {"chunk", "role_chunk"}
  \/ y.e = "calls" /\ x.e \in {"chunk", "role_chunk"}
  \/ y.e = "finish" /\ x.e \in {"chunk", "role_chunk", "calls", "role_calls"}
  \/ y.e = "done" /\ x.e # "done"

Blocks(s) == \A n \in 1 .. Len(s) - 1 : MayFollow(s[n], s[n + 1])
Chunks(s) == \A n \in 1 .. Len(s) - 1 : MayFollowChunk(s[n], s[n + 1])

(* The events of a stream follow one another as they may, from the first   *)
(* one on.                                                                 *)
Follows(way, s) ==
  /\ way = "messages" => Blocks(s) /\ (s # <<>> => s[1].e = "message_start")
  /\ way = "chat" => Chunks(s) /\
       (s # <<>> => s[1].e \in {"role_chunk", "role_calls", "finish", "done"})
  /\ way = "completion" => Chunks(s) /\ (s # <<>> => s[1].e \in {"chunk", "finish", "done"})

(* While frames come the text's block is open; an OpenAI stream holds only *)
(* deltas, and the role was told with the first.                           *)
OpenWire(way, s, role) ==
  /\ way = "messages" =>
       /\ Len(s) >= 2 /\ s[Len(s)].e \in {"block_start", "block_delta"} /\ s[Len(s)].idx = 0
       /\ \A n \in DOMAIN s :
            s[n].idx <= 0 /\ s[n].e \in {"message_start", "block_start", "block_delta"}
  /\ way = "chat" =>
       (role <=> s # <<>>) /\ \A n \in DOMAIN s : s[n].e \in {"chunk", "role_chunk"}
  /\ way = "completion" => \A n \in DOMAIN s : s[n].e = "chunk"

(* Nothing is on the wire before the engine has accepted, and a cut or     *)
(* finished OpenAI stream has its end marker.                              *)
WireFollows ==
  /\ ~streams \/ pc \in {"body", "posted"} => Wire = <<>>
  /\ Follows(api, Wire)
WireStands ==
  /\ pc = "frames" /\ streams => OpenWire(api, Wire, acc.role)
  /\ pc = "end" /\ streams /\ ~Unended(ended) /\ api # "messages" =>
       Wire # <<>> /\ Wire[Len(Wire)].e = "done"
  /\ pc # "end" => Unended(ended) \/ ~streams
  /\ pc \in {"body", "posted"} => Unended(ended)

(* The number of blocks begun is the number of the block at hand.          *)
BlocksBegun == Begun(events)
BlocksCount ==
  /\ Len(events) <= 1 => BlocksBegun = 0
  /\ events # <<>> /\ Last(events).e \in {"block_start", "block_delta", "block_stop"} =>
       BlocksBegun = Last(events).idx + 1 /\ Last(events).idx >= 0

(* What the accumulators hold of the frames so far, and what of them was   *)
(* said.                                                                   *)
AccTells ==
  streams =>
    /\ \A i \in Calls : Ascends(acc.tools[i], Brought[i])
    /\ acc.stop = "tool_use" <=> \E k \in DOMAIN sent : sent[k].fin = "tool_calls"
    /\ route[1] = "ollama" => Unfinished(sent)

SaidSoFar ==
  streams =>
    /\ pc = "frames" => TextIsSaid(Wire, Spoken)
    /\ pc = "end" /\ ended = "done" =>
         /\ TextIsSaid(Wire, Spoken)
         /\ api = "messages" => CallsAreSaid(Wire, Brought) /\ (ToolUseIsSaid(Wire) <=> ToolsAreUsed)
         /\ api = "chat" => ListIsSaid(Wire, Brought)

BeforeFrames == pc \in {"body", "posted"} => sent = <<>> /\ acc = Fresh

StreamInv ==
  /\ StreamTypes /\ WireFollows /\ WireStands /\ BlocksCount
  /\ AccTells /\ SaidSoFar /\ BeforeFrames

-----------------------------------------------------------------------------
(* Events and sequences of them.                                           *)

(* What an event is made of. *)
LEMMA EventIs ==
    ASSUME NEW e, NEW i, NEW d
    PROVE  /\ Event(e, i, d).e = e /\ Event(e, i, d).idx = i /\ Event(e, i, d).data = d
           /\ e \in Kinds /\ i \in Int /\ d \in Data => Event(e, i, d) \in Emitted
BY DEF Event, Emitted

(* What an emitted event is made of. *)
LEMMA EmittedIs ==
    ASSUME NEW x \in Emitted
    PROVE  x.e \in Kinds /\ x.idx \in Int /\ x.data \in Data
BY DEF Emitted

(* The data of an event: nothing, a number, a word, all calls' fragments,  *)
(* or one call's.                                                          *)
LEMMA DataIs ==
    /\ <<>> \in Data
    /\ \A x : x \in Nat \/ x \in Reasons \/ x \in [Calls -> Seq(Nat)] => <<x>> \in Data
    /\ \A s \in Seq(Nat) : s \in Data
<1> DEFINE U == Nat \cup Reasons \cup [Calls -> Seq(Nat)]
<1>1. \A s \in Seq(Nat) : s \in Seq(U)
  <2>1. Nat \subseteq U  OBVIOUS
  <2> HIDE DEF U
  <2> QED BY <2>1, SeqMonotonic
<1>2. <<>> \in Seq(U)  OBVIOUS
<1>3. \A x : x \in Nat \/ x \in Reasons \/ x \in [Calls -> Seq(Nat)] => x \in U  OBVIOUS
<1>4. \A x \in U : <<x>> \in Seq(U)
  <2> HIDE DEF U
  <2> QED OBVIOUS
<1> QED BY <1>1, <1>2, <1>3, <1>4 DEF Data

(* A place of a joined sequence is a place of the one or of the other.     *)
LEMMA JoinedPlaces ==
    ASSUME NEW X, NEW s \in Seq(X), NEW t \in Seq(X)
    PROVE  /\ s \o t \in Seq(X) /\ Len(s \o t) = Len(s) + Len(t)
           /\ DOMAIN (s \o t) = 1 .. Len(s) + Len(t)
           /\ DOMAIN s = 1 .. Len(s) /\ DOMAIN t = 1 .. Len(t)
           /\ Len(s) \in Nat /\ Len(t) \in Nat
           /\ \A n \in DOMAIN s : n \in DOMAIN (s \o t) /\ (s \o t)[n] = s[n]
           /\ \A n \in DOMAIN t : Len(s) + n \in DOMAIN (s \o t) /\ (s \o t)[Len(s) + n] = t[n]
           /\ \A n \in DOMAIN (s \o t) :
                n \in DOMAIN s \/ (n > Len(s) /\ n - Len(s) \in DOMAIN t)
<1>1. /\ s \o t \in Seq(X) /\ Len(s \o t) = Len(s) + Len(t)
      /\ \A i \in 1 .. Len(s) + Len(t) : (s \o t)[i] = IF i <= Len(s) THEN s[i] ELSE t[i - Len(s)]
  BY ConcatProperties
<1>2. DOMAIN (s \o t) = 1 .. Len(s \o t) /\ DOMAIN s = 1 .. Len(s) /\ DOMAIN t = 1 .. Len(t)
      /\ Len(s) \in Nat /\ Len(t) \in Nat
  BY <1>1, LenProperties
<1> DEFINE u == s \o t
<1>3. u \in Seq(X) /\ Len(u) = Len(s) + Len(t) /\ DOMAIN u = 1 .. Len(s) + Len(t)
      /\ \A i \in 1 .. Len(s) + Len(t) : u[i] = IF i <= Len(s) THEN s[i] ELSE t[i - Len(s)]
  BY <1>1, <1>2
<1> HIDE DEF u
<1>4. /\ \A n \in DOMAIN s : n \in DOMAIN u /\ u[n] = s[n]
      /\ \A n \in DOMAIN t : Len(s) + n \in DOMAIN u /\ u[Len(s) + n] = t[n]
      /\ \A n \in DOMAIN u : n \in DOMAIN s \/ (n > Len(s) /\ n - Len(s) \in DOMAIN t)
  BY <1>2, <1>3
<1> QED BY <1>2, <1>3, <1>4 DEF u

(* A sequence with one element more. *)
LEMMA OneMore ==
    ASSUME NEW X, NEW s \in Seq(X), NEW x \in X
    PROVE  /\ Append(s, x) = s \o <<x>> /\ Append(s, x) \in Seq(X)
           /\ Len(Append(s, x)) = Len(s) + 1 /\ DOMAIN Append(s, x) = 1 .. Len(s) + 1
           /\ Append(s, x)[Len(s) + 1] = x
           /\ \A n \in DOMAIN s : Append(s, x)[n] = s[n]
           /\ DOMAIN s = 1 .. Len(s) /\ Len(s) \in Nat
OBVIOUS

(* Events that follow one another as they may still do when joined.        *)
LEMMA BlocksJoin ==
    ASSUME NEW s \in Seq(Emitted), NEW t \in Seq(Emitted), Blocks(s), Blocks(t),
           s # <<>> /\ t # <<>> => MayFollow(s[Len(s)], t[1])
    PROVE  Blocks(s \o t)
<1> DEFINE u == s \o t
<1>1. /\ Len(u) = Len(s) + Len(t) /\ DOMAIN u = 1 .. Len(s) + Len(t)
      /\ DOMAIN s = 1 .. Len(s) /\ DOMAIN t = 1 .. Len(t) /\ Len(s) \in Nat /\ Len(t) \in Nat
      /\ \A n \in DOMAIN s : u[n] = s[n]
      /\ \A n \in DOMAIN t : u[Len(s) + n] = t[n]
  BY JoinedPlaces DEF u
<1>2. (Len(s) > 0 => s # <<>>) /\ (Len(t) > 0 => t # <<>>)
  OBVIOUS
<1> HIDE DEF u
<1> SUFFICES ASSUME NEW n \in 1 .. Len(u) - 1
             PROVE  MayFollow(u[n], u[n + 1])
  BY DEF Blocks, u
<1>3. CASE n < Len(s)
  <2>1. u[n] = s[n] /\ u[n + 1] = s[n + 1] /\ n \in 1 .. Len(s) - 1
    BY <1>1, <1>3
  <2> QED BY <2>1 DEF Blocks
<1>4. CASE n = Len(s)
  <2>1. u[n] = s[Len(s)] /\ u[n + 1] = t[1] /\ Len(s) > 0 /\ Len(t) > 0
    BY <1>1, <1>4
  <2> QED BY <2>1, <1>2
<1>5. CASE n > Len(s)
  <2>1. n - Len(s) \in DOMAIN t /\ n - Len(s) + 1 \in DOMAIN t /\ n - Len(s) \in 1 .. Len(t) - 1
    BY <1>1, <1>5
  <2>2. u[Len(s) + (n - Len(s))] = t[n - Len(s)] /\ u[Len(s) + (n - Len(s) + 1)] = t[n - Len(s) + 1]
    BY <1>1, <2>1
  <2>3. Len(s) + (n - Len(s)) = n /\ Len(s) + (n - Len(s) + 1) = n + 1
    BY <1>1
  <2> QED BY <2>1, <2>2, <2>3 DEF Blocks
<1>6. n < Len(s) \/ n = Len(s) \/ n > Len(s)
  <2>1. n \in Int /\ Len(s) \in Int
    BY <1>1
  <2> QED BY <2>1
<1> QED BY <1>6, <1>3, <1>4, <1>5

(* The same of an OpenAI stream. *)
LEMMA ChunksJoin ==
    ASSUME NEW s \in Seq(Emitted), NEW t \in Seq(Emitted), Chunks(s), Chunks(t),
           s # <<>> /\ t # <<>> => MayFollowChunk(s[Len(s)], t[1])
    PROVE  Chunks(s \o t)
<1> DEFINE u == s \o t
<1>1. /\ Len(u) = Len(s) + Len(t) /\ DOMAIN u = 1 .. Len(s) + Len(t)
      /\ DOMAIN s = 1 .. Len(s) /\ DOMAIN t = 1 .. Len(t) /\ Len(s) \in Nat /\ Len(t) \in Nat
      /\ \A n \in DOMAIN s : u[n] = s[n]
      /\ \A n \in DOMAIN t : u[Len(s) + n] = t[n]
  BY JoinedPlaces DEF u
<1>2. (Len(s) > 0 => s # <<>>) /\ (Len(t) > 0 => t # <<>>)
  OBVIOUS
<1> HIDE DEF u
<1> SUFFICES ASSUME NEW n \in 1 .. Len(u) - 1
             PROVE  MayFollowChunk(u[n], u[n + 1])
  BY DEF Chunks, u
<1>3. CASE n < Len(s)
  <2>1. u[n] = s[n] /\ u[n + 1] = s[n + 1] /\ n \in 1 .. Len(s) - 1
    BY <1>1, <1>3
  <2> QED BY <2>1 DEF Chunks
<1>4. CASE n = Len(s)
  <2>1. u[n] = s[Len(s)] /\ u[n + 1] = t[1] /\ Len(s) > 0 /\ Len(t) > 0
    BY <1>1, <1>4
  <2> QED BY <2>1, <1>2
<1>5. CASE n > Len(s)
  <2>1. n - Len(s) \in DOMAIN t /\ n - Len(s) + 1 \in DOMAIN t /\ n - Len(s) \in 1 .. Len(t) - 1
    BY <1>1, <1>5
  <2>2. u[Len(s) + (n - Len(s))] = t[n - Len(s)] /\ u[Len(s) + (n - Len(s) + 1)] = t[n - Len(s) + 1]
    BY <1>1, <2>1
  <2>3. Len(s) + (n - Len(s)) = n /\ Len(s) + (n - Len(s) + 1) = n + 1
    BY <1>1
  <2> QED BY <2>1, <2>2, <2>3 DEF Chunks
<1>6. n < Len(s) \/ n = Len(s) \/ n > Len(s)
  <2>1. n \in Int /\ Len(s) \in Int
    BY <1>1
  <2> QED BY <2>1
<1> QED BY <1>6, <1>3, <1>4, <1>5

-----------------------------------------------------------------------------
(* Putting the calls in order.                                             *)

(* InOrder lists the elements of a finite set, every one once, when what   *)
(* it goes by tells them apart.                                            *)
LEMMA InOrderLists ==
    ASSUME NEW S, IsFiniteSet(S), NEW key,
           \A i \in S : key[i] \in Nat,
           \A i, j \in S : key[i] = key[j] => i = j
    PROVE  /\ InOrder(S, key) \in Seq(S) /\ Len(InOrder(S, key)) = Cardinality(S)
           /\ \A i \in S : \E n \in DOMAIN InOrder(S, key) : InOrder(S, key)[n] = i
           /\ \A m, n \in DOMAIN InOrder(S, key) : InOrder(S, key)[m] = InOrder(S, key)[n] => m = n
           /\ \A m, n \in DOMAIN InOrder(S, key) :
                m < n => key[InOrder(S, key)[m]] < key[InOrder(S, key)[n]]
<1> DEFINE c == Cardinality(S)
           before(i) == {j \in S : key[j] < key[i]}
           rank == [i \in S |-> Cardinality(before(i))]
           T == 0 .. c - 1
           it == [n \in 1 .. c |-> CHOOSE i \in S : Cardinality(before(i)) = n - 1]
<1>1. c \in Nat
  BY FS_CardinalityType
<1>2. \A i \in S : IsFiniteSet(before(i)) /\ Cardinality(before(i)) \in Nat
  <2> TAKE i \in S
  <2>1. before(i) \in SUBSET S  OBVIOUS
  <2>2. IsFiniteSet(before(i))  BY <2>1, FS_Subset
  <2> QED BY <2>2, FS_CardinalityType
<1>3. \A i, j \in S : key[i] < key[j] => Cardinality(before(i)) < Cardinality(before(j))
  <2> SUFFICES ASSUME NEW i \in S, NEW j \in S, key[i] < key[j]
               PROVE  Cardinality(before(i)) < Cardinality(before(j))
    OBVIOUS
  <2>1. before(i) \subseteq before(j) /\ i \in before(j) /\ i \notin before(i)
    OBVIOUS
  <2>2. /\ IsFiniteSet(before(j)) /\ Cardinality(before(j)) \in Nat
        /\ Cardinality(before(i)) \in Nat
    BY <1>2
  <2> HIDE DEF before
  <2>3. Cardinality(before(i)) <= Cardinality(before(j))
        /\ (Cardinality(before(j)) = Cardinality(before(i)) => before(j) = before(i))
    BY <2>1, <2>2, FS_Subset
  <2> QED BY <2>1, <2>2, <2>3
<1>4. \A i \in S : Cardinality(before(i)) < c
  <2> TAKE i \in S
  <2>1. before(i) \subseteq S /\ i \notin before(i)
    OBVIOUS
  <2> HIDE DEF before
  <2>2. Cardinality(before(i)) <= c /\ (c = Cardinality(before(i)) => S = before(i))
    BY <2>1, FS_Subset
  <2> QED BY <2>1, <2>2, <1>1, <1>2
<1>5. \A i, j \in S : Cardinality(before(i)) = Cardinality(before(j)) => i = j
  <2> SUFFICES ASSUME NEW i \in S, NEW j \in S, i # j
               PROVE  Cardinality(before(i)) # Cardinality(before(j))
    OBVIOUS
  <2>1. key[i] < key[j] \/ key[j] < key[i]
    OBVIOUS
  <2>2. Cardinality(before(i)) < Cardinality(before(j)) \/ Cardinality(before(j)) < Cardinality(before(i))
    BY <2>1, <1>3
  <2>3. Cardinality(before(i)) \in Nat /\ Cardinality(before(j)) \in Nat
    BY <1>2
  <2> HIDE DEF before
  <2> QED BY <2>2, <2>3
<1> HIDE DEF before
<1>6. rank \in [S -> T]
  BY <1>1, <1>2, <1>4
<1>7. rank \in Injection(S, T)
  <2>1. \A i, j \in S : rank[i] = rank[j] => i = j
    BY <1>5
  <2> HIDE DEF rank, T
  <2> QED BY <2>1, <1>6 DEF Injection, IsInjective
<1>8. IsFiniteSet(T) /\ Cardinality(T) = c
  BY <1>1, FS_Interval
<1>9. rank \in Surjection(S, T)
  <2> HIDE DEF rank, T
  <2> QED BY <1>7, <1>8, FS_Injection DEF c
<1>10. \A t \in T : \E i \in S : Cardinality(before(i)) = t
  BY <1>9 DEF Surjection
<1> HIDE DEF T, rank, c
<1>11. \A n \in 1 .. c : it[n] \in S /\ Cardinality(before(it[n])) = n - 1
  <2> TAKE n \in 1 .. c
  <2>1. n - 1 \in T
    BY <1>1 DEF T
  <2> QED BY <2>1, <1>10
<1>12. it \in Seq(S) /\ Len(it) = c /\ DOMAIN it = 1 .. c
  <2>1. it \in [1 .. c -> S]
    BY <1>11
  <2> HIDE DEF it
  <2> QED BY <2>1, <1>1
<1>13. \A i \in S : \E n \in DOMAIN it : it[n] = i
  <2> TAKE i \in S
  <2> DEFINE n == Cardinality(before(i)) + 1
  <2>1. n \in 1 .. c /\ n - 1 = Cardinality(before(i))
    BY <1>1, <1>2, <1>4
  <2>2. it[n] \in S /\ Cardinality(before(it[n])) = Cardinality(before(i))
    BY <2>1, <1>11
  <2>3. it[n] = i
    BY <2>2, <1>5
  <2> QED BY <2>1, <2>3, <1>12
<1>14. \A m, n \in DOMAIN it : it[m] = it[n] => m = n
  <2> SUFFICES ASSUME NEW m \in 1 .. c, NEW n \in 1 .. c, it[m] = it[n]
               PROVE  m = n
    BY <1>12
  <2>1. m - 1 = n - 1
    BY <1>11
  <2> QED BY <2>1, <1>1
<1>15. \A m, n \in DOMAIN it : m < n => key[it[m]] < key[it[n]]
  <2> SUFFICES ASSUME NEW m \in 1 .. c, NEW n \in 1 .. c, m < n
               PROVE  key[it[m]] < key[it[n]]
    BY <1>12
  <2>1. it[m] # it[n] /\ it[m] \in S /\ it[n] \in S
    BY <1>1, <1>11, <1>12, <1>14
  <2>2. Cardinality(before(it[m])) = m - 1 /\ Cardinality(before(it[n])) = n - 1
    BY <1>11
  <2>3. key[it[n]] < key[it[m]] => Cardinality(before(it[n])) < Cardinality(before(it[m]))
    BY <1>3, <2>1
  <2>4. ~(n - 1 < m - 1)
    BY <1>1
  <2>5. key[it[m]] \in Nat /\ key[it[n]] \in Nat /\ key[it[m]] # key[it[n]]
    BY <2>1
  <2> HIDE DEF it
  <2> QED BY <2>2, <2>3, <2>4, <2>5
<1>16. InOrder(S, key) = it
  BY DEF InOrder, before, it, c
<1> HIDE DEF it
<1>17. /\ it \in Seq(S) /\ Len(it) = c
       /\ \A i \in S : \E n \in DOMAIN it : it[n] = i
       /\ \A m, n \in DOMAIN it : it[m] = it[n] => m = n
       /\ \A m, n \in DOMAIN it : m < n => key[it[m]] < key[it[n]]
  BY <1>12, <1>13, <1>14, <1>15
<1> QED BY <1>16, <1>17 DEF c

(* The blocks of the calls: three events each, numbered on from 1.         *)
LEMMA ToolBlocksAre ==
    ASSUME NEW tools \in [Calls -> Seq(Nat)], NEW order \in Seq(Calls)
    PROVE  LET t == ToolBlocks(tools, order)
           IN  /\ t \in Seq(Emitted) /\ Len(t) = 3 * Len(order) /\ Len(order) \in Nat
               /\ DOMAIN order = 1 .. Len(order)
               /\ \A n \in 1 .. Len(order) :
                    /\ t[3 * n - 2] = Event("block_start", n, <<order[n]>>)
                    /\ t[3 * n - 1] = Event("block_delta", n, tools[order[n]])
                    /\ t[3 * n] = Event("block_stop", n, <<>>)
               /\ \A m \in 1 .. 3 * Len(order) :
                    \E n \in 1 .. Len(order) : m = 3 * n - 2 \/ m = 3 * n - 1 \/ m = 3 * n
<1> DEFINE t == ToolBlocks(tools, order)
           L == Len(order)
<1>1. L \in Nat /\ DOMAIN order = 1 .. L
  OBVIOUS
<1> HIDE DEF L
<1>2. \A m \in 1 .. 3 * L :
        LET n == (m + 2) \div 3
        IN  n \in 1 .. L /\ ( \/ m = 3 * n - 2 /\ m % 3 = 1
                              \/ m = 3 * n - 1 /\ m % 3 = 2
                              \/ m = 3 * n /\ m % 3 = 0 )
  <2> TAKE m \in 1 .. 3 * L
  <2> DEFINE n == (m + 2) \div 3
  <2>1. n \in Int /\ m \in Int /\ 3 * n <= m + 2 /\ m + 2 < 3 * n + 3 /\ 1 <= m /\ m <= 3 * L
    BY <1>1
  <2>2. n \in 1 .. L
    <3> HIDE DEF n
    <3> QED BY <2>1, <1>1
  <2>3. m = 3 * n - 2 \/ m = 3 * n - 1 \/ m = 3 * n
    <3> HIDE DEF n
    <3> QED BY <2>1
  <2>4. (m = 3 * n - 2 => m % 3 = 1) /\ (m = 3 * n - 1 => m % 3 = 2) /\ (m = 3 * n => m % 3 = 0)
    <3> HIDE DEF n
    <3> QED BY <2>1
  <2> QED BY <2>2, <2>3, <2>4
<1>3. \A n \in 1 .. L :
        /\ 3 * n - 2 \in 1 .. 3 * L /\ (3 * n - 2) % 3 = 1 /\ (3 * n - 2 + 2) \div 3 = n
        /\ 3 * n - 1 \in 1 .. 3 * L /\ (3 * n - 1) % 3 = 2 /\ (3 * n - 1 + 2) \div 3 = n
        /\ 3 * n \in 1 .. 3 * L /\ (3 * n) % 3 = 0 /\ (3 * n + 2) \div 3 = n
  BY <1>1
<1> DEFINE At(m) == LET n == (m + 2) \div 3
                    IN  CASE m % 3 = 1 -> Event("block_start", n, <<order[n]>>)
                          [] m % 3 = 2 -> Event("block_delta", n, tools[order[n]])
                          [] m % 3 = 0 -> Event("block_stop", n, <<>>)
<1>4. t = [m \in 1 .. 3 * L |-> At(m)]
  BY DEF ToolBlocks, L
<1>5. \A n \in 1 .. L :
        /\ At(3 * n - 2) = Event("block_start", n, <<order[n]>>)
        /\ At(3 * n - 1) = Event("block_delta", n, tools[order[n]])
        /\ At(3 * n) = Event("block_stop", n, <<>>)
  <2> TAKE n \in 1 .. L
  <2>1. At(3 * n - 2) = Event("block_start", n, <<order[n]>>)
    <3> DEFINE m == 3 * n - 2
    <3>1. m % 3 = 1 /\ (m + 2) \div 3 = n
      BY <1>3
    <3> HIDE DEF m
    <3>2. At(m) = Event("block_start", n, <<order[n]>>)
      BY <3>1
    <3> QED BY <3>2 DEF m
  <2>2. At(3 * n - 1) = Event("block_delta", n, tools[order[n]])
    <3> DEFINE m == 3 * n - 1
    <3>1. m % 3 = 2 /\ (m + 2) \div 3 = n
      BY <1>3
    <3> HIDE DEF m
    <3>2. At(m) = Event("block_delta", n, tools[order[n]])
      BY <3>1
    <3> QED BY <3>2 DEF m
  <2>3. At(3 * n) = Event("block_stop", n, <<>>)
    <3> DEFINE m == 3 * n
    <3>1. m % 3 = 0 /\ (m + 2) \div 3 = n
      BY <1>3
    <3> HIDE DEF m
    <3>2. At(m) = Event("block_stop", n, <<>>)
      BY <3>1
    <3> QED BY <3>2 DEF m
  <2> QED BY <2>1, <2>2, <2>3
<1> HIDE DEF At
<1>6. \A n \in 1 .. L :
        /\ t[3 * n - 2] = Event("block_start", n, <<order[n]>>)
        /\ t[3 * n - 1] = Event("block_delta", n, tools[order[n]])
        /\ t[3 * n] = Event("block_stop", n, <<>>)
  BY <1>3, <1>4, <1>5
<1>7. \A m \in 1 .. 3 * L : \E n \in 1 .. L : m = 3 * n - 2 \/ m = 3 * n - 1 \/ m = 3 * n
  BY <1>2
<1> HIDE DEF t
<1>8. \A m \in 1 .. 3 * L : t[m] \in Emitted
  <2> TAKE m \in 1 .. 3 * L
  <2>1. PICK n \in 1 .. L : m = 3 * n - 2 \/ m = 3 * n - 1 \/ m = 3 * n
    BY <1>7
  <2>2. order[n] \in Nat /\ tools[order[n]] \in Seq(Nat) /\ n \in Int
    <3>1. order[n] \in Calls
      BY <1>1
    <3> QED BY <3>1, <1>1, CallsAssumption
  <2>3. <<order[n]>> \in Data /\ tools[order[n]] \in Data /\ <<>> \in Data
    BY <2>2, DataIs
  <2>4. {"block_start", "block_delta", "block_stop"} \subseteq Kinds
    BY DEF Kinds
  <2>5. /\ Event("block_start", n, <<order[n]>>) \in Emitted
        /\ Event("block_delta", n, tools[order[n]]) \in Emitted
        /\ Event("block_stop", n, <<>>) \in Emitted
    BY <2>2, <2>3, <2>4, EventIs
  <2> QED BY <2>1, <2>5, <1>6
<1>9. t \in Seq(Emitted) /\ Len(t) = 3 * L
  <2>1. t \in [1 .. 3 * L -> Emitted]
    BY <1>4, <1>8 DEF t
  <2>2. 3 * L \in Nat
    BY <1>1
  <2> QED BY <2>1, <2>2
<1> QED BY <1>1, <1>6, <1>7, <1>9 DEF t, L

(* The tail of a /v1/messages stream: the text's block closed, a block for *)
(* every call, then the stop reason and the end.                           *)
Tail0(tools, order, stop) ==
  <<Event("block_stop", 0, <<>>)>> \o ToolBlocks(tools, order) \o Farewell(stop)

(* What stands where on it, and that it is in order. *)
IsTail(t, tools, order, stop) ==
  /\ t \in Seq(Emitted) /\ t # <<>> /\ Blocks(t)
  /\ t[1] = Event("block_stop", 0, <<>>)
  /\ \A n \in DOMAIN order :
       3 * n \in DOMAIN t /\ t[3 * n] = Event("block_delta", n, tools[order[n]])
  /\ \A m \in DOMAIN t : t[m].e = "block_delta" => \E n \in DOMAIN order : m = 3 * n
  /\ \E m \in DOMAIN t : t[m] = Event("message_delta", -1, <<stop>>)
  /\ \A m \in DOMAIN t : t[m].e = "message_delta" => t[m].data = <<stop>>
  /\ \A m \in DOMAIN t : t[m].e \notin {"chunk", "role_chunk"}

(* The tail is such a tail. *)
LEMMA TailIs ==
    ASSUME NEW tools \in [Calls -> Seq(Nat)], NEW order \in Seq(Calls), NEW stop \in Reasons
    PROVE  IsTail(Tail0(tools, order, stop), tools, order, stop)
<1> DEFINE L == Len(order)
           b == ToolBlocks(tools, order)
           x == Event("block_stop", 0, <<>>)
           y == Event("message_delta", -1, <<stop>>)
           z == Event("message_stop", -1, <<>>)
           u == <<x>> \o b
           t == u \o <<y, z>>
<1>1. /\ b \in Seq(Emitted) /\ Len(b) = 3 * L /\ L \in Nat /\ DOMAIN order = 1 .. L
      /\ \A n \in 1 .. L :
           /\ b[3 * n - 2] = Event("block_start", n, <<order[n]>>)
           /\ b[3 * n - 1] = Event("block_delta", n, tools[order[n]])
           /\ b[3 * n] = Event("block_stop", n, <<>>)
      /\ \A m \in 1 .. 3 * L : \E n \in 1 .. L : m = 3 * n - 2 \/ m = 3 * n - 1 \/ m = 3 * n
  BY ToolBlocksAre
<1>2. x \in Emitted /\ y \in Emitted /\ z \in Emitted
  <2>1. <<>> \in Data /\ <<stop>> \in Data
    BY DataIs
  <2>2. {"block_stop", "message_delta", "message_stop"} \subseteq Kinds
    BY DEF Kinds
  <2> QED BY <2>1, <2>2, EventIs
<1>3. /\ x.e = "block_stop" /\ x.idx = 0
      /\ y.e = "message_delta" /\ y.data = <<stop>> /\ z.e = "message_stop"
  BY EventIs
<1>4. \A n \in 1 .. L :
        /\ b[3 * n - 2].e = "block_start" /\ b[3 * n - 2].idx = n
        /\ b[3 * n - 1].e = "block_delta" /\ b[3 * n - 1].idx = n
        /\ b[3 * n].e = "block_stop" /\ b[3 * n].idx = n
  <2> TAKE n \in 1 .. L
  <2> DEFINE p == Event("block_start", n, <<order[n]>>)
             q == Event("block_delta", n, tools[order[n]])
             r == Event("block_stop", n, <<>>)
  <2>1. p.e = "block_start" /\ p.idx = n /\ q.e = "block_delta" /\ q.idx = n
        /\ r.e = "block_stop" /\ r.idx = n
    BY EventIs
  <2>2. b[3 * n - 2] = p /\ b[3 * n - 1] = q /\ b[3 * n] = r
    BY <1>1
  <2> HIDE DEF p, q, r, b
  <2> QED BY <2>1, <2>2
<1>t. t = Tail0(tools, order, stop)
  BY DEF Tail0, Farewell
<1> HIDE DEF b, x, y, z, L
<1>5. Blocks(b)
  <2> SUFFICES ASSUME NEW m \in 1 .. Len(b) - 1
               PROVE  MayFollow(b[m], b[m + 1])
    BY DEF Blocks
  <2>1. m \in 1 .. 3 * L /\ m < 3 * L
    BY <1>1
  <2>2. PICK n \in 1 .. L : m = 3 * n - 2 \/ m = 3 * n - 1 \/ m = 3 * n
    BY <1>1, <2>1
  <2>n. n \in Int /\ m \in Int /\ L \in Int /\ 1 <= n /\ n <= L
    BY <1>1
  <2>3. CASE m = 3 * n - 2
    <3>1. m + 1 = 3 * n - 1
      BY <2>n, <2>3
    <3>2. b[m].e = "block_start" /\ b[m].idx = n /\ b[m + 1].e = "block_delta" /\ b[m + 1].idx = n
      BY <1>4, <2>3, <3>1
    <3> QED BY <3>2 DEF MayFollow
  <2>4. CASE m = 3 * n - 1
    <3>1. m + 1 = 3 * n
      BY <2>n, <2>4
    <3>2. b[m].e = "block_delta" /\ b[m].idx = n /\ b[m + 1].e = "block_stop" /\ b[m + 1].idx = n
      BY <1>4, <2>4, <3>1
    <3> QED BY <3>2 DEF MayFollow
  <2>5. CASE m = 3 * n
    <3>1. n + 1 \in 1 .. L /\ m + 1 = 3 * (n + 1) - 2
      BY <2>n, <2>1, <2>5
    <3> DEFINE k == n + 1
    <3>k. k \in 1 .. L /\ m + 1 = 3 * k - 2
      BY <3>1
    <3> HIDE DEF k
    <3>4. b[3 * k - 2].e = "block_start" /\ b[3 * k - 2].idx = k
      BY <1>4, <3>k
    <3>2. b[m + 1].e = "block_start" /\ b[m + 1].idx = n + 1
      BY <3>4, <3>k DEF k
    <3>3. b[m].e = "block_stop" /\ b[m].idx = n
      BY <1>4, <2>5
    <3> QED BY <3>2, <3>3 DEF MayFollow
  <2> QED BY <2>2, <2>3, <2>4, <2>5
<1>6. Blocks(<<x>>) /\ <<x>> \in Seq(Emitted) /\ Len(<<x>>) = 1 /\ <<x>>[1] = x /\ DOMAIN <<x>> = {1}
  BY <1>2 DEF Blocks
<1>7. /\ <<y, z>> \in Seq(Emitted) /\ Len(<<y, z>>) = 2 /\ <<y, z>>[1] = y /\ <<y, z>>[2] = z
      /\ DOMAIN <<y, z>> = 1 .. 2
  BY <1>2
<1>8. Blocks(<<y, z>>)
  BY <1>3, <1>7 DEF Blocks, MayFollow
<1>9. /\ u \in Seq(Emitted) /\ Len(u) = 3 * L + 1 /\ DOMAIN u = 1 .. 3 * L + 1 /\ u[1] = x
      /\ \A m \in 1 .. 3 * L : u[m + 1] = b[m]
  <2>1. /\ u \in Seq(Emitted) /\ Len(u) = 1 + Len(b) /\ DOMAIN u = 1 .. 1 + Len(b)
        /\ DOMAIN b = 1 .. Len(b)
        /\ u[1] = x
        /\ \A n \in DOMAIN b : u[1 + n] = b[n]
    <3> DEFINE w == <<x>>
    <3>1. w \in Seq(Emitted) /\ Len(w) = 1 /\ w[1] = x /\ DOMAIN w = {1}
      BY <1>6
    <3> HIDE DEF w
    <3> DEFINE v == w \o b
    <3>5. /\ v \in Seq(Emitted) /\ Len(v) = Len(w) + Len(b) /\ DOMAIN v = 1 .. Len(w) + Len(b)
          /\ DOMAIN b = 1 .. Len(b)
          /\ \A n \in DOMAIN w : v[n] = w[n]
          /\ \A n \in DOMAIN b : v[Len(w) + n] = b[n]
      <4>1. b \in Seq(Emitted) /\ w \in Seq(Emitted)
        BY <1>1, <3>1
      <4> QED BY <4>1, JoinedPlaces
    <3>2. /\ w \o b \in Seq(Emitted) /\ Len(w \o b) = 1 + Len(b) /\ DOMAIN (w \o b) = 1 .. 1 + Len(b)
          /\ DOMAIN b = 1 .. Len(b)
          /\ \A n \in DOMAIN w : (w \o b)[n] = w[n]
          /\ \A n \in DOMAIN b : (w \o b)[1 + n] = b[n]
      <4> HIDE DEF v
      <4>1. Len(w) = 1
        BY <3>1
      <4>2. /\ v \in Seq(Emitted) /\ Len(v) = 1 + Len(b) /\ DOMAIN v = 1 .. 1 + Len(b)
            /\ DOMAIN b = 1 .. Len(b)
            /\ \A n \in DOMAIN w : v[n] = w[n]
            /\ \A n \in DOMAIN b : v[1 + n] = b[n]
        BY <4>1, <3>5
      <4> QED BY <4>2 DEF v
    <3>3. u = w \o b
      BY DEF u, w
    <3> HIDE DEF u
    <3>4. u[1] = x
      BY <3>1, <3>2, <3>3
    <3> QED BY <3>2, <3>3, <3>4
  <2> HIDE DEF u
  <2>2. 1 + Len(b) = 3 * L + 1 /\ \A m \in 1 .. 3 * L : m + 1 = 1 + m
    BY <1>1
  <2> QED BY <2>1, <2>2, <1>1, <1>6
<1>10. Blocks(u)
  <2>1. b # <<>> => MayFollow(x, b[1])
    <3> SUFFICES ASSUME b # <<>> PROVE MayFollow(x, b[1])
      OBVIOUS
    <3>0. Len(b) # 0
      BY <1>1
    <3>1. 1 \in 1 .. L /\ 3 * 1 - 2 = 1
      BY <3>0, <1>1
    <3>2. b[1].e = "block_start" /\ b[1].idx = 0 + 1
      BY <1>4, <3>1
    <3> QED BY <1>3, <3>2 DEF MayFollow
  <2> QED BY <2>1, <1>1, <1>5, <1>6, BlocksJoin
<1>11. u[Len(u)].e = "block_stop"
  <2>1. CASE L = 0
    BY <2>1, <1>3, <1>9
  <2>2. CASE L # 0
    <3>1. L \in 1 .. L /\ 3 * L \in 1 .. 3 * L
      BY <1>1, <2>2
    <3> QED BY <3>1, <1>4, <1>9
  <2> QED BY <2>1, <2>2
<1>12. Blocks(t)
  <2>1. MayFollow(u[Len(u)], y)
    BY <1>3, <1>11 DEF MayFollow
  <2> HIDE DEF u
  <2> QED BY <2>1, <1>7, <1>8, <1>9, <1>10, BlocksJoin
<1>13. /\ t \in Seq(Emitted) /\ Len(t) = 3 * L + 3 /\ DOMAIN t = 1 .. 3 * L + 3
       /\ \A m \in 1 .. 3 * L + 1 : t[m] = u[m]
       /\ t[3 * L + 2] = y /\ t[3 * L + 3] = z
  <2> HIDE DEF u
  <2>1. /\ t \in Seq(Emitted) /\ Len(t) = Len(u) + 2 /\ DOMAIN t = 1 .. Len(u) + 2
        /\ \A n \in DOMAIN u : t[n] = u[n]
        /\ \A n \in 1 .. 2 : t[Len(u) + n] = <<y, z>>[n]
    BY <1>7, <1>9, JoinedPlaces
  <2> HIDE DEF t
  <2>2. t[Len(u) + 1] = y /\ t[Len(u) + 2] = z
    BY <2>1, <1>7
  <2>3. Len(u) + 2 = 3 * L + 3 /\ Len(u) + 1 = 3 * L + 2
    BY <1>1, <1>9
  <2> QED BY <2>1, <2>2, <2>3, <1>9
<1> HIDE DEF t, u
<1>14. t[1] = x /\ \A n \in 1 .. L :
         /\ t[3 * n - 1] = b[3 * n - 2] /\ t[3 * n] = b[3 * n - 1] /\ t[3 * n + 1] = b[3 * n]
         /\ 3 * n \in DOMAIN t
  <2>1. t[1] = x
    <3>1. 1 \in 1 .. 3 * L + 1
      BY <1>1
    <3> QED BY <3>1, <1>9, <1>13
  <2>2. ASSUME NEW n \in 1 .. L
        PROVE  /\ t[3 * n - 1] = b[3 * n - 2] /\ t[3 * n] = b[3 * n - 1] /\ t[3 * n + 1] = b[3 * n]
               /\ 3 * n \in DOMAIN t
    <3>1. /\ 3 * n - 2 \in 1 .. 3 * L /\ 3 * n - 1 \in 1 .. 3 * L /\ 3 * n \in 1 .. 3 * L
          /\ 3 * n - 2 + 1 = 3 * n - 1 /\ 3 * n - 1 + 1 = 3 * n
          /\ 3 * n - 1 \in 1 .. 3 * L + 1 /\ 3 * n \in 1 .. 3 * L + 1 /\ 3 * n + 1 \in 1 .. 3 * L + 1
          /\ 3 * n \in 1 .. 3 * L + 3
      BY <1>1
    <3>2. u[3 * n - 1] = b[3 * n - 2] /\ u[3 * n] = b[3 * n - 1] /\ u[3 * n + 1] = b[3 * n]
      BY <3>1, <1>9
    <3> QED BY <3>1, <3>2, <1>13
  <2> QED BY <2>1, <2>2
<1>15. \A m \in DOMAIN t : \/ m = 1 \/ m = 3 * L + 2 \/ m = 3 * L + 3
                           \/ \E n \in 1 .. L : m = 3 * n - 1 \/ m = 3 * n \/ m = 3 * n + 1
  <2> SUFFICES ASSUME NEW m \in 1 .. 3 * L + 3, m # 1, m # 3 * L + 2, m # 3 * L + 3
               PROVE  \E n \in 1 .. L : m = 3 * n - 1 \/ m = 3 * n \/ m = 3 * n + 1
    BY <1>13
  <2>1. m - 1 \in 1 .. 3 * L
    BY <1>1
  <2>2. PICK n \in 1 .. L : m - 1 = 3 * n - 2 \/ m - 1 = 3 * n - 1 \/ m - 1 = 3 * n
    BY <2>1, <1>1
  <2>3. m = 3 * n - 1 \/ m = 3 * n \/ m = 3 * n + 1
    BY <2>2, <1>1
  <2> QED BY <2>3
<1>20. \A m \in DOMAIN t :
         \/ t[m].e \in {"block_start", "block_stop", "message_stop"}
         \/ t[m].e = "block_delta" /\ \E n \in 1 .. L : m = 3 * n
         \/ t[m].e = "message_delta" /\ t[m].data = <<stop>>
  <2> TAKE m \in DOMAIN t
  <2>1. CASE m = 1
    BY <2>1, <1>3, <1>14
  <2>2. CASE m = 3 * L + 2
    BY <2>2, <1>3, <1>13
  <2>3. CASE m = 3 * L + 3
    BY <2>3, <1>3, <1>13
  <2>4. ASSUME NEW n \in 1 .. L, m = 3 * n - 1 \/ m = 3 * n \/ m = 3 * n + 1
        PROVE  \/ t[m].e \in {"block_start", "block_stop", "message_stop"}
               \/ t[m].e = "block_delta" /\ m = 3 * n
    <3>1. t[3 * n - 1].e = "block_start" /\ t[3 * n].e = "block_delta" /\ t[3 * n + 1].e = "block_stop"
      <4>1. t[3 * n - 1] = b[3 * n - 2] /\ t[3 * n] = b[3 * n - 1] /\ t[3 * n + 1] = b[3 * n]
        BY <1>14
      <4>2. b[3 * n - 2].e = "block_start" /\ b[3 * n - 1].e = "block_delta" /\ b[3 * n].e = "block_stop"
        BY <1>4
      <4> QED BY <4>1, <4>2
    <3> QED BY <2>4, <3>1
  <2> QED BY <2>1, <2>2, <2>3, <2>4, <1>15
<1>16. \A m \in DOMAIN t : t[m].e = "block_delta" => \E n \in 1 .. L : m = 3 * n
  BY <1>20
<1>17. \A m \in DOMAIN t : t[m].e = "message_delta" => t[m].data = <<stop>>
  BY <1>20
<1>18. \A m \in DOMAIN t : t[m].e \notin {"chunk", "role_chunk"}
  BY <1>20
<1>19. 3 * L + 2 \in DOMAIN t /\ t # <<>>
  BY <1>1, <1>13
<1>21. \A n \in DOMAIN order :
         3 * n \in DOMAIN t /\ t[3 * n] = Event("block_delta", n, tools[order[n]])
  <2> TAKE n \in DOMAIN order
  <2>1. n \in 1 .. L
    BY <1>1
  <2> QED BY <2>1, <1>1, <1>14
<1>22. \A m \in DOMAIN t : t[m].e = "block_delta" => \E n \in DOMAIN order : m = 3 * n
  BY <1>1, <1>16
<1>23. IsTail(t, tools, order, stop)
  BY <1>12, <1>13, <1>14, <1>17, <1>18, <1>19, <1>21, <1>22 DEF IsTail, x, y
<1> QED BY <1>t, <1>23

-----------------------------------------------------------------------------
(* What was said stays said.                                               *)

IsText(x) == x.e \in {"block_delta", "chunk", "role_chunk"} /\ x.idx = 0 /\ x.data # <<>>
IsArgument(x) == x.e = "block_delta" /\ x.idx > 0
IsList(x) == x.e \in {"calls", "role_calls"}

(* Events that are no text leave the text as it was said. *)
LEMMA TextStays ==
    ASSUME NEW s \in Seq(Emitted), NEW t \in Seq(Emitted), NEW K,
           TextIsSaid(s, K), \A n \in DOMAIN t : ~IsText(t[n])
    PROVE  TextIsSaid(s \o t, K)
<1> DEFINE u == s \o t
<1>1. /\ Len(s) \in Nat /\ DOMAIN s = 1 .. Len(s)
      /\ \A n \in DOMAIN s : n \in DOMAIN u /\ u[n] = s[n]
      /\ \A n \in DOMAIN t : u[Len(s) + n] = t[n]
      /\ \A n \in DOMAIN u : n \in DOMAIN s \/ (n > Len(s) /\ n - Len(s) \in DOMAIN t)
      /\ DOMAIN u = 1 .. Len(s) + Len(t) /\ Len(t) \in Nat
  BY JoinedPlaces
<1> HIDE DEF u
<1>2. \A n \in DOMAIN u : n \in DOMAIN s \/ ~IsText(u[n])
  <2> SUFFICES ASSUME NEW n \in DOMAIN u, n \notin DOMAIN s
               PROVE  ~IsText(u[n])
    OBVIOUS
  <2>1. n - Len(s) \in DOMAIN t /\ n \in Int
    BY <1>1
  <2>2. u[Len(s) + (n - Len(s))] = t[n - Len(s)] /\ Len(s) + (n - Len(s)) = n
    BY <1>1, <2>1
  <2> QED BY <2>1, <2>2
<1>3. \A v : Texts(v) = {n \in DOMAIN v : IsText(v[n])}
  BY DEF Texts, IsText
<1>4. Texts(u) = Texts(s)
  BY <1>1, <1>2, <1>3
<1>5. \A n \in Texts(s) : u[n] = s[n]
  BY <1>1, <1>3
<1>6. TextIsSaid(u, K)
  BY <1>4, <1>5 DEF TextIsSaid
<1> QED BY <1>6 DEF u

(* A text event of a later frame adds its text. *)
LEMMA TextGrows ==
    ASSUME NEW s \in Seq(Emitted), NEW K \in SUBSET Nat, NEW m \in Nat, NEW x \in Emitted,
           TextIsSaid(s, K), \A k \in K : k < m, IsText(x), x.data = <<m>>
    PROVE  TextIsSaid(s \o <<x>>, K \cup {m})
<1> DEFINE u == s \o <<x>>
           L == Len(s)
<1>1. /\ L \in Nat /\ DOMAIN s = 1 .. L /\ DOMAIN u = 1 .. L + 1 /\ u[L + 1] = x
      /\ \A n \in DOMAIN s : u[n] = s[n]
  <2>1. Append(s, x) = u
    BY OneMore
  <2> QED BY <2>1, OneMore
<1> HIDE DEF u, L
<1>2. \A v : Texts(v) = {n \in DOMAIN v : IsText(v[n])}
  BY DEF Texts, IsText
<1>3. /\ Texts(u) = Texts(s) \cup {L + 1} /\ \A n \in Texts(s) : u[n] = s[n] /\ n \in 1 .. L
      /\ L + 1 \in DOMAIN u
  <2>1. \A n \in 1 .. L + 1 : n \in 1 .. L \/ n = L + 1
    BY <1>1
  <2>2. L + 1 \in 1 .. L + 1 /\ 1 .. L \subseteq 1 .. L + 1
    BY <1>1
  <2> QED BY <2>1, <2>2, <1>1, <1>2
<1>4. \A n \in Texts(u) : \E k \in K \cup {m} : u[n].data = <<k>>
  BY <1>1, <1>3 DEF TextIsSaid
<1>5. \A k \in K \cup {m} : \E n \in Texts(u) : u[n].data = <<k>>
  BY <1>1, <1>3 DEF TextIsSaid
<1>6. ASSUME NEW p \in Texts(u), NEW q \in Texts(u), p < q
      PROVE  u[p].data[1] < u[q].data[1]
  <2>1. CASE q = L + 1
    <3>1. p \in Texts(s)
      BY <1>3, <1>6, <2>1
    <3>2. PICK k \in K : s[p].data = <<k>>
      BY <3>1 DEF TextIsSaid
    <3>3. u[p].data = <<k>> /\ u[q].data = <<m>>
      BY <1>1, <1>3, <2>1, <3>1, <3>2
    <3>4. u[p].data[1] = k /\ u[q].data[1] = m
      BY <3>3
    <3> QED BY <3>4
  <2>2. CASE q # L + 1
    <3>1. q \in Texts(s) /\ q \in 1 .. L
      BY <1>3, <2>2
    <3>2. p \in Texts(s)
      BY <1>1, <1>3, <1>6, <3>1
    <3> QED BY <3>1, <3>2, <1>3, <1>6 DEF TextIsSaid
  <2> QED BY <2>1, <2>2
<1>7. TextIsSaid(u, K \cup {m})
  BY <1>4, <1>5, <1>6 DEF TextIsSaid
<1> QED BY <1>7 DEF u

(* Calls said behind events that carry none are said. *)
LEMMA CallsJoin ==
    ASSUME NEW s \in Seq(Emitted), NEW t \in Seq(Emitted), NEW B,
           CallsAreSaid(t, B), \A n \in DOMAIN s : ~IsArgument(s[n])
    PROVE  CallsAreSaid(s \o t, B)
<1> DEFINE u == s \o t
           L == Len(s)
<1>1. /\ L \in Nat /\ DOMAIN s = 1 .. L /\ DOMAIN t = 1 .. Len(t)
      /\ \A n \in DOMAIN s : u[n] = s[n]
      /\ \A n \in DOMAIN t : L + n \in DOMAIN u /\ u[L + n] = t[n]
      /\ \A n \in DOMAIN u : n \in DOMAIN s \/ (n > L /\ n - L \in DOMAIN t)
      /\ DOMAIN u = 1 .. L + Len(t) /\ Len(t) \in Nat
  BY JoinedPlaces
<1> HIDE DEF u, L
<1>2. \A v : Arguments(v) = {n \in DOMAIN v : IsArgument(v[n])}
  BY DEF Arguments, IsArgument
<1>3. \A n \in Arguments(u) : n - L \in Arguments(t) /\ u[n] = t[n - L] /\ n \in Int
  <2> TAKE n \in Arguments(u)
  <2>1. n \in DOMAIN u /\ IsArgument(u[n]) /\ n \in Int
    BY <1>1, <1>2
  <2>2. n \notin DOMAIN s
    BY <1>1, <2>1
  <2>3. n - L \in DOMAIN t
    BY <1>1, <2>1, <2>2
  <2>4. u[L + (n - L)] = t[n - L] /\ L + (n - L) = n
    BY <1>1, <2>1, <2>3
  <2> QED BY <2>1, <2>3, <2>4, <1>2
<1>4. \A n \in Arguments(t) : L + n \in Arguments(u) /\ u[L + n] = t[n]
  BY <1>1, <1>2
<1>5. \A n \in Arguments(u) : \E i \in Calls : B[i] # {} /\ Ascends(u[n].data, B[i])
  BY <1>3 DEF CallsAreSaid
<1>6. \A i \in Calls : B[i] # {} => \E n \in Arguments(u) : Ascends(u[n].data, B[i])
  BY <1>4 DEF CallsAreSaid
<1>7. \A m, n \in Arguments(u) : u[m].data = u[n].data => m = n
  <2> SUFFICES ASSUME NEW m \in Arguments(u), NEW n \in Arguments(u), u[m].data = u[n].data
               PROVE  m = n
    OBVIOUS
  <2>1. m - L = n - L
    BY <1>3 DEF CallsAreSaid
  <2> QED BY <2>1, <1>1, <1>3
<1>8. CallsAreSaid(u, B)
  BY <1>5, <1>6, <1>7 DEF CallsAreSaid
<1> QED BY <1>8 DEF u

(* What an ascending list has. *)
LEMMA AscendsIs ==
    ASSUME NEW s \in Seq(Nat), NEW S, Ascends(s, S)
    PROVE  (s # <<>> <=> S # {}) /\ (s # <<>> => s[1] \in S) /\ (\A k \in S : \E n \in DOMAIN s : s[n] = k)
           /\ \A n \in DOMAIN s : s[n] \in S
<1>1. ToSet(s) = {s[n] : n \in DOMAIN s} /\ ToSet(s) = S
  BY DEF Ascends, ToSet
<1>2. s # <<>> => 1 \in DOMAIN s
  OBVIOUS
<1>3. s = <<>> => DOMAIN s = {}
  OBVIOUS
<1>4. (\A k \in S : \E n \in DOMAIN s : s[n] = k) /\ \A n \in DOMAIN s : s[n] \in S
  BY <1>1
<1> QED BY <1>2, <1>3, <1>4

(* A later number at the end of an ascending list. *)
LEMMA AscendsOn ==
    ASSUME NEW s \in Seq(Nat), NEW S, Ascends(s, S), NEW m \in Nat, \A k \in S : k < m
    PROVE  Append(s, m) \in Seq(Nat) /\ Ascends(Append(s, m), S \cup {m})
<1> DEFINE u == Append(s, m)
           L == Len(s)
<1>1. /\ u \in Seq(Nat) /\ L \in Nat /\ DOMAIN u = 1 .. L + 1 /\ DOMAIN s = 1 .. L
      /\ u[L + 1] = m /\ \A n \in DOMAIN s : u[n] = s[n] /\ s[n] \in Nat
  BY OneMore
<1>2. (\A k \in S : \E n \in DOMAIN s : s[n] = k) /\ \A n \in DOMAIN s : s[n] \in S
  BY AscendsIs
<1> HIDE DEF u, L
<1>3. ToSet(u) = S \cup {m}
  <2>1. ToSet(u) = {u[n] : n \in 1 .. L + 1}
    BY <1>1 DEF ToSet
  <2>2. \A n \in 1 .. L + 1 : n \in 1 .. L \/ n = L + 1
    BY <1>1
  <2>3. L + 1 \in 1 .. L + 1 /\ 1 .. L \subseteq 1 .. L + 1
    BY <1>1
  <2> QED BY <2>1, <2>2, <2>3, <1>1, <1>2
<1>4. ASSUME NEW p \in DOMAIN u, NEW q \in DOMAIN u, p < q
      PROVE  u[p] < u[q]
  <2>1. p \in 1 .. L
    BY <1>1, <1>4
  <2>2. CASE q = L + 1
    BY <1>1, <1>2, <2>1, <2>2
  <2>3. CASE q # L + 1
    <3>1. q \in 1 .. L
      BY <1>1, <2>3
    <3>2. s[p] < s[q]
      BY <1>1, <1>4, <2>1, <3>1 DEF Ascends
    <3> QED BY <1>1, <2>1, <3>1, <3>2
  <2> QED BY <2>2, <2>3
<1>5. Ascends(u, S \cup {m})
  BY <1>3, <1>4 DEF Ascends
<1> QED BY <1>1, <1>5 DEF u

(* One number alone ascends. *)
LEMMA AscendsAlone ==
    ASSUME NEW m \in Nat
    PROVE  <<m>> \in Seq(Nat) /\ Ascends(<<m>>, {m}) /\ <<m>> # <<>>
<1> DEFINE u == <<m>>
<1>1. DOMAIN u = {1} /\ u[1] = m /\ u \in Seq(Nat) /\ u # <<>>
  OBVIOUS
<1> HIDE DEF u
<1>2. ToSet(u) = {m}
  BY <1>1 DEF ToSet
<1>3. Ascends(u, {m})
  BY <1>1, <1>2 DEF Ascends
<1> QED BY <1>1, <1>3 DEF u

(* The fragments of every call, the frames of different calls, and an      *)
(* order of the calls that were made.                                      *)
Told(tools, B) == \A i \in Calls : Ascends(tools[i], B[i])
Apart(B) == \A i, j \in Calls : B[i] \cap B[j] # {} => i = j
ListsOnce(order, tools) ==
  /\ \A n \in DOMAIN order : tools[order[n]] # <<>>
  /\ \A i \in Calls : tools[i] # <<>> => \E n \in DOMAIN order : order[n] = i
  /\ \A m, n \in DOMAIN order : order[m] = order[n] => m = n

(* The tail of a /v1/messages stream says every call, with its own         *)
(* fragments.                                                              *)
LEMMA TailSaysCalls ==
    ASSUME NEW tools \in [Calls -> Seq(Nat)], NEW order \in Seq(Calls), NEW stop \in Reasons, NEW B,
           Told(tools, B), Apart(B), ListsOnce(order, tools)
    PROVE  CallsAreSaid(Tail0(tools, order, stop), B)
<1> USE DEF Told, Apart, ListsOnce
<1> DEFINE t == Tail0(tools, order, stop)
<1>1. /\ DOMAIN order = 1 .. Len(order) /\ Len(order) \in Nat
      /\ \A n \in DOMAIN order : order[n] \in Calls
  OBVIOUS
<1>2. /\ \A n \in DOMAIN order :
           3 * n \in DOMAIN t /\ t[3 * n] = Event("block_delta", n, tools[order[n]])
      /\ \A m \in DOMAIN t : t[m].e = "block_delta" => \E n \in DOMAIN order : m = 3 * n
  <2>1. IsTail(t, tools, order, stop)
    BY TailIs
  <2> HIDE DEF t
  <2> QED BY <2>1 DEF IsTail
<1> HIDE DEF t
<1>3. \A n \in DOMAIN order :
        /\ 3 * n \in DOMAIN t
        /\ t[3 * n].e = "block_delta" /\ t[3 * n].idx = n /\ t[3 * n].data = tools[order[n]]
  <2> TAKE n \in DOMAIN order
  <2> DEFINE x == Event("block_delta", n, tools[order[n]])
  <2>1. x.e = "block_delta" /\ x.idx = n /\ x.data = tools[order[n]]
    BY EventIs
  <2> HIDE DEF x
  <2> QED BY <2>1, <1>2 DEF x
<1>4. \A m \in Arguments(t) : \E n \in DOMAIN order : m = 3 * n /\ t[m].data = tools[order[n]]
  <2> TAKE m \in Arguments(t)
  <2>1. m \in DOMAIN t /\ t[m].e = "block_delta"
    BY DEF Arguments
  <2>2. PICK n \in DOMAIN order : m = 3 * n
    BY <2>1, <1>2
  <2> QED BY <2>2, <1>3
<1>5. \A n \in DOMAIN order : 3 * n \in Arguments(t) /\ t[3 * n].data = tools[order[n]]
  <2> TAKE n \in DOMAIN order
  <2>1. n > 0
    BY <1>1
  <2> QED BY <2>1, <1>3 DEF Arguments
<1>6. \A i \in Calls : (tools[i] # <<>> <=> B[i] # {}) /\ (tools[i] # <<>> => tools[i][1] \in B[i])
  BY AscendsIs
<1>7. \A m \in Arguments(t) : \E i \in Calls : B[i] # {} /\ Ascends(t[m].data, B[i])
  <2> TAKE m \in Arguments(t)
  <2>1. PICK n \in DOMAIN order : m = 3 * n /\ t[m].data = tools[order[n]]
    BY <1>4
  <2> QED BY <2>1, <1>1, <1>6
<1>8. \A i \in Calls : B[i] # {} => \E m \in Arguments(t) : Ascends(t[m].data, B[i])
  <2> SUFFICES ASSUME NEW i \in Calls, B[i] # {}
               PROVE  \E m \in Arguments(t) : Ascends(t[m].data, B[i])
    OBVIOUS
  <2>1. PICK n \in DOMAIN order : order[n] = i
    BY <1>6
  <2> QED BY <2>1, <1>5
<1>9. \A m, n \in Arguments(t) : t[m].data = t[n].data => m = n
  <2> SUFFICES ASSUME NEW m \in Arguments(t), NEW n \in Arguments(t), t[m].data = t[n].data
               PROVE  m = n
    OBVIOUS
  <2>1. PICK p \in DOMAIN order : m = 3 * p /\ t[m].data = tools[order[p]]
    BY <1>4
  <2>2. PICK q \in DOMAIN order : n = 3 * q /\ t[n].data = tools[order[q]]
    BY <1>4
  <2>3. tools[order[p]] = tools[order[q]] /\ order[p] \in Calls /\ order[q] \in Calls
    BY <2>1, <2>2, <1>1
  <2>4. tools[order[p]][1] \in B[order[p]] /\ tools[order[q]][1] \in B[order[q]]
    BY <2>3, <1>6
  <2>5. order[p] = order[q]
    BY <2>3, <2>4
  <2>6. p = q
    BY <2>5
  <2> QED BY <2>1, <2>2, <2>6
<1>10. CallsAreSaid(t, B)
  BY <1>7, <1>8, <1>9 DEF CallsAreSaid
<1> QED BY <1>10 DEF t

-----------------------------------------------------------------------------
(* The frames and what the translator makes of one.                        *)

(* A request takes one of four ways. *)
LEMMA Ways ==
    ASSUME StreamTypes
    PROVE  \/ route[1] = "proxy" /\ api = "messages"
           \/ route[1] = "ollama" /\ api \in {"messages", "chat", "completion"}
<1>1. route \in {<<"proxy", "messages">>, <<"ollama", "messages">>,
                 <<"ollama", "chat">>, <<"ollama", "completion">>}
  BY RoutesAssumption DEF StreamTypes
<1> QED BY <1>1 DEF api

(* What may come next is a frame; text comes in whole frames; the proxy    *)
(* engines say why they finished once, Ollama never in this field; Ollama  *)
(* sends a call whole.                                                     *)
LEMMA FrameIs ==
    ASSUME StreamTypes, NEW f \in Frames
    PROVE  /\ f \in EveryFrame /\ (f.text => f.ok)
           /\ f.fin # "" => route[1] = "proxy" /\ Unfinished(sent)
           /\ f.call # -1 /\ route[1] = "ollama" => \A k \in DOMAIN sent : sent[k].call # f.call
<1>1. -1 \notin Calls
  BY CallsAssumption
<1>2. ASSUME f \in ProxyFrames
      PROVE  /\ f \in EveryFrame /\ (f.text => f.ok)
             /\ f.fin # "" => Unfinished(sent)
  BY <1>2 DEF ProxyFrames, EveryFrame, Shapes, Unfinished
<1>3. ASSUME f \in OllamaFrames
      PROVE  /\ f \in EveryFrame /\ (f.text => f.ok) /\ f.fin = ""
             /\ f.call # -1 => \A k \in DOMAIN sent : sent[k].call # f.call
  BY <1>1, <1>3 DEF OllamaFrames, EveryFrame, Shapes
<1> QED BY <1>2, <1>3, Ways DEF Frames

(* What a frame is made of. *)
LEMMA FrameFields ==
    ASSUME NEW f \in EveryFrame
    PROVE  /\ f.fin \in {"", "stop", "length", "tool_calls"} /\ f.tokens \in Nat
           /\ f.text \in BOOLEAN /\ f.last \in BOOLEAN /\ f.ok \in BOOLEAN
           /\ f.call = -1 \/ f.call \in Calls
           /\ -1 \notin Calls
<1>1. -1 \notin Calls
  BY CallsAssumption
<1>2. MaxTokens \in Nat
  BY TokensAssumption
<1>3. {0, 1, MaxTokens} \subseteq Nat
  BY <1>2
<1> QED BY <1>1, <1>3 DEF EveryFrame, Shapes

(* What a frame adds to the text and to the calls.                         *)
FrameAdds(f) ==
  /\ Spoken' = IF f.text /\ ~(api = "completion" /\ f.last)
               THEN Spoken \cup {Len(sent) + 1} ELSE Spoken
  /\ \A i \in Calls : Brought'[i] = IF f.call = i THEN Brought[i] \cup {Len(sent) + 1} ELSE Brought[i]
  /\ \A g : (\E k \in DOMAIN sent' : sent'[k].fin = g) <=> (f.fin = g \/ \E k \in DOMAIN sent : sent[k].fin = g)

LEMMA FrameBrings ==
    ASSUME StreamTypes, NEW f \in EveryFrame, sent' = Append(sent, f), route' = route
    PROVE  FrameAdds(f) /\ Len(sent) \in Nat
<1> DEFINE u == sent'
           L == Len(sent)
<1>1. /\ L \in Nat /\ DOMAIN sent = 1 .. L /\ DOMAIN u = 1 .. L + 1
      /\ u[L + 1] = f /\ \A n \in DOMAIN sent : u[n] = sent[n]
  <2>1. sent \in Seq(EveryFrame)
    BY DEF StreamTypes
  <2> QED BY <2>1, OneMore
<1>2. /\ \A n \in 1 .. L + 1 : n \in 1 .. L \/ n = L + 1
      /\ L + 1 \in 1 .. L + 1 /\ 1 .. L \subseteq 1 .. L + 1
  BY <1>1
<1>3. /\ Spoken' = {k \in DOMAIN u : u[k].text /\ ~(api = "completion" /\ u[k].last)}
      /\ \A i \in Calls : Brought'[i] = {k \in DOMAIN u : u[k].call = i}
      /\ Spoken = {k \in DOMAIN sent : sent[k].text /\ ~(api = "completion" /\ sent[k].last)}
      /\ \A i \in Calls : Brought[i] = {k \in DOMAIN sent : sent[k].call = i}
  BY DEF Spoken, Brought, api
<1> HIDE DEF u, L
<1>4. Spoken' = IF f.text /\ ~(api = "completion" /\ f.last) THEN Spoken \cup {L + 1} ELSE Spoken
  BY <1>1, <1>2, <1>3
<1>5. \A i \in Calls : Brought'[i] = IF f.call = i THEN Brought[i] \cup {L + 1} ELSE Brought[i]
  <2> TAKE i \in Calls
  <2> DEFINE b == Brought[i]
             c == Brought'[i]
  <2>1. c = {k \in DOMAIN u : u[k].call = i} /\ b = {k \in DOMAIN sent : sent[k].call = i}
    BY <1>3
  <2> HIDE DEF b, c
  <2>2. c = IF f.call = i THEN b \cup {L + 1} ELSE b
    BY <2>1, <1>1, <1>2
  <2> QED BY <2>2 DEF b, c
<1>6. \A g : (\E k \in DOMAIN u : u[k].fin = g) <=> (f.fin = g \/ \E k \in DOMAIN sent : sent[k].fin = g)
  BY <1>1, <1>2
<1> QED BY <1>1, <1>4, <1>5, <1>6 DEF FrameAdds, u, L

(* The frames that brought something are frames that came, and no frame    *)
(* brought a part of two calls.                                            *)
LEMMA BroughtIs ==
    ASSUME StreamTypes
    PROVE  /\ Len(sent) \in Nat
           /\ Spoken \subseteq 1 .. Len(sent)
           /\ \A i \in Calls : Brought[i] \subseteq 1 .. Len(sent)
           /\ \A i, j \in Calls : Brought[i] \cap Brought[j] # {} => i = j
           /\ \A i \in Calls : Brought[i] # {} <=> \E k \in DOMAIN sent : sent[k].call = i
<1>1. Len(sent) \in Nat /\ DOMAIN sent = 1 .. Len(sent)
  <2>1. sent \in Seq(EveryFrame)
    BY DEF StreamTypes
  <2> QED BY <2>1
<1>2. \A i \in Calls : Brought[i] = {k \in DOMAIN sent : sent[k].call = i}
  BY DEF Brought
<1>3. \A i, j \in Calls : Brought[i] \cap Brought[j] # {} => i = j
  BY <1>2
<1> QED BY <1>1, <1>2, <1>3 DEF Spoken

(* The accumulators after one frame. *)
LEMMA ScannedIs ==
    ASSUME StreamTypes, AccTells, streams, NEW f \in Frames,
           sent' = Append(sent, f), route' = route
    PROVE  LET a == Scanned(acc, f, Len(sent) + 1)
           IN  /\ a \in Accumulators
               /\ \A i \in Calls : Ascends(a.tools[i], Brought'[i])
               /\ a.stop = "tool_use" <=> \E k \in DOMAIN sent' : sent'[k].fin = "tool_calls"
               /\ route[1] = "ollama" => Unfinished(sent')
               /\ route[1] = "ollama" => (a.role <=> acc.role \/ f.text)
<1> DEFINE m == Len(sent) + 1
           a == Scanned(acc, f, m)
<1>1. /\ f \in EveryFrame
      /\ f.fin # "" => route[1] = "proxy" /\ Unfinished(sent)
      /\ f.call # -1 /\ route[1] = "ollama" => \A k \in DOMAIN sent : sent[k].call # f.call
      /\ f.call = -1 \/ f.call \in Calls
  BY FrameIs, FrameFields
<1>2. FrameAdds(f) /\ Len(sent) \in Nat
  BY <1>1, FrameBrings
<1>3. /\ acc.tools \in [Calls -> Seq(Nat)] /\ acc.stop \in {"end_turn", "max_tokens", "tool_use"}
      /\ acc.tokens \in Nat /\ acc.role \in BOOLEAN
      /\ acc = [tools |-> acc.tools, stop |-> acc.stop, tokens |-> acc.tokens, role |-> acc.role]
  BY DEF StreamTypes, Accumulators
<1>4. /\ f.fin \in {"", "stop", "length", "tool_calls"} /\ f.tokens \in Nat /\ f.text \in BOOLEAN
      /\ -1 \notin Calls
  BY <1>1, FrameFields
<1> DEFINE tools == IF f.call = -1 THEN acc.tools
                    ELSE IF route[1] = "proxy" THEN [acc.tools EXCEPT ![f.call] = Append(@, m)]
                    ELSE [acc.tools EXCEPT ![f.call] = <<m>>]
           stop == IF route[1] = "proxy" THEN IF f.fin # "" THEN MapFinishReason(f.fin) ELSE acc.stop
                   ELSE IF f.last /\ f.tokens >= MaxTokens THEN "max_tokens" ELSE acc.stop
           tokens == IF route[1] = "proxy" /\ f.tokens # 0 THEN f.tokens ELSE acc.tokens
           role == IF route[1] = "proxy" THEN acc.role ELSE acc.role \/ f.text
<1>5. a = [tools |-> tools, stop |-> stop, tokens |-> tokens, role |-> role]
  <2>1. CASE route[1] = "proxy"
    BY <2>1, Zenon DEF Scanned, ProxyScanned, AccumulateToolCall
  <2>2. CASE route[1] # "proxy"
    BY <2>2, Zenon DEF Scanned, OllamaScanned
  <2> QED BY <2>1, <2>2
<1>6. a.tools = tools /\ a.stop = stop
  <2> HIDE DEF a, tools, stop, tokens, role
  <2> QED BY <1>5
<1>14. route[1] = "ollama" => (a.role <=> acc.role \/ f.text)
  BY DEF Scanned, OllamaScanned
<1> HIDE DEF a
<1>7. \A i \in Calls : tools[i] \in Seq(Nat) /\ Ascends(tools[i], Brought'[i])
  <2> TAKE i \in Calls
  <2>0. acc.tools[i] \in Seq(Nat) /\ Ascends(acc.tools[i], Brought[i]) /\ m \in Nat
    <3>1. Ascends(acc.tools[i], Brought[i])
      BY DEF AccTells
    <3> QED BY <3>1, <1>2, <1>3
  <2>1. CASE f.call # i
    <3>1. tools[i] = acc.tools[i]
      BY <2>1, <1>1, <1>3
    <3>2. Brought'[i] = Brought[i]
      BY <2>1, <1>2 DEF FrameAdds
    <3> QED BY <2>0, <3>1, <3>2
  <2>2. CASE f.call = i /\ route[1] = "proxy"
    <3>1. tools[i] = Append(acc.tools[i], m)
      BY <2>2, <1>3, <1>4
    <3>2. Brought'[i] = Brought[i] \cup {m}
      BY <2>2, <1>2 DEF FrameAdds
    <3>3. \A k \in Brought[i] : k < m
      <4>1. Brought[i] \subseteq 1 .. Len(sent) /\ Len(sent) \in Nat
        BY BroughtIs
      <4> QED BY <4>1
    <3> HIDE DEF m, tools
    <3>4. Append(acc.tools[i], m) \in Seq(Nat) /\ Ascends(Append(acc.tools[i], m), Brought[i] \cup {m})
      BY <2>0, <3>3, AscendsOn
    <3> QED BY <3>1, <3>2, <3>4
  <2>3. CASE f.call = i /\ route[1] # "proxy"
    <3>1. tools[i] = <<m>>
      BY <2>3, <1>3, <1>4
    <3>2. Brought'[i] = Brought[i] \cup {m}
      BY <2>3, <1>2 DEF FrameAdds
    <3>3. Brought[i] = {}
      <4>1. \A k \in DOMAIN sent : sent[k].call # i
        BY <2>3, <1>1, <1>4, Ways
      <4> QED BY <4>1, BroughtIs
    <3> HIDE DEF m
    <3> QED BY <2>0, <3>1, <3>2, <3>3, AscendsAlone
  <2> QED BY <2>1, <2>2, <2>3
<1>8. tools \in [Calls -> Seq(Nat)]
  <2>1. tools = [i \in Calls |-> tools[i]]
    BY <1>3
  <2> HIDE DEF tools
  <2> QED BY <1>7, <2>1
<1> HIDE DEF tools
<1>9. stop \in {"end_turn", "max_tokens", "tool_use"}
      /\ (f.fin # "" /\ route[1] = "proxy" => (stop = "tool_use" <=> f.fin = "tool_calls"))
  BY <1>3, <1>4 DEF MapFinishReason
<1>10. stop = "tool_use" <=> \E k \in DOMAIN sent' : sent'[k].fin = "tool_calls"
  <2>1. acc.stop = "tool_use" <=> \E k \in DOMAIN sent : sent[k].fin = "tool_calls"
    BY DEF AccTells
  <2>2. (\E k \in DOMAIN sent' : sent'[k].fin = "tool_calls")
        <=> (f.fin = "tool_calls" \/ \E k \in DOMAIN sent : sent[k].fin = "tool_calls")
    BY <1>2 DEF FrameAdds
  <2>3. CASE f.fin # ""
    <3>1. ~\E k \in DOMAIN sent : sent[k].fin = "tool_calls"
      BY <2>3, <1>1 DEF Unfinished
    <3> QED BY <2>2, <2>3, <3>1, <1>1, <1>9
  <2>4. CASE f.fin = ""
    <3>1. route[1] # "proxy" => ~\E k \in DOMAIN sent : sent[k].fin = "tool_calls"
      BY Ways DEF AccTells, Unfinished
    <3> QED BY <2>1, <2>2, <2>4, <3>1
  <2> QED BY <2>3, <2>4
<1>11. route[1] = "ollama" => Unfinished(sent')
  <2> SUFFICES ASSUME route[1] = "ollama", NEW k \in DOMAIN sent'
               PROVE  sent'[k].fin = ""
    BY DEF Unfinished
  <2>1. \A n \in DOMAIN sent : sent[n].fin = ""
    BY DEF AccTells, Unfinished
  <2>2. f.fin = ""
    BY <1>1
  <2>3. \E n \in DOMAIN sent' : sent'[n].fin = sent'[k].fin
    OBVIOUS
  <2>4. f.fin = sent'[k].fin \/ \E n \in DOMAIN sent : sent[n].fin = sent'[k].fin
    BY <2>3, <1>2 DEF FrameAdds
  <2> QED BY <2>1, <2>2, <2>4
<1>12. tokens \in Nat /\ role \in BOOLEAN
  BY <1>3, <1>4
<1> HIDE DEF stop, tokens
<1>13. a \in Accumulators
  <2> HIDE DEF role
  <2> QED BY <1>5, <1>8, <1>9, <1>12 DEF Accumulators
<1> QED BY <1>6, <1>7, <1>10, <1>11, <1>13, <1>14 DEF a

-----------------------------------------------------------------------------
(* What a frame and the end of the frames put on the wire.                 *)

Is(x, e, k) == x \in Emitted /\ x.e = e /\ x.idx = 0 /\ x.data = k

(* An event of the text's block, or a chunk. *)
LEMMA IsEvent ==
    ASSUME NEW e \in Kinds, NEW d \in Data
    PROVE  Is(Event(e, 0, d), e, d)
BY EventIs DEF Is

(* A frame puts one event on the wire, or none. *)
LEMMA DeltasAre ==
    ASSUME StreamTypes, NEW f \in Frames, NEW k \in Nat
    PROVE  LET d == Deltas(acc, f, k)
           IN  /\ api = "messages" /\ f.text => \E x : d = <<x>> /\ Is(x, "block_delta", <<k>>)
               /\ api = "chat" /\ f.text =>
                    \E x : d = <<x>> /\ Is(x, IF acc.role THEN "chunk" ELSE "role_chunk", <<k>>)
               /\ api \in {"messages", "chat"} /\ ~f.text => d = <<>>
               /\ api = "completion" /\ f.last => \E x : d = <<x>> /\ Is(x, "finish", <<"stop">>)
               /\ api = "completion" /\ ~f.last =>
                    \/ ~f.text /\ d = <<>>
                    \/ \E x : d = <<x>> /\ Is(x, "chunk", IF f.text THEN <<k>> ELSE <<>>)
<1>1. {"block_delta", "chunk", "role_chunk", "finish"} \subseteq Kinds
  BY DEF Kinds
<1>2. <<k>> \in Data /\ <<>> \in Data /\ <<"stop">> \in Data
  <2>1. "stop" \in Reasons
    BY DEF Reasons
  <2> QED BY <2>1, DataIs
<1>3. f.text => f.ok
  BY FrameIs
<1>4. ASSUME api = "messages", f.text
      PROVE  \E x : Deltas(acc, f, k) = <<x>> /\ Is(x, "block_delta", <<k>>)
  <2>1. Deltas(acc, f, k) = <<Event("block_delta", 0, <<k>>)>>
    BY <1>4 DEF Deltas
  <2>2. Is(Event("block_delta", 0, <<k>>), "block_delta", <<k>>)
    BY <1>1, <1>2, IsEvent
  <2> QED BY <2>1, <2>2
<1>5. ASSUME api = "chat", f.text
      PROVE  \E x : Deltas(acc, f, k) = <<x>> /\ Is(x, IF acc.role THEN "chunk" ELSE "role_chunk", <<k>>)
  <2> DEFINE e == IF acc.role THEN "chunk" ELSE "role_chunk"
  <2>1. Deltas(acc, f, k) = <<Event(e, 0, <<k>>)>>
    BY <1>5 DEF Deltas, ChatDelta
  <2>2. e \in Kinds
    BY <1>1
  <2> HIDE DEF e
  <2>3. Is(Event(e, 0, <<k>>), e, <<k>>)
    BY <2>2, <1>2, IsEvent
  <2>4. \E x : Deltas(acc, f, k) = <<x>> /\ Is(x, e, <<k>>)
    BY <2>1, <2>3
  <2> QED BY <2>4 DEF e
<1>6. api \in {"messages", "chat"} /\ ~f.text => Deltas(acc, f, k) = <<>>
  BY DEF Deltas
<1>7. ASSUME api = "completion", f.last
      PROVE  \E x : Deltas(acc, f, k) = <<x>> /\ Is(x, "finish", <<"stop">>)
  <2>1. Deltas(acc, f, k) = <<Event("finish", 0, <<"stop">>)>>
    BY <1>7 DEF Deltas, CompletionDelta
  <2>2. Is(Event("finish", 0, <<"stop">>), "finish", <<"stop">>)
    BY <1>1, <1>2, IsEvent
  <2> QED BY <2>1, <2>2
<1>8. ASSUME api = "completion", ~f.last
      PROVE  \/ ~f.text /\ Deltas(acc, f, k) = <<>>
             \/ \E x : Deltas(acc, f, k) = <<x>> /\ Is(x, "chunk", IF f.text THEN <<k>> ELSE <<>>)
  <2>1. CASE ~f.ok
    BY <2>1, <1>3, <1>8 DEF Deltas, CompletionDelta
  <2>2. CASE f.ok
    <3> DEFINE w == IF f.text THEN <<k>> ELSE <<>>
    <3>1. Deltas(acc, f, k) = <<Event("chunk", 0, w)>>
      BY <2>2, <1>8 DEF Deltas, CompletionDelta
    <3>2. w \in Data
      BY <1>2
    <3> HIDE DEF w
    <3>3. Is(Event("chunk", 0, w), "chunk", w)
      BY <3>2, <1>1, IsEvent
    <3>4. \E x : Deltas(acc, f, k) = <<x>> /\ Is(x, "chunk", w)
      BY <3>1, <3>3
    <3> QED BY <3>4 DEF w
  <2> QED BY <2>1, <2>2
<1> QED BY <1>4, <1>5, <1>6, <1>7, <1>8

(* How an OpenAI stream ends: with the calls, if there are any, and the    *)
(* finish chunk after the last frame, with the end marker always.          *)
IsChatTail(t, a, last) ==
  /\ t \in Seq(Emitted) /\ t # <<>> /\ Chunks(t) /\ t[Len(t)].e = "done"
  /\ t[1].e \in {"done", "finish", IF a.role THEN "calls" ELSE "role_calls"}
  /\ \A n \in DOMAIN t : ~IsText(t[n])
  /\ last => IF Made(a.tools) = {} THEN \A n \in DOMAIN t : ~IsList(t[n])
             ELSE /\ \A n \in DOMAIN t : IsList(t[n]) <=> n = 1
                  /\ t[1].data = <<a.tools>>

LEMMA ChatClosingIs ==
    ASSUME NEW a \in Accumulators, NEW last \in BOOLEAN
    PROVE  IsChatTail(ChatClosing(a, last), a, last)
<1> DEFINE e == IF a.role THEN "calls" ELSE "role_calls"
           why == IF Made(a.tools) = {} THEN "stop" ELSE "tool_calls"
           x == Event(e, 0, <<a.tools>>)
           y == Event("finish", 0, <<why>>)
           z == Event("done", 0, <<>>)
<1>1. e \in Kinds /\ "finish" \in Kinds /\ "done" \in Kinds /\ e \in {"calls", "role_calls"}
  BY DEF Kinds
<1>2. <<a.tools>> \in Data /\ <<why>> \in Data /\ <<>> \in Data
  <2>1. a.tools \in [Calls -> Seq(Nat)]
    BY DEF Accumulators
  <2>2. why \in Reasons
    BY DEF Reasons
  <2> HIDE DEF why
  <2> QED BY <2>1, <2>2, DataIs
<1>3. Is(x, e, <<a.tools>>) /\ Is(y, "finish", <<why>>) /\ Is(z, "done", <<>>)
  <2> HIDE DEF e, why
  <2> QED BY <1>1, <1>2, IsEvent
<1> DEFINE t == ChatClosing(a, last)
           one(u) == <<>> \o <<u>>
<1>4. /\ ~last => t = one(z)
      /\ last /\ Made(a.tools) = {} => t = one(y) \o <<z>>
      /\ last /\ Made(a.tools) # {} => t = (<<x>> \o <<y>>) \o <<z>>
  BY DEF ChatClosing
<1>5. /\ x \in Emitted /\ y \in Emitted /\ z \in Emitted /\ x.e = e /\ y.e = "finish" /\ z.e = "done"
      /\ x.data = <<a.tools>>
  BY <1>3 DEF Is
<1> HIDE DEF x, y, z, t
<1>9. \A u \in Emitted : /\ <<u>> \in Seq(Emitted) /\ Len(<<u>>) = 1 /\ <<u>>[1] = u /\ DOMAIN <<u>> = {1}
                         /\ one(u) = <<u>>
  OBVIOUS
<1>10. \A u \in Emitted, v \in Emitted :
         LET s == <<u>> \o <<v>>
         IN  s \in Seq(Emitted) /\ Len(s) = 2 /\ DOMAIN s = {1, 2} /\ s[1] = u /\ s[2] = v
  <2> TAKE u \in Emitted, v \in Emitted
  <2> DEFINE r == <<u>>
             s == r \o <<v>>
  <2>1. r \in Seq(Emitted) /\ Len(r) = 1 /\ r[1] = u /\ DOMAIN r = {1}
    BY <1>9
  <2> HIDE DEF r
  <2>2. /\ s \in Seq(Emitted) /\ Len(s) = 1 + 1 /\ DOMAIN s = 1 .. 1 + 1
        /\ s[1 + 1] = v /\ \A n \in DOMAIN r : s[n] = r[n]
    <3>1. Append(r, v) = s
      BY <2>1, OneMore
    <3> QED BY <2>1, <3>1, OneMore
  <2> HIDE DEF s
  <2>3. s \in Seq(Emitted) /\ Len(s) = 2 /\ DOMAIN s = {1, 2} /\ s[1] = u /\ s[2] = v
    BY <2>1, <2>2
  <2> QED BY <2>3 DEF r, s
<1> HIDE DEF one
<1>6. CASE ~last
  <2>0. t = one(z)
    BY <1>4, <1>6
  <2>1. t \in Seq(Emitted) /\ t # <<>> /\ Len(t) = 1 /\ DOMAIN t = {1} /\ t[1] = z
    <3>1. t \in Seq(Emitted) /\ Len(t) = 1 /\ t[1] = z /\ DOMAIN t = {1}
      BY <2>0, <1>5, <1>9
    <3> QED BY <3>1
  <2> QED BY <2>1, <1>5, <1>6 DEF IsChatTail, Chunks, IsText, t
<1>7. CASE last /\ Made(a.tools) = {}
  <2>1. t = <<y>> \o <<z>>
    BY <1>4, <1>5, <1>7, <1>9
  <2>2. /\ t \in Seq(Emitted) /\ Len(t) = 2 /\ DOMAIN t = {1, 2} /\ t[1] = y /\ t[2] = z
    BY <2>1, <1>5, <1>10
  <2>3. Chunks(t) /\ t # <<>>
    <3>1. MayFollowChunk(y, z)
      BY <1>5 DEF MayFollowChunk
    <3>2. \A n \in 1 .. 2 - 1 : n = 1
      OBVIOUS
    <3>3. t # <<>>
      <4>1. t = <<>> => Len(t) = 0
        OBVIOUS
      <4> QED BY <4>1, <2>2
    <3> QED BY <2>2, <3>1, <3>2, <3>3 DEF Chunks
  <2> QED BY <2>2, <2>3, <1>5, <1>7 DEF IsChatTail, IsText, IsList, t
<1>8. CASE last /\ Made(a.tools) # {}
  <2> DEFINE s == <<x>> \o <<y>>
  <2>1. t = s \o <<z>>
    BY <1>4, <1>8
  <2>2. s \in Seq(Emitted) /\ Len(s) = 2 /\ DOMAIN s = {1, 2} /\ s[1] = x /\ s[2] = y
    BY <1>5, <1>10
  <2> HIDE DEF s
  <2>3. /\ t \in Seq(Emitted) /\ Len(t) = 2 + 1 /\ DOMAIN t = 1 .. 2 + 1
        /\ t[2 + 1] = z /\ \A n \in DOMAIN s : t[n] = s[n]
    <3>1. Append(s, z) = t
      BY <2>1, <2>2, <1>5, OneMore
    <3>2. /\ Append(s, z) \in Seq(Emitted) /\ Len(Append(s, z)) = Len(s) + 1
          /\ DOMAIN Append(s, z) = 1 .. Len(s) + 1 /\ Append(s, z)[Len(s) + 1] = z
          /\ \A n \in DOMAIN s : Append(s, z)[n] = s[n]
      <4>1. s \in Seq(Emitted) /\ z \in Emitted
        BY <2>2, <1>5
      <4> QED BY <4>1, OneMore
    <3>3. Len(s) = 2
      BY <2>2
    <3> QED BY <3>1, <3>2, <3>3
  <2>4. /\ t \in Seq(Emitted) /\ t # <<>> /\ Len(t) = 3 /\ DOMAIN t = {1, 2, 3}
        /\ t[1] = x /\ t[2] = y /\ t[3] = z
    BY <2>2, <2>3
  <2>5. Chunks(t)
    BY <2>4, <1>1, <1>5 DEF Chunks, MayFollowChunk
  <2> QED BY <2>4, <2>5, <1>1, <1>5, <1>8 DEF IsChatTail, IsText, IsList, t
<1> QED BY <1>6, <1>7, <1>8

(* Calls listed behind events that list none are listed. *)
LEMMA ListJoin ==
    ASSUME NEW s \in Seq(Emitted), NEW t \in Seq(Emitted), NEW a \in Accumulators, NEW B,
           \A n \in DOMAIN s : ~IsList(s[n]), IsChatTail(t, a, TRUE), Told(a.tools, B)
    PROVE  ListIsSaid(s \o t, B)
<1> DEFINE u == s \o t
           L == Len(s)
<1>1. /\ L \in Nat /\ DOMAIN s = 1 .. L /\ DOMAIN t = 1 .. Len(t)
      /\ \A n \in DOMAIN s : u[n] = s[n]
      /\ \A n \in DOMAIN t : L + n \in DOMAIN u /\ u[L + n] = t[n]
      /\ \A n \in DOMAIN u : n \in DOMAIN s \/ (n > L /\ n - L \in DOMAIN t)
      /\ DOMAIN u = 1 .. L + Len(t) /\ Len(t) \in Nat
  BY JoinedPlaces
<1> HIDE DEF u, L
<1>2. CallLists(u) = {n \in DOMAIN u : IsList(u[n])}
  BY DEF CallLists, IsList
<1>3. \A n \in CallLists(u) : n - L \in DOMAIN t /\ IsList(t[n - L]) /\ u[n] = t[n - L] /\ n \in Int
  <2> TAKE n \in CallLists(u)
  <2>1. n \in DOMAIN u /\ IsList(u[n]) /\ n \in Int
    BY <1>1, <1>2
  <2>2. n \notin DOMAIN s
    BY <1>1, <2>1
  <2>3. n - L \in DOMAIN t
    BY <1>1, <2>1, <2>2
  <2>4. u[L + (n - L)] = t[n - L] /\ L + (n - L) = n
    BY <1>1, <2>1, <2>3
  <2> QED BY <2>1, <2>3, <2>4
<1>4. \A i \in Calls : B[i] = {} <=> a.tools[i] = <<>>
  <2>1. \A i \in Calls : a.tools[i] \in Seq(Nat)
    BY DEF Accumulators
  <2> QED BY <2>1, AscendsIs DEF Told
<1>5. CASE Made(a.tools) = {}
  <2>1. \A i \in Calls : B[i] = {}
    BY <1>4, <1>5 DEF Made
  <2>2. \A n \in DOMAIN t : ~IsList(t[n])
    BY <1>5 DEF IsChatTail
  <2>3. CallLists(u) = {}
    BY <2>2, <1>3
  <2> QED BY <2>1, <2>3 DEF ListIsSaid, u
<1>6. CASE Made(a.tools) # {}
  <2>1. ~\A i \in Calls : B[i] = {}
    BY <1>4, <1>6 DEF Made
  <2>2. (\A n \in DOMAIN t : IsList(t[n]) <=> n = 1) /\ t[1].data = <<a.tools>> /\ t # <<>>
    BY <1>6 DEF IsChatTail
  <2>3. \A n \in CallLists(u) : n - L = 1 /\ u[n] = t[1] /\ n = L + 1
    BY <2>2, <1>1, <1>3
  <2>4. 1 \in DOMAIN t
    <3>1. Len(t) # 0
      BY <2>2
    <3> QED BY <3>1, <1>1
  <2>5. L + 1 \in CallLists(u)
    BY <2>2, <2>4, <1>1, <1>2
  <2>6. \A n \in CallLists(u) : u[n].data[1] = a.tools
    BY <2>2, <2>3
  <2> QED BY <2>1, <2>3, <2>5, <2>6 DEF ListIsSaid, Told, u
<1> QED BY <1>5, <1>6

(* How a /v1/messages stream ends that is not broken.                      *)
LEMMA MessagesClosingIs ==
    ASSUME StreamTypes, NEW a \in Accumulators, NEW B, Told(a.tools, B), Apart(B),
           route[1] = "ollama" => a.stop # "tool_use"
    PROVE  \E order \in Seq(Calls), stop \in Reasons :
             /\ IF route[1] = "proxy" THEN ProxyClosing(a) = Tail0(a.tools, order, stop)
                ELSE OllamaClosing(a) = Tail0(a.tools, order, stop)
             /\ CallsAreSaid(Tail0(a.tools, order, stop), B)
             /\ stop = "tool_use" <=> (a.stop = "tool_use" \/ \E i \in Calls : B[i] # {})
<1>1. a.tools \in [Calls -> Seq(Nat)] /\ a.stop \in {"end_turn", "max_tokens", "tool_use"}
  BY DEF Accumulators
<1> DEFINE M == Made(a.tools)
<1>2. M \subseteq Calls /\ IsFiniteSet(M) /\ \A i \in Calls : i \in M <=> a.tools[i] # <<>>
  <2>1. M \in SUBSET Calls /\ \A i \in Calls : i \in M <=> a.tools[i] # <<>>
    BY DEF Made
  <2>2. IsFiniteSet(M)
    BY <2>1, CallsAssumption, FS_Subset
  <2> QED BY <2>1, <2>2
<1>3. \A i \in Calls : (a.tools[i] # <<>> <=> B[i] # {}) /\ (a.tools[i] # <<>> => a.tools[i][1] \in B[i])
  BY <1>1, AscendsIs DEF Told
<1> DEFINE key == IF route[1] = "proxy" THEN [i \in Calls |-> i] ELSE [i \in Made(a.tools) |-> a.tools[i][1]]
           order == InOrder(Made(a.tools), key)
           stop == IF route[1] = "proxy" THEN StopReason(a)
                   ELSE IF Made(a.tools) # {} THEN "tool_use" ELSE a.stop
<1>4. \A i \in M : key[i] \in Nat
  <2> TAKE i \in M
  <2>1. CASE route[1] = "proxy"
    BY <2>1, <1>2, CallsAssumption
  <2>2. CASE route[1] # "proxy"
    <3>1. a.tools[i] \in Seq(Nat) /\ a.tools[i] # <<>>
      BY <1>1, <1>2
    <3>2. a.tools[i][1] \in Nat
      BY <3>1
    <3> QED BY <2>2, <3>2
  <2> QED BY <2>1, <2>2
<1>5. \A i, j \in M : key[i] = key[j] => i = j
  <2> SUFFICES ASSUME NEW i \in M, NEW j \in M, key[i] = key[j] PROVE i = j
    OBVIOUS
  <2>1. CASE route[1] = "proxy"
    BY <2>1, <1>2
  <2>2. CASE route[1] # "proxy"
    <3>1. i \in Calls /\ j \in Calls /\ a.tools[i] # <<>> /\ a.tools[j] # <<>>
      BY <1>2
    <3>2. a.tools[i][1] = a.tools[j][1]
      BY <2>2
    <3> QED BY <3>1, <3>2, <1>3 DEF Apart
  <2> QED BY <2>1, <2>2
<1>6. /\ order \in Seq(M)
      /\ \A i \in M : \E n \in DOMAIN order : order[n] = i
      /\ \A m, n \in DOMAIN order : order[m] = order[n] => m = n
  <2> HIDE DEF key
  <2> QED BY <1>2, <1>4, <1>5, InOrderLists
<1>7. stop \in Reasons /\ (stop = "tool_use" <=> (a.stop = "tool_use" \/ M # {}))
  <2>1. {"end_turn", "max_tokens", "tool_use"} \subseteq Reasons
    BY DEF Reasons
  <2>2. stop \in {"end_turn", "max_tokens", "tool_use"}
    BY <1>1 DEF StopReason
  <2>3. stop \in Reasons
    <3> HIDE DEF stop
    <3> QED BY <2>1, <2>2
  <2>4. CASE M # {}
    BY <2>3, <2>4 DEF StopReason
  <2>5. CASE M = {}
    <3>1. stop = "tool_use" <=> a.stop = "tool_use"
      BY <2>5, <1>1 DEF StopReason
    <3> QED BY <2>3, <2>5, <3>1
  <2> QED BY <2>4, <2>5
<1>8. IF route[1] = "proxy" THEN ProxyClosing(a) = Tail0(a.tools, order, stop)
      ELSE OllamaClosing(a) = Tail0(a.tools, order, stop)
  BY DEF ProxyClosing, OllamaClosing, Tail0, EmitBufferedToolCalls, EmitOllamaToolUseBlocks
<1> HIDE DEF order, stop, key
<1>9. order \in Seq(Calls) /\ \A n \in DOMAIN order : order[n] \in M
  <2> HIDE DEF M
  <2> QED BY <1>2, <1>6, SeqMonotonic
<1>10. CallsAreSaid(Tail0(a.tools, order, stop), B)
  <2>1. \A n \in DOMAIN order : a.tools[order[n]] # <<>>
    BY <1>2, <1>9
  <2>2. \A i \in Calls : a.tools[i] # <<>> => \E n \in DOMAIN order : order[n] = i
    BY <1>2, <1>6
  <2>3. ListsOnce(order, a.tools)
    BY <2>1, <2>2, <1>6 DEF ListsOnce
  <2> HIDE DEF M
  <2> QED BY <2>3, <1>1, <1>7, <1>9, TailSaysCalls
<1>11. M # {} <=> \E i \in Calls : B[i] # {}
  BY <1>2, <1>3
<1> QED BY <1>7, <1>8, <1>9, <1>10, <1>11

-----------------------------------------------------------------------------
(* The wire while frames come, and at its end.                             *)

(* A sequence, and the first and the last of two joined. *)
LEMMA Ends ==
    ASSUME NEW s \in Seq(Emitted), NEW t \in Seq(Emitted)
    PROVE  /\ s # <<>> => (s \o t)[1] = s[1] /\ 1 \in DOMAIN s /\ Len(s) \in DOMAIN s
           /\ s = <<>> => s \o t = t
           /\ t = <<>> => s \o t = s
           /\ t # <<>> => (s \o t)[Len(s \o t)] = t[Len(t)] /\ 1 \in DOMAIN t /\ Len(t) \in DOMAIN t
           /\ s # <<>> \/ t # <<>> => s \o t # <<>>
<1> DEFINE u == s \o t
<1>1. /\ Len(u) = Len(s) + Len(t) /\ DOMAIN s = 1 .. Len(s) /\ DOMAIN t = 1 .. Len(t)
      /\ Len(s) \in Nat /\ Len(t) \in Nat /\ DOMAIN u = 1 .. Len(s) + Len(t)
      /\ \A n \in DOMAIN s : u[n] = s[n]
      /\ \A n \in DOMAIN t : u[Len(s) + n] = t[n]
  BY JoinedPlaces
<1>2. (s # <<>> => Len(s) # 0) /\ (t # <<>> => Len(t) # 0) /\ Len(<<>>) = 0
  BY EmptySeq
<1>3. s = <<>> => u = t
  BY ConcatEmptySeq
<1>4. t = <<>> => u = s
  BY ConcatEmptySeq
<1> HIDE DEF u
<1>5. s # <<>> => u[1] = s[1] /\ 1 \in DOMAIN s /\ Len(s) \in DOMAIN s
  BY <1>1, <1>2
<1>6. t # <<>> => u[Len(u)] = t[Len(t)] /\ 1 \in DOMAIN t /\ Len(t) \in DOMAIN t
  BY <1>1, <1>2
<1>7. s # <<>> \/ t # <<>> => u # <<>>
  BY <1>1, <1>2
<1> QED BY <1>3, <1>4, <1>5, <1>6, <1>7 DEF u

(* One event alone. *)
LEMMA Alone ==
    ASSUME NEW x \in Emitted
    PROVE  /\ <<x>> \in Seq(Emitted) /\ <<x>> # <<>> /\ <<x>>[1] = x /\ Len(<<x>>) = 1
           /\ DOMAIN <<x>> = {1} /\ Blocks(<<x>>) /\ Chunks(<<x>>)
<1>1. <<x>> \in Seq(Emitted) /\ <<x>> # <<>> /\ <<x>>[1] = x /\ Len(<<x>>) = 1 /\ DOMAIN <<x>> = {1}
  OBVIOUS
<1> QED BY <1>1 DEF Blocks, Chunks

(* A sequence joined behind one that follows follows, when the two meet    *)
(* well.                                                                   *)
LEMMA FollowsJoin ==
    ASSUME NEW way, NEW s \in Seq(Emitted), NEW t \in Seq(Emitted), Follows(way, s), t # <<>>,
           way \in {"messages", "chat", "completion"},
           way = "messages" => s # <<>> /\ Blocks(t) /\ MayFollow(s[Len(s)], t[1]),
           way # "messages" => Chunks(t) /\ (s # <<>> => MayFollowChunk(s[Len(s)], t[1])),
           way = "chat" /\ s = <<>> => t[1].e \in {"role_chunk", "role_calls", "finish", "done"},
           way = "completion" /\ s = <<>> => t[1].e \in {"chunk", "finish", "done"}
    PROVE  Follows(way, s \o t)
<1>1. /\ s # <<>> => (s \o t)[1] = s[1]
      /\ s = <<>> => (s \o t)[1] = t[1]
  BY Ends
<1>2. way = "messages" => Blocks(s \o t)
  BY BlocksJoin DEF Follows
<1>3. way # "messages" => Chunks(s \o t)
  BY ChunksJoin DEF Follows
<1> HIDE DEF Blocks, Chunks
<1> DEFINE u == s \o t
<1>4. /\ s # <<>> => u[1] = s[1]
      /\ s = <<>> => u[1] = t[1]
      /\ way = "messages" => Blocks(u)
      /\ way # "messages" => Chunks(u)
  BY <1>1, <1>2, <1>3
<1> HIDE DEF u
<1>5. Follows(way, u)
  <2>1. CASE way = "messages"
    BY <2>1, <1>4 DEF Follows
  <2>2. CASE way = "chat"
    BY <2>2, <1>4 DEF Follows
  <2>3. CASE way = "completion"
    BY <2>3, <1>4 DEF Follows
  <2> QED BY <2>1, <2>2, <2>3
<1> QED BY <1>5 DEF u

(* The event a frame puts on an open wire leaves it open, or is the finish *)
(* chunk of /v1/completions.                                               *)
LEMMA OpenGrows ==
    ASSUME NEW way \in {"messages", "chat", "completion"}, NEW s \in Seq(Emitted), NEW role \in BOOLEAN,
           Follows(way, s), OpenWire(way, s, role), NEW x \in Emitted, x.idx = 0,
           way = "messages" => x.e = "block_delta",
           way = "chat" => x.e = IF role THEN "chunk" ELSE "role_chunk",
           way = "completion" => x.e \in {"chunk", "finish"}
    PROVE  /\ Follows(way, s \o <<x>>)
           /\ way = "chat" => OpenWire(way, s \o <<x>>, TRUE)
           /\ way = "messages" \/ x.e = "chunk" => OpenWire(way, s \o <<x>>, TRUE)
<1> DEFINE u == s \o <<x>>
           L == Len(s)
<1>1. <<x>> \in Seq(Emitted) /\ <<x>> # <<>> /\ <<x>>[1] = x /\ Len(<<x>>) = 1
      /\ DOMAIN <<x>> = {1} /\ Blocks(<<x>>) /\ Chunks(<<x>>)
  BY Alone
<1>2. /\ L \in Nat /\ DOMAIN s = 1 .. L /\ DOMAIN u = 1 .. L + 1 /\ u[L + 1] = x /\ Len(u) = L + 1
      /\ \A n \in DOMAIN s : u[n] = s[n]
      /\ u \in Seq(Emitted)
  <2>1. Append(s, x) = u
    BY OneMore
  <2> QED BY <2>1, OneMore
<1>3. s # <<>> => L \in DOMAIN s
  BY <1>1, Ends
<1>4. way = "messages" => s # <<>> /\ MayFollow(s[L], x)
  <2>1. way = "messages" => L # 0
    BY <1>2 DEF OpenWire
  <2>2. Len(<<>>) = 0
    BY EmptySeq
  <2> QED BY <2>1, <2>2 DEF OpenWire, MayFollow
<1>5. way # "messages" => (s # <<>> => MayFollowChunk(s[L], x))
  <2> SUFFICES ASSUME way # "messages", s # <<>> PROVE MayFollowChunk(s[L], x)
    OBVIOUS
  <2>1. s[L].e \in {"chunk", "role_chunk"} /\ x.e \in {"chunk", "finish"}
    BY <1>3 DEF OpenWire
  <2> QED BY <2>1 DEF MayFollowChunk
<1>6. way = "chat" /\ s = <<>> => x.e = "role_chunk"
  BY DEF OpenWire
<1>7. Follows(way, u)
  <2> HIDE DEF L
  <2>1. /\ way = "messages" => s # <<>> /\ Blocks(<<x>>) /\ MayFollow(s[Len(s)], <<x>>[1])
        /\ way # "messages" => Chunks(<<x>>) /\ (s # <<>> => MayFollowChunk(s[Len(s)], <<x>>[1]))
        /\ way = "chat" /\ s = <<>> => <<x>>[1].e \in {"role_chunk", "role_calls", "finish", "done"}
        /\ way = "completion" /\ s = <<>> => <<x>>[1].e \in {"chunk", "finish", "done"}
    BY <1>1, <1>4, <1>5, <1>6 DEF L
  <2> DEFINE t == <<x>>
  <2>2. /\ way = "messages" => s # <<>> /\ Blocks(t) /\ MayFollow(s[Len(s)], t[1])
        /\ way # "messages" => Chunks(t) /\ (s # <<>> => MayFollowChunk(s[Len(s)], t[1]))
        /\ way = "chat" /\ s = <<>> => t[1].e \in {"role_chunk", "role_calls", "finish", "done"}
        /\ way = "completion" /\ s = <<>> => t[1].e \in {"chunk", "finish", "done"}
        /\ t \in Seq(Emitted) /\ t # <<>>
    BY <2>1, <1>1
  <2> HIDE DEF t
  <2>3. Follows(way, s \o t)
    BY <2>2, FollowsJoin
  <2> QED BY <2>3 DEF t
<1> HIDE DEF u, L
<1>8. \A n \in DOMAIN u : n \in DOMAIN s \/ n = L + 1
  BY <1>2
<1>9. u # <<>>
  <2>1. Len(u) # 0 /\ Len(<<>>) = 0
    BY <1>2
  <2> QED BY <2>1
<1>10. way = "messages" => OpenWire(way, u, TRUE)
  <2> SUFFICES ASSUME way = "messages" PROVE OpenWire(way, u, TRUE)
    OBVIOUS
  <2>1. L >= 2 /\ \A n \in DOMAIN s :
          s[n].idx <= 0 /\ s[n].e \in {"message_start", "block_start", "block_delta"}
    BY DEF OpenWire, L
  <2>2. \A n \in DOMAIN u : u[n].idx <= 0 /\ u[n].e \in {"message_start", "block_start", "block_delta"}
    BY <2>1, <1>2, <1>8
  <2>3. Len(u) >= 2 /\ u[Len(u)] = x
    BY <2>1, <1>2
  <2> QED BY <2>2, <2>3 DEF OpenWire
<1>11. way = "chat" => OpenWire(way, u, TRUE)
  <2> SUFFICES ASSUME way = "chat" PROVE OpenWire(way, u, TRUE)
    OBVIOUS
  <2>1. \A n \in DOMAIN s : s[n].e \in {"chunk", "role_chunk"}
    BY DEF OpenWire
  <2>2. x.e \in {"chunk", "role_chunk"}
    OBVIOUS
  <2>3. \A n \in DOMAIN u : u[n].e \in {"chunk", "role_chunk"}
    BY <2>1, <2>2, <1>2, <1>8
  <2> QED BY <2>3, <1>9 DEF OpenWire
<1>12. way = "completion" /\ x.e = "chunk" => OpenWire(way, u, TRUE)
  <2> SUFFICES ASSUME way = "completion", x.e = "chunk" PROVE OpenWire(way, u, TRUE)
    OBVIOUS
  <2>1. \A n \in DOMAIN s : s[n].e = "chunk"
    BY DEF OpenWire
  <2>2. \A n \in DOMAIN u : u[n].e = "chunk"
    BY <2>1, <1>2, <1>8
  <2> QED BY <2>2 DEF OpenWire
<1> QED BY <1>7, <1>10, <1>11, <1>12 DEF u

-----------------------------------------------------------------------------
(* The end of the wire, on each way.                                       *)

(* What a tail t must be to end the wire s.                                *)
Ends0(s, t, a, how, B) ==
  /\ t \in Seq(Emitted) /\ t # <<>> /\ Follows(api, s \o t)
  /\ \A n \in DOMAIN t : ~IsText(t[n])
  /\ api # "messages" => t[Len(t)].e = "done"
  /\ how = "done" /\ api = "messages" =>
       /\ CallsAreSaid(s \o t, B)
       /\ ToolUseIsSaid(s \o t) <=> (a.stop = "tool_use" \/ \E i \in Calls : B[i] # {})
  /\ how = "done" /\ api = "chat" => ListIsSaid(s \o t, B)

(* The tail of a /v1/messages stream. *)
LEMMA MessagesEnd ==
    ASSUME StreamTypes, NEW s \in Seq(Emitted), NEW a \in Accumulators, NEW B, NEW how,
           NEW order \in Seq(Calls), NEW stop \in Reasons,
           api = "messages", Follows(api, s), OpenWire(api, s, a.role),
           CallsAreSaid(Tail0(a.tools, order, stop), B),
           stop = "tool_use" <=> (a.stop = "tool_use" \/ \E i \in Calls : B[i] # {})
    PROVE  Ends0(s, Tail0(a.tools, order, stop), a, how, B)
<1> DEFINE t == Tail0(a.tools, order, stop)
           u == s \o t
<1>1. a.tools \in [Calls -> Seq(Nat)]
  BY DEF Accumulators
<1>2. /\ t \in Seq(Emitted) /\ t # <<>> /\ Blocks(t)
      /\ t[1] = Event("block_stop", 0, <<>>)
      /\ \A n \in DOMAIN order :
           3 * n \in DOMAIN t /\ t[3 * n] = Event("block_delta", n, a.tools[order[n]])
      /\ \A m \in DOMAIN t : t[m].e = "block_delta" => \E n \in DOMAIN order : m = 3 * n
      /\ \E m \in DOMAIN t : t[m] = Event("message_delta", -1, <<stop>>)
      /\ \A m \in DOMAIN t : t[m].e = "message_delta" => t[m].data = <<stop>>
      /\ \A m \in DOMAIN t : t[m].e \notin {"chunk", "role_chunk"}
  BY <1>1, TailIs DEF IsTail
<1>3. CallsAreSaid(t, B)
  OBVIOUS
<1> HIDE DEF t
<1>4. /\ Len(s) >= 2 /\ s[Len(s)].e \in {"block_start", "block_delta"} /\ s[Len(s)].idx = 0
      /\ \A n \in DOMAIN s :
           s[n].idx <= 0 /\ s[n].e \in {"message_start", "block_start", "block_delta"}
  BY DEF OpenWire
<1>5. s # <<>>
  <2>1. Len(<<>>) = 0
    BY EmptySeq
  <2> QED BY <2>1, <1>4
<1>6. MayFollow(s[Len(s)], t[1])
  <2>1. t[1].e = "block_stop" /\ t[1].idx = 0
    BY <1>2, EventIs
  <2> QED BY <2>1, <1>4 DEF MayFollow
<1>7. Follows(api, u)
  BY <1>2, <1>5, <1>6, FollowsJoin
<1>8. \A n \in DOMAIN t : ~IsText(t[n])
  <2> SUFFICES ASSUME NEW m \in DOMAIN t, IsText(t[m]) PROVE FALSE
    OBVIOUS
  <2>1. t[m].e = "block_delta" /\ t[m].idx = 0
    BY <1>2 DEF IsText
  <2>2. PICK n \in DOMAIN order : m = 3 * n
    BY <2>1, <1>2
  <2>3. t[m].idx = n
    BY <2>2, <1>2, EventIs
  <2>4. n >= 1
    <3>1. DOMAIN order = 1 .. Len(order)
      BY LenProperties
    <3> QED BY <3>1
  <2> QED BY <2>1, <2>3, <2>4
<1>9. CallsAreSaid(u, B)
  <2>1. \A n \in DOMAIN s : ~IsArgument(s[n])
    <3> SUFFICES ASSUME NEW n \in DOMAIN s PROVE ~IsArgument(s[n])
      OBVIOUS
    <3>1. s[n].idx <= 0 /\ s[n].idx \in Int
      <4>1. s[n] \in Emitted
        BY ElementOfSeq, LenProperties
      <4> QED BY <4>1, <1>4, EmittedIs
    <3> QED BY <3>1 DEF IsArgument
  <2> QED BY <2>1, <1>2, <1>3, CallsJoin
<1>10. /\ Len(s) \in Nat
       /\ \A n \in DOMAIN s : u[n] = s[n]
       /\ \A n \in DOMAIN t : Len(s) + n \in DOMAIN u /\ u[Len(s) + n] = t[n]
       /\ \A n \in DOMAIN u : n \in DOMAIN s \/ (n > Len(s) /\ n - Len(s) \in DOMAIN t)
       /\ DOMAIN t = 1 .. Len(t) /\ DOMAIN u = 1 .. Len(s) + Len(t)
  BY <1>2, JoinedPlaces
<1> HIDE DEF u
<1>11. ToolUseIsSaid(u) <=> stop = "tool_use"
  <2>1. ASSUME stop = "tool_use" PROVE ToolUseIsSaid(u)
    <3>1. PICK m \in DOMAIN t : t[m] = Event("message_delta", -1, <<stop>>)
      BY <1>2
    <3>2. t[m].e = "message_delta" /\ t[m].data = <<"tool_use">>
      BY <3>1, <2>1, EventIs
    <3> QED BY <3>2, <1>10 DEF ToolUseIsSaid
  <2>2. ASSUME ToolUseIsSaid(u) PROVE stop = "tool_use"
    <3>1. PICK n \in DOMAIN u : u[n].e = "message_delta" /\ u[n].data = <<"tool_use">>
      BY <2>2 DEF ToolUseIsSaid
    <3>2. n \notin DOMAIN s
      BY <3>1, <1>4, <1>10
    <3>3. n - Len(s) \in DOMAIN t /\ Len(s) + (n - Len(s)) = n
      BY <3>2, <1>10
    <3>4. u[n] = t[n - Len(s)]
      BY <3>3, <1>10
    <3>5. t[n - Len(s)].data = <<stop>>
      BY <3>1, <3>3, <3>4, <1>2
    <3>6. <<stop>> = <<"tool_use">>
      BY <3>1, <3>4, <3>5
    <3> QED BY <3>6
  <2> QED BY <2>1, <2>2
<1> QED BY <1>2, <1>7, <1>8, <1>9, <1>11 DEF Ends0, u, t

(* The error event of a broken /v1/messages stream. *)
LEMMA BrokenEnd ==
    ASSUME StreamTypes, NEW s \in Seq(Emitted), NEW a, NEW B, NEW role,
           api = "messages", Follows(api, s), OpenWire(api, s, role)
    PROVE  Ends0(s, <<Event("error", -1, <<>>)>>, a, "broken", B)
<1> DEFINE x == Event("error", -1, <<>>)
           t == <<x>>
<1>1. x \in Emitted /\ x.e = "error" /\ x.idx = -1 /\ x.data = <<>>
  BY EventIs, DataIs DEF Kinds
<1> HIDE DEF x
<1>2. t \in Seq(Emitted) /\ t # <<>> /\ t[1] = x /\ DOMAIN t = {1} /\ Blocks(t)
  BY <1>1, Alone
<1>3. s # <<>> /\ s[Len(s)].e \in {"block_start", "block_delta"}
  <2>1. Len(<<>>) = 0
    BY EmptySeq
  <2> QED BY <2>1 DEF OpenWire
<1>4. MayFollow(s[Len(s)], t[1])
  BY <1>1, <1>2, <1>3 DEF MayFollow
<1> HIDE DEF t
<1>5. Follows(api, s \o t)
  BY <1>2, <1>3, <1>4, FollowsJoin
<1>6. \A n \in DOMAIN t : ~IsText(t[n])
  BY <1>1, <1>2 DEF IsText
<1> QED BY <1>2, <1>5, <1>6 DEF Ends0, t, x

(* The tail of a chat stream. *)
LEMMA ChatEnd ==
    ASSUME StreamTypes, NEW s \in Seq(Emitted), NEW a \in Accumulators, NEW B, NEW how,
           api = "chat", Follows(api, s), OpenWire(api, s, a.role), Told(a.tools, B)
    PROVE  Ends0(s, ChatClosing(a, how = "done"), a, how, B)
<1> DEFINE last == (how = "done")
           t == ChatClosing(a, last)
<1>1. last \in BOOLEAN
  OBVIOUS
<1> HIDE DEF last
<1>2. IsChatTail(t, a, last)
  BY <1>1, ChatClosingIs
<1> HIDE DEF t
<1>3. /\ t \in Seq(Emitted) /\ t # <<>> /\ Chunks(t) /\ t[Len(t)].e = "done"
      /\ t[1].e \in {"done", "finish", IF a.role THEN "calls" ELSE "role_calls"}
      /\ \A n \in DOMAIN t : ~IsText(t[n])
  BY <1>2 DEF IsChatTail
<1>4. (a.role <=> s # <<>>) /\ \A n \in DOMAIN s : s[n].e \in {"chunk", "role_chunk"}
  BY DEF OpenWire
<1>5. s # <<>> => s[Len(s)].e \in {"chunk", "role_chunk"}
  BY <1>3, <1>4, Ends
<1>6. s # <<>> => MayFollowChunk(s[Len(s)], t[1])
  BY <1>3, <1>4, <1>5 DEF MayFollowChunk
<1>7. s = <<>> => t[1].e \in {"role_chunk", "role_calls", "finish", "done"}
  BY <1>3, <1>4
<1>8. Follows(api, s \o t)
  BY <1>3, <1>6, <1>7, FollowsJoin
<1>9. last => ListIsSaid(s \o t, B)
  <2> SUFFICES ASSUME last PROVE ListIsSaid(s \o t, B)
    OBVIOUS
  <2>1. \A n \in DOMAIN s : ~IsList(s[n])
    BY <1>4 DEF IsList
  <2>2. last = TRUE
    BY <1>1
  <2>3. IsChatTail(t, a, TRUE)
    BY <1>2, <2>2
  <2> QED BY <1>3, <2>1, <2>3, ListJoin
<1>10. how = "done" => ListIsSaid(s \o t, B)
  BY <1>9 DEF last
<1>11. api # "messages"
  OBVIOUS
<1>12. Ends0(s, t, a, how, B)
  BY <1>3, <1>8, <1>10, <1>11, Zenon DEF Ends0
<1> QED BY <1>12 DEF t, last

(* The end marker of a /v1/completions stream, and of a chat that is cut.  *)
LEMMA CompletionEnd ==
    ASSUME StreamTypes, NEW s \in Seq(Emitted), NEW a, NEW B, NEW how,
           api = "completion", Follows(api, s), s # <<>> => s[Len(s)].e # "done"
    PROVE  Ends0(s, <<Event("done", 0, <<>>)>>, a, how, B)
<1> DEFINE x == Event("done", 0, <<>>)
           t == <<x>>
<1>1. x \in Emitted /\ x.e = "done" /\ x.idx = 0 /\ x.data = <<>>
  BY EventIs, DataIs DEF Kinds
<1> HIDE DEF x
<1>2. t \in Seq(Emitted) /\ t # <<>> /\ t[1] = x /\ DOMAIN t = {1} /\ Chunks(t) /\ Len(t) = 1
  BY <1>1, Alone
<1> HIDE DEF t
<1>3. s # <<>> => MayFollowChunk(s[Len(s)], t[1])
  BY <1>1, <1>2 DEF MayFollowChunk
<1>4. t[1].e \in {"chunk", "finish", "done"}
  BY <1>1, <1>2
<1>5. Follows(api, s \o t)
  BY <1>2, <1>3, <1>4, FollowsJoin
<1>6. (\A n \in DOMAIN t : ~IsText(t[n])) /\ t[Len(t)].e = "done"
  BY <1>1, <1>2 DEF IsText
<1> QED BY <1>2, <1>5, <1>6 DEF Ends0, t, x

(* Whatever ends a stream, its close ends the wire. *)
LEMMA CloseIs ==
    ASSUME StreamTypes, NEW s \in Seq(Emitted), NEW a \in Accumulators, NEW B, NEW how,
           how \in {"done", "eof", "broken"},
           Follows(api, s), Told(a.tools, B), Apart(B), route[1] = "ollama" => a.stop # "tool_use",
           \/ OpenWire(api, s, a.role)
           \/ api = "completion" /\ s # <<>> /\ s[Len(s)].e = "finish"
    PROVE  Ends0(s, Close(a, how), a, how, B)
<1>1. CASE api = "chat"
  <2>1. Close(a, how) = ChatClosing(a, how = "done")
    BY <1>1, Zenon DEF Close
  <2> QED BY <1>1, <2>1, ChatEnd
<1>2. CASE api = "completion"
  <2>1. Close(a, how) = <<Event("done", 0, <<>>)>>
    BY <1>2 DEF Close
  <2>2. s # <<>> => s[Len(s)].e # "done"
    <3>1. s # <<>> => Len(s) \in DOMAIN s
      <4>1. s # <<>> => Len(s) # 0
        BY EmptySeq
      <4> QED BY <4>1, LenProperties
    <3> QED BY <1>2, <3>1 DEF OpenWire
  <2> QED BY <1>2, <2>1, <2>2, CompletionEnd
<1>3. CASE api = "messages" /\ how = "broken"
  <2>1. Close(a, how) = <<Event("error", -1, <<>>)>>
    BY <1>3 DEF Close
  <2> QED BY <1>3, <2>1, BrokenEnd
<1>4. CASE api = "messages" /\ how # "broken"
  <2>1. Close(a, how) = IF route[1] = "proxy" THEN ProxyClosing(a) ELSE OllamaClosing(a)
    BY <1>4 DEF Close
  <2>2. PICK order \in Seq(Calls), stop \in Reasons :
          /\ IF route[1] = "proxy" THEN ProxyClosing(a) = Tail0(a.tools, order, stop)
             ELSE OllamaClosing(a) = Tail0(a.tools, order, stop)
          /\ CallsAreSaid(Tail0(a.tools, order, stop), B)
          /\ stop = "tool_use" <=> (a.stop = "tool_use" \/ \E i \in Calls : B[i] # {})
    BY MessagesClosingIs
  <2>3. Close(a, how) = Tail0(a.tools, order, stop)
    BY <2>1, <2>2
  <2>4. OpenWire(api, s, a.role)
    BY <1>4
  <2> QED BY <1>4, <2>2, <2>3, <2>4, MessagesEnd
<1> QED BY <1>1, <1>2, <1>3, <1>4, Ways

-----------------------------------------------------------------------------
(* The steps that put nothing new on the wire.                             *)

(* The initial states. *)
LEMMA StreamStarts ==
    ASSUME StreamInit
    PROVE  StreamInv
<1>1. /\ route \in Routes /\ streams \in BOOLEAN /\ sent = <<>> /\ ended = "" /\ acc = Fresh
      /\ todo = <<>> /\ out = <<>> /\ pc = "body"
  BY DEF StreamInit
<1>2. Wire = <<>> /\ events = <<>> /\ DOMAIN sent = {} /\ DOMAIN events = {}
  <2>1. <<>> \in Seq(Emitted) /\ DOMAIN <<>> = {}
    OBVIOUS
  <2>2. <<>> \o <<>> = <<>>
    BY <2>1, ConcatEmptySeq
  <2> QED BY <1>1, <2>1, <2>2, Zenon DEF Wire, events
<1>3. acc.tools \in [Calls -> Seq(Nat)] /\ acc \in Accumulators /\ acc.stop = "end_turn"
      /\ acc.role = FALSE /\ \A i \in Calls : acc.tools[i] = <<>>
  <2>1. NoTools \in [Calls -> Seq(Nat)] /\ \A i \in Calls : NoTools[i] = <<>>
    BY DEF NoTools
  <2>2. acc = [tools |-> NoTools, stop |-> "end_turn", tokens |-> 0, role |-> FALSE]
    BY <1>1 DEF Fresh
  <2> QED BY <2>1, <2>2 DEF Accumulators
<1>4. StreamTypes
  <2>1. <<>> \in Seq(EveryFrame) /\ <<>> \in Seq(Emitted)
    OBVIOUS
  <2> QED BY <1>1, <1>3, <2>1 DEF StreamTypes
<1>5. WireFollows /\ WireStands
  <2>1. Follows(api, <<>>)
    BY DEF Follows, Blocks, Chunks
  <2>2. Unended(ended)
    BY <1>1 DEF Unended
  <2> QED BY <2>1, <2>2, <1>1, <1>2 DEF WireFollows, WireStands
<1>6. BlocksCount
  <2>1. BlocksBegun = 0
    <3>1. {n \in DOMAIN events : events[n].e = "block_start"} = {}
      BY <1>2
    <3> QED BY <3>1, FS_EmptySet DEF BlocksBegun, Begun
  <2> QED BY <2>1, <1>2 DEF BlocksCount
<1>7. AccTells
  <2>1. \A i \in Calls : Ascends(acc.tools[i], Brought[i])
    <3> TAKE i \in Calls
    <3>1. acc.tools[i] = <<>> /\ Brought[i] = {}
      BY <1>2, <1>3 DEF Brought
    <3> QED BY <3>1 DEF Ascends, ToSet
  <2>2. Unfinished(sent)
    BY <1>2 DEF Unfinished
  <2> QED BY <2>1, <2>2, <1>2, <1>3 DEF AccTells
<1> QED BY <1>1, <1>4, <1>5, <1>6, <1>7 DEF StreamInv, SaidSoFar, BeforeFrames

(* A step that leaves the stream alone: the request moves on before its    *)
(* first frame, or one without streaming is answered.                      *)
Moves ==
  \/ pc' = pc
  \/ pc = "body" /\ pc' = "posted"
  \/ pc' = "end" /\ (pc \in {"body", "posted"} \/ ~streams)

LEMMA StillStep ==
    ASSUME StreamInv, route' = route, streams' = streams, sent' = sent, ended' = ended,
           acc' = acc, todo' = todo, out' = out, Moves
    PROVE  StreamInv'
<1>1. /\ route' = route /\ streams' = streams /\ sent' = sent /\ ended' = ended /\ acc' = acc
      /\ todo' = todo /\ out' = out
  OBVIOUS
<1>2. /\ StreamTypes /\ WireFollows /\ WireStands /\ BlocksCount
      /\ AccTells /\ SaidSoFar /\ BeforeFrames
  BY DEF StreamInv
<1>3. Wire' = Wire /\ api' = api /\ Spoken' = Spoken /\ Brought' = Brought /\ events' = events
  BY <1>1 DEF Wire, api, Spoken, Brought, events
<1>4. ToolsAreUsed' = ToolsAreUsed /\ BlocksBegun' = BlocksBegun
  BY <1>1, <1>3 DEF ToolsAreUsed, BlocksBegun
<1>5. StreamTypes'
  BY <1>1, <1>2 DEF StreamTypes, Moves
<1>6. WireFollows' /\ WireStands'
  <2>1. /\ pc' \in {"body", "posted"} => pc \in {"body", "posted"}
        /\ pc' = "frames" => pc = "frames"
        /\ pc' = "end" => pc = "end" \/ Unended(ended) \/ ~streams
        /\ pc' # "end" => pc # "end"
    BY <1>2 DEF WireStands, Moves
  <2>2. (~streams \/ pc \in {"body", "posted"} => Wire = <<>>) /\ Follows(api, Wire)
    BY <1>2 DEF WireFollows
  <2>3. WireFollows'
    BY <1>1, <1>3, <2>1, <2>2 DEF WireFollows
  <2>4. /\ pc = "frames" /\ streams => OpenWire(api, Wire, acc.role)
        /\ pc = "end" /\ streams /\ ~Unended(ended) /\ api # "messages" =>
             Wire # <<>> /\ Wire[Len(Wire)].e = "done"
        /\ pc # "end" => Unended(ended) \/ ~streams
        /\ pc \in {"body", "posted"} => Unended(ended)
    BY <1>2 DEF WireStands
  <2>5. WireStands'
    BY <1>1, <1>3, <2>1, <2>4 DEF WireStands
  <2> QED BY <2>3, <2>5
<1>7. BlocksCount'
  BY <1>2, <1>3, <1>4 DEF BlocksCount
<1>8. AccTells'
  BY <1>1, <1>2, <1>3 DEF AccTells
<1>9. pc \in {"body", "posted"} => Unended(ended)
  BY <1>2 DEF WireStands
<1>10. SaidSoFar'
  <2>1. /\ pc' = "frames" => pc = "frames"
        /\ pc' = "end" => pc = "end" \/ Unended(ended) \/ ~streams
    BY <1>9 DEF Moves
  <2>2. Unended(ended) => ended # "done"
    BY DEF Unended
  <2> QED BY <1>1, <1>2, <1>3, <1>4, <2>1, <2>2 DEF SaidSoFar
<1>11. BeforeFrames'
  BY <1>1, <1>2 DEF BeforeFrames, StreamTypes, Moves
<1> QED BY <1>5, <1>6, <1>7, <1>8, <1>10, <1>11 DEF StreamInv

(* A step of a request without streaming while its frames come.            *)
LEMMA PlainStep ==
    ASSUME StreamInv, ~streams, route' = route, streams' = streams, acc' = acc,
           todo' = todo, out' = out,
           pc = "frames", pc' = "frames", sent' \in Seq(EveryFrame)
    PROVE  StreamInv'
<1>1. /\ route' = route /\ streams' = streams /\ acc' = acc /\ todo' = todo /\ out' = out /\ ~streams'
  OBVIOUS
<1>2. /\ StreamTypes /\ WireFollows /\ WireStands /\ BlocksCount
  BY DEF StreamInv
<1>3. Wire' = Wire /\ api' = api /\ events' = events /\ BlocksBegun' = BlocksBegun
  BY <1>1 DEF Wire, api, events, BlocksBegun
<1>4. StreamTypes'
  BY <1>1, <1>2 DEF StreamTypes
<1>5. WireFollows' /\ WireStands'
  BY <1>1, <1>2, <1>3 DEF WireFollows, WireStands
<1>6. BlocksCount'
  BY <1>2, <1>3 DEF BlocksCount
<1> QED BY <1>1, <1>4, <1>5, <1>6 DEF StreamInv, AccTells, SaidSoFar, BeforeFrames

(* The engine accepts: a /v1/messages stream opens its message and block.  *)
LEMMA AcceptStep ==
    ASSUME StreamInv, EngineAccepts
    PROVE  StreamInv'
<1>1. /\ route' = route /\ streams' = streams /\ sent' = sent /\ ended' = ended /\ acc' = acc
      /\ out' = out /\ pc = "posted" /\ pc' = "frames"
      /\ todo' = IF streams THEN Opening ELSE <<>>
  BY DEF EngineAccepts, request
<1>2. /\ StreamTypes /\ WireFollows /\ WireStands /\ BlocksCount
      /\ AccTells /\ SaidSoFar /\ BeforeFrames
  BY DEF StreamInv
<1>3. Wire = <<>> /\ sent = <<>> /\ acc = Fresh /\ Unended(ended) /\ out \in Seq(Emitted) /\ todo \in Seq(Emitted)
  BY <1>1, <1>2 DEF WireFollows, WireStands, BeforeFrames, StreamTypes
<1>4. out = <<>>
  BY <1>3, Ends DEF Wire
<1>5. api' = api /\ Spoken' = Spoken /\ Brought' = Brought /\ events' = events
      /\ BlocksBegun' = BlocksBegun
  BY <1>1 DEF api, Spoken, Brought, events, BlocksBegun
<1> DEFINE x == Event("message_start", -1, <<>>)
           y == Event("block_start", 0, <<>>)
           w == <<x, y>>
<1>6. /\ x \in Emitted /\ x.e = "message_start" /\ x.idx = -1 /\ x.data = <<>>
      /\ y \in Emitted /\ y.e = "block_start" /\ y.idx = 0 /\ y.data = <<>>
  <2>1. "message_start" \in Kinds /\ "block_start" \in Kinds
    BY DEF Kinds
  <2> QED BY <2>1, EventIs, DataIs
<1>7. Opening = IF api = "messages" THEN w ELSE <<>>
  BY DEF Opening
<1> HIDE DEF x, y
<1>8. w \in Seq(Emitted) /\ Len(w) = 2 /\ w[1] = x /\ w[2] = y /\ DOMAIN w = {1, 2} /\ w # <<>>
  BY <1>6
<1> HIDE DEF w
<1> DEFINE v == todo'
<1>9. v = (IF streams /\ api = "messages" THEN w ELSE <<>>) /\ v \in Seq(Emitted)
  BY <1>1, <1>7, <1>8
<1>10. Wire' = v
  BY <1>1, <1>4, <1>9, ConcatEmptySeq DEF Wire
<1> HIDE DEF v
<1>11. StreamTypes'
  BY <1>1, <1>2, <1>9 DEF StreamTypes, v
<1>12. Follows(api, v)
  <2>1. CASE streams /\ api = "messages"
    <3>1. MayFollow(w[1], w[2])
      BY <1>6, <1>8 DEF MayFollow
    <3>2. Blocks(w)
      BY <3>1, <1>8 DEF Blocks
    <3> QED BY <2>1, <3>2, <1>6, <1>8, <1>9 DEF Follows
  <2>2. CASE ~(streams /\ api = "messages")
    <3>1. v = <<>>
      BY <2>2, <1>9
    <3> QED BY <3>1 DEF Follows, Blocks, Chunks
  <2> QED BY <2>1, <2>2
<1>13. WireFollows'
  BY <1>1, <1>5, <1>9, <1>10, <1>12 DEF WireFollows
<1>14. acc.role = FALSE
  BY <1>3 DEF Fresh
<1>15. streams => OpenWire(api, v, acc.role)
  <2>1. CASE api = "messages"
    <3> SUFFICES ASSUME streams PROVE OpenWire(api, v, acc.role)
      OBVIOUS
    <3>1. v = w
      BY <2>1, <1>9
    <3>2. /\ Len(v) >= 2 /\ v[Len(v)].e \in {"block_start", "block_delta"} /\ v[Len(v)].idx = 0
          /\ \A n \in DOMAIN v :
               v[n].idx <= 0 /\ v[n].e \in {"message_start", "block_start", "block_delta"}
      BY <3>1, <1>6, <1>8
    <3> QED BY <2>1, <3>2 DEF OpenWire
  <2>2. CASE api # "messages"
    <3>1. v = <<>> /\ DOMAIN v = {}
      BY <2>2, <1>9
    <3> QED BY <2>2, <3>1, <1>14 DEF OpenWire
  <2> QED BY <2>1, <2>2
<1>16. WireStands'
  BY <1>1, <1>3, <1>5, <1>10, <1>15 DEF WireStands
<1>17. BlocksCount'
  BY <1>2, <1>5 DEF BlocksCount
<1>18. AccTells'
  BY <1>1, <1>2, <1>5 DEF AccTells
<1>19. TextIsSaid(v, Spoken)
  <2>1. Spoken = {}
    <3>1. DOMAIN <<>> = {}
      OBVIOUS
    <3>2. DOMAIN sent = {}
      BY <1>3, <3>1, Zenon
    <3> QED BY <3>2 DEF Spoken
  <2>2. Texts(v) = {}
    BY <1>6, <1>8, <1>9 DEF Texts
  <2> QED BY <2>1, <2>2 DEF TextIsSaid
<1>20. SaidSoFar'
  BY <1>1, <1>3, <1>5, <1>10, <1>19 DEF SaidSoFar
<1>21. BeforeFrames'
  BY <1>1 DEF BeforeFrames
<1> QED BY <1>11, <1>13, <1>16, <1>17, <1>18, <1>20, <1>21 DEF StreamInv

-----------------------------------------------------------------------------
(* The step that emits one event.                                          *)

(* The first event about to be emitted is the next on the wire.            *)
LEMMA EmitIs ==
    ASSUME StreamTypes, Emit
    PROVE  /\ Head(todo) \in Emitted /\ out' \in Seq(Emitted) /\ todo' \in Seq(Emitted)
           /\ out' = Append(out, Head(todo)) /\ Wire' = Wire
           /\ Len(out) \in Nat /\ DOMAIN out = 1 .. Len(out)
           /\ Len(out) < Len(Wire) /\ Wire[Len(out) + 1] = Head(todo)
           /\ \A n \in DOMAIN out : Wire[n] = out[n]
           /\ Len(Wire) \in Nat
<1> DEFINE x == Head(todo)
           t == Tail(todo)
<1>1. out \in Seq(Emitted) /\ todo \in Seq(Emitted) /\ todo # <<>>
      /\ out' = Append(out, x) /\ todo' = t
  BY DEF StreamTypes, Emit
<1>2. x \in Emitted /\ t \in Seq(Emitted) /\ todo = <<x>> \o t /\ todo[1] = x /\ Len(todo) > 0
  <2>1. x \in Emitted /\ t \in Seq(Emitted) /\ todo[1] = x /\ Len(todo) # 0
    BY <1>1, HeadTailProperties, EmptySeq
  <2>2. todo = <<x>> \o t
    BY <1>1
  <2>3. Len(todo) \in Nat
    BY <1>1
  <2> QED BY <2>1, <2>2, <2>3
<1> HIDE DEF x, t
<1>3. <<x>> \in Seq(Emitted) /\ Append(out, x) = out \o <<x>> /\ Append(out, x) \in Seq(Emitted)
  BY <1>1, <1>2, OneMore
<1>4. (out \o <<x>>) \o t = out \o (<<x>> \o t)
  BY <1>1, <1>2, <1>3, ConcatAssociative
<1>5. Wire' = Wire
  BY <1>1, <1>2, <1>3, <1>4 DEF Wire
<1>6. /\ Len(Wire) = Len(out) + Len(todo) /\ Len(out) \in Nat /\ Len(todo) \in Nat
      /\ DOMAIN out = 1 .. Len(out) /\ DOMAIN todo = 1 .. Len(todo)
      /\ \A n \in DOMAIN out : Wire[n] = out[n]
      /\ \A n \in DOMAIN todo : Wire[Len(out) + n] = todo[n]
  BY <1>1, JoinedPlaces DEF Wire
<1>7. Wire[Len(out) + 1] = x
  <2>1. 1 \in DOMAIN todo
    BY <1>2, <1>6
  <2> QED BY <2>1, <1>2, <1>6
<1>8. Len(out) < Len(Wire) /\ Len(Wire) \in Nat
  BY <1>2, <1>6
<1> QED BY <1>1, <1>2, <1>3, <1>5, <1>6, <1>7, <1>8 DEF x

(* On /v1/messages: the event emitted may follow the one before it, and    *)
(* only the first begins the message.                                      *)
LEMMA EmitFollows ==
    ASSUME StreamTypes, Blocks(Wire), Wire # <<>> => Wire[1].e = "message_start", Emit
    PROVE  /\ out = <<>> => Head(todo).e = "message_start"
           /\ out # <<>> => Last(out) \in Emitted /\ MayFollow(Last(out), Head(todo))
                            /\ Last(out) = out[Len(out)]
           /\ out # <<>> /\ Last(out).e = "message_start" => Len(out) = 1
<1> DEFINE x == Head(todo)
           L == Len(out)
<1>1. /\ x \in Emitted /\ L \in Nat /\ DOMAIN out = 1 .. L
      /\ L < Len(Wire) /\ Wire[L + 1] = x
      /\ \A n \in DOMAIN out : Wire[n] = out[n]
      /\ Len(Wire) \in Nat
  BY EmitIs
<1>2. (out = <<>> => L = 0) /\ (out # <<>> => L # 0)
  <2>1. out \in Seq(Emitted)
    BY DEF StreamTypes
  <2> QED BY <2>1, EmptySeq
<1>3. Last(out) = out[L]
  BY DEF Last
<1>4. \A n \in 1 .. Len(Wire) - 1 : MayFollow(Wire[n], Wire[n + 1])
  BY DEF Blocks
<1>5. out # <<>> => out[L] \in Emitted
  <2>1. out \in Seq(Emitted)
    BY DEF StreamTypes
  <2>2. out # <<>> => L \in 1 .. L
    BY <1>1, <1>2
  <2> QED BY <2>1, <2>2, ElementOfSeq
<1> HIDE DEF x, L
<1>6. ASSUME out = <<>> PROVE x.e = "message_start"
  <2>1. Wire # <<>>
    BY <1>1, <1>2, <1>6, EmptySeq
  <2> QED BY <2>1, <1>1, <1>2, <1>6
<1>7. ASSUME out # <<>> PROVE MayFollow(out[L], x)
  <2>1. L \in 1 .. Len(Wire) - 1 /\ L \in DOMAIN out
    BY <1>1, <1>2, <1>7
  <2> QED BY <2>1, <1>1, <1>4
<1>8. ASSUME out # <<>>, out[L].e = "message_start" PROVE L = 1
  <2> SUFFICES ASSUME L # 1 PROVE FALSE
    OBVIOUS
  <2>1. L - 1 \in 1 .. Len(Wire) - 1 /\ L \in DOMAIN out /\ L - 1 \in DOMAIN out /\ (L - 1) + 1 = L
    BY <1>1, <1>2, <1>8
  <2>2. MayFollow(out[L - 1], out[L])
    BY <2>1, <1>1, <1>4
  <2> QED BY <2>2, <1>8 DEF MayFollow
<1> QED BY <1>3, <1>5, <1>6, <1>7, <1>8 DEF x, L

(* One event more is one block begun more, or none. *)
LEMMA BegunGrows ==
    ASSUME NEW s \in Seq(Emitted), NEW x \in Emitted
    PROVE  /\ Begun(s) \in Nat
           /\ Begun(Append(s, x)) = IF x.e = "block_start" THEN Begun(s) + 1 ELSE Begun(s)
<1> DEFINE u == Append(s, x)
           L == Len(s)
           S == {n \in DOMAIN s : s[n].e = "block_start"}
           T == {n \in DOMAIN u : u[n].e = "block_start"}
<1>1. /\ L \in Nat /\ DOMAIN s = 1 .. L /\ DOMAIN u = 1 .. L + 1 /\ u[L + 1] = x
      /\ \A n \in DOMAIN s : u[n] = s[n]
  BY OneMore
<1> HIDE DEF u, L
<1>2. L + 1 \notin S
  BY <1>1
<1>3. T = IF x.e = "block_start" THEN S \cup {L + 1} ELSE S
  BY <1>1
<1>4. IsFiniteSet(S) /\ Cardinality(S) \in Nat
  <2>1. IsFiniteSet(1 .. L)
    BY <1>1, FS_Interval
  <2>2. S \subseteq 1 .. L
    BY <1>1
  <2>3. IsFiniteSet(S)
    BY <2>1, <2>2, FS_Subset
  <2> QED BY <2>3, FS_CardinalityType
<1> HIDE DEF S, T
<1>5. Cardinality(S \cup {L + 1}) = Cardinality(S) + 1
  BY <1>2, <1>4, FS_AddElement
<1>6. Cardinality(T) = IF x.e = "block_start" THEN Cardinality(S) + 1 ELSE Cardinality(S)
  BY <1>3, <1>5
<1> QED BY <1>4, <1>6 DEF S, T, u, Begun

(* The blocks begun, counted on through one event. *)
LEMMA EmitCounts ==
    ASSUME StreamTypes, WireFollows, BlocksCount, Emit
    PROVE  BlocksCount'
<1> DEFINE x == Head(todo)
<1>1. /\ out' = Append(out, x) /\ x \in Emitted /\ out \in Seq(Emitted) /\ out' \in Seq(Emitted)
      /\ route' = route
  BY EmitIs DEF StreamTypes, Emit, request
<1>2. CASE api # "messages"
  <2>1. events = <<>> /\ events' = <<>>
    BY <1>1, <1>2 DEF events, api
  <2>2. BlocksBegun' = BlocksBegun /\ events' = events
    BY <2>1 DEF BlocksBegun
  <2> QED BY <2>2 DEF BlocksCount
<1>3. CASE api = "messages"
  <2> DEFINE p == Last(out)
  <2>1. events = out /\ events' = out'
    BY <1>1, <1>3 DEF events, api
  <2>2. Blocks(Wire) /\ (Wire # <<>> => Wire[1].e = "message_start")
    BY <1>3 DEF WireFollows, Follows
  <2>3. /\ out = <<>> => x.e = "message_start"
        /\ out # <<>> => p \in Emitted /\ MayFollow(p, x)
        /\ out # <<>> /\ p.e = "message_start" => Len(out) = 1
    BY <2>2, EmitFollows
  <2>4. /\ BlocksBegun \in Nat
        /\ BlocksBegun' = IF x.e = "block_start" THEN BlocksBegun + 1 ELSE BlocksBegun
    BY <1>1, <2>1, BegunGrows DEF BlocksBegun
  <2>5. Len(out) \in Nat /\ Len(out') = Len(out) + 1 /\ Last(out') = x /\ out' # <<>>
        /\ (out = <<>> <=> Len(out) = 0)
    <3>1. Len(out) \in Nat /\ Len(out') = Len(out) + 1 /\ out'[Len(out) + 1] = x /\ out' # <<>>
      BY <1>1, AppendProperties, LenProperties
    <3>2. out = <<>> <=> Len(out) = 0
      BY <1>1, EmptySeq
    <3> QED BY <3>1, <3>2 DEF Last
  <2>6. /\ Len(out) <= 1 => BlocksBegun = 0
        /\ out # <<>> /\ p.e \in {"block_start", "block_delta", "block_stop"} =>
             BlocksBegun = p.idx + 1 /\ p.idx >= 0
    BY <2>1 DEF BlocksCount
  <2>7. out # <<>> => p.idx \in Int /\ x.idx \in Int
    BY <1>1, <2>3, EmittedIs
  <2> HIDE DEF x, p
  <2>8. /\ Len(out') <= 1 => BlocksBegun' = 0
        /\ x.e \in {"block_start", "block_delta", "block_stop"} =>
             BlocksBegun' = x.idx + 1 /\ x.idx >= 0
    <3>1. CASE out = <<>>
      BY <3>1, <2>3, <2>4, <2>5, <2>6
    <3>2. CASE out # <<>>
      <4>1. ~(Len(out') <= 1)
        BY <3>2, <2>5
      <4>2. CASE x.e = "block_start"
        <5>1. \/ p.e = "message_start" /\ x.idx = 0
              \/ p.e = "block_stop" /\ x.idx = p.idx + 1
          BY <4>2, <3>2, <2>3 DEF MayFollow
        <5>2. BlocksBegun' = BlocksBegun + 1
          BY <4>2, <2>4
        <5>3. CASE p.e = "message_start" /\ x.idx = 0
          <6>1. Len(out) = 1
            BY <5>3, <3>2, <2>3
          <6>2. BlocksBegun = 0
            BY <6>1, <2>6
          <6> QED BY <4>1, <5>2, <5>3, <6>2
        <5>4. CASE p.e = "block_stop" /\ x.idx = p.idx + 1
          <6>1. BlocksBegun = p.idx + 1 /\ p.idx >= 0
            BY <5>4, <3>2, <2>6
          <6> QED BY <4>1, <5>2, <5>4, <6>1, <3>2, <2>7
        <5> QED BY <5>1, <5>3, <5>4
      <4>3. CASE x.e \in {"block_delta", "block_stop"}
        <5>1. p.e \in {"block_start", "block_delta"} /\ x.idx = p.idx
          BY <4>3, <3>2, <2>3 DEF MayFollow
        <5> QED BY <4>1, <4>3, <5>1, <3>2, <2>4, <2>6
      <4> QED BY <4>1, <4>2, <4>3
    <3> QED BY <3>1, <3>2
  <2>9. events' # <<>> /\ Last(events') = x /\ Len(events') = Len(out')
    BY <2>1, <2>5
  <2> QED BY <2>8, <2>9 DEF BlocksCount
<1> QED BY <1>2, <1>3

(* One event is emitted. *)
LEMMA EmitStep ==
    ASSUME StreamInv, Emit
    PROVE  StreamInv'
<1>1. /\ route' = route /\ streams' = streams /\ sent' = sent /\ ended' = ended /\ acc' = acc
      /\ pc' = pc
  BY DEF Emit, request
<1>2. /\ StreamTypes /\ WireFollows /\ WireStands /\ BlocksCount
      /\ AccTells /\ SaidSoFar /\ BeforeFrames
  BY DEF StreamInv
<1>3. Wire' = Wire /\ out' \in Seq(Emitted) /\ todo' \in Seq(Emitted)
  BY <1>2, EmitIs
<1>4. api' = api /\ Spoken' = Spoken /\ Brought' = Brought
  BY <1>1 DEF api, Spoken, Brought
<1>5. ToolsAreUsed' = ToolsAreUsed
  BY <1>1, <1>4 DEF ToolsAreUsed
<1>6. StreamTypes'
  BY <1>1, <1>2, <1>3 DEF StreamTypes
<1>7. WireFollows'
  BY <1>1, <1>2, <1>3, <1>4 DEF WireFollows
<1>8. WireStands'
  BY <1>1, <1>2, <1>3, <1>4 DEF WireStands
<1>9. BlocksCount'
  BY <1>2, EmitCounts
<1>10. AccTells'
  BY <1>1, <1>2, <1>4 DEF AccTells
<1>11. SaidSoFar'
  BY <1>1, <1>2, <1>3, <1>4, <1>5 DEF SaidSoFar
<1>12. BeforeFrames'
  BY <1>1, <1>2 DEF BeforeFrames
<1> QED BY <1>6, <1>7, <1>8, <1>9, <1>10, <1>11, <1>12 DEF StreamInv

-----------------------------------------------------------------------------
(* The steps that read a frame, or find the answer at its end.             *)

(* On an open wire the role matters to a chat only. *)
LEMMA AnyRole ==
    ASSUME NEW way, NEW s, NEW r, NEW q, OpenWire(way, s, r), way = "chat" => (q <=> r)
    PROVE  OpenWire(way, s, q)
BY DEF OpenWire

(* What one frame of a stream adds to the wire. *)
Grown(f, a, w) ==
  /\ w \in Seq(Emitted) /\ Follows(api, w)
  /\ \/ OpenWire(api, w, a.role) /\ ~(api = "completion" /\ f.last)
     \/ api = "completion" /\ f.last /\ w # <<>> /\ w[Len(w)].e = "finish"
  /\ TextIsSaid(w, Spoken')

LEMMA FrameGrows ==
    ASSUME StreamInv, NEW f \in Frames, streams, pc = "frames",
           sent' = Append(sent, f), route' = route
    PROVE  /\ Deltas(acc, f, Len(sent) + 1) \in Seq(Emitted)
           /\ Grown(f, Scanned(acc, f, Len(sent) + 1), Wire \o Deltas(acc, f, Len(sent) + 1))
<1> DEFINE k == Len(sent) + 1
           d == Deltas(acc, f, k)
           a == Scanned(acc, f, k)
           w == Wire \o d
<1>1. /\ StreamTypes /\ AccTells /\ Follows(api, Wire) /\ OpenWire(api, Wire, acc.role)
      /\ TextIsSaid(Wire, Spoken)
  BY DEF StreamInv, WireFollows, WireStands, SaidSoFar
<1>2. acc.role \in BOOLEAN /\ Wire \in Seq(Emitted)
  <2>1. acc.role \in BOOLEAN
    BY <1>1 DEF StreamTypes, Accumulators
  <2>2. out \in Seq(Emitted) /\ todo \in Seq(Emitted)
    BY <1>1 DEF StreamTypes
  <2> QED BY <2>1, <2>2, JoinedPlaces DEF Wire
<1>3. /\ f \in EveryFrame /\ f.text \in BOOLEAN /\ f.last \in BOOLEAN
  <2>1. f \in EveryFrame
    BY <1>1, FrameIs
  <2> QED BY <2>1, FrameFields
<1>4. /\ Len(sent) \in Nat /\ k \in Nat
      /\ Spoken' = IF f.text /\ ~(api = "completion" /\ f.last) THEN Spoken \cup {k} ELSE Spoken
  <2>1. FrameAdds(f) /\ Len(sent) \in Nat
    BY <1>1, <1>3, FrameBrings
  <2> QED BY <2>1 DEF FrameAdds
<1>5. Spoken \in SUBSET Nat /\ \A i \in Spoken : i < k
  <2>1. Spoken \subseteq 1 .. Len(sent)
    BY <1>1, BroughtIs
  <2> QED BY <2>1, <1>4
<1>6. route[1] = "ollama" => (a.role <=> acc.role \/ f.text)
  BY <1>1, ScannedIs
<1>7. /\ (route[1] = "proxy" /\ api = "messages") \/ route[1] = "ollama"
      /\ api \in {"messages", "chat", "completion"}
  BY <1>1, Ways
<1>8. /\ api = "messages" /\ f.text => \E x : d = <<x>> /\ Is(x, "block_delta", <<k>>)
      /\ api = "chat" /\ f.text =>
           \E x : d = <<x>> /\ Is(x, IF acc.role THEN "chunk" ELSE "role_chunk", <<k>>)
      /\ api \in {"messages", "chat"} /\ ~f.text => d = <<>>
      /\ api = "completion" /\ f.last => \E x : d = <<x>> /\ Is(x, "finish", <<"stop">>)
      /\ api = "completion" /\ ~f.last =>
           \/ ~f.text /\ d = <<>>
           \/ \E x : d = <<x>> /\ Is(x, "chunk", IF f.text THEN <<k>> ELSE <<>>)
  BY <1>1, <1>4, DeltasAre
<1> HIDE DEF k, d, a
<1>9. CASE d = <<>>
  <2>1. ~f.text /\ ~(api = "completion" /\ f.last)
    <3>1. \A x : d # <<x>>
      BY <1>9
    <3> QED BY <3>1, <1>3, <1>7, <1>8
  <2>2. w = Wire /\ d \in Seq(Emitted)
    BY <1>2, <1>9, ConcatEmptySeq
  <2>3. Spoken' = Spoken
    BY <2>1, <1>4
  <2>4. api = "chat" => (a.role <=> acc.role)
    BY <2>1, <1>6, <1>7
  <2>5. OpenWire(api, Wire, a.role)
    BY <2>4, <1>1, AnyRole
  <2> QED BY <2>1, <2>2, <2>3, <2>5, <1>1, <1>2 DEF Grown, k, d, a
<1>10. CASE d # <<>>
  <2>1. PICK x : /\ d = <<x>>
                 /\ \/ api = "messages" /\ f.text /\ Is(x, "block_delta", <<k>>)
                    \/ api = "chat" /\ f.text
                       /\ Is(x, IF acc.role THEN "chunk" ELSE "role_chunk", <<k>>)
                    \/ api = "completion" /\ f.last /\ Is(x, "finish", <<"stop">>)
                    \/ api = "completion" /\ ~f.last
                       /\ Is(x, "chunk", IF f.text THEN <<k>> ELSE <<>>)
    BY <1>3, <1>7, <1>8, <1>10
  <2>2. x \in Emitted /\ x.idx = 0
    BY <2>1 DEF Is
  <2>3. d \in Seq(Emitted) /\ w = Wire \o <<x>> /\ w \in Seq(Emitted)
    <3>1. <<x>> \in Seq(Emitted)
      BY <2>2, Alone
    <3> QED BY <3>1, <2>1, <1>2, JoinedPlaces
  <2>4. /\ api = "messages" => x.e = "block_delta"
        /\ api = "chat" => x.e = IF acc.role THEN "chunk" ELSE "role_chunk"
        /\ api = "completion" => x.e \in {"chunk", "finish"}
        /\ api = "completion" /\ f.last => x.e = "finish"
        /\ api = "completion" /\ ~f.last => x.e = "chunk"
        /\ api \in {"messages", "chat"} => f.text
    BY <2>1 DEF Is
  <2>5. /\ Follows(api, w)
        /\ api = "chat" => OpenWire(api, w, TRUE)
        /\ api = "messages" \/ x.e = "chunk" => OpenWire(api, w, TRUE)
    BY <1>1, <1>2, <1>7, <2>2, <2>3, <2>4, OpenGrows
  <2>6. api = "chat" => a.role
    BY <1>6, <1>7, <2>4
  <2>7. ~(api = "completion" /\ f.last) => OpenWire(api, w, a.role)
    <3>1. ~(api = "completion" /\ f.last) => OpenWire(api, w, TRUE)
      BY <2>4, <2>5, <1>3, <1>7
    <3>2. api = "chat" => (a.role <=> TRUE)
      BY <2>6
    <3> HIDE DEF w
    <3> QED BY <3>1, <3>2, AnyRole
  <2>8. w # <<>> /\ w[Len(w)] = x
    <3>1. <<x>> \in Seq(Emitted) /\ <<x>> # <<>> /\ <<x>>[1] = x /\ Len(<<x>>) = 1
      BY <2>2, Alone
    <3>2. (Wire \o <<x>>)[Len(Wire \o <<x>>)] = <<x>>[Len(<<x>>)] /\ Wire \o <<x>> # <<>>
      BY <3>1, <1>2, Ends
    <3> QED BY <3>1, <3>2, <2>3
  <2>9. TextIsSaid(w, Spoken')
    <3>1. CASE f.text /\ ~(api = "completion" /\ f.last)
      <4>1. IsText(x) /\ x.data = <<k>>
        <5>1. <<k>> # <<>>
          OBVIOUS
        <5>2. x.data = <<k>> /\ x.e \in {"block_delta", "chunk", "role_chunk"}
          BY <2>1, <3>1 DEF Is
        <5> QED BY <5>1, <5>2, <2>2 DEF IsText
      <4>2. TextIsSaid(Wire \o <<x>>, Spoken \cup {k})
        BY <4>1, <1>1, <1>2, <1>4, <1>5, <2>2, TextGrows
      <4> QED BY <4>2, <2>3, <3>1, <1>4
    <3>2. CASE ~(f.text /\ ~(api = "completion" /\ f.last))
      <4>1. ~IsText(x)
        BY <2>1, <3>2, <1>3 DEF Is, IsText
      <4>2. <<x>> \in Seq(Emitted) /\ DOMAIN <<x>> = {1} /\ <<x>>[1] = x
        BY <2>2, Alone
      <4>3. \A n \in DOMAIN <<x>> : ~IsText(<<x>>[n])
        BY <4>1, <4>2
      <4>4. TextIsSaid(Wire \o <<x>>, Spoken)
        BY <4>2, <4>3, <1>1, <1>2, TextStays
      <4> QED BY <4>4, <2>3, <3>2, <1>4
    <3> QED BY <3>1, <3>2
  <2> HIDE DEF w
  <2>10. Grown(f, a, w)
    BY <2>3, <2>5, <2>4, <2>7, <2>8, <2>9 DEF Grown
  <2> QED BY <2>3, <2>10 DEF w, k, d, a
<1> QED BY <1>9, <1>10

(* A stream that is over has told all, if it ended with its last frame.    *)
LEMMA OverIs ==
    ASSUME StreamTypes', WireFollows', BlocksCount', AccTells', ~Unended(ended'), pc' = "end",
           api' # "messages" => Wire' # <<>> /\ Wire'[Len(Wire')].e = "done",
           ended' = "done" =>
             /\ TextIsSaid(Wire', Spoken')
             /\ api' = "messages" => CallsAreSaid(Wire', Brought')
                                     /\ (ToolUseIsSaid(Wire') <=> ToolsAreUsed')
             /\ api' = "chat" => ListIsSaid(Wire', Brought')
    PROVE  StreamInv'
<1>1. WireStands'
  BY DEF WireStands
<1>2. SaidSoFar'
  BY DEF SaidSoFar
<1>3. BeforeFrames'
  BY DEF BeforeFrames
<1> QED BY <1>1, <1>2, <1>3 DEF StreamInv

(* The end put on the wire w of a stream whose accumulators are a. *)
Closed(w, a, how) ==
  LET u == w \o Close(a, how)
  IN  /\ Close(a, how) \in Seq(Emitted) /\ u \in Seq(Emitted) /\ Follows(api, u)
      /\ api # "messages" => u # <<>> /\ u[Len(u)].e = "done"
      /\ how = "done" =>
           /\ TextIsSaid(u, Spoken')
           /\ api = "messages" => CallsAreSaid(u, Brought')
                /\ (ToolUseIsSaid(u) <=> (a.stop = "tool_use" \/ \E i \in Calls : Brought'[i] # {}))
           /\ api = "chat" => ListIsSaid(u, Brought')

LEMMA ClosedIs ==
    ASSUME StreamTypes, NEW w \in Seq(Emitted), NEW a \in Accumulators, NEW how,
           how \in {"done", "eof", "broken"},
           Follows(api, w), Told(a.tools, Brought'), route[1] = "ollama" => a.stop # "tool_use",
           \/ OpenWire(api, w, a.role)
           \/ api = "completion" /\ w # <<>> /\ w[Len(w)].e = "finish",
           TextIsSaid(w, Spoken')
    PROVE  Closed(w, a, how)
<1> DEFINE B == Brought'
           c == Close(a, how)
           u == w \o c
<1>1. Apart(B)
  <2> SUFFICES ASSUME NEW i \in Calls, NEW j \in Calls, Brought'[i] \cap Brought'[j] # {}
               PROVE  i = j
    BY DEF Apart
  <2>1. Brought'[i] = {k \in DOMAIN sent' : sent'[k].call = i}
        /\ Brought'[j] = {k \in DOMAIN sent' : sent'[k].call = j}
    BY DEF Brought
  <2> QED BY <2>1
<1>2. Told(a.tools, B)
  OBVIOUS
<1> HIDE DEF B
<1>3. Ends0(w, c, a, how, B)
  BY <1>1, <1>2, CloseIs
<1> HIDE DEF c
<1>4. /\ c \in Seq(Emitted) /\ c # <<>> /\ Follows(api, u)
      /\ \A n \in DOMAIN c : ~IsText(c[n])
      /\ api # "messages" => c[Len(c)].e = "done"
      /\ how = "done" /\ api = "messages" =>
           /\ CallsAreSaid(u, B)
           /\ ToolUseIsSaid(u) <=> (a.stop = "tool_use" \/ \E i \in Calls : B[i] # {})
      /\ how = "done" /\ api = "chat" => ListIsSaid(u, B)
  BY <1>3 DEF Ends0
<1>5. u # <<>> /\ u[Len(u)] = c[Len(c)]
  BY <1>4, Ends
<1>6. u \in Seq(Emitted)
  BY <1>4, JoinedPlaces
<1>7. TextIsSaid(u, Spoken')
  BY <1>4, TextStays
<1> HIDE DEF u
<1>8. api # "messages" => u # <<>> /\ u[Len(u)].e = "done"
  BY <1>4, <1>5
<1>9. how = "done" /\ api = "messages" =>
        CallsAreSaid(u, B) /\ (ToolUseIsSaid(u) <=> (a.stop = "tool_use" \/ \E i \in Calls : B[i] # {}))
  BY <1>4
<1> QED BY <1>4, <1>6, <1>7, <1>8, <1>9, Zenon DEF Closed, u, c, B

(* A frame is read. *)
LEMMA FrameStep ==
    ASSUME StreamInv, NEW f \in Frames, Frame(f)
    PROVE  StreamInv'
<1> DEFINE k == Len(sent) + 1
           d == Deltas(acc, f, k)
           a == Scanned(acc, f, k)
           c == Close(a, "done")
           w == Wire \o d
<1>1. /\ pc = "frames" /\ todo = <<>> /\ sent' = Append(sent, f)
      /\ route' = route /\ streams' = streams /\ out' = out
      /\ streams => acc' = a /\ todo' = d \o (IF f.last THEN c ELSE <<>>)
                    /\ pc' = IF f.last THEN "end" ELSE pc
      /\ ~streams => acc' = acc /\ todo' = todo /\ pc' = pc
  BY DEF Frame, request
<1>2. /\ StreamTypes /\ WireFollows /\ WireStands /\ BlocksCount /\ AccTells
  BY DEF StreamInv
<1>3. f \in EveryFrame /\ f.last \in BOOLEAN
  BY <1>2, FrameIs, FrameFields
<1>4. sent' \in Seq(EveryFrame)
  BY <1>1, <1>2, <1>3, OneMore DEF StreamTypes
<1>5. CASE ~streams
  BY <1>1, <1>4, <1>5, PlainStep
<1>6. CASE streams
  <2>1. /\ acc' = a /\ todo' = d \o (IF f.last THEN c ELSE <<>>)
        /\ pc' = IF f.last THEN "end" ELSE pc
    BY <1>1, <1>6
  <2>2. ended' = (IF f.last THEN "done" ELSE "") /\ Unended(ended)
    BY <1>2 DEF Frame, Unended
  <2>3. d \in Seq(Emitted) /\ Grown(f, a, w)
    BY <1>1, <1>6, FrameGrows
  <2>4. /\ a \in Accumulators
        /\ \A i \in Calls : Ascends(a.tools[i], Brought'[i])
        /\ a.stop = "tool_use" <=> \E i \in DOMAIN sent' : sent'[i].fin = "tool_calls"
        /\ route[1] = "ollama" => Unfinished(sent')
    BY <1>1, <1>2, <1>6, ScannedIs
  <2> HIDE DEF k, d, a, c
  <2>5. api' = api /\ events' = events /\ BlocksBegun' = BlocksBegun
    BY <1>1 DEF api, events, BlocksBegun
  <2>6. BlocksCount'
    BY <1>2, <2>5 DEF BlocksCount
  <2>7. AccTells'
    BY <1>1, <2>1, <2>4 DEF AccTells
  <2>8. out \in Seq(Emitted) /\ Wire = out
    BY <1>1, <1>2, ConcatEmptySeq DEF StreamTypes, Wire
  <2>9. /\ w \in Seq(Emitted) /\ Follows(api, w)
        /\ \/ OpenWire(api, w, a.role) /\ ~(api = "completion" /\ f.last)
           \/ api = "completion" /\ f.last /\ w # <<>> /\ w[Len(w)].e = "finish"
        /\ TextIsSaid(w, Spoken')
    BY <2>3 DEF Grown
  <2>10. CASE ~f.last
    <3>1. todo' = d /\ Wire' = w /\ pc' = "frames" /\ ended' = ""
      BY <1>1, <2>1, <2>2, <2>3, <2>8, <2>10, ConcatEmptySeq DEF Wire
    <3> HIDE DEF w
    <3>2. StreamTypes'
      BY <1>1, <1>2, <1>4, <2>1, <2>3, <2>4, <3>1 DEF StreamTypes
    <3>3. Unended(ended')
      BY <3>1 DEF Unended
    <3>4. OpenWire(api, w, a.role)
      BY <2>9, <2>10
    <3>5. WireFollows'
      BY <1>1, <1>6, <2>5, <2>9, <3>1 DEF WireFollows
    <3>6. WireStands'
      BY <1>1, <1>6, <2>1, <2>5, <3>1, <3>3, <3>4 DEF WireStands
    <3>7. SaidSoFar'
      BY <2>9, <3>1 DEF SaidSoFar
    <3>8. BeforeFrames'
      BY <3>1 DEF BeforeFrames
    <3> QED BY <2>6, <2>7, <3>2, <3>5, <3>6, <3>7, <3>8 DEF StreamInv
  <2>11. CASE f.last
    <3>1. Told(a.tools, Brought') /\ (route[1] = "ollama" => a.stop # "tool_use")
      <4>1. Unfinished(sent') => ~\E i \in DOMAIN sent' : sent'[i].fin = "tool_calls"
        BY DEF Unfinished
      <4> QED BY <2>4, <4>1 DEF Told
    <3>2. Closed(w, a, "done")
      <4> HIDE DEF w
      <4> QED BY <1>2, <2>4, <2>9, <3>1, ClosedIs
    <3>3. c \in Seq(Emitted) /\ todo' = d \o c /\ todo' \in Seq(Emitted) /\ pc' = "end"
          /\ ended' = "done"
      <4>1. c \in Seq(Emitted)
        BY <3>2 DEF Closed, c
      <4> QED BY <4>1, <2>1, <2>2, <2>3, <2>11, JoinedPlaces
    <3>4. Wire' = w \o c
      <4>1. w = out \o d
        BY <2>8
      <4>2. Wire' = out \o (d \o c)
        BY <1>1, <3>3 DEF Wire
      <4>3. (out \o d) \o c = out \o (d \o c)
        BY <2>3, <2>8, <3>3, ConcatAssociative
      <4> QED BY <4>1, <4>2, <4>3
    <3>5. StreamTypes'
      BY <1>1, <1>2, <1>4, <2>1, <2>4, <3>3 DEF StreamTypes
    <3> DEFINE u == w \o c
    <3>6. /\ u \in Seq(Emitted) /\ Follows(api, u)
          /\ api # "messages" => u # <<>> /\ u[Len(u)].e = "done"
          /\ TextIsSaid(u, Spoken')
          /\ api = "messages" => CallsAreSaid(u, Brought')
               /\ (ToolUseIsSaid(u) <=> (a.stop = "tool_use" \/ \E i \in Calls : Brought'[i] # {}))
          /\ api = "chat" => ListIsSaid(u, Brought')
      BY <3>2 DEF Closed, c
    <3>7. Wire' = u
      BY <3>4
    <3> HIDE DEF u, w
    <3>8. ToolsAreUsed' <=> (a.stop = "tool_use" \/ \E i \in Calls : Brought'[i] # {})
      BY <2>4 DEF ToolsAreUsed
    <3>9. WireFollows'
      BY <1>1, <1>6, <2>5, <3>3, <3>6, <3>7 DEF WireFollows
    <3>10. ~Unended(ended')
      BY <3>3 DEF Unended
    <3>11. api' # "messages" => Wire' # <<>> /\ Wire'[Len(Wire')].e = "done"
      BY <2>5, <3>6, <3>7
    <3>12. /\ TextIsSaid(Wire', Spoken')
           /\ api' = "messages" => CallsAreSaid(Wire', Brought')
                                   /\ (ToolUseIsSaid(Wire') <=> ToolsAreUsed')
           /\ api' = "chat" => ListIsSaid(Wire', Brought')
      BY <2>5, <3>6, <3>7, <3>8
    <3> QED BY <2>6, <2>7, <3>3, <3>5, <3>9, <3>10, <3>11, <3>12, OverIs
  <2> QED BY <2>10, <2>11
<1> QED BY <1>5, <1>6

(* The answer ends without its last frame. *)
LEMMA CutStep ==
    ASSUME StreamInv, NEW how \in {"eof", "broken"}, Cut(how)
    PROVE  StreamInv'
<1> DEFINE c == Close(acc, how)
<1>1. /\ pc = "frames" /\ todo = <<>> /\ sent' = sent /\ ended' = how /\ acc' = acc
      /\ route' = route /\ streams' = streams /\ out' = out
      /\ streams => todo' = c /\ pc' = "end"
      /\ ~streams => todo' = todo /\ pc' = pc
  BY DEF Cut, request
<1>2. /\ StreamTypes /\ WireFollows /\ WireStands /\ BlocksCount /\ AccTells /\ SaidSoFar
  BY DEF StreamInv
<1>3. CASE ~streams
  <2>1. sent' \in Seq(EveryFrame)
    BY <1>1, <1>2 DEF StreamTypes
  <2> QED BY <1>1, <1>3, <2>1, PlainStep
<1>4. CASE streams
  <2>1. api' = api /\ events' = events /\ BlocksBegun' = BlocksBegun
        /\ Spoken' = Spoken /\ Brought' = Brought
    BY <1>1 DEF api, events, BlocksBegun, Spoken, Brought
  <2>2. BlocksCount'
    BY <1>2, <2>1 DEF BlocksCount
  <2>3. AccTells'
    BY <1>1, <1>2, <2>1 DEF AccTells
  <2>4. out \in Seq(Emitted) /\ Wire = out
    BY <1>1, <1>2, ConcatEmptySeq DEF StreamTypes, Wire
  <2>5. Follows(api, Wire) /\ OpenWire(api, Wire, acc.role) /\ TextIsSaid(Wire, Spoken)
    BY <1>1, <1>2, <1>4 DEF WireFollows, WireStands, SaidSoFar
  <2>6. acc \in Accumulators /\ Told(acc.tools, Brought')
        /\ (route[1] = "ollama" => acc.stop # "tool_use")
    <3>1. Unfinished(sent) => ~\E i \in DOMAIN sent : sent[i].fin = "tool_calls"
      BY DEF Unfinished
    <3> QED BY <1>2, <1>4, <2>1, <3>1 DEF AccTells, Told, StreamTypes
  <2>7. Closed(Wire, acc, how)
    <3>1. how \in {"done", "eof", "broken"} /\ Wire \in Seq(Emitted)
      BY <2>4
    <3> QED BY <3>1, <1>2, <2>1, <2>5, <2>6, ClosedIs
  <2>8. /\ c \in Seq(Emitted) /\ todo' = c /\ pc' = "end"
        /\ Follows(api, Wire \o c)
        /\ api # "messages" => Wire \o c # <<>> /\ (Wire \o c)[Len(Wire \o c)].e = "done"
    BY <1>1, <1>4, <2>7 DEF Closed
  <2> HIDE DEF c
  <2> DEFINE u == Wire \o c
  <2>9. Wire' = u /\ Follows(api, u) /\ (api # "messages" => u # <<>> /\ u[Len(u)].e = "done")
    BY <1>1, <2>4, <2>8 DEF Wire
  <2> HIDE DEF u
  <2>10. StreamTypes'
    BY <1>1, <1>2, <2>4, <2>8 DEF StreamTypes
  <2>11. WireFollows'
    BY <1>1, <1>4, <2>1, <2>8, <2>9 DEF WireFollows
  <2>12. ~Unended(ended') /\ ended' # "done"
    BY <1>1 DEF Unended
  <2>13. api' # "messages" => Wire' # <<>> /\ Wire'[Len(Wire')].e = "done"
    BY <2>1, <2>9
  <2> QED BY <2>2, <2>3, <2>8, <2>10, <2>11, <2>12, <2>13, OverIs
<1> QED BY <1>3, <1>4

(* The invariant of a request on its way. *)
THEOREM StreamInvHolds == StreamSpec => []StreamInv
<1>1. StreamInit => StreamInv
  BY StreamStarts
<1>2. StreamInv /\ [StreamNext]_streamVars => StreamInv'
  <2> SUFFICES ASSUME StreamInv, [StreamNext]_streamVars PROVE StreamInv'
    OBVIOUS
  <2>1. CASE Refuse
    <3>1. Moves /\ route' = route /\ streams' = streams /\ sent' = sent /\ ended' = ended
          /\ acc' = acc /\ todo' = todo /\ out' = out
      BY <2>1 DEF Refuse, Reply, request, Moves
    <3> QED BY <3>1, StillStep
  <2>2. CASE Post
    <3>1. Moves /\ route' = route /\ streams' = streams /\ sent' = sent /\ ended' = ended
          /\ acc' = acc /\ todo' = todo /\ out' = out
      BY <2>2 DEF Post, request, Moves
    <3> QED BY <3>1, StillStep
  <2>3. CASE EngineAccepts
    BY <2>3, AcceptStep
  <2>4. CASE Emit
    BY <2>4, EmitStep
  <2>5. CASE Collect
    <3>1. Moves /\ route' = route /\ streams' = streams /\ sent' = sent /\ ended' = ended
          /\ acc' = acc /\ todo' = todo /\ out' = out
      BY <2>5 DEF Collect, Reply, request, Moves
    <3> QED BY <3>1, StillStep
  <2>6. ASSUME NEW status \in {0, 400, 500}, Retry(status) PROVE StreamInv'
    <3>1. Moves /\ route' = route /\ streams' = streams /\ sent' = sent /\ ended' = ended
          /\ acc' = acc /\ todo' = todo /\ out' = out
      BY <2>6 DEF Retry, Moves
    <3> QED BY <3>1, StillStep
  <2>7. ASSUME NEW status \in {0, 400, 500}, Unreachable(status) PROVE StreamInv'
    <3>1. Moves /\ route' = route /\ streams' = streams /\ sent' = sent /\ ended' = ended
          /\ acc' = acc /\ todo' = todo /\ out' = out
      BY <2>7 DEF Unreachable, Reply, request, Moves
    <3> QED BY <3>1, StillStep
  <2>8. ASSUME NEW f \in Frames, Frame(f) PROVE StreamInv'
    BY <2>8, FrameStep
  <2>9. ASSUME NEW how \in {"eof", "broken"}, Cut(how) PROVE StreamInv'
    BY <2>9, CutStep
  <2>10. CASE UNCHANGED streamVars
    <3>1. Moves /\ route' = route /\ streams' = streams /\ sent' = sent /\ ended' = ended
          /\ acc' = acc /\ todo' = todo /\ out' = out
      BY <2>10 DEF streamVars, request, Moves
    <3> QED BY <3>1, StillStep
  <2> QED BY <2>1, <2>2, <2>3, <2>4, <2>5, <2>6, <2>7, <2>8, <2>9, <2>10 DEF StreamNext
<1> QED BY <1>1, <1>2, PTL DEF StreamSpec

-----------------------------------------------------------------------------
(* What follows from the invariant.                                        *)

(* What was emitted is the wire's beginning, and all of it at the end.     *)
LEMMA OutIs ==
    ASSUME StreamTypes
    PROVE  /\ out \in Seq(Emitted) /\ Wire \in Seq(Emitted)
           /\ Len(out) \in Nat /\ Len(Wire) \in Nat /\ Len(out) <= Len(Wire)
           /\ DOMAIN out = 1 .. Len(out) /\ DOMAIN Wire = 1 .. Len(Wire)
           /\ \A n \in DOMAIN out : n \in DOMAIN Wire /\ Wire[n] = out[n]
           /\ todo = <<>> => Wire = out
<1>1. out \in Seq(Emitted) /\ todo \in Seq(Emitted)
  BY DEF StreamTypes
<1>2. /\ Wire \in Seq(Emitted) /\ Len(Wire) = Len(out) + Len(todo)
      /\ DOMAIN Wire = 1 .. Len(out) + Len(todo) /\ DOMAIN out = 1 .. Len(out)
      /\ Len(out) \in Nat /\ Len(todo) \in Nat
      /\ \A n \in DOMAIN out : n \in DOMAIN Wire /\ Wire[n] = out[n]
  BY <1>1, JoinedPlaces DEF Wire
<1>3. todo = <<>> => Wire = out
  BY <1>1, ConcatEmptySeq DEF Wire
<1> QED BY <1>1, <1>2, <1>3

(* An OpenAI stream of which each event may follow the one before. *)
LEMMA ChunksTell ==
    ASSUME NEW s \in Seq(Emitted), Chunks(s)
    PROVE  /\ \A n \in DOMAIN s : s[n].e \in {"role_chunk", "role_calls"} => n = 1
           /\ \A n \in DOMAIN s : s[n].e = "done" => n = Len(s)
           /\ \A n \in DOMAIN s : s[n].e = "finish" => \A m \in n + 1 .. Len(s) : s[m].e = "done"
<1> DEFINE L == Len(s)
<1>1. L \in Nat /\ DOMAIN s = 1 .. L
  BY LenProperties
<1>2. \A n \in 1 .. L - 1 : MayFollowChunk(s[n], s[n + 1])
  BY DEF Chunks
<1> HIDE DEF L
<1>3. ASSUME NEW n \in DOMAIN s, s[n].e \in {"role_chunk", "role_calls"} PROVE n = 1
  <2> SUFFICES ASSUME n # 1 PROVE FALSE
    OBVIOUS
  <2>1. n - 1 \in 1 .. L - 1 /\ (n - 1) + 1 = n
    BY <1>1
  <2>2. MayFollowChunk(s[n - 1], s[n])
    BY <1>2, <2>1
  <2> QED BY <2>2, <1>3 DEF MayFollowChunk
<1>4. ASSUME NEW n \in DOMAIN s, s[n].e = "done" PROVE n = L
  <2> SUFFICES ASSUME n # L PROVE FALSE
    OBVIOUS
  <2>1. n \in 1 .. L - 1
    BY <1>1
  <2>2. MayFollowChunk(s[n], s[n + 1])
    BY <1>2, <2>1
  <2> QED BY <2>2, <1>4 DEF MayFollowChunk
<1>5. ASSUME NEW n \in DOMAIN s, s[n].e = "finish", NEW m \in n + 1 .. L PROVE s[m].e = "done"
  <2>1. n \in 1 .. L - 1 /\ n + 1 \in DOMAIN s
    BY <1>1
  <2>2. MayFollowChunk(s[n], s[n + 1])
    BY <1>2, <2>1
  <2>3. s[n + 1].e = "done"
    BY <2>2, <1>5 DEF MayFollowChunk
  <2>4. n + 1 = L
    BY <2>1, <2>3, <1>4
  <2>5. m = n + 1
    BY <2>4, <1>1
  <2> QED BY <2>3, <2>5
<1> QED BY <1>3, <1>4, <1>5 DEF L

(* ChatStreamShape holds of every request. *)
LEMMA ShapeHolds ==
    ASSUME StreamInv
    PROVE  ChatStreamShape
<1>1. StreamTypes /\ Follows(api, Wire) /\ WireStands
  BY DEF StreamInv, WireFollows
<1>2. /\ out \in Seq(Emitted) /\ Wire \in Seq(Emitted)
      /\ Len(out) \in Nat /\ Len(Wire) \in Nat /\ Len(out) <= Len(Wire)
      /\ DOMAIN out = 1 .. Len(out) /\ DOMAIN Wire = 1 .. Len(Wire)
      /\ \A n \in DOMAIN out : n \in DOMAIN Wire /\ Wire[n] = out[n]
      /\ todo = <<>> => Wire = out
  BY <1>1, OutIs
<1> SUFFICES ASSUME api # "messages"
             PROVE  /\ \A n \in DOMAIN out : out[n].e \in {"role_chunk", "role_calls"} => n = 1
                    /\ \A n \in DOMAIN out : out[n].e = "finish" =>
                         \A m \in n + 1 .. Len(out) : out[m].e = "done"
                    /\ \A n \in DOMAIN out : out[n].e = "done" => n = Len(out)
                    /\ api = "chat" /\ out # <<>> => out[1].e \notin {"chunk", "calls"}
                    /\ Finished /\ streams /\ ~Unended(ended) => out # <<>> /\ Last(out).e = "done"
  BY DEF ChatStreamShape, Unended
<1>3. Chunks(Wire)
  BY <1>1, Ways DEF Follows
<1> DEFINE w == Wire
<1>4. /\ \A n \in DOMAIN w : w[n].e \in {"role_chunk", "role_calls"} => n = 1
      /\ \A n \in DOMAIN w : w[n].e = "done" => n = Len(w)
      /\ \A n \in DOMAIN w : w[n].e = "finish" => \A m \in n + 1 .. Len(w) : w[m].e = "done"
  BY <1>2, <1>3, ChunksTell
<1>5. /\ Len(w) \in Nat /\ Len(out) <= Len(w) /\ DOMAIN w = 1 .. Len(w)
      /\ \A n \in DOMAIN out : n \in DOMAIN w /\ w[n] = out[n]
  BY <1>2
<1> HIDE DEF w
<1>6. \A n \in DOMAIN out : out[n].e \in {"role_chunk", "role_calls"} => n = 1
  BY <1>4, <1>5
<1>7. \A n \in DOMAIN out : out[n].e = "done" => n = Len(out)
  BY <1>2, <1>4, <1>5
<1>8. ASSUME NEW n \in DOMAIN out, out[n].e = "finish", NEW m \in n + 1 .. Len(out)
      PROVE  out[m].e = "done"
  <2>1. m \in DOMAIN out /\ m \in n + 1 .. Len(w) /\ w[n].e = "finish" /\ n \in DOMAIN w
    BY <1>2, <1>5, <1>8
  <2> QED BY <2>1, <1>4, <1>5
<1>9. ASSUME api = "chat", out # <<>> PROVE out[1].e \notin {"chunk", "calls"}
  <2>1. 1 \in DOMAIN out
    <3>1. Len(out) # 0
      BY <1>2, <1>9, EmptySeq
    <3> QED BY <3>1, <1>2
  <2>2. w[1] = out[1] /\ w # <<>>
    <3>1. Len(w) # 0
      BY <2>1, <1>5
    <3> QED BY <3>1, <2>1, <1>5, EmptySeq
  <2>3. w # <<>> => w[1].e \in {"role_chunk", "role_calls", "finish", "done"}
    BY <1>1, <1>9 DEF Follows, w
  <2> QED BY <2>2, <2>3
<1>10. ASSUME Finished, streams, ~Unended(ended) PROVE out # <<>> /\ Last(out).e = "done"
  <2>1. pc = "end" /\ Wire = out
    BY <1>2, <1>10 DEF Finished
  <2>2. Wire # <<>> /\ Wire[Len(Wire)].e = "done"
    BY <1>1, <1>10, <2>1 DEF WireStands
  <2> QED BY <2>1, <2>2 DEF Last
<1> QED BY <1>6, <1>7, <1>8, <1>9, <1>10

(* StreamSaysItAll holds of every request. *)
LEMMA AllIsSaid ==
    ASSUME StreamInv
    PROVE  StreamSaysItAll
<1>1. StreamTypes /\ SaidSoFar
  BY DEF StreamInv
<1> SUFFICES ASSUME Finished, streams, ended = "done"
             PROVE  /\ TextIsSaid(out, Spoken)
                    /\ api = "messages" =>
                         CallsAreSaid(out, Brought) /\ (ToolUseIsSaid(out) <=> ToolsAreUsed)
                    /\ api = "chat" => ListIsSaid(out, Brought)
  BY DEF StreamSaysItAll
<1>2. pc = "end" /\ Wire = out
  BY <1>1, OutIs DEF Finished
<1> QED BY <1>1, <1>2 DEF SaidSoFar

(* A stream that ended with its last frame said everything the engine      *)
(* said, once and in order, with the stop reason its calls ask for         *)
(* (streamMessagesResponse, streamChatResponse, accumulateToolCall,        *)
(* emitBufferedToolCalls).                                                 *)
THEOREM StreamsSayItAll == StreamSpec => []StreamSaysItAll
BY StreamInvHolds, AllIsSaid, PTL

(* An OpenAI stream of Ollama's tells the role with its first chunk only,  *)
(* finishes once, and has its end marker last however the engine stopped   *)
(* (streamChatResponse, streamCompletionResponse).                         *)
THEOREM ChatStreamsKeepShape == StreamSpec => []ChatStreamShape
BY StreamInvHolds, ShapeHolds, PTL

-----------------------------------------------------------------------------
(* The stream of /v1/messages follows the protocol.                        *)

(* What the last event tells of the protocol's stage.                      *)
LEMMA StageIs ==
    ASSUME NEW s \in Seq(Emitted), s # <<>>, Blocks(s)
    PROVE  StageOf(s) = IF Last(s).e \in {"message_stop", "error"} THEN "ended"
                        ELSE IF Last(s).e = "message_delta" THEN "closing" ELSE "open"
<1> DEFINE L == Len(s)
<1>1. L \in Nat /\ DOMAIN s = 1 .. L /\ L # 0 /\ Last(s) = s[L]
  BY LenProperties, EmptySeq DEF Last
<1>2. \A n \in 1 .. L - 1 : MayFollow(s[n], s[n + 1])
  BY DEF Blocks
<1> HIDE DEF L
<1>3. L \in DOMAIN s
  BY <1>1
<1>4. ASSUME NEW n \in DOMAIN s, s[n].e \in {"message_stop", "error"} PROVE n = L
  <2> SUFFICES ASSUME n # L PROVE FALSE
    OBVIOUS
  <2>1. n \in 1 .. L - 1
    BY <1>1
  <2>2. MayFollow(s[n], s[n + 1])
    BY <1>2, <2>1
  <2> QED BY <2>2, <1>4 DEF MayFollow
<1>5. ASSUME NEW n \in DOMAIN s, s[n].e = "message_delta", n # L PROVE s[L].e = "message_stop"
  <2>1. n \in 1 .. L - 1 /\ n + 1 \in DOMAIN s
    BY <1>1, <1>5
  <2>2. MayFollow(s[n], s[n + 1])
    BY <1>2, <2>1
  <2>3. s[n + 1].e = "message_stop"
    BY <2>2, <1>5 DEF MayFollow
  <2>4. n + 1 = L
    BY <2>1, <2>3, <1>4
  <2> QED BY <2>3, <2>4
<1>6. Seen(s, "message_stop") \/ Seen(s, "error") <=> s[L].e \in {"message_stop", "error"}
  BY <1>3, <1>4 DEF Seen
<1>7. ~(s[L].e \in {"message_stop", "error"}) =>
        (Seen(s, "message_delta") <=> s[L].e = "message_delta")
  BY <1>3, <1>5 DEF Seen
<1> QED BY <1>1, <1>6, <1>7 DEF StageOf

(* The beginning of blocks that follow one another. *)
LEMMA BlocksBegin ==
    ASSUME NEW s \in Seq(Emitted), NEW t \in Seq(Emitted), Blocks(s \o t)
    PROVE  Blocks(s)
<1> DEFINE u == s \o t
<1>1. /\ Len(u) = Len(s) + Len(t) /\ DOMAIN s = 1 .. Len(s)
      /\ Len(s) \in Nat /\ Len(t) \in Nat /\ \A n \in DOMAIN s : u[n] = s[n]
  BY JoinedPlaces
<1>2. Blocks(u)
  OBVIOUS
<1> HIDE DEF u
<1> SUFFICES ASSUME NEW n \in 1 .. Len(s) - 1 PROVE MayFollow(s[n], s[n + 1])
  BY DEF Blocks
<1>3. n \in 1 .. Len(u) - 1 /\ n \in DOMAIN s /\ n + 1 \in DOMAIN s
  BY <1>1
<1> QED BY <1>1, <1>2, <1>3 DEF Blocks

(* An event more is heard as one more. *)
LEMMA HeardGrows ==
    ASSUME NEW s \in Seq(Emitted), NEW x \in Emitted
    PROVE  Heard(Append(s, x)) = Append(Heard(s), HeardAs(x))
<1> DEFINE L == Len(s)
           u == Append(s, x)
           h == Heard(s)
           y == HeardAs(x)
<1>1. /\ L \in Nat /\ DOMAIN s = 1 .. L /\ Len(u) = L + 1 /\ DOMAIN u = 1 .. L + 1
      /\ u[L + 1] = x /\ \A n \in 1 .. L : u[n] = s[n]
  <2>1. u \in Seq(Emitted) /\ Len(u) = L + 1 /\ u[L + 1] = x /\ \A n \in 1 .. L : u[n] = s[n]
    BY AppendProperties
  <2> QED BY <2>1, LenProperties
<1> HIDE DEF L, u
<1>2. h = [n \in 1 .. L |-> HeardAs(s[n])]
  BY <1>1 DEF Heard
<1>3. Heard(u) = [n \in 1 .. L + 1 |-> HeardAs(u[n])]
  BY <1>1 DEF Heard
<1> DEFINE T == {HeardAs(s[n]) : n \in 1 .. L} \cup {y}
<1>4. h \in [1 .. L -> T] /\ y \in T
  BY <1>2
<1> HIDE DEF h, y, T
<1>5. h \in Seq(T) /\ Len(h) = L
  BY <1>1, <1>4
<1>6. Append(h, y) = [n \in 1 .. L + 1 |-> IF n <= L THEN h[n] ELSE y]
  <2>1. /\ Append(h, y) \in Seq(T) /\ Len(Append(h, y)) = L + 1
        /\ Append(h, y)[L + 1] = y /\ \A n \in 1 .. L : Append(h, y)[n] = h[n]
    BY <1>4, <1>5, AppendProperties
  <2> DEFINE z == Append(h, y)
  <2> HIDE DEF z
  <2>2. z \in [1 .. L + 1 -> T]
    BY <2>1, LenProperties DEF z
  <2>3. \A n \in 1 .. L + 1 : z[n] = IF n <= L THEN h[n] ELSE y
    BY <1>1, <2>1 DEF z
  <2>4. z = [n \in 1 .. L + 1 |-> IF n <= L THEN h[n] ELSE y]
    BY <2>2, <2>3
  <2> QED BY <2>4 DEF z
<1>7. \A n \in 1 .. L + 1 : HeardAs(u[n]) = IF n <= L THEN h[n] ELSE y
  BY <1>1, <1>2 DEF y
<1>8. Heard(u) = Append(h, y)
  BY <1>3, <1>6, <1>7
<1> QED BY <1>8 DEF u, h, y

(* A step that shows the client nothing new. *)
LEMMA ProtocolStutters ==
    ASSUME events' = events
    PROVE  UNCHANGED (Protocol!vars)
BY DEF Protocol!vars

(* Every event emitted is a step of the protocol, and on the other routes  *)
(* nothing is.                                                             *)
LEMMA EmitRefines ==
    ASSUME StreamInv, Emit
    PROVE  IF api = "messages" THEN Protocol!Next ELSE UNCHANGED (Protocol!vars)
<1> DEFINE x == Head(todo)
           p == Last(out)
<1>1. /\ StreamTypes /\ WireFollows /\ BlocksCount
  BY DEF StreamInv
<1>2. CASE api # "messages"
  <2>1. events' = events
    BY <1>2 DEF events, api, Emit, request
  <2> QED BY <2>1, <1>2, ProtocolStutters
<1>3. CASE api = "messages"
  <2>1. events = out /\ events' = out'
    BY <1>3 DEF events, api, Emit, request
  <2>2. /\ out' = Append(out, x) /\ x \in Emitted /\ out \in Seq(Emitted) /\ out' \in Seq(Emitted)
        /\ todo \in Seq(Emitted) /\ todo' \in Seq(Emitted) /\ Wire' = Wire
    BY <1>1, EmitIs DEF StreamTypes
  <2>3. Blocks(Wire) /\ (Wire # <<>> => Wire[1].e = "message_start")
    BY <1>1, <1>3 DEF WireFollows, Follows
  <2>4. /\ out = <<>> => x.e = "message_start"
        /\ out # <<>> => p \in Emitted /\ MayFollow(p, x)
    BY <1>1, <2>3, EmitFollows
  <2>5. Blocks(out) /\ Blocks(out')
    <3>1. Blocks(out)
      BY <2>2, <2>3, BlocksBegin DEF Wire
    <3>2. Blocks(out' \o todo')
      BY <2>2, <2>3 DEF Wire
    <3> QED BY <2>2, <3>1, <3>2, BlocksBegin
  <2>6. out' # <<>> /\ Last(out') = x
    <3>1. Len(out') = Len(out) + 1 /\ out'[Len(out) + 1] = x /\ out' # <<>>
      BY <2>2, AppendProperties
    <3> QED BY <3>1 DEF Last
  <2>7. BlocksCount'
    BY <1>1, EmitCounts
  <2>8. /\ Begun(out) \in Nat
        /\ Begun(out') = IF x.e = "block_start" THEN Begun(out) + 1 ELSE Begun(out)
    BY <2>2, BegunGrows
  <2>9. /\ out # <<>> /\ p.e \in {"block_start", "block_delta", "block_stop"} =>
             Begun(out) = p.idx + 1 /\ p.idx >= 0
        /\ x.e \in {"block_start", "block_delta", "block_stop"} =>
             Begun(out') = x.idx + 1 /\ x.idx >= 0
    BY <1>1, <2>1, <2>6, <2>7 DEF BlocksCount, BlocksBegun
  <2>10. x.idx \in Int /\ (out # <<>> => p.idx \in Int)
    BY <2>2, <2>4, EmittedIs
  <2>11. Heard(out') = Append(Heard(out), HeardAs(x))
    BY <1>1, EmitIs, HeardGrows DEF StreamTypes
  <2> DEFINE a == StageOf(out)
             a2 == StageOf(out')
             b == BlockOf(out)
             b2 == BlockOf(out')
             c == Begun(out)
             c2 == Begun(out')
  <2>12. /\ a2 = IF x.e \in {"message_stop", "error"} THEN "ended"
                 ELSE IF x.e = "message_delta" THEN "closing" ELSE "open"
         /\ b2 = IF x.e \in {"block_start", "block_delta"} THEN x.idx ELSE -1
    BY <2>2, <2>5, <2>6, StageIs DEF BlockOf
  <2>13. out = <<>> => a = "idle" /\ b = -1
    BY DEF StageOf, BlockOf
  <2>14. out # <<>> =>
           /\ a = IF p.e \in {"message_stop", "error"} THEN "ended"
                  ELSE IF p.e = "message_delta" THEN "closing" ELSE "open"
           /\ b = IF p.e \in {"block_start", "block_delta"} THEN p.idx ELSE -1
    BY <2>2, <2>5, StageIs DEF BlockOf
  <2> HIDE DEF x, p, a, a2, b, b2, c, c2
  <2>15. c \in Nat /\ c2 = (IF x.e = "block_start" THEN c + 1 ELSE c)
    BY <2>8 DEF c, c2
  <2>16. /\ out # <<>> /\ p.e \in {"block_start", "block_delta", "block_stop"} =>
              c = p.idx + 1 /\ p.idx >= 0
         /\ x.e \in {"block_start", "block_delta", "block_stop"} => c2 = x.idx + 1 /\ x.idx >= 0
    BY <2>9 DEF c, c2
  <2> DEFINE y == HeardAs(x)
             h == Heard(out)
  <2>17. y = [e |-> x.e, idx |-> IF x.e \in {"block_start", "block_delta", "block_stop"}
                                  THEN x.idx ELSE -1]
    BY DEF HeardAs, Indexed
  <2> HIDE DEF y, h
  <2>18. /\ StageOf(events) = a /\ StageOf(events)' = a2
         /\ BlockOf(events) = b /\ BlockOf(events)' = b2
         /\ Begun(events) = c /\ Begun(events)' = c2
         /\ Heard(events) = h /\ Heard(events)' = Append(h, y)
    BY <2>1, <2>11 DEF a, a2, b, b2, c, c2, y, h
  <2>19. ASSUME out = <<>> PROVE Protocol!Next
    <3>1. a = "idle" /\ a2 = "open" /\ b2 = b /\ c2 = c /\ y = [e |-> "message_start", idx |-> -1]
      BY <2>19, <2>4, <2>12, <2>13, <2>15, <2>17
    <3> QED BY <3>1, <2>18 DEF Protocol!Next, Protocol!MessageStart, Protocol!Tell
  <2>20. ASSUME out # <<>> PROVE Protocol!Next
    <3>1. MayFollow(p, x)
      BY <2>20, <2>4
    <3>2. CASE x.e = "block_start"
      <4>1. p.e \in {"message_start", "block_stop"}
        BY <3>1, <3>2 DEF MayFollow
      <4>2. c2 = c + 1 /\ c2 = x.idx + 1
        BY <3>2, <2>15, <2>16
      <4>3. x.idx = c
        BY <4>2, <2>10, <2>15
      <4>4. /\ a = "open" /\ b = -1 /\ b2 = c /\ c2 = c + 1 /\ a2 = a
            /\ y = [e |-> "block_start", idx |-> c]
        BY <4>1, <4>2, <4>3, <3>2, <2>20, <2>12, <2>14, <2>17
      <4> QED BY <4>4, <2>18 DEF Protocol!Next, Protocol!BlockStart, Protocol!Tell
    <3>3. CASE x.e = "block_delta"
      <4>1. p.e \in {"block_start", "block_delta"} /\ x.idx = p.idx
        BY <3>1, <3>3 DEF MayFollow
      <4>2. p.idx # -1
        BY <4>1, <2>20, <2>10, <2>16
      <4>3. /\ a = "open" /\ b # -1 /\ a2 = a /\ b2 = b /\ c2 = c
            /\ y = [e |-> "block_delta", idx |-> b]
        BY <4>1, <4>2, <3>3, <2>20, <2>12, <2>14, <2>15, <2>17
      <4> QED BY <4>3, <2>18 DEF Protocol!Next, Protocol!BlockDelta, Protocol!Tell
    <3>4. CASE x.e = "block_stop"
      <4>1. p.e \in {"block_start", "block_delta"} /\ x.idx = p.idx
        BY <3>1, <3>4 DEF MayFollow
      <4>2. p.idx # -1
        BY <4>1, <2>20, <2>10, <2>16
      <4>3. /\ a = "open" /\ b # -1 /\ b2 = -1 /\ a2 = a /\ c2 = c
            /\ y = [e |-> "block_stop", idx |-> b]
        BY <4>1, <4>2, <3>4, <2>20, <2>12, <2>14, <2>15, <2>17
      <4> QED BY <4>3, <2>18 DEF Protocol!Next, Protocol!BlockStop, Protocol!Tell
    <3>5. CASE x.e = "message_delta"
      <4>1. p.e = "block_stop"
        BY <3>1, <3>5 DEF MayFollow
      <4>2. c > 0
        BY <4>1, <2>20, <2>10, <2>16
      <4>3. /\ a = "open" /\ b = -1 /\ c > 0 /\ a2 = "closing" /\ b2 = b /\ c2 = c
            /\ y = [e |-> "message_delta", idx |-> -1]
        BY <4>1, <4>2, <3>5, <2>20, <2>12, <2>14, <2>15, <2>17
      <4> QED BY <4>3, <2>18 DEF Protocol!Next, Protocol!MessageDelta, Protocol!Tell
    <3>6. CASE x.e = "message_stop"
      <4>1. p.e = "message_delta"
        BY <3>1, <3>6 DEF MayFollow
      <4>2. /\ a = "closing" /\ a2 = "ended" /\ b2 = b /\ c2 = c
            /\ y = [e |-> "message_stop", idx |-> -1]
        BY <4>1, <3>6, <2>20, <2>12, <2>14, <2>15, <2>17
      <4> QED BY <4>2, <2>18 DEF Protocol!Next, Protocol!MessageStop, Protocol!Tell
    <3>7. CASE x.e = "error"
      <4>1. p.e \in {"block_start", "block_delta"}
        BY <3>1, <3>7 DEF MayFollow
      <4>2. /\ a = "open" /\ a2 = "ended" /\ b2 = -1 /\ c2 = c
            /\ y = [e |-> "error", idx |-> -1]
        BY <4>1, <3>7, <2>20, <2>12, <2>14, <2>15, <2>17
      <4> QED BY <4>2, <2>18 DEF Protocol!Next, Protocol!Error, Protocol!Tell
    <3>8. x.e \in {"block_start", "block_delta", "block_stop", "message_delta",
                    "message_stop", "error"}
      BY <3>1 DEF MayFollow
    <3> QED BY <3>2, <3>3, <3>4, <3>5, <3>6, <3>7, <3>8
  <2>21. Protocol!Next
    BY <2>19, <2>20
  <2> QED BY <2>21, <1>3
<1> QED BY <1>2, <1>3

(* The events of a /v1/messages stream keep the protocol's order           *)
(* (events.go): blocks nested and numbered without holes, one              *)
(* message_delta and one message_stop, an error only while a block is      *)
(* open, nothing after the end.  Each event is a step of the protocol:     *)
(* none passes as a stutter (EmitRefines).                                 *)
THEOREM StreamFollowsProtocol == StreamSpec => FollowsProtocol
<1>1. StreamInit => Protocol!Init
  <2> SUFFICES ASSUME StreamInit PROVE Protocol!Init
    OBVIOUS
  <2>1. events = <<>>
    BY DEF StreamInit, events
  <2>2. Begun(events) = 0
    <3>1. {n \in DOMAIN events : events[n].e = "block_start"} = {}
      <4>1. DOMAIN events = {}
        BY <2>1
      <4> QED BY <4>1
    <3> QED BY <3>1, FS_EmptySet DEF Begun
  <2>3. StageOf(events) = "idle" /\ BlockOf(events) = -1
    BY <2>1 DEF StageOf, BlockOf
  <2>4. Heard(events) = <<>>
    BY <2>1 DEF Heard
  <2> QED BY <2>2, <2>3, <2>4 DEF Protocol!Init
<1>2. StreamInv /\ [StreamNext]_streamVars => [Protocol!Next]_(Protocol!vars)
  <2> SUFFICES ASSUME StreamInv, [StreamNext]_streamVars
               PROVE  Protocol!Next \/ UNCHANGED (Protocol!vars)
    OBVIOUS
  <2>1. CASE Emit
    BY <2>1, EmitRefines
  <2>2. ASSUME route' = route, out' = out PROVE UNCHANGED (Protocol!vars)
    <3>1. events' = events
      BY <2>2 DEF events, api
    <3> QED BY <3>1, ProtocolStutters
  <2>3. CASE Refuse \/ Post \/ EngineAccepts \/ Collect
    BY <2>2, <2>3 DEF Refuse, Post, EngineAccepts, Collect, Reply, request
  <2>4. ASSUME NEW status \in {0, 400, 500}, Retry(status) \/ Unreachable(status)
        PROVE  UNCHANGED (Protocol!vars)
    BY <2>2, <2>4 DEF Retry, Unreachable, Reply, request
  <2>5. ASSUME NEW f \in Frames, Frame(f) PROVE UNCHANGED (Protocol!vars)
    BY <2>2, <2>5 DEF Frame, request
  <2>6. ASSUME NEW how \in {"eof", "broken"}, Cut(how) PROVE UNCHANGED (Protocol!vars)
    BY <2>2, <2>6 DEF Cut, request
  <2>7. CASE UNCHANGED streamVars
    BY <2>2, <2>7 DEF streamVars, request
  <2> QED BY <2>1, <2>3, <2>4, <2>5, <2>6, <2>7 DEF StreamNext
<1> QED BY <1>1, <1>2, StreamInvHolds, PTL DEF StreamSpec, FollowsProtocol, Protocol!Spec

-----------------------------------------------------------------------------
(***************************************************************************)
(* The conversation on its way up.                                         *)
(***************************************************************************)

(* A set of numbers has a least one.  Stated of sets and not of predicates *)
(* so that the provers can use it: an induction below looks at a smallest  *)
(* counterexample.                                                         *)
LEMMA SmallestNat ==
    ASSUME NEW T \in SUBSET Nat, T # {}
    PROVE  \E n \in T : \A m \in T : n <= m
<1> DEFINE R == OpToRel(<, Nat)
<1>1. R = {ss \in Nat \X Nat : ss[1] < ss[2]}
  BY DEF OpToRel
<1>2. IsWellFoundedOn(R, Nat)
  BY NatLessThanWellFounded
<1> HIDE DEF R
<1>3. PICK n \in T : \A m \in T : ~(<<m, n>> \in R)
  BY <1>2, WFMin
<1>4. ASSUME NEW m \in T PROVE n <= m
  <2>1. m \in Nat /\ n \in Nat /\ <<m, n>> \in Nat \X Nat
    OBVIOUS
  <2>2. <<m, n>> \in R <=> m < n
    BY <1>1, <2>1
  <2>3. ~(m < n)
    BY <1>3, <2>2
  <2> QED BY <2>1, <2>3
<1> QED BY <1>4

(* What was chosen of a sequence, by the places it was chosen from.        *)
LEMMA ChosenIs ==
    ASSUME NEW X, NEW s \in Seq(X), NEW K \in SUBSET DOMAIN s
    PROVE  /\ Chosen(s, K) \in Seq(X) /\ Ascending(K) \in Seq(K)
           /\ DOMAIN Chosen(s, K) = DOMAIN Ascending(K)
           /\ \A n \in DOMAIN Ascending(K) : Chosen(s, K)[n] = s[Ascending(K)[n]]
           /\ \A k \in K : \E n \in DOMAIN Ascending(K) : Ascending(K)[n] = k
           /\ \A m, n \in DOMAIN Ascending(K) : m < n => Ascending(K)[m] < Ascending(K)[n]
<1> DEFINE at == Ascending(K)
           key == [k \in K |-> k]
           c == Cardinality(K)
<1>1. DOMAIN s = 1 .. Len(s) /\ Len(s) \in Nat
  BY LenProperties
<1>2. IsFiniteSet(K) /\ c \in Nat
  <2>1. IsFiniteSet(DOMAIN s)
    BY <1>1, FS_Interval
  <2>2. IsFiniteSet(K)
    BY <2>1, FS_Subset
  <2> QED BY <2>2, FS_CardinalityType DEF c
<1>3. /\ \A k \in K : key[k] = k /\ key[k] \in Nat
      /\ \A j, k \in K : key[j] = key[k] => j = k
  BY <1>1
<1>4. at = InOrder(K, key)
  BY DEF Ascending
<1> HIDE DEF at, key, c
<1>5. /\ at \in Seq(K) /\ Len(at) = c
      /\ \A k \in K : \E n \in DOMAIN at : at[n] = k
      /\ \A m, n \in DOMAIN at : m < n => key[at[m]] < key[at[n]]
  BY <1>2, <1>3, <1>4, InOrderLists DEF c
<1>6. DOMAIN at = 1 .. c /\ \A n \in 1 .. c : at[n] \in K
  BY <1>5
<1>7. Chosen(s, K) = [n \in 1 .. c |-> s[at[n]]]
  BY DEF Chosen, at, c
<1>8. Chosen(s, K) \in Seq(X)
  <2>1. \A n \in 1 .. c : s[at[n]] \in X
    BY <1>6
  <2>2. [n \in 1 .. c |-> s[at[n]]] \in [1 .. c -> X]
    BY <2>1
  <2> QED BY <2>2, <1>2, <1>7
<1>9. \A m, n \in DOMAIN at : m < n => at[m] < at[n]
  BY <1>3, <1>5, <1>6
<1> QED BY <1>5, <1>6, <1>7, <1>8, <1>9 DEF at

(* The ids of the blocks of a type.                                        *)
BlockLists == Seq([type : STRING, id : Nat])

LEMMA IdsAre ==
    ASSUME NEW blocks \in BlockLists, NEW t
    PROVE  /\ Ids(blocks, t) \in Seq(Nat)
           /\ \A i \in DOMAIN Ids(blocks, t) :
                \E b \in ToSet(blocks) : b.type = t /\ Ids(blocks, t)[i] = b.id
           /\ \A k \in DOMAIN blocks : blocks[k].type = t =>
                \E i \in DOMAIN Ids(blocks, t) : Ids(blocks, t)[i] = blocks[k].id
<1> DEFINE B == [type : STRING, id : Nat]
           K == {k \in DOMAIN blocks : blocks[k].type = t}
           mine == Chosen(blocks, K)
           at == Ascending(K)
           ids == [i \in DOMAIN mine |-> mine[i].id]
<1>1. blocks \in Seq(B) /\ K \in SUBSET DOMAIN blocks
  BY DEF BlockLists
<1>2. \A k \in K : blocks[k] \in ToSet(blocks) /\ blocks[k].type = t /\ blocks[k] \in B
  <2>1. \A k \in K : k \in DOMAIN blocks /\ blocks[k].type = t
    OBVIOUS
  <2> HIDE DEF B, K
  <2>2. \A k \in DOMAIN blocks : blocks[k] \in B
    BY <1>1
  <2>3. \A k \in DOMAIN blocks : blocks[k] \in ToSet(blocks)
    BY DEF ToSet
  <2> QED BY <2>1, <2>2, <2>3
<1>3. \A x \in B : x.id \in Nat
  OBVIOUS
<1> HIDE DEF B
<1>4. \A k \in DOMAIN blocks : blocks[k].type = t => k \in K
  OBVIOUS
<1>5. Ids(blocks, t) = ids
  BY DEF Ids
<1> HIDE DEF K
<1>6. /\ mine \in Seq(B) /\ at \in Seq(K) /\ DOMAIN mine = DOMAIN at
      /\ \A n \in DOMAIN at : mine[n] = blocks[at[n]]
      /\ \A k \in K : \E n \in DOMAIN at : at[n] = k
  BY <1>1, ChosenIs
<1> HIDE DEF mine, at
<1>7. DOMAIN mine = 1 .. Len(mine) /\ Len(mine) \in Nat /\ \A n \in DOMAIN mine : mine[n] \in B
  BY <1>6
<1>8. \A n \in DOMAIN at : at[n] \in K
  BY <1>6
<1>9. ids \in Seq(Nat) /\ DOMAIN ids = DOMAIN mine /\ \A n \in DOMAIN mine : ids[n] = mine[n].id
  <2>1. ids \in [1 .. Len(mine) -> Nat]
    BY <1>3, <1>7
  <2> QED BY <2>1, <1>7
<1> HIDE DEF ids
<1>10. \A i \in DOMAIN ids : \E b \in ToSet(blocks) : b.type = t /\ ids[i] = b.id
  BY <1>2, <1>6, <1>8, <1>9
<1>11. \A k \in DOMAIN blocks : blocks[k].type = t =>
         \E i \in DOMAIN ids : ids[i] = blocks[k].id
  BY <1>4, <1>6, <1>9
<1> QED BY <1>5, <1>9, <1>10, <1>11

(* What a user's turn becomes: the results come first.                     *)
LEMMA UserTurn ==
    ASSUME NEW t \in Turns
    PROVE  /\ UserMessages(t) \in Seq(Messages)
           /\ \A i \in DOMAIN UserMessages(t) : UserMessages(t)[i].role = "tool" =>
                /\ \A j \in 1 .. i : UserMessages(t)[j].role = "tool"
                /\ \E b \in ToSet(t.blocks) : b.type = "tool_result" /\ UserMessages(t)[i].ids[1] = b.id
           /\ OnlyResults(t) => \A i \in DOMAIN UserMessages(t) : UserMessages(t)[i].role = "tool"
<1> DEFINE ids == Ids(t.blocks, "tool_result")
           tools == ToolMessages(t)
           word == [role |-> "user", text |-> HasText(Residual(t)), ids |-> <<>>]
           words == IF Residual(t) # <<>> \/ tools = <<>> THEN <<word>> ELSE <<>>
           all == UserMessages(t)
<1>1. t.blocks \in BlockLists
  BY DEF Turns, BlockLists
<1>2. /\ ids \in Seq(Nat)
      /\ \A i \in DOMAIN ids : \E b \in ToSet(t.blocks) : b.type = "tool_result" /\ ids[i] = b.id
      /\ \A k \in DOMAIN t.blocks : t.blocks[k].type = "tool_result" =>
           \E i \in DOMAIN ids : ids[i] = t.blocks[k].id
  BY <1>1, IdsAre
<1>3. tools = [i \in DOMAIN ids |-> [role |-> "tool", text |-> FALSE, ids |-> <<ids[i]>>]]
  BY DEF ToolMessages
<1>4. all = tools \o words
  BY DEF UserMessages
<1>5. OnlyResults(t) => words = <<>>
  <2> SUFFICES ASSUME OnlyResults(t) PROVE words = <<>>
    OBVIOUS
  <2> DEFINE K == {k \in DOMAIN t.blocks : t.blocks[k].type # "tool_result"}
  <2>1. K = {}
    BY DEF OnlyResults
  <2>2. Residual(t) = [n \in 1 .. Cardinality(K) |-> t.blocks[Ascending(K)[n]]]
    BY DEF Residual, Chosen
  <2> HIDE DEF K
  <2>3. Cardinality(K) = 0
    BY <2>1, FS_EmptySet
  <2>4. Residual(t) = <<>>
    BY <2>2, <2>3
  <2>5. t.blocks # <<>> /\ t.blocks \in Seq([type : STRING, id : Nat])
    BY <1>1 DEF OnlyResults, BlockLists
  <2>6. 1 \in DOMAIN t.blocks
    BY <2>5
  <2>7. t.blocks[1].type = "tool_result"
    BY <2>6 DEF OnlyResults
  <2>8. tools # <<>>
    <3>1. PICK i \in DOMAIN ids : ids[i] = t.blocks[1].id
      BY <2>6, <2>7, <1>2
    <3>2. i \in DOMAIN tools
      BY <1>3
    <3> HIDE DEF tools
    <3> QED BY <3>2
  <2> QED BY <2>4, <2>8
<1>6. word \in Messages
  <2>1. HasText(Residual(t)) \in BOOLEAN
    BY DEF HasText
  <2> QED BY <2>1 DEF Messages
<1>7. words \in Seq(Messages) /\ \A i \in DOMAIN words : words[i].role # "tool"
  <2>1. word.role # "tool"
    OBVIOUS
  <2> HIDE DEF word
  <2> QED BY <2>1, <1>6
<1> HIDE DEF words
<1>8. /\ tools \in Seq(Messages) /\ DOMAIN tools = DOMAIN ids
      /\ \A i \in DOMAIN ids : tools[i].role = "tool" /\ tools[i].ids[1] = ids[i]
  <2>1. DOMAIN ids = 1 .. Len(ids) /\ Len(ids) \in Nat /\ \A i \in DOMAIN ids : ids[i] \in Nat
    BY <1>2
  <2> HIDE DEF ids
  <2>2. \A i \in DOMAIN ids : [role |-> "tool", text |-> FALSE, ids |-> <<ids[i]>>] \in Messages
    BY <2>1 DEF Messages
  <2>3. tools \in [1 .. Len(ids) -> Messages]
    BY <1>3, <2>1, <2>2
  <2>4. \A i \in DOMAIN ids : tools[i] = [role |-> "tool", text |-> FALSE, ids |-> <<ids[i]>>]
    BY <1>3
  <2> HIDE DEF tools
  <2> QED BY <2>1, <2>3, <2>4
<1> HIDE DEF tools, ids
<1>9. /\ all \in Seq(Messages)
      /\ DOMAIN tools = 1 .. Len(tools) /\ Len(tools) \in Nat
      /\ DOMAIN all = 1 .. Len(tools) + Len(words) /\ Len(words) \in Nat
      /\ \A n \in DOMAIN tools : n \in DOMAIN all /\ all[n] = tools[n]
      /\ \A n \in DOMAIN words : all[Len(tools) + n] = words[n]
      /\ \A n \in DOMAIN all : n \in DOMAIN tools \/ (n > Len(tools) /\ n - Len(tools) \in DOMAIN words)
  BY <1>4, <1>7, <1>8, JoinedPlaces
<1> HIDE DEF all
<1>10. \A i \in DOMAIN all : all[i].role = "tool" => i \in DOMAIN tools
  <2> SUFFICES ASSUME NEW i \in DOMAIN all, i \notin DOMAIN tools PROVE all[i].role # "tool"
    OBVIOUS
  <2>1. i - Len(tools) \in DOMAIN words /\ Len(tools) + (i - Len(tools)) = i
    BY <1>9
  <2>2. all[i] = words[i - Len(tools)]
    BY <2>1, <1>9
  <2> QED BY <2>1, <2>2, <1>7
<1>11. ASSUME NEW i \in DOMAIN all, all[i].role = "tool"
       PROVE  /\ \A j \in 1 .. i : all[j].role = "tool"
              /\ \E b \in ToSet(t.blocks) : b.type = "tool_result" /\ all[i].ids[1] = b.id
  <2>1. i \in DOMAIN tools /\ \A j \in 1 .. i : j \in DOMAIN tools
    BY <1>9, <1>10, <1>11
  <2>2. all[i] = tools[i] /\ \A j \in 1 .. i : all[j] = tools[j] /\ tools[j].role = "tool"
    BY <2>1, <1>8, <1>9
  <2>3. i \in DOMAIN ids /\ tools[i].ids[1] = ids[i]
    BY <2>1, <1>8
  <2>4. PICK b \in ToSet(t.blocks) : b.type = "tool_result" /\ ids[i] = b.id
    BY <1>2, <2>3
  <2> QED BY <2>2, <2>3, <2>4
<1>12. OnlyResults(t) => \A i \in DOMAIN all : all[i].role = "tool"
  <2> SUFFICES ASSUME OnlyResults(t), NEW i \in DOMAIN all PROVE all[i].role = "tool"
    OBVIOUS
  <2>1. DOMAIN words = {}
    BY <1>5
  <2>2. i \in DOMAIN tools
    BY <2>1, <1>9
  <2> QED BY <2>2, <1>8, <1>9
<1>13. all \in Seq(Messages)
  BY <1>9
<1> QED BY <1>11, <1>12, <1>13 DEF all

(* What an assistant's turn becomes: one message, with every call it made. *)
LEMMA AssistantTurn ==
    ASSUME NEW t \in Turns
    PROVE  /\ AssistantMessage(t) = <<AssistantMessage(t)[1]>>
           /\ AssistantMessage(t)[1] \in Messages
           /\ AssistantMessage(t)[1].role = "assistant"
           /\ \A id : Makes(t, id) => id \in ToSet(AssistantMessage(t)[1].ids)
<1> DEFINE ids == Ids(t.blocks, "tool_use")
           m == [role |-> "assistant", text |-> HasText(t.blocks), ids |-> ids]
<1>1. t.blocks \in BlockLists
  BY DEF Turns, BlockLists
<1>2. /\ ids \in Seq(Nat)
      /\ \A k \in DOMAIN t.blocks : t.blocks[k].type = "tool_use" =>
           \E i \in DOMAIN ids : ids[i] = t.blocks[k].id
  BY <1>1, IdsAre
<1>3. AssistantMessage(t) = <<m>>
  BY DEF AssistantMessage
<1> HIDE DEF ids
<1>4. HasText(t.blocks) \in BOOLEAN
  BY DEF HasText
<1>5. m \in Messages /\ m.role = "assistant" /\ m.ids = ids
  BY <1>2, <1>4 DEF Messages
<1> HIDE DEF m
<1>6. ASSUME NEW id, Makes(t, id) PROVE id \in ToSet(ids)
  <2>1. PICK k \in DOMAIN t.blocks : t.blocks[k] = [type |-> "tool_use", id |-> id]
    BY <1>6 DEF Makes
  <2>2. t.blocks[k].type = "tool_use" /\ t.blocks[k].id = id
    BY <2>1
  <2> QED BY <2>2, <1>2 DEF ToSet
<1> QED BY <1>3, <1>5, <1>6

(* FlattenSeq joins one sequence after the other.                          *)
Joins(s, g) == g = [i \in 1 .. Len(s) |-> IF i = 1 THEN s[i] ELSE g[i - 1] \o s[i]]

LEMMA FlattenUnfolds ==
    ASSUME NEW s, Len(s) # 0
    PROVE  FlattenSeq(s) = (CHOOSE g : Joins(s, g))[Len(s)]
BY DEF FlattenSeq, Joins

LEMMA JoinsExist ==
    ASSUME NEW s, Len(s) \in Nat
    PROVE  \E g : Joins(s, g)
<1> DEFINE L == Len(s)
           Turn(g, i) == IF i = 1 THEN s[i] ELSE g[i - 1] \o s[i]
           Upto(n) == \E g : /\ g = [i \in 1 .. L |-> g[i]]
                             /\ \A i \in 1 .. L : i <= n => g[i] = Turn(g, i)
           Bad == {n \in Nat : ~Upto(n)}
<1>0. L \in Nat
  OBVIOUS
<1>1. Upto(0)
  <2> DEFINE g == [i \in 1 .. L |-> s[i]]
  <2>1. g = [i \in 1 .. L |-> g[i]]
    OBVIOUS
  <2>2. \A i \in 1 .. L : i <= 0 => FALSE
    BY <1>0
  <2> HIDE DEF g, Turn, L
  <2>3. \A i \in 1 .. L : i <= 0 => g[i] = Turn(g, i)
    BY <2>2
  <2> QED BY <2>1, <2>3
<1> HIDE DEF L
<1>2. ASSUME NEW n \in Nat, Upto(n) PROVE Upto(n + 1)
  <2>1. PICK g : /\ g = [i \in 1 .. L |-> g[i]]
                 /\ \A i \in 1 .. L : i <= n => g[i] = Turn(g, i)
    BY <1>2
  <2> DEFINE h == [i \in 1 .. L |-> Turn(g, i)]
  <2>2. h = [i \in 1 .. L |-> h[i]]
    OBVIOUS
  <2>3. \A i \in 1 .. L : h[i] = Turn(g, i)
    OBVIOUS
  <2> HIDE DEF h, Turn
  <2>4. \A i \in 1 .. L : i <= n => h[i] = g[i]
    BY <2>1, <2>3
  <2>5. ASSUME NEW i \in 1 .. L, i <= n + 1 PROVE h[i] = Turn(h, i)
    <3>1. CASE i = 1
      BY <2>3, <3>1 DEF Turn
    <3>2. CASE i # 1
      <4>1. i - 1 \in 1 .. L /\ i - 1 <= n
        BY <1>0, <2>5, <3>2
      <4>2. h[i - 1] = g[i - 1]
        BY <2>4, <4>1
      <4> QED BY <2>3, <3>2, <4>2 DEF Turn
    <3> QED BY <3>1, <3>2
  <2> QED BY <2>2, <2>5
<1>3. Bad = {}
  <2> SUFFICES ASSUME Bad # {} PROVE FALSE
    OBVIOUS
  <2>1. PICK n \in Bad : \A m \in Bad : n <= m
    BY SmallestNat
  <2> HIDE DEF Upto
  <2>2. n # 0 /\ n \in Nat /\ ~Upto(n)
    BY <1>1
  <2>3. n - 1 \in Nat /\ Upto(n - 1)
    BY <2>1, <2>2
  <2>4. Upto((n - 1) + 1)
    BY <1>2, <2>3
  <2> QED BY <2>2, <2>4
<1>4. Upto(L)
  BY <1>0, <1>3
<1>5. PICK g : /\ g = [i \in 1 .. L |-> g[i]]
               /\ \A i \in 1 .. L : i <= L => g[i] = Turn(g, i)
  BY <1>4
<1> HIDE DEF Turn
<1>6. \A i \in 1 .. L : g[i] = Turn(g, i)
  BY <1>0, <1>5
<1>7. g = [i \in 1 .. L |-> Turn(g, i)]
  BY <1>5, <1>6
<1> QED BY <1>7 DEF Joins, L, Turn

LEMMA FlattenIs ==
    ASSUME NEW s, Len(s) \in Nat \ {0}
    PROVE  \E g : /\ FlattenSeq(s) = g[Len(s)] /\ g[1] = s[1]
                  /\ \A i \in 1 .. Len(s) - 1 : g[i + 1] = g[i] \o s[i + 1]
<1> DEFINE g == CHOOSE g : Joins(s, g)
<1>1. FlattenSeq(s) = g[Len(s)]
  BY FlattenUnfolds
<1>2. Joins(s, g)
  BY JoinsExist
<1> HIDE DEF g
<1>3. g = [i \in 1 .. Len(s) |-> IF i = 1 THEN s[i] ELSE g[i - 1] \o s[i]]
  BY <1>2 DEF Joins
<1>4. \A i \in 1 .. Len(s) : g[i] = IF i = 1 THEN s[i] ELSE g[i - 1] \o s[i]
  BY <1>3
<1>5. g[1] = s[1]
  BY <1>4
<1>6. ASSUME NEW i \in 1 .. Len(s) - 1 PROVE g[i + 1] = g[i] \o s[i + 1]
  <2>1. i + 1 \in 1 .. Len(s) /\ i + 1 # 1 /\ (i + 1) - 1 = i
    OBVIOUS
  <2> QED BY <2>1, <1>4
<1> QED BY <1>1, <1>5, <1>6

(* Every result of s answers a call it stands behind.                      *)
Behind(s, n) ==
  \E m \in 1 .. n - 1 :
    /\ s[m].role = "assistant" /\ s[n].ids[1] \in ToSet(s[m].ids)
    /\ \A l \in m + 1 .. n - 1 : s[l].role = "tool"
ResultsStand(s) == \A n \in DOMAIN s : s[n].role = "tool" => Behind(s, n)

(* What upstream gets of the first k turns of c: the results stand, and    *)
(* every assistant's turn is there, with only results behind it as long as *)
(* the turns behind it bring nothing else.                                 *)
SaidUpstream(c, k, s) ==
  /\ s \in Seq(Messages) /\ ResultsStand(s)
  /\ \A m \in 1 .. k : c[m].role = "assistant" =>
       \E p \in DOMAIN s :
         /\ s[p] = AssistantMessage(c[m])[1]
         /\ (\A l \in m + 1 .. k : OnlyResults(c[l])) =>
              \A q \in p + 1 .. Len(s) : s[q].role = "tool"

WellFormed(c) ==
  /\ c \in Seq(Turns)
  /\ \A n \in DOMAIN c : c[n].role = "user" =>
       \A b \in ToSet(c[n].blocks) : b.type = "tool_result" =>
         \E m \in 1 .. n - 1 : Makes(c[m], b.id) /\ \A l \in m + 1 .. n - 1 : OnlyResults(c[l])

(* One turn more. *)
LEMMA TurnMore ==
    ASSUME NEW c, WellFormed(c), NEW k \in Nat, k + 1 \in DOMAIN c,
           NEW s, SaidUpstream(c, k, s), NEW t,
           t = IF c[k + 1].role = "user" THEN UserMessages(c[k + 1]) ELSE AssistantMessage(c[k + 1])
    PROVE  SaidUpstream(c, k + 1, s \o t)
<1> DEFINE turn == c[k + 1]
           u == s \o t
<1>1. DOMAIN c = 1 .. Len(c) /\ Len(c) \in Nat /\ turn \in Turns
  BY DEF WellFormed
<1>2. turn.role \in {"user", "assistant"}
  BY <1>1 DEF Turns
<1>3. /\ s \in Seq(Messages) /\ ResultsStand(s)
      /\ \A m \in 1 .. k : c[m].role = "assistant" =>
           \E p \in DOMAIN s :
             /\ s[p] = AssistantMessage(c[m])[1]
             /\ (\A l \in m + 1 .. k : OnlyResults(c[l])) =>
                  \A q \in p + 1 .. Len(s) : s[q].role = "tool"
  BY DEF SaidUpstream
<1> DEFINE say == AssistantMessage(turn)[1]
<1>4. turn.role = "assistant" => /\ t = <<say>> /\ say \in Messages /\ say.role = "assistant"
  BY <1>1, AssistantTurn
<1>5. turn.role = "user" =>
        /\ t \in Seq(Messages)
        /\ \A i \in DOMAIN t : t[i].role = "tool" =>
             /\ \A j \in 1 .. i : t[j].role = "tool"
             /\ \E b \in ToSet(turn.blocks) : b.type = "tool_result" /\ t[i].ids[1] = b.id
        /\ OnlyResults(turn) => \A i \in DOMAIN t : t[i].role = "tool"
  BY <1>1, UserTurn
<1>6. t \in Seq(Messages)
  <2>1. turn.role = "assistant" => t \in Seq(Messages)
    <3> HIDE DEF say, turn
    <3>1. \A x \in Messages : <<x>> \in Seq(Messages)
      OBVIOUS
    <3> QED BY <1>4, <3>1
  <2> QED BY <2>1, <1>2, <1>5
<1>7. OnlyResults(turn) => turn.role = "user"
  BY DEF OnlyResults
<1>8. ASSUME turn.role = "user", NEW b \in ToSet(turn.blocks), b.type = "tool_result"
      PROVE  \E m \in 1 .. k : Makes(c[m], b.id) /\ \A l \in m + 1 .. k : OnlyResults(c[l])
  <2>1. (k + 1) - 1 = k
    OBVIOUS
  <2> QED BY <2>1, <1>8 DEF WellFormed
<1> HIDE DEF turn
<1>9. /\ u \in Seq(Messages) /\ Len(u) = Len(s) + Len(t)
      /\ DOMAIN u = 1 .. Len(s) + Len(t)
      /\ DOMAIN s = 1 .. Len(s) /\ DOMAIN t = 1 .. Len(t)
      /\ Len(s) \in Nat /\ Len(t) \in Nat
      /\ \A n \in DOMAIN s : n \in DOMAIN u /\ u[n] = s[n]
      /\ \A n \in DOMAIN t : Len(s) + n \in DOMAIN u /\ u[Len(s) + n] = t[n]
      /\ \A n \in DOMAIN u : n \in DOMAIN s \/ (n > Len(s) /\ n - Len(s) \in DOMAIN t)
  BY <1>3, <1>6, JoinedPlaces
<1> HIDE DEF u
<1>10. ASSUME NEW n \in DOMAIN u, n \notin DOMAIN s
       PROVE  n - Len(s) \in DOMAIN t /\ u[n] = t[n - Len(s)]
  <2>1. n - Len(s) \in DOMAIN t /\ Len(s) + (n - Len(s)) = n
    BY <1>9, <1>10
  <2>2. u[Len(s) + (n - Len(s))] = t[n - Len(s)]
    BY <1>9, <2>1
  <2> QED BY <2>1, <2>2
<1>11. ASSUME NEW n \in DOMAIN u, u[n].role = "tool" PROVE Behind(u, n)
  <2>1. CASE n \in DOMAIN s
    <3>1. u[n] = s[n]
      BY <2>1, <1>9
    <3>2. PICK m \in 1 .. n - 1 :
            /\ s[m].role = "assistant" /\ s[n].ids[1] \in ToSet(s[m].ids)
            /\ \A l \in m + 1 .. n - 1 : s[l].role = "tool"
      BY <2>1, <3>1, <1>3, <1>11 DEF ResultsStand, Behind
    <3>3. m \in DOMAIN s /\ \A l \in m + 1 .. n - 1 : l \in DOMAIN s
      BY <2>1, <1>9
    <3>4. u[m] = s[m] /\ \A l \in m + 1 .. n - 1 : u[l] = s[l]
      BY <3>3, <1>9
    <3> QED BY <3>1, <3>2, <3>4 DEF Behind
  <2>2. CASE n \notin DOMAIN s
    <3> DEFINE i == n - Len(s)
    <3>1. i \in DOMAIN t /\ u[n] = t[i]
      BY <2>2, <1>10
    <3>2. turn.role = "user"
      <4> SUFFICES ASSUME turn.role = "assistant" PROVE FALSE
        BY <1>2
      <4>1. t = <<say>> /\ say.role = "assistant"
        BY <1>4
      <4> HIDE DEF say
      <4>2. i = 1 /\ t[1] = say
        BY <3>1, <4>1
      <4> QED BY <3>1, <4>1, <4>2, <1>11
    <3>3. /\ \A j \in 1 .. i : t[j].role = "tool"
          /\ \E b \in ToSet(turn.blocks) : b.type = "tool_result" /\ t[i].ids[1] = b.id
      BY <1>5, <1>11, <3>1, <3>2
    <3>4. PICK b \in ToSet(turn.blocks) : b.type = "tool_result" /\ t[i].ids[1] = b.id
      BY <3>3
    <3>5. PICK m \in 1 .. k : Makes(c[m], b.id) /\ \A l \in m + 1 .. k : OnlyResults(c[l])
      BY <1>8, <3>2, <3>4
    <3>6. c[m].role = "assistant" /\ c[m] \in Turns
      <4>1. m \in DOMAIN c
        BY <1>1
      <4> QED BY <4>1, <3>5 DEF Makes, WellFormed
    <3>7. PICK p \in DOMAIN s :
            s[p] = AssistantMessage(c[m])[1] /\ \A q \in p + 1 .. Len(s) : s[q].role = "tool"
      BY <1>3, <3>5, <3>6
    <3>8. s[p].role = "assistant" /\ b.id \in ToSet(s[p].ids)
      BY <3>5, <3>6, <3>7, AssistantTurn
    <3>9. p \in 1 .. n - 1 /\ u[p] = s[p]
      BY <2>2, <1>9, <3>7
    <3>10. ASSUME NEW l \in p + 1 .. n - 1 PROVE u[l].role = "tool"
      <4>1. CASE l <= Len(s)
        <5>1. l \in DOMAIN s /\ l \in p + 1 .. Len(s)
          BY <4>1, <1>9, <3>9
        <5> QED BY <5>1, <1>9, <3>7
      <4>2. CASE l > Len(s)
        <5>1. l - Len(s) \in 1 .. i /\ l \in DOMAIN u /\ l \notin DOMAIN s
          BY <4>2, <1>9, <3>9
        <5>2. u[l] = t[l - Len(s)]
          BY <5>1, <1>10
        <5> HIDE DEF i
        <5> QED BY <5>1, <5>2, <3>3
      <4> QED BY <4>1, <4>2, <1>9, <3>9
    <3> HIDE DEF i
    <3> QED BY <3>1, <3>4, <3>8, <3>9, <3>10 DEF Behind
  <2> QED BY <2>1, <2>2
<1>12. ASSUME NEW m \in 1 .. k + 1, c[m].role = "assistant"
       PROVE  \E p \in DOMAIN u :
                /\ u[p] = AssistantMessage(c[m])[1]
                /\ (\A l \in m + 1 .. k + 1 : OnlyResults(c[l])) =>
                     \A q \in p + 1 .. Len(u) : u[q].role = "tool"
  <2>1. CASE m = k + 1
    <3> DEFINE p == Len(s) + 1
    <3>1. turn.role = "assistant" /\ AssistantMessage(c[m])[1] = say
      BY <2>1, <1>12 DEF turn
    <3>2. t = <<say>>
      BY <3>1, <1>4
    <3> HIDE DEF say
    <3>3. Len(t) = 1 /\ t[1] = say /\ 1 \in DOMAIN t
      BY <3>2
    <3>4. p \in DOMAIN u /\ u[p] = say /\ Len(u) = p
      BY <3>3, <1>9
    <3>5. p + 1 .. Len(u) = {}
      BY <3>4, <1>9
    <3> HIDE DEF p
    <3> QED BY <3>1, <3>4, <3>5
  <2>2. CASE m # k + 1
    <3>1. m \in 1 .. k
      BY <2>2
    <3>2. PICK p \in DOMAIN s :
            /\ s[p] = AssistantMessage(c[m])[1]
            /\ (\A l \in m + 1 .. k : OnlyResults(c[l])) =>
                 \A q \in p + 1 .. Len(s) : s[q].role = "tool"
      BY <1>3, <1>12, <3>1
    <3>3. p \in DOMAIN u /\ u[p] = s[p]
      BY <1>9
    <3>4. ASSUME \A l \in m + 1 .. k + 1 : OnlyResults(c[l]), NEW q \in p + 1 .. Len(u)
          PROVE  u[q].role = "tool"
      <4>1. \A l \in m + 1 .. k : l \in m + 1 .. k + 1
        BY <3>1
      <4>2. \A x \in p + 1 .. Len(s) : s[x].role = "tool"
        BY <3>2, <3>4, <4>1
      <4>3. OnlyResults(turn)
        <5>1. k + 1 \in m + 1 .. k + 1
          BY <3>1
        <5> QED BY <5>1, <3>4 DEF turn
      <4>4. \A i \in DOMAIN t : t[i].role = "tool"
        BY <4>3, <1>5, <1>7
      <4>5. CASE q \in DOMAIN s
        <5>1. q \in p + 1 .. Len(s)
          BY <4>5, <1>9
        <5> QED BY <5>1, <4>2, <4>5, <1>9
      <4>6. CASE q \notin DOMAIN s
        <5>1. q \in DOMAIN u
          BY <1>9
        <5> QED BY <5>1, <4>4, <4>6, <1>10
      <4> QED BY <4>5, <4>6
    <3> QED BY <3>2, <3>3, <3>4
  <2> QED BY <2>1, <2>2
<1>13. ResultsStand(u)
  BY <1>11 DEF ResultsStand
<1> QED BY <1>9, <1>12, <1>13 DEF SaidUpstream, u

(* A well-formed conversation is posted with its results in place.         *)
LEMMA PostedStand ==
    ASSUME NEW c, WellFormed(c)
    PROVE  ResultsStand(BuildUpstreamMessages(c))
<1> DEFINE parts == [i \in DOMAIN c |-> IF c[i].role = "user" THEN UserMessages(c[i])
                                        ELSE AssistantMessage(c[i])]
           T(k) == IF c[k].role = "user" THEN UserMessages(c[k]) ELSE AssistantMessage(c[k])
<1>1. DOMAIN c = 1 .. Len(c) /\ Len(c) \in Nat
  BY DEF WellFormed
<1>2. BuildUpstreamMessages(c) = FlattenSeq(parts)
  BY DEF BuildUpstreamMessages
<1>3. Len(parts) = Len(c) /\ \A i \in 1 .. Len(c) : parts[i] = T(i)
  BY <1>1
<1>4. CASE Len(c) = 0
  <2>1. parts = <<>>
    BY <1>1, <1>4
  <2> HIDE DEF parts
  <2>2. FlattenSeq(parts) = <<>>
    BY <1>3, <1>4, <2>1 DEF FlattenSeq
  <2> QED BY <1>2, <2>2 DEF ResultsStand
<1>5. CASE Len(c) # 0
  <2> HIDE DEF parts, T
  <2>1. PICK g : /\ FlattenSeq(parts) = g[Len(parts)] /\ g[1] = parts[1]
                 /\ \A i \in 1 .. Len(parts) - 1 : g[i + 1] = g[i] \o parts[i + 1]
    BY <1>1, <1>3, <1>5, FlattenIs
  <2>2. SaidUpstream(c, 0, <<>>)
    <3>1. DOMAIN <<>> = {} /\ <<>> \in Seq(Messages)
      OBVIOUS
    <3> QED BY <3>1 DEF SaidUpstream, ResultsStand
  <2>3. 1 \in DOMAIN c /\ 0 + 1 \in DOMAIN c
    BY <1>1, <1>5
  <2>4. SaidUpstream(c, 0 + 1, <<>> \o T(0 + 1))
    BY <2>2, <2>3, TurnMore DEF T
  <2>5. g[1] = T(1) /\ 0 + 1 = 1
    BY <2>1, <2>3, <1>1, <1>3
  <2>6. T(1) \in Seq(Messages)
    <3>1. c[1] \in Turns
      BY <2>3 DEF WellFormed
    <3> DEFINE say == AssistantMessage(c[1])[1]
    <3>2. AssistantMessage(c[1]) = <<say>> /\ say \in Messages
      BY <3>1, AssistantTurn
    <3> HIDE DEF say
    <3>3. AssistantMessage(c[1]) \in Seq(Messages)
      BY <3>2
    <3> QED BY <3>1, <3>3, UserTurn DEF T
  <2>7. SaidUpstream(c, 1, g[1])
    <3>1. <<>> \o T(1) = T(1)
      BY <2>6
    <3> QED BY <2>4, <2>5, <3>1
  <2> DEFINE Bad == {n \in Nat : n < Len(c) /\ ~SaidUpstream(c, n + 1, g[n + 1])}
  <2>8. Bad = {}
    <3> SUFFICES ASSUME Bad # {} PROVE FALSE
      OBVIOUS
    <3>1. PICK n \in Bad : \A m \in Bad : n <= m
      BY SmallestNat
    <3>2. n \in Nat /\ n < Len(c) /\ ~SaidUpstream(c, n + 1, g[n + 1])
      OBVIOUS
    <3>3. n # 0
      BY <2>7, <3>2
    <3>4. n - 1 \in Nat /\ n - 1 < Len(c) /\ n - 1 \notin Bad /\ (n - 1) + 1 = n
      <4>1. n - 1 \in Nat /\ n - 1 < Len(c) /\ (n - 1) + 1 = n /\ ~(n <= n - 1)
        BY <1>1, <3>2, <3>3
      <4> HIDE DEF Bad
      <4> QED BY <4>1, <3>1
    <3>5. SaidUpstream(c, n, g[n])
      BY <3>4
    <3>6. n + 1 \in DOMAIN c /\ n \in 1 .. Len(parts) - 1 /\ n + 1 \in 1 .. Len(c)
      BY <1>1, <1>3, <3>2, <3>3
    <3>7. g[n + 1] = g[n] \o T(n + 1)
      BY <2>1, <1>3, <3>6
    <3>8. SaidUpstream(c, n + 1, g[n] \o T(n + 1))
      BY <3>2, <3>5, <3>6, TurnMore DEF T
    <3> QED BY <3>2, <3>7, <3>8
  <2>9. SaidUpstream(c, Len(c), g[Len(c)])
    <3>1. Len(c) - 1 \in Nat /\ Len(c) - 1 < Len(c) /\ (Len(c) - 1) + 1 = Len(c)
      BY <1>1, <1>5
    <3>2. Len(c) - 1 \notin Bad
      BY <2>8
    <3> QED BY <3>1, <3>2
  <2> QED BY <1>2, <1>3, <2>1, <2>9 DEF SaidUpstream
<1> QED BY <1>4, <1>5

ChatFollows(c) ==
  \A n \in DOMAIN c : c[n].role = "tool" =>
    \E m \in 1 .. n - 1 :
      /\ c[m].role = "assistant" /\ c[n].ids[1] \in ToSet(c[m].ids)
      /\ \A l \in m + 1 .. n - 1 : c[l].role \in {"tool", ""}

(* A chat whose results stand, what is no message left aside, is posted    *)
(* with them in place.                                                     *)
LEMMA ChatStands ==
    ASSUME NEW c \in Seq(Messages), ChatFollows(c)
    PROVE  ResultsStand(NormalizeOpenAIChatMessages(c))
<1> DEFINE K == {n \in DOMAIN c : c[n].role # ""}
           s == Chosen(c, K)
           at == Ascending(K)
<1>1. DOMAIN c = 1 .. Len(c) /\ Len(c) \in Nat /\ K \in SUBSET DOMAIN c
  BY LenProperties
<1>2. \A k \in DOMAIN c : k \in K <=> c[k].role # ""
  OBVIOUS
<1>3. NormalizeOpenAIChatMessages(c) = s
  BY DEF NormalizeOpenAIChatMessages
<1> HIDE DEF K
<1>4. /\ s \in Seq(Messages) /\ at \in Seq(K) /\ DOMAIN s = DOMAIN at
      /\ \A n \in DOMAIN at : s[n] = c[at[n]]
      /\ \A k \in K : \E n \in DOMAIN at : at[n] = k
      /\ \A m, n \in DOMAIN at : m < n => at[m] < at[n]
  BY <1>1, ChosenIs
<1> HIDE DEF s, at
<1>5. DOMAIN at = 1 .. Len(at) /\ Len(at) \in Nat /\ \A n \in DOMAIN at : at[n] \in K
  BY <1>4
<1>6. ASSUME NEW n \in DOMAIN s, s[n].role = "tool" PROVE Behind(s, n)
  <2>1. n \in DOMAIN at /\ at[n] \in K /\ at[n] \in DOMAIN c /\ s[n] = c[at[n]]
    BY <1>1, <1>4, <1>5
  <2>2. PICK m \in 1 .. at[n] - 1 :
          /\ c[m].role = "assistant" /\ c[at[n]].ids[1] \in ToSet(c[m].ids)
          /\ \A l \in m + 1 .. at[n] - 1 : c[l].role \in {"tool", ""}
    BY <1>6, <2>1 DEF ChatFollows
  <2>3. m \in DOMAIN c
    BY <1>1, <2>1
  <2>4. PICK p \in DOMAIN at : at[p] = m
    BY <1>2, <1>4, <2>2, <2>3
  <2>5. at[n] \in Nat /\ at[p] \in Nat /\ n \in Nat /\ p \in Nat /\ p >= 1
    BY <1>1, <1>5, <2>1, <2>3, <2>4
  <2>6. p < n
    <3>1. p = n \/ n < p \/ p < n
      BY <2>5
    <3>2. at[p] < at[n]
      <4>1. \A i, j \in Nat : i \in 1 .. j - 1 => i < j
        OBVIOUS
      <4> HIDE DEF K
      <4> QED BY <4>1, <2>4, <2>5
    <3> QED BY <3>1, <3>2, <2>1, <2>5, <1>4
  <2>7. ASSUME NEW l \in p + 1 .. n - 1 PROVE s[l].role = "tool"
    <3>1. l \in DOMAIN at /\ p < l /\ l < n
      BY <1>5, <2>1, <2>5
    <3>2. at[p] < at[l] /\ at[l] < at[n] /\ at[l] \in K /\ at[l] \in DOMAIN c
      BY <1>1, <1>4, <1>5, <2>1, <3>1
    <3>3. at[l] \in m + 1 .. at[n] - 1
      BY <1>1, <2>4, <2>5, <3>2
    <3> QED BY <1>2, <1>4, <2>2, <3>1, <3>2, <3>3
  <2>8. s[p] = c[m] /\ p \in 1 .. n - 1
    BY <1>4, <2>4, <2>5, <2>6
  <2> QED BY <2>1, <2>2, <2>7, <2>8 DEF Behind
<1>7. ResultsStand(s)
  BY <1>6 DEF ResultsStand
<1> QED BY <1>3, <1>7

(* What a request has on its way up. *)
PostedInv ==
  /\ route \in Routes /\ ResultsStand(posted)
  /\ pc = "body" => conv \in CASE api = "messages" -> Conversations
                               [] api = "chat" -> Chats
                               [] OTHER -> {<<>>}

LEMMA PostStands == ASSUME PostedInv, Post PROVE PostedInv'
<1>1. route' = route /\ pc' = "posted" /\ api' = api /\ pc = "body"
  BY DEF Post, request, api
<1>2. ResultsStand(posted')
  <2>1. CASE api = "messages"
    <3>1. posted' = BuildUpstreamMessages(conv) /\ conv \in Conversations
      BY <1>1, <2>1 DEF Post, PostedInv
    <3>2. WellFormed(conv)
      BY <3>1, ConversationsAssumption DEF WellFormed
    <3> QED BY <3>1, <3>2, PostedStand
  <2>2. CASE api = "chat"
    <3>1. posted' = NormalizeOpenAIChatMessages(conv) /\ conv \in Chats
      BY <1>1, <2>2 DEF Post, PostedInv
    <3> QED BY <3>1, ChatsAssumption, ChatStands DEF ChatFollows
  <2>3. CASE api \notin {"messages", "chat"}
    <3>1. posted' = NormalizeOpenAIChatMessages(conv) /\ conv = <<>>
      BY <1>1, <2>3 DEF Post, PostedInv
    <3>2. <<>> \in Seq(Messages) /\ DOMAIN <<>> = {}
      OBVIOUS
    <3> QED BY <3>1, <3>2, ChatStands DEF ChatFollows
  <2> QED BY <2>1, <2>2, <2>3
<1> QED BY <1>1, <1>2 DEF PostedInv

(* Upstream, every tool result stands behind the assistant turn that made  *)
(* its call (ToolResultsFromMessage, buildUpstreamMessages,                *)
(* normalizeOpenAIChatMessages), whatever came with it, for any            *)
(* conversation in which each result answers the turn before it.           *)
THEOREM ResultsAlwaysFollow == StreamSpec => []ResultsFollowCalls
<1>1. StreamInit => PostedInv
  <2>1. ASSUME StreamInit PROVE DOMAIN posted = {}
    <3>1. posted = <<>>
      BY <2>1 DEF StreamInit
    <3> QED BY <3>1
  <2> SUFFICES ASSUME StreamInit PROVE PostedInv
    OBVIOUS
  <2>2. ResultsStand(posted)
    BY <2>1 DEF ResultsStand
  <2>3. route \in Routes /\ conv \in CASE api = "messages" -> Conversations
                                       [] api = "chat" -> Chats
                                       [] OTHER -> {<<>>}
    BY DEF StreamInit, api
  <2> QED BY <2>2, <2>3 DEF PostedInv
<1>2. PostedInv /\ [StreamNext]_streamVars => PostedInv'
  <2> SUFFICES ASSUME PostedInv, [StreamNext]_streamVars PROVE PostedInv'
    OBVIOUS
  <2>1. ASSUME route' = route, posted' = posted, conv' = conv, pc' = "body" => pc = "body"
        PROVE  PostedInv'
    BY <2>1 DEF PostedInv, api
  <2>2. CASE Refuse
    BY <2>1, <2>2 DEF Refuse, Reply, request
  <2>3. CASE Post
    BY <2>3, PostStands
  <2>4. CASE EngineAccepts
    <3>1. route' = route /\ posted' = <<>> /\ pc' = "frames" /\ api' = api
      BY <2>4 DEF EngineAccepts, request, api
    <3>2. DOMAIN posted' = {}
      BY <3>1
    <3> QED BY <3>1, <3>2 DEF PostedInv, ResultsStand
  <2>5. CASE Emit
    BY <2>1, <2>5 DEF Emit, request
  <2>6. CASE Collect
    BY <2>1, <2>6 DEF Collect, Reply, request
  <2>7. ASSUME NEW status, Retry(status) \/ Unreachable(status) PROVE PostedInv'
    BY <2>1, <2>7 DEF Retry, Unreachable, Reply, request
  <2>8. ASSUME NEW f, Frame(f) PROVE PostedInv'
    BY <2>1, <2>8 DEF Frame, request
  <2>9. ASSUME NEW how, Cut(how) PROVE PostedInv'
    BY <2>1, <2>9 DEF Cut, request
  <2>10. CASE UNCHANGED streamVars
    BY <2>1, <2>10 DEF streamVars, request
  <2> QED BY <2>2, <2>3, <2>4, <2>5, <2>6, <2>7, <2>8, <2>9, <2>10 DEF StreamNext
<1>3. PostedInv => ResultsFollowCalls
  BY DEF PostedInv, ResultsStand, Behind, ResultsFollowCalls
<1> QED BY <1>1, <1>2, <1>3, PTL DEF StreamSpec
=============================================================================
