------------------------ MODULE RestartTracker_proofs ------------------------
(* For every set of callers, every window and every bound: what the status *)
(* of a restart request rests on, and that it changes as RestartVerdict    *)
(* allows.                                                                 *)
EXTENDS RestartTracker, TLAPS

(* A generation is armed once: it belongs to one caller, and nobody has    *)
(* observed it before.                                                     *)
GenerationsAreNew ==
    /\ \A r \in Requests :
           rpc[r] # "idle" => rgen[r] \in 1..clock /\ opc[rgen[r]] = "none"
    /\ \A r, s \in Requests :
           rpc[r] # "idle" /\ rpc[s] # "idle" /\ rgen[r] = rgen[s] => r = s
    /\ \A g \in Gens : g > clock => opc[g] = "none"

Active(g) == opc[g] \notin {"none", "done"}

(* The observation the status is about exists and has not been cancelled.  *)
CurrentIsLive ==
    /\ status.generation \in Gens \cup {NoFile}
    /\ \A g \in Gens :
           /\ opc[g] = "none" => ~cancelled[g]
           /\ status.generation = g => opc[g] # "none" /\ ~cancelled[g]

(* The local variables of an observation that has not been cancelled       *)
(* repeat what its probes found.  Between a probe and its judgement they   *)
(* are one probe behind.                                                   *)
LocalsTell(g) ==
    /\ opc[g] \in {"none", "baseline"} =>
           g \notin sawDown \cup sawUp /\ ~down[g] /\ ~confirmed[g]
    /\ opc[g] = "noteDown" => down[g]
    /\ opc[g] \notin {"none", "baseline", "done"} =>
           /\ down[g] => g \in sawDown
           /\ ~down[g] => g \in sawUp
           /\ confirmed[g] => down[g] /\ g \in sawUp
    /\ opc[g] \in {"noteDown", "sleep", "probe", "deadline"} =>
           /\ ~down[g] => g \notin sawDown
           /\ down[g] /\ ~confirmed[g] => g \notin sawUp
    /\ opc[g] = "judge" =>
           /\ seen[g] => g \in sawUp /\ (~down[g] => g \notin sawDown)
           /\ ~seen[g] => g \in sawDown /\ (down[g] /\ ~confirmed[g] => g \notin sawUp)
    /\ opc[g] = "persist" => down[g] /\ (~seen[g] => confirmed[g])

ProbesTell == \A g \in Gens : ~cancelled[g] => LocalsTell(g)

(* While its observation g goes on, the status repeats its local           *)
(* variables.                                                              *)
StatusOf(g) ==
    /\ status.state # "idle"
    /\ Active(g) /\ ~(opc[g] = "persist" /\ seen[g]) =>
           /\ ~status.observedBackAt
           /\ status.state = IF confirmed[g] THEN "confirmed" ELSE "watching"

StatusTells ==
    /\ status.generation = NoFile =>
           status.state = "idle" /\ ~status.observedDownAt /\ ~status.observedBackAt
    /\ \A g \in Gens : status.generation = g => StatusOf(g)

(* An idle process observes nothing, and believes what is on disk.         *)
IdleBelievesDisk ==
    status.state = "idle" =>
        /\ status.supervision = stateFile
        /\ \A g \in Gens : ~Active(g)

TrackerInv ==
    /\ TypeOK
    /\ GenerationsAreNew /\ CurrentIsLive /\ ProbesTell /\ StatusTells
    /\ IdleBelievesDisk
    /\ VerdictHasEvidence /\ SupervisionEarned

-----------------------------------------------------------------------------

USE DEF request, observe, engine, history

(* Every step of an observation keeps the types. *)
LEMMA ObserveTypeOK ==
    ASSUME TypeOK, NEW g \in Gens, Observe(g)
    PROVE  TypeOK'
<1> USE DEF TypeOK
<1>1. CASE Baseline(g)
  BY <1>1 DEF Baseline, RecordEvidence, Probe
<1>2. CASE NoteDown(g)
  BY <1>2 DEF NoteDown, Settle, Status, States
<1>3. CASE Sleep(g)
  BY <1>3 DEF Sleep
<1>4. CASE ProbeEngine(g)
  BY <1>4 DEF ProbeEngine, RecordEvidence, Probe
<1>5. CASE JudgeDip(g)
  BY <1>5 DEF JudgeDip, Settle, Status, States
<1>6. CASE JudgeRise(g)
  BY <1>6 DEF JudgeRise, Settle, Status, States
<1>7. CASE JudgeSame(g)
  BY <1>7 DEF JudgeSame
<1>8. CASE Persist(g)
  BY <1>8 DEF Persist
<1>9. CASE Continue(g)
  BY <1>9, TrackerAssumption DEF Continue, TrackerAssumption
<1>10. CASE Expire(g)
  BY <1>10, ZenonT(60) DEF Expire, Settle, Status, States
<1> QED BY <1>1, <1>2, <1>3, <1>4, <1>5, <1>6, <1>7, <1>8, <1>9, <1>10 DEF Observe

(* Every step keeps the types. *)
LEMMA NextTypeOK == TypeOK /\ GenerationsAreNew /\ [Next]_vars => TypeOK'
<1> SUFFICES ASSUME TypeOK, GenerationsAreNew, [Next]_vars PROVE TypeOK'
  OBVIOUS
<1> USE TrackerAssumption DEF TrackerAssumption
<1>1. ASSUME NEW r \in Requests, BumpWrite(r) PROVE TypeOK'
  BY <1>1 DEF BumpWrite, TypeOK, NoFile
<1>2. ASSUME NEW r \in Requests, BumpRename(r) PROVE TypeOK'
  BY <1>2 DEF BumpRename, TypeOK, NoFile
<1>3. ASSUME NEW r \in Requests, Arm(r) PROVE TypeOK'
  <2>1. rgen[r] \in Gens
    BY <1>3 DEF Arm, TypeOK, GenerationsAreNew, Gens
  <2>2. status' \in Status
    <3>1. rgen[r] \in Nat
      BY <2>1 DEF Gens
    <3> QED BY <1>3, <3>1 DEF Arm, TypeOK, Status, States
  <2>3. cancelled' \in [Gens -> BOOLEAN]
    BY <1>3, Zenon DEF Arm, TypeOK
  <2>4. opc' \in [Gens -> {"none", "baseline", "noteDown", "sleep", "probe",
                           "judge", "persist", "deadline", "done"}]
    BY <1>3, <2>1 DEF Arm, TypeOK
  <2> QED BY <1>3, <2>2, <2>3, <2>4 DEF Arm, TypeOK
<1>4. ASSUME NEW g \in Gens, Observe(g) PROVE TypeOK'
  BY <1>4, ObserveTypeOK
<1>5. CASE Supervise \/ EngineBack \/ EngineFails
  <2>1. CASE Supervise
    BY <2>1 DEF Supervise, TypeOK
  <2>2. CASE EngineBack
    BY <2>2 DEF EngineBack, TypeOK
  <2>3. CASE EngineFails
    <3>1. flaps' \in 0..MaxFlaps
      BY <2>3 DEF EngineFails, TypeOK
    <3>2. up' = FALSE /\ UNCHANGED <<request, stateFile, status, observe, acted,
                                    history, restarts>>
      BY <2>3 DEF EngineFails
    <3> QED BY <3>1, <3>2 DEF TypeOK
  <2> QED BY <1>5, <2>1, <2>2, <2>3
<1>6. CASE RestartProcess
  BY <1>6 DEF RestartProcess, FreshStatus, TypeOK, Status, States, NoFile
<1>7. CASE UNCHANGED vars
  BY <1>7 DEF vars, TypeOK
<1> QED BY <1>1, <1>2, <1>3, <1>4, <1>5, <1>6, <1>7 DEF Next, Request

-----------------------------------------------------------------------------

(* An observation touches nothing of another, and of the callers nothing.  *)
LEMMA ObserveIsLocal ==
    ASSUME TypeOK, NEW g \in Gens, Observe(g)
    PROVE  /\ UNCHANGED <<request, cancelled, restarts>>
           /\ opc[g] \notin {"none", "done"} /\ opc'[g] # "none"
           /\ \A h \in Gens : h # g =>
                  /\ opc'[h] = opc[h] /\ seen'[h] = seen[h]
                  /\ down'[h] = down[h] /\ confirmed'[h] = confirmed[h]
                  /\ h \in sawDown' <=> h \in sawDown
                  /\ h \in sawUp' <=> h \in sawUp
           /\ status.generation # g => status' = status
           /\ status'.generation = status.generation
           /\ sawDown \subseteq sawDown' /\ sawUp \subseteq sawUp'
<1> USE DEF TypeOK, Status
<1>1. CASE Baseline(g)
  BY <1>1 DEF Baseline, RecordEvidence
<1>2. CASE NoteDown(g)
  BY <1>2 DEF NoteDown, Settle
<1>3. CASE Sleep(g)
  BY <1>3 DEF Sleep
<1>4. CASE ProbeEngine(g)
  BY <1>4 DEF ProbeEngine, RecordEvidence
<1>5. CASE JudgeDip(g)
  BY <1>5 DEF JudgeDip, Settle
<1>6. CASE JudgeRise(g)
  BY <1>6 DEF JudgeRise, Settle
<1>7. CASE JudgeSame(g)
  BY <1>7 DEF JudgeSame
<1>8. CASE Persist(g)
  BY <1>8 DEF Persist
<1>9. CASE Continue(g)
  BY <1>9 DEF Continue
<1>10. CASE Expire(g)
  BY <1>10 DEF Expire, Settle
<1> QED BY <1>1, <1>2, <1>3, <1>4, <1>5, <1>6, <1>7, <1>8, <1>9, <1>10 DEF Observe

(* What the engine does by itself touches neither callers nor observations. *)
LEMMA EngineIsApart ==
    ASSUME Supervise \/ EngineBack \/ EngineFails \/ UNCHANGED vars
    PROVE  UNCHANGED <<request, stateFile, status, observe, history, restarts>>
BY DEF Supervise, EngineBack, EngineFails, vars

(* Bump takes a new generation, and Arm gives the caller's away. *)
LEMMA NextGenerationsAreNew ==
    TypeOK /\ GenerationsAreNew /\ [Next]_vars => GenerationsAreNew'
<1> SUFFICES ASSUME TypeOK, GenerationsAreNew, [Next]_vars PROVE GenerationsAreNew'
  OBVIOUS
<1> USE TrackerAssumption DEF TrackerAssumption
<1>1. ASSUME NEW r \in Requests, BumpWrite(r) PROVE GenerationsAreNew'
  BY <1>1 DEF BumpWrite, TypeOK, GenerationsAreNew, Gens
<1>2. ASSUME NEW r \in Requests, BumpRename(r) PROVE GenerationsAreNew'
  BY <1>2 DEF BumpRename, TypeOK, GenerationsAreNew
<1>3. ASSUME NEW r \in Requests, Arm(r) PROVE GenerationsAreNew'
  BY <1>3 DEF Arm, TypeOK, GenerationsAreNew, Gens
<1>4. ASSUME NEW g \in Gens, Observe(g) PROVE GenerationsAreNew'
  <2>1. \A h \in Gens : opc[h] = "none" <=> opc'[h] = "none"
    BY <1>4, ObserveIsLocal
  <2>2. UNCHANGED request
    BY <1>4, ObserveIsLocal
  <2> QED BY <2>1, <2>2 DEF TypeOK, GenerationsAreNew, Gens
<1>5. CASE Supervise \/ EngineBack \/ EngineFails \/ UNCHANGED vars
  BY <1>5, EngineIsApart DEF GenerationsAreNew
<1>6. CASE RestartProcess
  BY <1>6 DEF RestartProcess, TypeOK, GenerationsAreNew
<1> QED BY <1>1, <1>2, <1>3, <1>4, <1>5, <1>6 DEF Next, Request

(* Whoever is superseded is cancelled in the step that replaces the        *)
(* generation of the status.                                               *)
LEMMA NextCurrentIsLive ==
    TypeOK /\ GenerationsAreNew /\ CurrentIsLive /\ [Next]_vars => CurrentIsLive'
<1> SUFFICES ASSUME TypeOK, GenerationsAreNew, CurrentIsLive, [Next]_vars
             PROVE  CurrentIsLive'
  OBVIOUS
<1>1. ASSUME NEW r \in Requests, BumpWrite(r) \/ BumpRename(r) PROVE CurrentIsLive'
  BY <1>1 DEF BumpWrite, BumpRename, CurrentIsLive
<1>2. ASSUME NEW r \in Requests, Arm(r) PROVE CurrentIsLive'
  <2>1. rgen[r] \in Gens /\ opc[rgen[r]] = "none"
    BY <1>2, TrackerAssumption
    DEF Arm, TypeOK, GenerationsAreNew, Gens, TrackerAssumption
  <2>2. status'.generation = rgen[r]
    BY <1>2 DEF Arm, TypeOK, Status
  <2>3. \A g \in Gens : opc'[g] = IF g = rgen[r] THEN "baseline" ELSE opc[g]
    BY <1>2, <2>1 DEF Arm, TypeOK
  <2>4. \A g \in Gens : cancelled'[g] <=> cancelled[g] \/ opc[g] # "none"
    BY <1>2, Zenon DEF Arm, TypeOK
  <2> QED BY <2>1, <2>2, <2>3, <2>4 DEF CurrentIsLive
<1>3. ASSUME NEW g \in Gens, Observe(g) PROVE CurrentIsLive'
  BY <1>3, ObserveIsLocal DEF CurrentIsLive
<1>4. CASE Supervise \/ EngineBack \/ EngineFails \/ UNCHANGED vars
  BY <1>4, EngineIsApart DEF CurrentIsLive
<1>5. CASE RestartProcess
  BY <1>5, TrackerAssumption
  DEF RestartProcess, FreshStatus, TypeOK, CurrentIsLive, NoFile, Gens, TrackerAssumption
<1> QED BY <1>1, <1>2, <1>3, <1>4, <1>5 DEF Next, Request

(* Each step of an observation that is heard keeps its local variables     *)
(* true to what its probes found.                                          *)
LEMMA ObserveLocalsTell ==
    ASSUME TypeOK, NEW g \in Gens, ~cancelled[g], LocalsTell(g), Observe(g)
    PROVE  LocalsTell(g)'
<1> USE DEF TypeOK, LocalsTell
<1>1. CASE Baseline(g)
  BY <1>1 DEF Baseline, RecordEvidence, Probe
<1>2. CASE NoteDown(g)
  BY <1>2 DEF NoteDown
<1>3. CASE Sleep(g)
  BY <1>3 DEF Sleep
<1>4. CASE ProbeEngine(g)
  BY <1>4 DEF ProbeEngine, RecordEvidence, Probe
<1>5. CASE JudgeDip(g)
  BY <1>5 DEF JudgeDip
<1>6. CASE JudgeRise(g)
  BY <1>6 DEF JudgeRise
<1>7. CASE JudgeSame(g)
  BY <1>7 DEF JudgeSame
<1>8. CASE Persist(g)
  BY <1>8 DEF Persist
<1>9. CASE Continue(g)
  BY <1>9 DEF Continue
<1>10. CASE Expire(g)
  BY <1>10 DEF Expire
<1> QED BY <1>1, <1>2, <1>3, <1>4, <1>5, <1>6, <1>7, <1>8, <1>9, <1>10 DEF Observe

(* No step of another actor makes them untrue. *)
LEMMA NextProbesTell ==
    TypeOK /\ GenerationsAreNew /\ ProbesTell /\ [Next]_vars => ProbesTell'
<1> SUFFICES ASSUME TypeOK, GenerationsAreNew, ProbesTell, [Next]_vars
             PROVE  ProbesTell'
  OBVIOUS
<1>1. ASSUME NEW r \in Requests, BumpWrite(r) \/ BumpRename(r) PROVE ProbesTell'
  BY <1>1 DEF BumpWrite, BumpRename, ProbesTell, LocalsTell
<1>2. ASSUME NEW r \in Requests, Arm(r) PROVE ProbesTell'
  <2>1. rgen[r] \in Gens /\ opc[rgen[r]] = "none"
    BY <1>2, TrackerAssumption
    DEF Arm, TypeOK, GenerationsAreNew, Gens, TrackerAssumption
  <2>2. \A g \in Gens : opc'[g] = IF g = rgen[r] THEN "baseline" ELSE opc[g]
    BY <1>2, <2>1 DEF Arm, TypeOK
  <2>3. \A g \in Gens : cancelled'[g] <=> cancelled[g] \/ opc[g] # "none"
    BY <1>2, Zenon DEF Arm, TypeOK
  <2>4. UNCHANGED <<seen, down, confirmed, sawDown, sawUp>>
    BY <1>2 DEF Arm
  <2> QED BY <2>1, <2>2, <2>3, <2>4 DEF ProbesTell, LocalsTell
<1>3. ASSUME NEW g \in Gens, Observe(g) PROVE ProbesTell'
  <2> SUFFICES ASSUME NEW h \in Gens, ~cancelled'[h] PROVE LocalsTell(h)'
    BY DEF ProbesTell
  <2>1. ~cancelled[h]
    BY <1>3, ObserveIsLocal
  <2>2. CASE h = g
    BY <1>3, <2>1, <2>2, ObserveLocalsTell DEF ProbesTell
  <2>3. CASE h # g
    BY <1>3, <2>1, <2>3, ObserveIsLocal DEF ProbesTell, LocalsTell
  <2> QED BY <2>2, <2>3
<1>4. CASE Supervise \/ EngineBack \/ EngineFails \/ UNCHANGED vars
  BY <1>4, EngineIsApart DEF ProbesTell, LocalsTell
<1>5. CASE RestartProcess
  BY <1>5 DEF RestartProcess, TypeOK, ProbesTell, LocalsTell
<1> QED BY <1>1, <1>2, <1>3, <1>4, <1>5 DEF Next, Request

-----------------------------------------------------------------------------

(* The observation the status is about changes both together.  *)
LEMMA ObserveStatusOf ==
    ASSUME TypeOK, NEW g \in Gens, status.generation = g, StatusOf(g), LocalsTell(g),
           Observe(g)
    PROVE  StatusOf(g)'
<1> USE DEF TypeOK, StatusOf, Active, Status
<1>1. CASE Baseline(g)
  BY <1>1 DEF Baseline
<1>2. CASE NoteDown(g)
  BY <1>2 DEF NoteDown, Settle
<1>3. CASE Sleep(g)
  BY <1>3 DEF Sleep
<1>4. CASE ProbeEngine(g)
  BY <1>4 DEF ProbeEngine
<1>5. CASE JudgeDip(g)
  BY <1>5 DEF JudgeDip, Settle
<1>6. CASE JudgeRise(g)
  BY <1>6 DEF JudgeRise, Settle
<1>7. CASE JudgeSame(g)
  BY <1>7 DEF JudgeSame
<1>8. CASE Persist(g)
  BY <1>8 DEF Persist
<1>9. CASE Continue(g)
  BY <1>9 DEF Continue
<1>10. CASE Expire(g)
  BY <1>10 DEF Expire, Settle
<1> QED BY <1>1, <1>2, <1>3, <1>4, <1>5, <1>6, <1>7, <1>8, <1>9, <1>10 DEF Observe

(* The status goes on repeating its own observation: no step of another    *)
(* caller, of another observation or of the engine comes between.          *)
LEMMA NextStatusTells ==
    /\ TypeOK /\ GenerationsAreNew /\ CurrentIsLive /\ ProbesTell /\ StatusTells
    /\ [Next]_vars
    => StatusTells'
<1> SUFFICES ASSUME TypeOK, GenerationsAreNew, CurrentIsLive, ProbesTell, StatusTells,
                    [Next]_vars
             PROVE  StatusTells'
  OBVIOUS
<1>n. NoFile \notin Gens
  BY DEF NoFile, Gens
<1>1. ASSUME NEW r \in Requests, BumpWrite(r) \/ BumpRename(r) PROVE StatusTells'
  BY <1>1 DEF BumpWrite, BumpRename, StatusTells, StatusOf, Active
<1>2. ASSUME NEW r \in Requests, Arm(r) PROVE StatusTells'
  <2>1. rgen[r] \in Gens /\ opc[rgen[r]] = "none"
    BY <1>2, TrackerAssumption
    DEF Arm, TypeOK, GenerationsAreNew, Gens, TrackerAssumption
  <2>2. ~confirmed[rgen[r]]
    BY <2>1 DEF CurrentIsLive, ProbesTell, LocalsTell
  <2>3. /\ status'.generation = rgen[r] /\ status'.state = "watching"
        /\ ~status'.observedBackAt /\ UNCHANGED confirmed
    BY <1>2 DEF Arm, TypeOK, Status
  <2> QED BY <1>n, <2>1, <2>2, <2>3 DEF StatusTells, StatusOf
<1>3. ASSUME NEW g \in Gens, Observe(g) PROVE StatusTells'
  <2>1. CASE status.generation = g
    <3>1. LocalsTell(g) /\ StatusOf(g)
      BY <2>1 DEF CurrentIsLive, ProbesTell, StatusTells
    <3>2. StatusOf(g)' /\ status'.generation = g
      BY <1>3, <2>1, <3>1, ObserveStatusOf, ObserveIsLocal
    <3> QED BY <1>n, <3>2 DEF StatusTells
  <2>2. CASE status.generation # g
    <3>1. status' = status
      BY <1>3, <2>2, ObserveIsLocal
    <3>2. \A h \in Gens : h # g => opc'[h] = opc[h] /\ seen'[h] = seen[h]
                                   /\ confirmed'[h] = confirmed[h]
      BY <1>3, ObserveIsLocal
    <3> QED BY <2>2, <3>1, <3>2 DEF StatusTells, StatusOf, Active
  <2> QED BY <2>1, <2>2
<1>4. CASE Supervise \/ EngineBack \/ EngineFails \/ UNCHANGED vars
  BY <1>4, EngineIsApart DEF StatusTells, StatusOf, Active
<1>5. CASE RestartProcess
  BY <1>5, <1>n DEF RestartProcess, FreshStatus, StatusTells
<1> QED BY <1>1, <1>2, <1>3, <1>4, <1>5 DEF Next, Request

(* Evidence reaches the disk only through an observation, and a process    *)
(* that has one is not idle.                                               *)
LEMMA NextIdleBelievesDisk ==
    /\ TypeOK /\ CurrentIsLive /\ StatusTells /\ IdleBelievesDisk
    /\ [Next]_vars
    => IdleBelievesDisk'
<1> SUFFICES ASSUME TypeOK, CurrentIsLive, StatusTells, IdleBelievesDisk, [Next]_vars
             PROVE  IdleBelievesDisk'
  OBVIOUS
<1>1. ASSUME NEW r \in Requests, BumpWrite(r) \/ BumpRename(r) PROVE IdleBelievesDisk'
  BY <1>1 DEF BumpWrite, BumpRename, IdleBelievesDisk, Active
<1>2. ASSUME NEW r \in Requests, Arm(r) PROVE IdleBelievesDisk'
  BY <1>2 DEF Arm, TypeOK, Status, IdleBelievesDisk
<1>3. ASSUME NEW g \in Gens, Observe(g) PROVE IdleBelievesDisk'
  <2>1. status.state # "idle"
    BY <1>3, ObserveIsLocal DEF IdleBelievesDisk, Active
  <2>2. status'.state # "idle"
    BY <1>3, <2>1, ZenonT(60)
    DEF Observe, Baseline, NoteDown, Sleep, ProbeEngine, JudgeDip, JudgeRise, JudgeSame,
        Persist, Continue, Expire, Settle, TypeOK, Status
  <2> QED BY <2>2 DEF IdleBelievesDisk
<1>4. CASE Supervise \/ EngineBack \/ EngineFails \/ UNCHANGED vars
  BY <1>4, EngineIsApart DEF IdleBelievesDisk, Active
<1>5. CASE RestartProcess
  BY <1>5 DEF RestartProcess, FreshStatus, TypeOK, IdleBelievesDisk, Active
<1> QED BY <1>1, <1>2, <1>3, <1>4, <1>5 DEF Next, Request

(* A step of the observation the status is about keeps what the status     *)
(* says resting on what its probes found.                                  *)
LEMMA ObserveHasEvidence ==
    ASSUME TypeOK, NEW g \in Gens, status.generation = g, StatusOf(g), LocalsTell(g),
           VerdictHasEvidence, SupervisionEarned, Observe(g)
    PROVE  VerdictHasEvidence' /\ SupervisionEarned'
<1> USE DEF TypeOK, StatusOf, Active, Status, LocalsTell, VerdictHasEvidence,
            SupervisionEarned
<1>1. CASE Baseline(g)
  BY <1>1 DEF Baseline, RecordEvidence
<1>2. CASE NoteDown(g)
  BY <1>2 DEF NoteDown, Settle
<1>3. CASE Sleep(g)
  BY <1>3 DEF Sleep
<1>4. CASE ProbeEngine(g)
  BY <1>4 DEF ProbeEngine, RecordEvidence
<1>5. CASE JudgeDip(g)
  BY <1>5 DEF JudgeDip, Settle
<1>6. CASE JudgeRise(g)
  BY <1>6 DEF JudgeRise, Settle
<1>7. CASE JudgeSame(g)
  BY <1>7 DEF JudgeSame
<1>8. CASE Persist(g)
  BY <1>8 DEF Persist
<1>9. CASE Continue(g)
  BY <1>9 DEF Continue
<1>10. CASE Expire(g)
  <2>1. UNCHANGED <<history, restarts>>
    BY <1>10 DEF Expire
  <2>2. CASE ~down[g]
    <3>1. status' = [status EXCEPT !.state = "no-supervisor"]
      BY <1>10, <2>2 DEF Expire, Settle
    <3>2. g \in sawUp \ sawDown /\ ~status.observedBackAt
      BY <1>10, <2>2 DEF Expire
    <3> QED BY <2>1, <3>1, <3>2
  <2>3. CASE down[g] /\ ~confirmed[g]
    <3>1. status' = [status EXCEPT !.state = "unverified"]
      BY <1>10, <2>3 DEF Expire, Settle
    <3>2. g \in sawDown \ sawUp /\ ~status.observedBackAt
      BY <1>10, <2>3 DEF Expire
    <3> QED BY <2>1, <3>1, <3>2
  <2>4. CASE down[g] /\ confirmed[g]
    <3>1. status' = status
      BY <1>10, <2>4 DEF Expire
    <3> QED BY <2>1, <3>1
  <2> QED BY <2>2, <2>3, <2>4
<1> QED BY <1>1, <1>2, <1>3, <1>4, <1>5, <1>6, <1>7, <1>8, <1>9, <1>10 DEF Observe

(* And so does every other step. *)
LEMMA NextHasEvidence ==
    TrackerInv /\ [Next]_vars => VerdictHasEvidence' /\ SupervisionEarned'
<1> SUFFICES ASSUME TrackerInv, [Next]_vars
             PROVE  VerdictHasEvidence' /\ SupervisionEarned'
  OBVIOUS
<1> USE DEF TrackerInv
<1>1. ASSUME NEW r \in Requests, BumpWrite(r) \/ BumpRename(r)
      PROVE  VerdictHasEvidence' /\ SupervisionEarned'
  BY <1>1 DEF BumpWrite, BumpRename, VerdictHasEvidence, SupervisionEarned
<1>2. ASSUME NEW r \in Requests, Arm(r)
      PROVE  VerdictHasEvidence' /\ SupervisionEarned'
  BY <1>2 DEF Arm, TypeOK, Status, VerdictHasEvidence, SupervisionEarned
<1>3. ASSUME NEW g \in Gens, Observe(g)
      PROVE  VerdictHasEvidence' /\ SupervisionEarned'
  <2>1. CASE status.generation = g
    BY <1>3, <2>1, ObserveHasEvidence DEF CurrentIsLive, ProbesTell, StatusTells
  <2>2. CASE status.generation # g
    <3>1. /\ status' = status /\ restarts' = restarts
          /\ sawDown \subseteq sawDown' /\ sawUp \subseteq sawUp'
      BY <1>3, <2>2, ObserveIsLocal
    <3>2. status.generation \in Gens =>
              /\ status.generation \in sawDown' <=> status.generation \in sawDown
              /\ status.generation \in sawUp' <=> status.generation \in sawUp
      BY <1>3, <2>2, ObserveIsLocal
    <3>3. status.generation = NoFile => VerdictHasEvidence'
      BY <3>1 DEF StatusTells, VerdictHasEvidence
    <3>4. status.generation \in Gens => VerdictHasEvidence'
      BY <3>1, <3>2 DEF VerdictHasEvidence
    <3> QED BY <3>1, <3>3, <3>4 DEF CurrentIsLive, SupervisionEarned
  <2> QED BY <2>1, <2>2
<1>4. CASE Supervise \/ EngineBack \/ EngineFails \/ UNCHANGED vars
  BY <1>4, EngineIsApart DEF VerdictHasEvidence, SupervisionEarned
<1>5. CASE RestartProcess
  BY <1>5, TrackerAssumption
  DEF RestartProcess, FreshStatus, TypeOK, VerdictHasEvidence, SupervisionEarned,
      TrackerAssumption
<1> QED BY <1>1, <1>2, <1>3, <1>4, <1>5 DEF Next, Request

-----------------------------------------------------------------------------

(* The invariant holds of a new process and is kept by every step. *)
LEMMA TrackerInvariant == Spec => []TrackerInv
<1> USE DEF TrackerInv
<1>1. Init => TrackerInv
  <2> SUFFICES ASSUME Init PROVE TrackerInv
    OBVIOUS
  <2> USE DEF Init, FreshStatus, NoFile
  <2>1. TypeOK
    <3>1. status \in Status
      BY DEF Status, States
    <3>2. /\ cancelled \in [Gens -> BOOLEAN] /\ seen \in [Gens -> BOOLEAN]
          /\ down \in [Gens -> BOOLEAN] /\ confirmed \in [Gens -> BOOLEAN]
          /\ stateFile \in BOOLEAN /\ up \in BOOLEAN
      OBVIOUS
    <3> QED BY <3>1, <3>2, TrackerAssumption DEF TypeOK, TrackerAssumption
  <2>2. GenerationsAreNew
    BY DEF GenerationsAreNew
  <2>3. CurrentIsLive
    BY DEF CurrentIsLive, Gens
  <2>4. ProbesTell
    BY DEF ProbesTell, LocalsTell
  <2>5. StatusTells
    BY DEF StatusTells, Gens
  <2>6. IdleBelievesDisk
    BY DEF IdleBelievesDisk, Active
  <2>7. VerdictHasEvidence /\ SupervisionEarned
    BY DEF VerdictHasEvidence, SupervisionEarned
  <2> QED BY <2>1, <2>2, <2>3, <2>4, <2>5, <2>6, <2>7
<1>2. TrackerInv /\ [Next]_vars => TrackerInv'
  BY NextTypeOK, NextGenerationsAreNew, NextCurrentIsLive, NextProbesTell,
     NextStatusTells, NextIdleBelievesDisk, NextHasEvidence
<1> QED BY <1>1, <1>2, PTL DEF Spec

(* Whatever the status of a restart request says was found by live probes  *)
(* made for that very request (Tracker.settle).                            *)
THEOREM VerdictsHaveEvidence == Spec => []VerdictHasEvidence
<1>1. TrackerInv => VerdictHasEvidence
  BY DEF TrackerInv
<1> QED BY <1>1, TrackerInvariant, PTL

(* Supervision is not reported, before the first restart of the process,   *)
(* unless an observation found the engine on both sides of an edge.        *)
THEOREM SupervisionIsEarned == Spec => []SupervisionEarned
<1>1. TrackerInv => SupervisionEarned
  BY DEF TrackerInv
<1> QED BY <1>1, TrackerInvariant, PTL

-----------------------------------------------------------------------------
(* The refinement, but for its fairness.                                   *)

(* A step of an observation concludes a verdict that was still open, or    *)
(* does not show.                                                          *)
LEMMA ObserveRefines ==
    ASSUME TrackerInv, NEW g \in Gens, Observe(g)
    PROVE  Verdict!Next \/ UNCHANGED Verdict!vars
<1> USE DEF TrackerInv, TypeOK, Status, Verdict!vars
<1>1. CASE status.generation # g
  BY <1>1, ObserveIsLocal
<1>2. CASE status.generation = g
  <2>1. StatusOf(g) /\ LocalsTell(g)
    BY <1>2 DEF StatusTells, CurrentIsLive, ProbesTell
  <2>2. CASE Baseline(g) \/ Sleep(g) \/ ProbeEngine(g) \/ JudgeSame(g) \/ Persist(g)
             \/ Continue(g)
    BY <2>2 DEF Baseline, Sleep, ProbeEngine, JudgeSame, Persist, Continue
  <2>3. CASE NoteDown(g)
    BY <2>3 DEF NoteDown, Settle
  <2>4. CASE JudgeDip(g)
    BY <1>2, <2>1, <2>4
    DEF JudgeDip, Settle, StatusOf, Active, LocalsTell, Verdict!Next, Verdict!EngineSeenDown
  <2>5. CASE JudgeRise(g)
    BY <1>2, <2>1, <2>5
    DEF JudgeRise, Settle, StatusOf, Active, Verdict!Next, Verdict!EngineSeenBack
  <2>6. CASE Expire(g)
    BY <1>2, <2>1, <2>6, ZenonT(60)
    DEF Expire, Settle, StatusOf, Active, LocalsTell, Verdict!Next, Verdict!GiveUp
  <2> QED BY <2>2, <2>3, <2>4, <2>5, <2>6 DEF Observe
<1> QED BY <1>1, <1>2

(* Every step of the tracker is a step of RestartVerdict, or does not show *)
(* there: a verdict is about the latest request, is concluded once, moves  *)
(* afterwards only from "down" to "back", and evidence of a supervisor is  *)
(* lost only with the process (Tracker.Request, Tracker.observe).          *)
THEOREM TrackerRefinesVerdict == Spec => Verdict!Start /\ [][Verdict!Next]_(Verdict!vars)
<1>1. Init => Verdict!Start
  BY DEF Init, FreshStatus, Verdict!Start
<1>2. TrackerInv /\ [Next]_vars => [Verdict!Next]_(Verdict!vars)
  <2> SUFFICES ASSUME TrackerInv, [Next]_vars
               PROVE  Verdict!Next \/ UNCHANGED Verdict!vars
    OBVIOUS
  <2> USE DEF TrackerInv, Verdict!vars
  <2>1. ASSUME NEW r \in Requests, BumpWrite(r) \/ BumpRename(r)
        PROVE  UNCHANGED Verdict!vars
    BY <2>1 DEF BumpWrite, BumpRename
  <2>2. ASSUME NEW r \in Requests, Arm(r) PROVE Verdict!Next
    <3>1. rgen[r] \in Gens /\ opc[rgen[r]] = "none"
      BY <2>2, TrackerAssumption
      DEF Arm, TypeOK, GenerationsAreNew, Gens, TrackerAssumption
    <3>2. status.generation # rgen[r]
      BY <3>1 DEF CurrentIsLive
    <3>3. /\ status'.generation = rgen[r] /\ status'.state = "watching"
          /\ status'.supervision = status.supervision
      BY <2>2 DEF Arm, TypeOK, Status
    <3> QED BY <3>2, <3>3 DEF Verdict!Next, Verdict!Request
  <2>3. ASSUME NEW g \in Gens, Observe(g)
        PROVE  Verdict!Next \/ UNCHANGED Verdict!vars
    BY <2>3, ObserveRefines
  <2>4. CASE Supervise \/ EngineBack \/ EngineFails \/ UNCHANGED vars
    BY <2>4, EngineIsApart
  <2>5. CASE RestartProcess
    <3>1. /\ status'.state = "idle" /\ status'.supervision = stateFile
          /\ status'.generation = NoFile /\ stateFile \in BOOLEAN
      BY <2>5 DEF RestartProcess, FreshStatus, TypeOK
    <3>2. CASE status.state = "idle"
      <4>1. status.generation = NoFile
        BY <3>2 DEF CurrentIsLive, StatusTells, StatusOf
      <4> QED BY <3>1, <3>2, <4>1 DEF IdleBelievesDisk
    <3>3. CASE status.state # "idle"
      BY <3>1, <3>3 DEF Verdict!Next, Verdict!Restart, Verdict!Start
    <3> QED BY <3>2, <3>3
  <2> QED BY <2>1, <2>2, <2>3, <2>4, <2>5 DEF Next, Request
<1> QED BY <1>1, <1>2, TrackerInvariant, PTL DEF Spec

=============================================================================
