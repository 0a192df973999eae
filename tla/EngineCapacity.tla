--------------------------- MODULE EngineCapacity ---------------------------
(***************************************************************************)
(* internal/enginecapacity: what a running engine says it can hold, and    *)
(* the launch flags for what it does not say.                              *)
(*                                                                         *)
(* An engine resolves its flags against the hardware when it starts, and   *)
(* publishes some of the three numbers.  A reading names the endpoint it   *)
(* came from and the numbers that were declared, not measured.             *)
(***************************************************************************)
EXTENDS EngineFlags

Numbers == {"context", "width", "pool"}

(* What each kind publishes, and where; the daemon's answer has to name    *)
(* the model, or be about one model only.                                  *)
Published ==
    [llamacpp  |-> {"context", "width"},  sglang |-> Numbers,
     ollama    |-> {"context"},           vllm   |-> {"pool"},
     freetoken |-> {},                    strata |-> {}]

IsLLM(kind) == kind \in LLMKinds

PublishedBy(kind) == IF IsLLM(kind) THEN Published[kind] ELSE {"width"}

(* SGLang has a deprecated spelling of its endpoint, used when the first   *)
(* is not there.                                                           *)
SourcesOf(kind) ==
    CASE kind = "llamacpp" -> {"llamacpp_props"}
      [] kind = "sglang" -> {"sglang_server_info", "sglang_get_server_info"}
      [] kind = "ollama" -> {"ollama_ps"}
      [] kind = "vllm" -> {"vllm_metrics"}
      [] kind \in {"freetoken", "strata"} -> {}
      [] OTHER -> {"engine_capacity"}

Silent == [context |-> 0, width |-> 0, pool |-> 0, source |-> ""]

(* What a probe may bring back from an engine that resolved its flags so:  *)
(* vLLM and the sibling contract have nothing to say without their number. *)
Answers(kind, actual) ==
    IF \/ SourcesOf(kind) = {}
       \/ kind # "ollama" /\ \E n \in Numbers : PublishedBy(kind) = {n} /\ actual[n] = 0
    THEN {Silent}
    ELSE {[context |-> IF "context" \in PublishedBy(kind) THEN actual.context ELSE 0,
           width   |-> IF "width" \in PublishedBy(kind) THEN actual.width ELSE 0,
           pool    |-> IF "pool" \in PublishedBy(kind) THEN actual.pool ELSE 0,
           source  |-> s] : s \in SourcesOf(kind)}

(* declaredCapacity; outside the LLM kinds ENGINE_MAX_CONCURRENCY.         *)
Declared(kind, args, configured) ==
    [context |-> ContextSize(kind, args),
     width   |-> IF IsLLM(kind) THEN MaxConcurrency(kind, args) ELSE configured,
     pool    |-> PoolTokens(kind, args)]

Pick(measured, declared) == IF measured > 0 THEN measured ELSE declared

(* Probe: the source when nothing was measured is the flags, or the        *)
(* environment.                                                            *)
Unmeasured == {"engine_args", "engine_config"}

Reading(kind, args, configured, answer) ==
    LET declared == Declared(kind, args, configured) IN
    [context |-> Pick(answer.context, declared.context),
     width   |-> Pick(answer.width, declared.width),
     pool    |-> Pick(answer.pool, declared.pool),
     source  |-> IF answer.source # "" THEN answer.source
                 ELSE IF ~IsLLM(kind) /\ configured > 0 THEN "engine_config"
                 ELSE "engine_args",
     fromArgs |-> {n \in Numbers : /\ answer[n] = 0 /\ declared[n] > 0
                                   /\ IsLLM(kind) \/ n # "width"}]

(* The extension of a card that has none; a block without a source, which  *)
(* somebody else wrote, is no reading either.                              *)
NoReading ==
    [context |-> 0, width |-> 0, pool |-> 0, source |-> "", fromArgs |-> {}]

(* PoolTokensOf: the recorded pool before the declared one.                *)
PoolTokensOf(kind, args, reading) ==
    IF reading.source # "" /\ reading.pool > 0 THEN reading.pool
    ELSE PoolTokens(kind, args)

=============================================================================
