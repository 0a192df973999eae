----------------------------- MODULE EngineFlags -----------------------------
(***************************************************************************)
(* internal/config: what llm-init reads out of ENGINE_ARGS.                *)
(*                                                                         *)
(* The flags are on the model card, as one string; the wrapper hands it to *)
(* the engine as it is.  llm-init parses it too, into the keys it knows    *)
(* for that kind of engine, and derives three numbers from them: how much  *)
(* one request may use, how many run at once, and how many tokens the KV   *)
(* cache holds.  For llama.cpp these depend on each other.                 *)
(*                                                                         *)
(* A string is the sequence of its tokens, or is unbalanced and has none.  *)
(* A token has a flag or an environment name, known by its normalised key, *)
(* and may carry a value after "=", or it is a word.  A value is a number  *)
(* or some other text.                                                     *)
(***************************************************************************)
EXTENDS Integers, Sequences, SequencesExt

Num(n)  == [num |-> n, text |-> ""]
Text(s) == [num |-> 0, text |-> s]

(* The marker of a flag that stands alone: knownFlagPresent.               *)
Present == Text("true")

Bare(k)      == [shape |-> "flag", key |-> k, val |-> Present]
Set(k, v)    == [shape |-> "flag=", key |-> k, val |-> v]
Env(k, v)    == [shape |-> "env=", key |-> k, val |-> v]
Word(v)      == [shape |-> "word", key |-> "", val |-> v]

Raw(tokens)  == [balanced |-> TRUE, tokens |-> tokens]
Unbalanced   == [balanced |-> FALSE, tokens |-> <<>>]

NoArgs == Raw(<<>>)

-----------------------------------------------------------------------------
(* ParseEngineArgs. *)

LLMKinds == {"ollama", "vllm", "llamacpp", "sglang", "freetoken", "strata"}

(* The keys of the per-engine tables that a number is derived from; the    *)
(* other keys are only shown.                                              *)
KnownKeys ==
    [ollama    |-> {"num_ctx", "context_length", "num_parallel"},
     vllm      |-> {"max_model_len", "max_num_seqs"},
     llamacpp  |-> {"ctx_size", "parallel", "kv_unified", "no_kv_unified",
                    "kv_unified_per_slot"},
     sglang    |-> {"context_length", "max_running_requests", "max_total_tokens"},
     freetoken |-> {"max_running_requests"},
     strata    |-> {"context", "parallel"}]

(* The other kinds take no arguments here, and shlex wants its quotes      *)
(* closed.                                                                 *)
Parses(kind, raw) ==
    kind = "" \/ raw = NoArgs \/ (kind \in LLMKinds /\ raw.balanced)

Record(kind, known, key, val) ==
    IF key \in KnownKeys[kind]
    THEN [k \in DOMAIN known \cup {key} |-> IF k = key THEN val ELSE known[k]]
    ELSE known

(* A bare flag waits for what follows it: a word is its value, and before  *)
(* anything else, or at the end, it stands alone.  The daemon's list has   *)
(* no bare flags, the command lines of the others no environment names but *)
(* for llama.cpp.                                                          *)
Flush(kind, s) ==
    IF s.wait = "" THEN s.known ELSE Record(kind, s.known, s.wait, Present)

ParseToken(kind, s, t) ==
    IF t.shape = "word"
    THEN [known |-> IF s.wait = "" THEN s.known ELSE Record(kind, s.known, s.wait, t.val),
          wait |-> ""]
    ELSE IF t.shape = "flag"
    THEN [known |-> Flush(kind, s), wait |-> IF kind = "ollama" THEN "" ELSE t.key]
    ELSE [known |-> IF \/ t.shape = "env=" /\ kind \in {"ollama", "llamacpp"}
                       \/ t.shape = "flag=" /\ kind # "ollama"
                    THEN Record(kind, Flush(kind, s), t.key, t.val)
                    ELSE Flush(kind, s),
          wait |-> ""]

Known(kind, raw) ==
    LET after[i \in 0..Len(raw.tokens)] ==
            IF i = 0 THEN [known |-> << >>, wait |-> ""]
            ELSE LET s == after[i - 1] IN ParseToken(kind, s, raw.tokens[i])
    IN  IF kind \notin LLMKinds THEN << >>
        ELSE LET end == after[Len(raw.tokens)] IN Flush(kind, end)

-----------------------------------------------------------------------------
(* GetString and GetInt. *)

Has(args, k)   == k \in DOMAIN args
IsNum(args, k) == Has(args, k) /\ args[k].text = ""

(* A number that has to be positive to count; 0 is none. *)
Positive(args, k) ==
    IF IsNum(args, k) /\ args[k].num > 0 THEN args[k].num ELSE 0

-----------------------------------------------------------------------------
(* llama.cpp: one pool, or a share per slot. *)

AutoSlots == 4

(* Left out, or not a number, or negative: the server decides.             *)
SlotsAuto(args) ==
    ~IsNum(args, "parallel") \/ args["parallel"].num < 0

Slots(args) == IF SlotsAuto(args) THEN AutoSlots ELSE args["parallel"].num

Truthy(v) == v.text \in {"on", "enabled", "true"} \/ v = Num(1)

(* The server turns the pool on whenever it chooses the slots itself.      *)
(* Mutant: the flags are asked first.                                      *)
KVUnifiedAsWritten(args) ==
    /\ ~Has(args, "no_kv_unified")
    /\ Has(args, "kv_unified") /\ Truthy(args["kv_unified"])

KVUnifiedEffective(args) ==
    \/ SlotsAuto(args)
    \/ /\ ~Has(args, "no_kv_unified")
       /\ Has(args, "kv_unified") /\ Truthy(args["kv_unified"])

PerSlot(args) == Positive(args, "kv_unified_per_slot")

CONSTANT Align      \* what the server pads the pool and the shares to

ASSUME AlignAssumption == Align \in Nat \ {0}

PadUp(n) == ((n + Align - 1) \div Align) * Align

Least(a, b) == IF a < b THEN a ELSE b

LlamacppPool(args) ==
    IF Positive(args, "ctx_size") > 0 THEN PadUp(Positive(args, "ctx_size"))
    ELSE IF PerSlot(args) > 0 THEN PadUp(PerSlot(args) * Slots(args))
    ELSE 0

(* A pool of its own for every slot divides by their number.               *)
Divides(args) ==
    Positive(args, "ctx_size") > 0 /\ ~KVUnifiedEffective(args)

LlamacppContext(args) ==
    IF ~IsNum(args, "ctx_size") THEN PerSlot(args)
    ELSE IF Positive(args, "ctx_size") = 0 THEN 0
    ELSE IF Divides(args) THEN PadUp(LlamacppPool(args) \div Slots(args))
    ELSE IF PerSlot(args) > 0 THEN Least(PerSlot(args), LlamacppPool(args))
    ELSE LlamacppPool(args)

(* Whether the slots may promise more than the pool holds.  Mutant: any    *)
(* ceiling per slot opts out.                                              *)
OversubscribedUnlessCapped(args) ==
    KVUnifiedEffective(args) /\ Slots(args) > 1 /\ PerSlot(args) = 0

Oversubscribed(args) ==
    /\ KVUnifiedEffective(args)
    /\ Slots(args) > 1
    /\ PerSlot(args) = 0 \/ LlamacppPool(args) = 0
       \/ PerSlot(args) * Slots(args) > LlamacppPool(args)

-----------------------------------------------------------------------------
(* The three numbers; 0 is not pinned by the flags. *)

ContextKey == [vllm |-> "max_model_len", sglang |-> "context_length", strata |-> "context"]

OllamaContext(args) ==
    IF Positive(args, "num_ctx") > 0 THEN Positive(args, "num_ctx")
    ELSE Positive(args, "context_length")

ContextSize(kind, args) ==
    CASE kind = "llamacpp" -> LlamacppContext(args)
      [] kind = "ollama" -> OllamaContext(args)
      [] kind \in DOMAIN ContextKey -> Positive(args, ContextKey[kind])
      [] OTHER -> 0

WidthKey ==
    [ollama |-> "num_parallel", vllm |-> "max_num_seqs", llamacpp |-> "parallel",
     sglang |-> "max_running_requests", freetoken |-> "max_running_requests",
     strata |-> "parallel"]

MaxConcurrency(kind, args) ==
    IF kind = "llamacpp" /\ SlotsAuto(args) THEN AutoSlots
    ELSE IF kind \in DOMAIN WidthKey THEN Positive(args, WidthKey[kind])
    ELSE 0

PoolTokens(kind, args) ==
    CASE kind = "llamacpp" -> LlamacppPool(args)
      [] kind = "sglang" -> Positive(args, "max_total_tokens")
      [] kind = "ollama" -> OllamaContext(args) * Positive(args, "num_parallel")
      [] OTHER -> 0

(* Working the numbers out divides by a slot count of the operator's.      *)
Computable(kind, args) ==
    kind = "llamacpp" /\ Divides(args) => Slots(args) # 0

=============================================================================
