---------------------------- MODULE MCModelCard -----------------------------
(* Charts and edits for TLC: flags that pin a window, share a pool, cap    *)
(* the slots, split it, leave everything open, and one slot count that     *)
(* upstream refuses.                                                       *)
EXTENDS ModelCard

Chart(m, r, l) == [mode |-> m, raw |-> r, rule |-> l]

Ctx(n) == <<Bare("ctx_size"), Word(Num(n))>>
Np(n)  == <<Bare("parallel"), Word(Num(n))>>

AutoPool  == Raw(Ctx(30))
SplitPool == Raw(Ctx(30) \o Np(3))
Capped    == Raw(<<Env("kv_unified_per_slot", Num(30)), Bare("kv_unified")>> \o Ctx(30) \o Np(2))
ZeroSlots == Raw(Ctx(30) \o Np(0))

SplitChart == {Chart("chat", SplitPool, "chart")}

OneChart == {Chart("chat", AutoPool, "chart")}

SafeRaws == {NoArgs, Capped}

PlainRaws == {AutoPool, NoArgs}

FewRaws == {AutoPool, ZeroSlots}

=============================================================================
