-------------------------- MODULE ModelCard_proofs --------------------------
(***************************************************************************)
(* Proofs about ModelCard: for any charts, flags, edits, outages and boots *)
(* the card that is served is the one on disk and says what its flags      *)
(* mean, a restart leaves it as it is, and slots without the gate fit the  *)
(* pool.                                                                   *)
(***************************************************************************)
EXTENDS ModelCard, SequenceTheorems, WellFoundedInduction, TLAPS

-----------------------------------------------------------------------------
(***************************************************************************)
(* Arithmetic.                                                             *)
(***************************************************************************)

(* A set of numbers has a least one.  Stated of sets and not of predicates *)
(* so that the provers can use it: an induction below looks at a smallest  *)
(* counterexample.                                                         *)
LEMMA SmallestNat ==
    ASSUME NEW T \in SUBSET Nat, T # {}
    PROVE  \E n \in T : \A m \in T : n <= m
<1> DEFINE R == OpToRel(<, Nat)
<1>1. R = {ss \in Nat \X Nat : ss[1] < ss[2]}
  BY DEF OpToRel
<1>2. IsWellFoundedOn(R, Nat)
  BY NatLessThanWellFounded
<1> HIDE DEF R
<1>3. PICK n \in T : \A m \in T : ~(<<m, n>> \in R)
  BY <1>2, WFMin
<1>4. ASSUME NEW m \in T PROVE n <= m
  <2>1. m \in Nat /\ n \in Nat /\ <<m, n>> \in Nat \X Nat
    OBVIOUS
  <2>2. <<m, n>> \in R <=> m < n
    BY <1>1, <2>1
  <2>3. ~(m < n)
    BY <1>3, <2>2
  <2> QED BY <2>1, <2>3
<1> QED BY <1>4

(* A product of numbers is one. *)
LEMMA Times == \A a \in Nat, b \in Nat : a * b \in Nat
OBVIOUS

(* A product grows with a factor. *)
LEMMA TimesMore == \A a \in Nat, b \in Nat, c \in Nat : b <= c => a * b <= a * c
OBVIOUS

(* What a quotient is. *)
LEMMA Quotient ==
    ASSUME NEW a \in Nat, NEW b \in Nat \ {0}
    PROVE  /\ a \div b \in Nat
           /\ b * (a \div b) <= a
           /\ a < b * (a \div b) + b
OBVIOUS

(* Padding adds less than one unit. *)
LEMMA Padded ==
    ASSUME NEW n \in Nat
    PROVE  PadUp(n) \in Nat /\ n <= PadUp(n) /\ PadUp(n) < n + Align
<1> DEFINE q == (n + Align - 1) \div Align
<1>1. Align \in Nat \ {0} /\ n + Align - 1 \in Nat
  BY AlignAssumption
<1>2. /\ q \in Nat /\ Align * q <= n + Align - 1 /\ n + Align - 1 < Align * q + Align
  BY <1>1, Quotient
<1> HIDE DEF q
<1>3. q * Align = Align * q /\ Align * q \in Nat
  BY <1>1, <1>2
<1>4. PadUp(n) = q * Align
  BY DEF PadUp, q
<1> QED BY <1>1, <1>2, <1>3, <1>4

-----------------------------------------------------------------------------
(***************************************************************************)
(* The inductive invariant.                                                *)
(***************************************************************************)

(* A card, whatever its mode, its ladder and its reading. *)
CardSpace(modes, rules, readings) ==
    [mode : modes, raw : AllRaws, keyed : BOOLEAN, context : Nat, output : Nat,
     rule : rules, reading : readings]

IsCard(c) == c \in CardSpace({c.mode}, {c.rule}, {c.reading})

(* A card as Normalised leaves it: it says what its flags mean, and they   *)
(* can be worked out.                                                      *)
Honest(c) ==
    /\ Computable(Kind, Args(c))
    /\ ContextSize(Kind, Args(c)) \in {0, c.context}
    /\ c.mode = "chat" /\ c.context > 3 => c.output \in 1..c.context - 1
    /\ Kind = "llamacpp" /\ c.mode = "embedding" => EmbeddingFlag \in ToSet(c.raw.tokens)

(* There is a card, and one that has its key. *)
Made(c) == c.mode # "" /\ c.keyed

(* Whoever runs serves what is on disk; and once flags were handed over,   *)
(* they are those of a card on disk that has been normalised.              *)
CardInv ==
    /\ up \in BOOLEAN /\ relaunch \in BOOLEAN
    /\ handoff \in [there : BOOLEAN, raw : AllRaws]
    /\ IsCard(disk) /\ IsCard(card)
    /\ disk = NoCard \/ disk.mode # ""
    /\ up => disk = card /\ handoff.there
    /\ handoff.there => Honest(disk) /\ Made(disk) /\ handoff.raw = disk.raw

-----------------------------------------------------------------------------
(***************************************************************************)
(* What the parser returns.                                                *)
(***************************************************************************)

(* A value has a number, and a table of what was parsed holds values. *)
IsValue(v) == v.num \in Int

HoldsValues(args) == \A k \in DOMAIN args : IsValue(args[k])

(* The parser's state after each token: one turn, and all of them.         *)
Turn(raw, g, i) ==
    IF i = 0 THEN [known |-> << >>, wait |-> ""] ELSE ParseToken(Kind, g[i - 1], raw.tokens[i])

IsParse(raw, g) == g = [i \in 0..Len(raw.tokens) |-> Turn(raw, g, i)]

(* Known is what a function chosen as IsParse says of the last token. *)
LEMMA KnownUnfolds ==
    ASSUME NEW raw
    PROVE  Known(Kind, raw) =
               IF Kind \notin LLMKinds THEN << >>
               ELSE Flush(Kind, (CHOOSE g : IsParse(raw, g))[Len(raw.tokens)])
BY DEF Known, IsParse, Turn

(* There is one: up to the first n tokens for every n. *)
LEMMA ParseExists ==
    ASSUME NEW raw \in RawFlags
    PROVE  \E g : IsParse(raw, g)
<1> DEFINE L == Len(raw.tokens)
           Upto(n) == \E g : /\ g = [i \in 0..L |-> g[i]]
                             /\ \A i \in 0..L : i <= n => g[i] = Turn(raw, g, i)
           Bad == {n \in Nat : ~Upto(n)}
<1>0. L \in Nat
  BY DEF RawFlags
<1> HIDE DEF L
<1>1. Upto(0)
  <2> DEFINE g == [i \in 0..L |-> [known |-> << >>, wait |-> ""]]
  <2>1. g = [i \in 0..L |-> g[i]]
    OBVIOUS
  <2>2. ASSUME NEW i \in 0..L, i <= 0 PROVE g[i] = Turn(raw, g, i)
    <3>1. i = 0
      BY <1>0, <2>2
    <3>2. g[i] = [known |-> << >>, wait |-> ""]
      OBVIOUS
    <3> HIDE DEF g
    <3> QED BY <3>1, <3>2 DEF Turn
  <2> HIDE DEF g
  <2> QED BY <2>1, <2>2
<1>2. ASSUME NEW n \in Nat, Upto(n) PROVE Upto(n + 1)
  <2>1. PICK g : /\ g = [i \in 0..L |-> g[i]]
                 /\ \A i \in 0..L : i <= n => g[i] = Turn(raw, g, i)
    BY <1>2
  <2> DEFINE h == [i \in 0..L |-> Turn(raw, g, i)]
  <2>2. h = [i \in 0..L |-> h[i]]
    OBVIOUS
  <2>3. \A i \in 0..L : h[i] = Turn(raw, g, i)
    OBVIOUS
  <2> HIDE DEF h
  <2>4. \A i \in 0..L : i <= n => h[i] = g[i]
    BY <2>1, <2>3
  <2>5. ASSUME NEW i \in 0..L, i <= n + 1 PROVE h[i] = Turn(raw, h, i)
    <3>1. CASE i = 0
      BY <2>3, <3>1 DEF Turn
    <3>2. CASE i # 0
      <4>1. i - 1 \in 0..L /\ i - 1 <= n
        BY <1>0, <2>5, <3>2
      <4>2. h[i - 1] = g[i - 1]
        BY <2>4, <4>1
      <4> QED BY <2>3, <3>2, <4>2 DEF Turn
    <3> QED BY <3>1, <3>2
  <2> QED BY <2>2, <2>5
<1>3. Bad = {}
  <2> SUFFICES ASSUME Bad # {} PROVE FALSE
    OBVIOUS
  <2>1. PICK n \in Bad : \A m \in Bad : n <= m
    BY SmallestNat
  <2> HIDE DEF Upto
  <2>2. n # 0 /\ n \in Nat /\ ~Upto(n)
    BY <1>1
  <2>3. n - 1 \in Nat /\ Upto(n - 1)
    BY <2>1, <2>2
  <2>4. Upto((n - 1) + 1)
    BY <1>2, <2>3
  <2> QED BY <2>2, <2>4
<1>4. Upto(L)
  BY <1>0, <1>3
<1>5. PICK g : /\ g = [i \in 0..L |-> g[i]]
               /\ \A i \in 0..L : i <= L => g[i] = Turn(raw, g, i)
  BY <1>4
<1>6. g = [i \in 0..L |-> Turn(raw, g, i)]
  BY <1>0, <1>5
<1> QED BY <1>6 DEF IsParse, L

(* A key recorded with a value keeps a table one of values. *)
LEMMA RecordKeeps ==
    ASSUME NEW known, HoldsValues(known), NEW key, NEW val, IsValue(val)
    PROVE  HoldsValues(Record(Kind, known, key, val))
BY DEF HoldsValues, Record

(* The marker of a flag that stands alone is a value. *)
LEMMA PresentIsValue == IsValue(Present)
BY DEF IsValue, Present, Text

(* A flag that waited for a value and got none keeps a table one of values. *)
LEMMA FlushKeeps ==
    ASSUME NEW s, HoldsValues(s.known)
    PROVE  HoldsValues(Flush(Kind, s))
<1> QED BY PresentIsValue, RecordKeeps DEF Flush

(* One token keeps the parser's table one of values. *)
LEMMA TokenKeeps ==
    ASSUME NEW s, HoldsValues(s.known), NEW t \in Tokens
    PROVE  HoldsValues(ParseToken(Kind, s, t).known)
<1>1. IsValue(t.val)
  BY FlagsAssumption DEF IsValue
<1>2. HoldsValues(Flush(Kind, s))
  BY FlushKeeps
<1>3. /\ HoldsValues(Record(Kind, s.known, s.wait, t.val))
      /\ HoldsValues(Record(Kind, Flush(Kind, s), t.key, t.val))
  BY <1>1, <1>2, RecordKeeps
<1> QED BY <1>2, <1>3 DEF ParseToken

(* A field of a record that is only known by an equation. *)
LEMMA KnownField ==
    ASSUME NEW x, NEW e, NEW w, x = [known |-> e, wait |-> w]
    PROVE  x.known = e
OBVIOUS

(* Whatever the flags, what was parsed from them are values. *)
LEMMA KnownHoldsValues ==
    ASSUME NEW raw \in RawFlags
    PROVE  HoldsValues(Known(Kind, raw))
<1> DEFINE L == Len(raw.tokens)
           g == CHOOSE g : IsParse(raw, g)
           Bad == {i \in 0..L : ~HoldsValues(g[i].known)}
<1>0. L \in Nat /\ \A i \in 1..L : raw.tokens[i] \in Tokens
  BY DEF RawFlags
<1>1. IsParse(raw, g)
  BY ParseExists
<1>2. Known(Kind, raw) = IF Kind \notin LLMKinds THEN << >> ELSE Flush(Kind, g[L])
  BY KnownUnfolds
<1> HIDE DEF g, L
<1>3. \A i \in 0..L : g[i] = Turn(raw, g, i)
  BY <1>1 DEF IsParse, L
<1>4. HoldsValues(<< >>)
  BY DEF HoldsValues
<1>5. Bad = {}
  <2> SUFFICES ASSUME Bad # {} PROVE FALSE
    OBVIOUS
  <2>1. Bad \in SUBSET Nat
    BY <1>0
  <2>2. PICK i \in Bad : \A m \in Bad : i <= m
    BY <2>1, SmallestNat
  <2>3. i \in 0..L /\ ~HoldsValues(g[i].known) /\ g[i] = Turn(raw, g, i)
    BY <1>3
  <2>4. i # 0
    <3> SUFFICES ASSUME i = 0 PROVE FALSE
      OBVIOUS
    <3>1. g[i] = [known |-> << >>, wait |-> ""]
      BY <2>3 DEF Turn
    <3>2. g[i].known = << >>
      BY <3>1, KnownField
    <3>3. HoldsValues(g[i].known)
      BY ONLY <1>4, <3>2
    <3> QED BY <2>3, <3>3
  <2>5. i \in 1..L /\ i - 1 \in 0..L /\ ~(i <= i - 1)
    BY <1>0, <2>3, <2>4
  <2>6. HoldsValues(g[i - 1].known)
    BY <2>2, <2>5
  <2>7. HoldsValues(ParseToken(Kind, g[i - 1], raw.tokens[i]).known)
    BY <1>0, <2>5, <2>6, TokenKeeps
  <2> QED BY <2>3, <2>4, <2>7 DEF Turn
<1>6. L \in 0..L
  BY <1>0
<1>7. HoldsValues(g[L].known)
  BY <1>5, <1>6
<1>8. HoldsValues(Flush(Kind, g[L]))
  BY <1>7, FlushKeeps
<1> QED BY <1>2, <1>4, <1>8

(* Every set of flags a card can carry is flags, and one with the          *)
(* embedding flag added has it.                                            *)
LEMMA RawsAreFlags ==
    /\ AllRaws \subseteq RawFlags
    /\ NoArgs \in AllRaws /\ Raws \subseteq AllRaws
    /\ \A chart \in Charts : chart.raw \in AllRaws
    /\ \A raw \in AllRaws : EmbeddingFlag \notin ToSet(raw.tokens) => WithFlag(raw) \in AllRaws
    /\ \A raw \in AllRaws : EmbeddingFlag \in ToSet(WithFlag(raw).tokens)
<1>2. EmbeddingFlag \in Tokens
  BY DEF Tokens
<1>3. ASSUME NEW raw \in RawFlags
      PROVE WithFlag(raw) \in RawFlags /\ EmbeddingFlag \in ToSet(WithFlag(raw).tokens)
  <2> DEFINE more == Append(raw.tokens, EmbeddingFlag)
  <2>1. raw.tokens \in Seq(Tokens)
    BY DEF RawFlags
  <2>2. more \in Seq(Tokens) /\ Len(more) = Len(raw.tokens) + 1 /\ Len(raw.tokens) \in Nat
        /\ more[Len(more)] = EmbeddingFlag
    BY <1>2, <2>1, AppendProperties
  <2> HIDE DEF more
  <2>3. WithFlag(raw) \in RawFlags /\ WithFlag(raw).tokens = more
    BY <2>2 DEF RawFlags, WithFlag, more
  <2>4. EmbeddingFlag \in ToSet(more)
    <3>1. DOMAIN more = 1..Len(more) /\ Len(more) \in DOMAIN more
      BY <2>2
    <3> QED BY <2>2, <3>1 DEF ToSet
  <2> QED BY <2>3, <2>4
<1>5. AllRaws \subseteq RawFlags
  BY <1>3, FlagsAssumption DEF AllRaws
<1>6. \A raw \in AllRaws : EmbeddingFlag \notin ToSet(raw.tokens) => WithFlag(raw) \in AllRaws
  BY <1>3, FlagsAssumption DEF AllRaws
<1>7. \A raw \in AllRaws : EmbeddingFlag \in ToSet(WithFlag(raw).tokens)
  BY <1>3, <1>5
<1>8. NoArgs \in AllRaws /\ Raws \subseteq AllRaws /\ \A chart \in Charts : chart.raw \in AllRaws
  BY DEF AllRaws, Given
<1> QED BY <1>5, <1>6, <1>7, <1>8

-----------------------------------------------------------------------------
(***************************************************************************)
(* The numbers derived from the flags.                                     *)
(***************************************************************************)

(* A number that has to be positive to count, the slots, a slot's ceiling  *)
(* and the pool are numbers, negative flags or not.                        *)
LEMMA PositiveIsNat ==
    ASSUME NEW args, HoldsValues(args), NEW k
    PROVE  Positive(args, k) \in Nat
<1>1. Has(args, k) => args[k].num \in Int
  BY DEF Has, HoldsValues, IsValue
<1>2. CASE IsNum(args, k) /\ args[k].num > 0
  <2>1. args[k].num \in Int
    BY <1>1, <1>2 DEF IsNum
  <2>2. Positive(args, k) = args[k].num
    BY <1>2 DEF Positive
  <2> QED BY <1>2, <2>1, <2>2
<1>3. CASE ~(IsNum(args, k) /\ args[k].num > 0)
  BY <1>3 DEF Positive
<1> QED BY <1>2, <1>3

LEMMA SlotsAreNat ==
    ASSUME NEW args, HoldsValues(args)
    PROVE  Slots(args) \in Nat
<1>1. CASE SlotsAuto(args)
  BY <1>1 DEF Slots, AutoSlots
<1>2. CASE ~SlotsAuto(args)
  <2>1. Has(args, "parallel") /\ ~(args["parallel"].num < 0)
    BY <1>2 DEF SlotsAuto, IsNum
  <2>2. args["parallel"].num \in Int
    BY <2>1 DEF Has, HoldsValues, IsValue
  <2>3. Slots(args) = args["parallel"].num
    BY <1>2 DEF Slots
  <2> QED BY <2>1, <2>2, <2>3
<1> QED BY <1>1, <1>2

LEMMA PoolIsNat ==
    ASSUME NEW args, HoldsValues(args)
    PROVE  /\ PerSlot(args) \in Nat /\ LlamacppPool(args) \in Nat
           /\ PerSlot(args) > 0 /\ Positive(args, "ctx_size") = 0
                 => PerSlot(args) * Slots(args) <= LlamacppPool(args)
<1>1. PerSlot(args) \in Nat /\ Slots(args) \in Nat /\ Positive(args, "ctx_size") \in Nat
  BY PositiveIsNat, SlotsAreNat DEF PerSlot
<1>2. PerSlot(args) * Slots(args) \in Nat
  BY <1>1, Times
<1>3. /\ PadUp(Positive(args, "ctx_size")) \in Nat
      /\ PadUp(PerSlot(args) * Slots(args)) \in Nat
      /\ PerSlot(args) * Slots(args) <= PadUp(PerSlot(args) * Slots(args))
  BY <1>1, <1>2, Padded
<1> QED BY <1>1, <1>3 DEF LlamacppPool

LEMMA LlamacppContextIsNat ==
    ASSUME NEW args, HoldsValues(args), Divides(args) => Slots(args) # 0
    PROVE  LlamacppContext(args) \in Nat
<1>1. /\ PerSlot(args) \in Nat /\ LlamacppPool(args) \in Nat
      /\ Slots(args) \in Nat /\ Positive(args, "ctx_size") \in Nat
  BY PositiveIsNat, SlotsAreNat, PoolIsNat
<1>2. CASE Divides(args)
  <2>1. LlamacppPool(args) \div Slots(args) \in Nat
    BY <1>1, <1>2, Quotient
  <2>2. PadUp(LlamacppPool(args) \div Slots(args)) \in Nat
    BY <2>1, Padded
  <2> QED BY <1>1, <1>2, <2>2 DEF LlamacppContext
<1>3. CASE ~Divides(args)
  BY <1>1, <1>3 DEF LlamacppContext, Least
<1> QED BY <1>2, <1>3

(* So is the window, when it can be worked out, for every kind of engine.  *)
LEMMA ContextIsNat ==
    ASSUME NEW args, HoldsValues(args), Computable(Kind, args)
    PROVE  ContextSize(Kind, args) \in Nat
<1>0. "llamacpp" \notin DOMAIN ContextKey /\ "ollama" \notin DOMAIN ContextKey
  BY DEF ContextKey
<1>1. CASE Kind = "llamacpp"
  <2>1. LlamacppContext(args) \in Nat
    BY <1>1, LlamacppContextIsNat DEF Computable
  <2> QED BY <1>0, <1>1, <2>1 DEF ContextSize
<1>2. CASE Kind = "ollama"
  <2>1. OllamaContext(args) \in Nat
    BY PositiveIsNat DEF OllamaContext
  <2> QED BY <1>0, <1>2, <2>1 DEF ContextSize
<1>3. CASE Kind # "llamacpp" /\ Kind # "ollama" /\ Kind \in DOMAIN ContextKey
  <2>1. Positive(args, ContextKey[Kind]) \in Nat
    BY PositiveIsNat
  <2> QED BY <1>3, <2>1 DEF ContextSize
<1>4. CASE Kind # "llamacpp" /\ Kind # "ollama" /\ Kind \notin DOMAIN ContextKey
  BY <1>4 DEF ContextSize
<1> QED BY <1>1, <1>2, <1>3, <1>4

(* Shares of what is left of the pool, padded, exceed it by their padding. *)
LEMMA SharesFit ==
    ASSUME NEW s \in Nat, s # 0, NEW p \in Nat
    PROVE  s * PadUp(p \div s) < p + s * Align
<1> DEFINE q == p \div s
           c == PadUp(q)
<1>1. q \in Nat /\ s * q <= p
  BY Quotient
<1> HIDE DEF q
<1>2. c \in Nat /\ c < q + Align
  BY <1>1, Padded
<1> HIDE DEF c
<1>3. Align \in Nat
  BY AlignAssumption
<1>4. c + 1 <= q + Align /\ c + 1 \in Nat /\ q + Align \in Nat
  BY <1>1, <1>2, <1>3
<1>5. s * (c + 1) <= s * (q + Align)
  BY <1>4, TimesMore
<1>6. s * (c + 1) = s * c + s /\ s * (q + Align) = s * q + s * Align
  BY <1>1, <1>2, <1>3
<1>7. s * c \in Nat /\ s * q \in Nat /\ s * Align \in Nat
  BY <1>1, <1>2, <1>3, Times
<1>8. s * c < p + s * Align
  BY <1>1, <1>5, <1>6, <1>7
<1> QED BY <1>8 DEF c, q

(* Slots that LlamacppKVOversubscribed lets pass fit, whatever the flags.  *)
LEMMA SlotsFit ==
    ASSUME NEW args, HoldsValues(args), Divides(args) => Slots(args) # 0,
           ~Oversubscribed(args), LlamacppPool(args) > 0
    PROVE  Slots(args) * LlamacppContext(args) < LlamacppPool(args) + Slots(args) * Align
<1> DEFINE s == Slots(args)
           p == LlamacppPool(args)
           c == LlamacppContext(args)
           u == PerSlot(args)
<1>1. s \in Nat /\ p \in Nat /\ p > 0 /\ u \in Nat /\ Positive(args, "ctx_size") \in Nat
  BY SlotsAreNat, PoolIsNat, PositiveIsNat
<1>2. Align \in Nat /\ Align > 0
  BY AlignAssumption
<1>3. s * Align \in Nat /\ s * u \in Nat /\ u * s = s * u
  BY <1>1, <1>2, Times
<1>a. s # 0 => s * Align > 0
  <2>1. s # 0 => s * 1 <= s * Align
    BY <1>1, <1>2, TimesMore
  <2> QED BY <1>1, <1>3, <2>1
<1>4. c \in Nat
  BY LlamacppContextIsNat
<1>5. ASSUME s * c <= p, s # 0 PROVE s * c < p + s * Align
  <2>1. s * c \in Nat
    BY <1>1, <1>4, Times
  <2> QED BY <1>1, <1>3, <1>a, <1>5, <2>1
<1>6. ASSUME s = 0 PROVE s * c < p + s * Align
  <2>1. s * c = 0
    BY <1>4, <1>6
  <2> QED BY <1>1, <1>3, <2>1
<1>7. CASE Divides(args)
  <2>1. c = PadUp(p \div s)
    BY <1>7 DEF LlamacppContext, Divides, Positive
  <2>2. s # 0
    BY <1>7
  <2> HIDE DEF s, p, c
  <2>3. s * PadUp(p \div s) < p + s * Align
    BY <1>1, <2>2, SharesFit
  <2>4. s * c < p + s * Align
    BY <2>1, <2>3
  <2> QED BY <2>4 DEF s, p, c
<1>8. CASE ~Divides(args) /\ Positive(args, "ctx_size") = 0
  <2>1. c = 0 \/ c = u
    BY <1>8 DEF LlamacppContext, Positive
  <2>2. u > 0 /\ s * u <= p
    BY <1>1, <1>3, <1>8, PoolIsNat DEF LlamacppPool
  <2> HIDE DEF s, p, c, u
  <2>3. s * c <= p
    BY <1>1, <2>1, <2>2
  <2>4. s * c < p + s * Align
    BY <1>5, <1>6, <2>3
  <2> QED BY <2>4 DEF s, p, c
<1>9. CASE ~Divides(args) /\ Positive(args, "ctx_size") # 0
  <2>1. c = IF u > 0 THEN Least(u, p) ELSE p
    BY <1>1, <1>9 DEF LlamacppContext, Positive
  <2>2. s <= 1 \/ (u > 0 /\ u * s <= p)
    BY <1>1, <1>3, <1>9 DEF Divides, Oversubscribed
  <2> HIDE DEF s, p, c, u
  <2>3. c <= p /\ (u > 0 => c <= u)
    BY <1>1, <2>1 DEF Least
  <2>4. CASE s = 0
    <3>1. s * c < p + s * Align
      BY <1>6, <2>4
    <3> QED BY <3>1 DEF s, p, c
  <2>5. CASE s = 1
    <3>1. s * c <= p
      BY <1>1, <1>4, <2>3, <2>5
    <3>2. s * c < p + s * Align
      BY <1>5, <2>5, <3>1
    <3> QED BY <3>2 DEF s, p, c
  <2>6. CASE u > 0 /\ u * s <= p /\ s # 0
    <3>1. s * c <= s * u
      BY <1>1, <1>4, <2>3, <2>6, TimesMore
    <3>2. s * c \in Nat
      BY <1>1, <1>4, Times
    <3>3. s * c <= p
      BY <1>1, <1>3, <2>6, <3>1, <3>2
    <3>4. s * c < p + s * Align
      BY <1>5, <2>6, <3>3
    <3> QED BY <3>4 DEF s, p, c
  <2> QED BY <1>1, <2>2, <2>4, <2>5, <2>6
<1> QED BY <1>1, <1>7, <1>8, <1>9

-----------------------------------------------------------------------------
(***************************************************************************)
(* What Normalised makes of a card.                                        *)
(***************************************************************************)

(* The flags of a card parse to values. *)
LEMMA ArgsHold ==
    ASSUME NEW c, IsCard(c)
    PROVE  HoldsValues(Args(c))
<1>1. c.raw \in AllRaws /\ c.raw \in RawFlags
  BY RawsAreFlags DEF IsCard, CardSpace
<1>2. Args(c) = Known(Kind, c.raw)
  BY <1>1 DEF Args, Parsed
<1> QED BY <1>1, <1>2, KnownHoldsValues

(* A card that differs from another in what its flags do not depend on.    *)
SameFlags(c, d) == c.raw = d.raw /\ c.mode = d.mode /\ c.keyed = d.keyed

(* The mode's flags are added, and nothing else. *)
LEMMA ModeFlags ==
    ASSUME NEW c, IsCard(c)
    PROVE  LET d == WithModeFlags(c) IN
           /\ IsCard(d) /\ d.mode = c.mode /\ d.keyed = c.keyed
           /\ Kind = "llamacpp" /\ d.mode = "embedding"
                 => EmbeddingFlag \in ToSet(d.raw.tokens)
<1> DEFINE lacks == /\ Kind = "llamacpp" /\ c.mode = "embedding"
                    /\ EmbeddingFlag \notin ToSet(c.raw.tokens)
           d == WithModeFlags(c)
<1>1. c.raw \in AllRaws
  BY DEF IsCard, CardSpace
<1>2. CASE lacks
  <2>1. /\ WithFlag(c.raw) \in AllRaws
        /\ EmbeddingFlag \in ToSet(WithFlag(c.raw).tokens)
    BY <1>1, <1>2, RawsAreFlags
  <2>2. d = [c EXCEPT !.raw = WithFlag(c.raw)]
    BY <1>2 DEF WithModeFlags
  <2>3. /\ d \in CardSpace({c.mode}, {c.rule}, {c.reading})
        /\ d.raw = WithFlag(c.raw) /\ d.mode = c.mode /\ d.keyed = c.keyed
        /\ d.rule = c.rule /\ d.reading = c.reading
    BY <2>1, <2>2 DEF IsCard, CardSpace
  <2> HIDE DEF d
  <2>4. IsCard(d)
    BY <2>3 DEF IsCard
  <2> QED BY <2>1, <2>3, <2>4 DEF d
<1>3. CASE ~lacks
  <2>1. d = c
    BY <1>3 DEF WithModeFlags
  <2> QED BY <1>3, <2>1
<1> QED BY <1>2, <1>3

(* The window becomes the one the flags pin. *)
LEMMA ContextIsTold ==
    ASSUME NEW c, IsCard(c), Computable(Kind, Args(c))
    PROVE  LET d == WithContext(c) IN
           /\ IsCard(d) /\ SameFlags(c, d)
           /\ ContextSize(Kind, Args(d)) \in {0, d.context}
<1> DEFINE n == ContextSize(Kind, Args(c))
           d == WithContext(c)
<1>1. n \in Nat
  BY ArgsHold, ContextIsNat
<1>2. d = IF n = 0 THEN c ELSE [c EXCEPT !.context = n]
  BY DEF WithContext
<1>3. ASSUME d.raw = c.raw PROVE ContextSize(Kind, Args(d)) = n
  BY <1>3 DEF Args
<1> HIDE DEF n, d
<1>4. CASE n = 0
  BY <1>2, <1>3, <1>4 DEF SameFlags, d
<1>5. CASE n # 0
  <2>1. d = [c EXCEPT !.context = n]
    BY <1>2, <1>5
  <2>2. /\ d \in CardSpace({c.mode}, {c.rule}, {c.reading})
        /\ d.raw = c.raw /\ d.mode = c.mode /\ d.keyed = c.keyed
        /\ d.rule = c.rule /\ d.reading = c.reading /\ d.context = n
    BY <1>1, <2>1 DEF IsCard, CardSpace
  <2>3. IsCard(d)
    BY <2>2 DEF IsCard
  <2> QED BY <1>3, <2>2, <2>3 DEF SameFlags, d
<1> QED BY <1>4, <1>5

(* A quarter of a window above 3 is a reply that leaves room, and there is *)
(* none of a smaller one.                                                  *)
LEMMA Quarter ==
    ASSUME NEW n \in Nat
    PROVE  /\ n \div 4 \in Nat
           /\ n > 3 <=> n \div 4 # 0
           /\ n > 3 => n \div 4 \in 1..n - 1
<1> DEFINE q == n \div 4
<1>1. q \in Nat /\ 4 * q <= n /\ n < 4 * q + 4
  BY Quotient
<1> HIDE DEF q
<1>2. q \in Nat /\ (n > 3 <=> q # 0) /\ (n > 3 => q \in 1..n - 1)
  BY <1>1
<1> QED BY <1>2 DEF q

(* The reply leaves room for a prompt. *)
LEMMA OutputIsTold ==
    ASSUME NEW c, IsCard(c)
    PROVE  LET d == WithOutput(c) IN
           /\ IsCard(d) /\ SameFlags(c, d) /\ d.context = c.context
           /\ d.mode = "chat" /\ d.context > 3 => d.output \in 1..d.context - 1
<1> DEFINE keeps == c.mode # "chat" \/ c.context \div 4 = 0 \/ c.output \in 1..c.context - 1
           d == WithOutput(c)
<1>1. c.context \in Nat
  BY DEF IsCard, CardSpace
<1>2. /\ c.context \div 4 \in Nat
      /\ c.context > 3 <=> c.context \div 4 # 0
      /\ c.context > 3 => c.context \div 4 \in 1..c.context - 1
  BY <1>1, Quarter
<1>3. CASE keeps
  <2>1. d = c
    BY <1>3 DEF WithOutput
  <2>2. c.mode = "chat" /\ c.context > 3 => c.output \in 1..c.context - 1
    BY <1>2, <1>3
  <2> QED BY <2>1, <2>2 DEF SameFlags
<1>4. CASE ~keeps
  <2>1. d = [c EXCEPT !.output = c.context \div 4]
    BY <1>4 DEF WithOutput
  <2>2. /\ d \in CardSpace({c.mode}, {c.rule}, {c.reading})
        /\ d.raw = c.raw /\ d.mode = c.mode /\ d.keyed = c.keyed
        /\ d.rule = c.rule /\ d.reading = c.reading /\ d.context = c.context
        /\ d.output = c.context \div 4
    BY <1>2, <2>1 DEF IsCard, CardSpace
  <2> HIDE DEF d
  <2>3. IsCard(d)
    BY <2>2 DEF IsCard
  <2> QED BY <1>2, <2>2, <2>3 DEF SameFlags, d
<1> QED BY <1>3, <1>4

(* A card that NormalizeSpecForEngine returns is honest, and made if the   *)
(* one it was given was.                                                   *)
LEMMA NormalisedIsHonest ==
    ASSUME NEW c, IsCard(c), Acceptable(c), ~Panics(c)
    PROVE  /\ IsCard(Normalised(c)) /\ Honest(Normalised(c))
           /\ Made(c) => Made(Normalised(c))
<1> DEFINE d == WithModeFlags(c)
           e == WithContext(d)
           f == WithOutput(e)
<1>1. Computable(Kind, Args(d))
  BY DEF Panics
<1>2. /\ IsCard(d) /\ d.mode = c.mode /\ d.keyed = c.keyed
      /\ Kind = "llamacpp" /\ d.mode = "embedding" => EmbeddingFlag \in ToSet(d.raw.tokens)
  BY ModeFlags
<1>f. Normalised(c) = f
  BY DEF Normalised
<1> HIDE DEF d
<1>3. /\ IsCard(e) /\ SameFlags(d, e)
      /\ ContextSize(Kind, Args(e)) \in {0, e.context}
  BY <1>1, <1>2, ContextIsTold
<1> HIDE DEF e
<1>4. /\ IsCard(f) /\ SameFlags(e, f) /\ f.context = e.context
      /\ f.mode = "chat" /\ f.context > 3 => f.output \in 1..f.context - 1
  BY <1>3, OutputIsTold
<1> HIDE DEF f
<1>5. f.raw = d.raw /\ f.mode = d.mode /\ f.keyed = d.keyed /\ f.raw = e.raw
  BY <1>3, <1>4 DEF SameFlags
<1>6. Args(f) = Args(d) /\ Args(f) = Args(e)
  BY <1>5 DEF Args
<1>7. Honest(f)
  BY <1>1, <1>2, <1>3, <1>4, <1>5, <1>6 DEF Honest
<1>8. Made(c) => Made(f)
  BY <1>2, <1>5 DEF Made
<1> QED BY <1>4, <1>7, <1>8, <1>f

(* Normalising an honest card does not panic and leaves it as it is. *)
LEMMA HonestIsNormal ==
    ASSUME NEW c, IsCard(c), Honest(c)
    PROVE  Normalised(c) = c /\ ~Panics(c)
<1>1. WithModeFlags(c) = c
  BY DEF Honest, WithModeFlags
<1>2. WithContext(c) = c
  <2> DEFINE n == ContextSize(Kind, Args(c))
  <2>1. n = 0 \/ n = c.context
    BY DEF Honest
  <2>2. WithContext(c) = IF n = 0 THEN c ELSE [c EXCEPT !.context = n]
    BY DEF WithContext
  <2> HIDE DEF n
  <2>3. [c EXCEPT !.context = c.context] = c
    BY DEF IsCard, CardSpace
  <2> QED BY <2>1, <2>2, <2>3
<1>3. WithOutput(c) = c
  <2>1. c.context \in Nat
    BY DEF IsCard, CardSpace
  <2>2. c.context > 3 <=> c.context \div 4 # 0
    BY <2>1, Quarter
  <2>3. c.mode # "chat" \/ c.context \div 4 = 0 \/ c.output \in 1..c.context - 1
    BY <2>2 DEF Honest
  <2> QED BY <2>3 DEF WithOutput
<1>4. ~Panics(c)
  BY <1>1 DEF Panics, Honest
<1> QED BY <1>1, <1>2, <1>3, <1>4 DEF Normalised

-----------------------------------------------------------------------------
(***************************************************************************)
(* CardInv is an invariant.                                                *)
(***************************************************************************)

(* Cards that are made up from constants. *)
LEMMA BlankIsCard ==
    /\ IsCard(Blank) /\ Made(Blank)
    /\ IsCard(NoCard) /\ NoCard.mode = ""
    /\ IsCard([Blank EXCEPT !.keyed = FALSE]) /\ [Blank EXCEPT !.keyed = FALSE].mode # ""
<1>1. NoArgs \in AllRaws
  BY RawsAreFlags
<1> HIDE DEF NoArgs
<1>2. Blank \in CardSpace({"chat"}, {"none"}, {NoReading})
  BY <1>1 DEF Blank, CardSpace
<1>3. Blank.mode = "chat" /\ Blank.rule = "none" /\ Blank.reading = NoReading /\ Blank.keyed = TRUE
  BY DEF Blank
<1>4. NoCard \in CardSpace({""}, {"none"}, {NoReading})
      /\ NoCard.mode = "" /\ NoCard.rule = "none" /\ NoCard.reading = NoReading
  BY <1>2, <1>3 DEF NoCard, CardSpace
<1> DEFINE old == [Blank EXCEPT !.keyed = FALSE]
<1>5. old \in CardSpace({"chat"}, {"none"}, {NoReading})
      /\ old.mode = "chat" /\ old.rule = "none" /\ old.reading = NoReading
  BY <1>2, <1>3 DEF CardSpace
<1> HIDE DEF old
<1>6. IsCard(Blank) /\ Made(Blank)
  BY <1>2, <1>3 DEF IsCard, Made
<1>7. IsCard(NoCard)
  BY <1>4 DEF IsCard
<1>8. IsCard(old)
  BY <1>5 DEF IsCard
<1> QED BY <1>4, <1>5, <1>6, <1>7, <1>8 DEF old

(* The first state: no card, or one without its key, and nothing handed over. *)
LEMMA CardInit == Init => CardInv
<1> SUFFICES ASSUME Init PROVE CardInv
  OBVIOUS
<1>1. up = FALSE /\ relaunch = FALSE /\ handoff.there = FALSE
  BY DEF Init
<1>2. handoff \in [there : BOOLEAN, raw : AllRaws]
  BY RawsAreFlags DEF Init
<1>3. IsCard(disk) /\ IsCard(card)
  BY BlankIsCard DEF Init
<1>4. disk = NoCard \/ disk.mode # ""
  BY BlankIsCard DEF Init
<1> QED BY <1>1, <1>2, <1>3, <1>4 DEF CardInv

(* One card but for its ladder is as honest as the other. *)
LEMMA LadderIsFree ==
    ASSUME NEW c, IsCard(c), NEW r
    PROVE  LET d == [c EXCEPT !.rule = r] IN
           /\ IsCard(d) /\ d.raw = c.raw /\ d.mode = c.mode
           /\ [d EXCEPT !.rule = ""] = [c EXCEPT !.rule = ""]
           /\ Honest(c) => Honest(d)
           /\ Made(c) => Made(d)
<1> DEFINE d == [c EXCEPT !.rule = r]
<1>1. /\ d \in CardSpace({c.mode}, {r}, {c.reading})
      /\ d.raw = c.raw /\ d.mode = c.mode /\ d.keyed = c.keyed
      /\ d.rule = r /\ d.reading = c.reading /\ d.context = c.context
      /\ d.output = c.output
  BY DEF IsCard, CardSpace
<1>2. [d EXCEPT !.rule = ""] = [c EXCEPT !.rule = ""]
  BY DEF IsCard, CardSpace
<1> HIDE DEF d
<1>3. IsCard(d)
  BY <1>1 DEF IsCard
<1>4. Args(d) = Args(c)
  BY <1>1 DEF Args
<1>5. Honest(c) => Honest(d)
  BY <1>1, <1>4 DEF Honest
<1>6. Made(c) => Made(d)
  BY <1>1 DEF Made
<1> QED BY <1>1, <1>2, <1>3, <1>5, <1>6 DEF d

(* What a boot finds is a card, with its key and a mode; once flags were   *)
(* handed over it is the one on disk but for its ladder.                   *)
LEMMA ReconciledTells ==
    ASSUME CardInv, NEW chart \in Charts
    PROVE  LET seen == Reconciled(chart) IN
           /\ IsCard(seen) /\ Made(seen)
           /\ handoff.there =>
                 /\ Honest(seen) /\ seen.raw = disk.raw
                 /\ [seen EXCEPT !.rule = ""] = [disk EXCEPT !.rule = ""]
<1> DEFINE seen == Reconciled(chart)
           c == Backfilled(disk, chart)
<1>0. /\ IsCard(disk) /\ chart.raw \in AllRaws /\ chart.mode # ""
      /\ handoff.there => Honest(disk) /\ Made(disk)
  BY RawsAreFlags, ModesAssumption DEF CardInv
<1>1. CASE disk = NoCard
  <2>1. ~handoff.there
    BY <1>0, <1>1, BlankIsCard DEF Made
  <2>2. seen = [Blank EXCEPT !.mode = chart.mode, !.raw = chart.raw, !.rule = chart.rule]
    BY <1>1 DEF Reconciled, Seed
  <2>3. Blank \in CardSpace({Blank.mode}, {Blank.rule}, {Blank.reading}) /\ Blank.keyed
    BY BlankIsCard DEF IsCard, Made
  <2>4. /\ seen \in CardSpace({chart.mode}, {chart.rule}, {Blank.reading})
        /\ seen.mode = chart.mode /\ seen.rule = chart.rule
        /\ seen.reading = Blank.reading /\ seen.keyed = Blank.keyed
    BY <1>0, <2>2, <2>3 DEF CardSpace
  <2> HIDE DEF seen
  <2>5. IsCard(seen) /\ Made(seen)
    BY <1>0, <2>3, <2>4 DEF IsCard, Made
  <2> QED BY <2>1, <2>5 DEF seen
<1>2. CASE disk # NoCard
  <2>1. disk.keyed \in BOOLEAN
    BY <1>0 DEF IsCard, CardSpace
  <2>2. IsCard(c) /\ c.keyed /\ c.mode = disk.mode /\ (disk.keyed => c = disk)
    <3>1. CASE disk.keyed
      <4>1. c = disk
        BY <3>1 DEF Backfilled
      <4> QED BY <1>0, <3>1, <4>1
    <3>2. CASE ~disk.keyed
      <4>1. c = [disk EXCEPT !.raw = chart.raw, !.keyed = TRUE]
        BY <3>2 DEF Backfilled
      <4>2. /\ c \in CardSpace({disk.mode}, {disk.rule}, {disk.reading})
            /\ c.mode = disk.mode /\ c.rule = disk.rule /\ c.reading = disk.reading
            /\ c.keyed = TRUE
        BY <1>0, <4>1 DEF IsCard, CardSpace
      <4> HIDE DEF c
      <4>3. IsCard(c)
        BY <4>2 DEF IsCard
      <4> QED BY <3>2, <4>2, <4>3
    <3> QED BY <3>1, <3>2
  <2>3. disk.mode # ""
    BY <1>2 DEF CardInv
  <2>4. Made(c) /\ (handoff.there => c = disk)
    BY <1>0, <2>2, <2>3 DEF Made
  <2>5. seen = c \/ seen = [c EXCEPT !.rule = chart.rule]
    BY <1>2 DEF Reconciled
  <2> HIDE DEF c, seen
  <2>6. CASE seen = c
    BY <1>0, <2>2, <2>4, <2>6 DEF seen
  <2>7. CASE seen = [c EXCEPT !.rule = chart.rule]
    <3>1. /\ IsCard(seen) /\ seen.raw = c.raw
          /\ [seen EXCEPT !.rule = ""] = [c EXCEPT !.rule = ""]
          /\ (Honest(c) => Honest(seen)) /\ (Made(c) => Made(seen))
      BY <2>2, <2>7, LadderIsFree
    <3> QED BY <1>0, <2>4, <3>1 DEF seen
  <2> QED BY <2>5, <2>6, <2>7
<1> QED BY <1>1, <1>2

(* What is handed over when a made and honest card is stored. *)
LEMMA StoredAndHanded ==
    ASSUME NEW c, IsCard(c), Honest(c), Made(c), card' = c, disk' = c,
           up' = TRUE, relaunch' \in BOOLEAN,
           handoff' = [there |-> TRUE, raw |-> c.raw]
    PROVE  CardInv'
<1>1. c.raw \in AllRaws /\ c.mode # ""
  BY DEF IsCard, CardSpace, Made
<1>2. handoff' \in [there : BOOLEAN, raw : AllRaws] /\ handoff'.there /\ handoff'.raw = c.raw
  BY <1>1
<1>3. IsCard(disk)' /\ IsCard(card)' /\ Honest(disk)' /\ Made(disk)' /\ disk'.mode # ""
  BY <1>1 DEF IsCard, CardSpace, Honest, Made, Args
<1> QED BY <1>2, <1>3 DEF CardInv

(* Boot, the panic that leaves a card on disk included. *)
LEMMA BootKeeps ==
    ASSUME CardInv, Boot PROVE CardInv'
<1>1. PICK chart \in Charts :
         LET seen == Reconciled(chart) IN
         /\ Acceptable(seen)
         /\ IF Panics(seen)
            THEN /\ panicked' = TRUE /\ disk' = seen
                 /\ UNCHANGED <<up, card, built, handoff, relaunch>>
            ELSE /\ up' = TRUE
                 /\ card' = Normalised(seen) /\ disk' = card' /\ built' = seen
                 /\ handoff' = [there |-> TRUE, raw |-> card'.raw]
                 /\ relaunch' = (relaunch \/ handoff' # handoff)
                 /\ UNCHANGED panicked
  BY DEF Boot
<1> DEFINE seen == Reconciled(chart)
<1>2. /\ IsCard(seen) /\ Made(seen)
      /\ handoff.there => Honest(seen) /\ seen.raw = disk.raw
  BY ReconciledTells
<1>3. Acceptable(seen) /\ up = FALSE
  BY <1>1 DEF Boot, CardInv
<1>4. CASE Panics(seen)
  <2>1. disk' = seen /\ UNCHANGED <<up, card, handoff, relaunch>>
    BY <1>1, <1>4
  <2> HIDE DEF seen
  <2>2. ~handoff.there
    BY <1>2, <1>4, HonestIsNormal
  <2>3. IsCard(disk)' /\ IsCard(card)' /\ disk'.mode # ""
    BY <1>2, <2>1 DEF CardInv, IsCard, CardSpace, Made
  <2> QED BY <1>3, <2>1, <2>2, <2>3 DEF CardInv
<1>5. CASE ~Panics(seen)
  <2>1. /\ up' = TRUE /\ card' = Normalised(seen) /\ disk' = Normalised(seen)
        /\ handoff' = [there |-> TRUE, raw |-> Normalised(seen).raw]
        /\ relaunch' = (relaunch \/ handoff' # handoff)
    BY <1>1, <1>5
  <2> HIDE DEF seen
  <2>2. relaunch' \in BOOLEAN
    BY <2>1
  <2>3. IsCard(Normalised(seen)) /\ Honest(Normalised(seen)) /\ Made(Normalised(seen))
    BY <1>2, <1>3, <1>5, NormalisedIsHonest
  <2> QED BY <2>1, <2>2, <2>3, StoredAndHanded
<1> QED BY <1>4, <1>5

(* An edit of the card that is served. *)
LEMMA PutKeeps ==
    ASSUME CardInv, Put PROVE CardInv'
<1>1. PICK raw \in Raws, mode \in Modes, rule \in {card.rule} \cup Ladders,
           keep \in {TRUE, KeepsCapacity} :
         LET c == [card EXCEPT !.raw = raw, !.mode = mode, !.rule = rule,
                               !.reading = IF keep THEN @ ELSE NoReading]
         IN  /\ Acceptable(c)
             /\ IF Panics(c)
                THEN panicked' = TRUE /\ UNCHANGED <<store, named, handoff, relaunch>>
                ELSE /\ card' = Normalised(c) /\ disk' = card'
                     /\ named' = PendingFields(card, card')
                     /\ handoff' = [there |-> TRUE, raw |-> card'.raw]
                     /\ relaunch' = (relaunch \/ card'.raw # card.raw)
                     /\ UNCHANGED panicked
  BY DEF Put
<1> DEFINE r == IF keep THEN card.reading ELSE NoReading
           c == [card EXCEPT !.raw = raw, !.mode = mode, !.rule = rule,
                             !.reading = IF keep THEN @ ELSE NoReading]
<1>2. up = TRUE /\ up' = TRUE /\ IsCard(card) /\ card.keyed /\ raw \in AllRaws /\ mode # ""
  BY RawsAreFlags, ModesAssumption DEF Put, CardInv, Made
<1>3. /\ c \in CardSpace({mode}, {rule}, {r})
      /\ c.mode = mode /\ c.rule = rule /\ c.reading = r /\ c.keyed = card.keyed
  BY <1>2 DEF IsCard, CardSpace
<1>4. Acceptable(c)
  BY <1>1
<1>5. CASE Panics(c)
  <2>1. UNCHANGED <<disk, card, handoff, relaunch>>
    BY <1>1, <1>5 DEF store
  <2> QED BY <1>2, <2>1 DEF CardInv, IsCard, CardSpace, Honest, Made, Args
<1>6. CASE ~Panics(c)
  <2>1. /\ card' = Normalised(c) /\ disk' = Normalised(c)
        /\ handoff' = [there |-> TRUE, raw |-> Normalised(c).raw]
        /\ relaunch' = (relaunch \/ card'.raw # card.raw)
    BY <1>1, <1>6
  <2> HIDE DEF c, r
  <2>2. relaunch' \in BOOLEAN
    BY <2>1
  <2>3. IsCard(c) /\ Made(c)
    BY <1>2, <1>3 DEF IsCard, Made
  <2>4. IsCard(Normalised(c)) /\ Honest(Normalised(c)) /\ Made(Normalised(c))
    BY <1>4, <1>6, <2>3, NormalisedIsHonest
  <2> QED BY <1>2, <2>1, <2>2, <2>4, StoredAndHanded
<1> QED BY <1>5, <1>6

(* A reading is written beside the flags, on the card and on disk. *)
LEMMA RecordReadingKeeps ==
    ASSUME CardInv, RecordReading PROVE CardInv'
<1>1. /\ up = TRUE /\ UNCHANGED <<up, handoff, relaunch>>
      /\ IsCard(card) /\ disk = card /\ handoff.there
      /\ Honest(card) /\ Made(card) /\ handoff.raw = card.raw
  BY DEF RecordReading, Reporting, CardInv
<1>2. \/ UNCHANGED <<disk, card>>
      \/ \E reading : card' = [card EXCEPT !.reading = reading] /\ disk' = card'
  BY DEF RecordReading, store
<1>3. CASE UNCHANGED <<disk, card>>
  BY <1>1, <1>3 DEF CardInv, IsCard, CardSpace, Honest, Made, Args
<1>4. CASE \E reading : card' = [card EXCEPT !.reading = reading] /\ disk' = card'
  <2>1. PICK reading : card' = [card EXCEPT !.reading = reading] /\ disk' = card'
    BY <1>4
  <2>2. /\ card' \in CardSpace({card.mode}, {card.rule}, {reading})
        /\ card'.mode = card.mode /\ card'.rule = card.rule /\ card'.reading = reading
        /\ card'.raw = card.raw /\ card'.keyed = card.keyed
        /\ card'.context = card.context /\ card'.output = card.output
    BY <1>1, <2>1 DEF IsCard, CardSpace
  <2>3. IsCard(card)' /\ IsCard(disk)'
    BY <2>1, <2>2 DEF IsCard, CardSpace
  <2>4. Honest(disk)' /\ Made(disk)' /\ disk'.mode # "" /\ disk'.raw = card.raw
    BY <1>1, <2>1, <2>2 DEF Honest, Made, Args
  <2> QED BY <1>1, <2>1, <2>3, <2>4 DEF CardInv
<1> QED BY <1>2, <1>3, <1>4

(* Nothing the others do touches the card, the disk or the hand-off. *)
LEMMA RestKeeps ==
    ASSUME CardInv, UNCHANGED <<disk, card, handoff>>, relaunch' \in BOOLEAN,
           up' = up \/ up' = FALSE
    PROVE  CardInv'
<1>1. /\ IsCard(disk)' <=> IsCard(disk)
      /\ IsCard(card)' <=> IsCard(card)
      /\ Made(disk)' <=> Made(disk)
  BY DEF IsCard, CardSpace, Made
<1>2. Honest(disk)' <=> Honest(disk)
  BY DEF Honest, Args
<1>3. up \in BOOLEAN
  BY DEF CardInv
<1>4. CASE up' = up
  <2>1. up' \in BOOLEAN /\ (up' => up)
    BY <1>3, <1>4
  <2> QED BY <1>1, <1>2, <2>1 DEF CardInv
<1>5. CASE up' = FALSE
  <2>1. up' \in BOOLEAN /\ ~up'
    BY <1>5
  <2> QED BY <1>1, <1>2, <2>1 DEF CardInv
<1> QED BY <1>4, <1>5

(* CardInv survives every step. *)
LEMMA CardStep == CardInv /\ [Next]_vars => CardInv'
<1> SUFFICES ASSUME CardInv, [Next]_vars PROVE CardInv'
  OBVIOUS
<1>0. relaunch \in BOOLEAN
  BY DEF CardInv
<1>1. CASE Boot
  BY <1>1, BootKeeps
<1>2. CASE Stop
  BY <1>0, <1>2, RestKeeps DEF Stop, store
<1>3. CASE Put
  BY <1>3, PutKeeps
<1>4. CASE Launch
  BY <1>0, <1>4, RestKeeps DEF Launch, store
<1>5. CASE Relaunch
  BY <1>0, <1>5, RestKeeps DEF Relaunch, store
<1>6. CASE Outage
  BY <1>0, <1>6, RestKeeps DEF Outage, store
<1>7. CASE Noticed
  BY <1>0, <1>7, RestKeeps DEF Noticed, store
<1>8. CASE Unready
  BY <1>0, <1>8, RestKeeps DEF Unready, Reporting, store
<1>9. CASE Tick
  BY <1>0, <1>9, RestKeeps DEF Tick, Reporting, store
<1>10. CASE Ask
  BY <1>0, <1>10, RestKeeps DEF Ask, Reporting, store
<1>11. CASE RecordReading
  BY <1>11, RecordReadingKeeps
<1>12. CASE UNCHANGED vars
  BY <1>0, <1>12, RestKeeps DEF vars
<1> QED BY <1>1, <1>2, <1>3, <1>4, <1>5, <1>6, <1>7, <1>8, <1>9, <1>10, <1>11, <1>12
        DEF Next, Report

-----------------------------------------------------------------------------
(***************************************************************************)
(* The theorems.                                                           *)
(***************************************************************************)

(* For any kind of engine, any charts and edits and any order of boots,    *)
(* edits and readings: what is served is what the next boot will read, and *)
(* it says what its flags mean (NormalizeSpecForEngine on both paths).     *)
THEOREM CardStaysHonest == Spec => []CardIsHonest
<1>1. CardInv => CardIsHonest
  BY DEF CardInv, CardIsHonest, Honest
<1> QED BY <1>1, CardInit, CardStep, PTL DEF Spec

(* A boot with any chart finds a card whose flags were handed over as it   *)
(* was, but for its ladder, and asks no engine to relaunch                 *)
(* (ReconcileModelSpecFile, then the hand-off's own comparison).           *)
THEOREM RestartsKeepTheCard == Spec => RestartKeepsCard
<1> DEFINE Kept == Boot /\ disk # NoCard /\ disk.keyed /\ handoff.there =>
                     /\ [disk' EXCEPT !.rule = ""] = [disk EXCEPT !.rule = ""]
                     /\ handoff' = handoff /\ relaunch' = relaunch
<1>1. ASSUME CardInv, [Next]_vars PROVE [Kept]_vars
  <2> SUFFICES ASSUME Boot, handoff.there
               PROVE  /\ [disk' EXCEPT !.rule = ""] = [disk EXCEPT !.rule = ""]
                      /\ handoff' = handoff /\ relaunch' = relaunch
    OBVIOUS
  <2>1. PICK chart \in Charts :
           LET seen == Reconciled(chart) IN
           IF Panics(seen)
           THEN /\ panicked' = TRUE /\ disk' = seen
                /\ UNCHANGED <<up, card, built, handoff, relaunch>>
           ELSE /\ up' = TRUE
                /\ card' = Normalised(seen) /\ disk' = card' /\ built' = seen
                /\ handoff' = [there |-> TRUE, raw |-> card'.raw]
                /\ relaunch' = (relaunch \/ handoff' # handoff)
                /\ UNCHANGED panicked
    BY DEF Boot
  <2> DEFINE seen == Reconciled(chart)
  <2>2. /\ IsCard(seen) /\ Honest(seen) /\ seen.raw = disk.raw
        /\ [seen EXCEPT !.rule = ""] = [disk EXCEPT !.rule = ""]
    BY <1>1, ReconciledTells
  <2>3. Normalised(seen) = seen /\ ~Panics(seen)
    BY <2>2, HonestIsNormal
  <2>4. /\ disk' = seen /\ handoff' = [there |-> TRUE, raw |-> seen.raw]
        /\ relaunch' = (relaunch \/ handoff' # handoff)
    BY <2>1, <2>3
  <2> HIDE DEF seen
  <2>5. /\ handoff \in [there : BOOLEAN, raw : AllRaws] /\ handoff.raw = disk.raw
        /\ relaunch \in BOOLEAN
    BY <1>1 DEF CardInv
  <2>6. handoff' = handoff
    BY <2>2, <2>4, <2>5
  <2>7. relaunch' = relaunch
    BY <2>4, <2>5, <2>6
  <2> QED BY <2>2, <2>4, <2>6, <2>7
<1>2. CardInv /\ [Next]_vars => [Kept]_vars
  BY <1>1
<1> QED BY <1>2, CardInit, CardStep, PTL DEF Spec, RestartKeepsCard

(* Whatever flags a card gets to carry, slots that are not gated promise   *)
(* no more than the pool and their padding (LlamacppKVOversubscribed       *)
(* against the pool and window derived from the same flags).               *)
THEOREM UngatedSlotsAlwaysFit == Spec => []UngatedSlotsFit
<1>1. ASSUME CardInv PROVE UngatedSlotsFit
  <2> DEFINE args == Args(card)
  <2> SUFFICES ASSUME up, Kind = "llamacpp", ~Oversubscribed(args), LlamacppPool(args) > 0
               PROVE  Slots(args) * LlamacppContext(args)
                          < LlamacppPool(args) + Slots(args) * Align
    BY DEF UngatedSlotsFit
  <2>1. IsCard(card) /\ Honest(card)
    BY <1>1 DEF CardInv
  <2>2. HoldsValues(args) /\ (Divides(args) => Slots(args) # 0)
    BY <2>1, ArgsHold DEF Honest, Computable
  <2> HIDE DEF args
  <2> QED BY <2>2, SlotsFit
<1>2. CardInv => UngatedSlotsFit
  BY <1>1
<1> QED BY <1>2, CardInit, CardStep, PTL DEF Spec

=============================================================================
