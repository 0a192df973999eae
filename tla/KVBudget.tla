------------------------------ MODULE KVBudget ------------------------------
(***************************************************************************)
(* internal/dataplane/kvbudget: the gate in front of a llama.cpp engine    *)
(* whose slots share one KV pool.                                          *)
(*                                                                         *)
(* A request reserves what it may consume on a weighted semaphore as large *)
(* as the pool, waits at the door when there is no room, and holds its     *)
(* reservation until its handler returns.  The size of the pool is read    *)
(* per request off the card, outside the lock; a different size replaces   *)
(* the semaphore.  The engine is launched with the card of its day, and    *)
(* catches up with an edit only when the wrapper relaunches it.            *)
(*                                                                         *)
(* A body is what its charge depends on: its length, what the engine's     *)
(* tokenizer would make of it, and the output it asks for.                 *)
(***************************************************************************)
EXTENDS Naturals, Sequences, FiniteSetsExt, SequencesExt

CONSTANTS
    Requests,
    Bodies,         \* of [len, tokens, stated, form]
    Cards,          \* of [pool, shared, ceiling]; pool 0 is not known
    DefaultReserve, \* defaultOutputReserve
    FastPath,       \* fastPathDivisor
    MaxEdits        \* bound: edits of the card

ASSUME RequestsAssumption == IsFiniteSet(Requests)

(* One byte is at least one token; kvBudgetWanted is what "shared" says.   *)
ASSUME BodiesAssumption ==
    \A b \in Bodies :
        /\ b.len \in Nat /\ b.tokens \in 0..b.len /\ b.stated \in Nat
        /\ b.form \in {"messages", "prompt", "batch", "other"}

ASSUME CardsAssumption ==
    /\ Cards # {}
    /\ \A c \in Cards : c.pool \in Nat /\ c.shared \in BOOLEAN /\ c.ceiling \in Nat
    /\ DefaultReserve \in Nat \ {0} /\ FastPath \in Nat \ {0} /\ MaxEdits \in Nat

VARIABLES
    card,           \* the configuration as it stands now
    engine,         \* the card the running engine was launched with
    sems,           \* the semaphores built so far, the live one last
    pc, body,       \* per request: where it is, and what it carries
    cap,            \* the capacity it has read; then the one it is held to
    on,             \* the semaphore it was given
    cost, held,     \* what it will ask for; what it holds
    edits

request == <<pc, body, cap, on, cost, held>>
vars    == <<card, engine, sems, request, edits>>

NoBody == [len |-> 0, tokens |-> 0, stated |-> 0, form |-> "other"]

Init ==
    /\ card \in Cards /\ engine = card
    /\ sems = <<>>
    /\ pc = [r \in Requests |-> "away"]
    /\ body = [r \in Requests |-> NoBody]
    /\ cap = [r \in Requests |-> 0] /\ on = [r \in Requests |-> 0]
    /\ cost = [r \in Requests |-> 0] /\ held = [r \in Requests |-> 0]
    /\ edits = 0

-----------------------------------------------------------------------------
(* What a request is charged. *)

Generates(b) == b.form # "other"

(* A batch of prompts, or token ids, is never sent to the tokenizer. *)
Countable(b) == b.form \in {"messages", "prompt"} /\ b.tokens > 0

Capped(n, ceiling) == IF ceiling > 0 /\ n > ceiling THEN ceiling ELSE n

OutputReserve(b, ceiling) ==
    Capped(IF b.stated > 0 THEN b.stated ELSE DefaultReserve, ceiling)

(* Mutant: the reply is not counted.                                       *)
BoundOfPrompt(b) == b.len

Bound(b) == b.len + OutputReserve(b, card.ceiling)

Measured(b) == b.tokens + OutputReserve(b, card.ceiling)

-----------------------------------------------------------------------------
(* The semaphore: it grants in the order of asking, and whatever gives     *)
(* room or leaves the line lets in those that now fit, the first first.    *)

GrantsNow(s, n) == sems[s].queue = <<>> /\ sems[s].used + n <= sems[s].size

Move(r, to) == pc' = [pc EXCEPT ![r] = to]

Take(r, n) ==
    /\ sems' = [sems EXCEPT ![on[r]].used = @ + n]
    /\ held' = [held EXCEPT ![r] = n]

(* A request stands in a line once.                                        *)
Charges(queue) == SumFunctionOnSet(cost, ToSet(queue))

(* How many of a line are let in when so much is taken.                    *)
LetIn(size, used, queue) ==
    Max({k \in 0..Len(queue) : used + Charges(SubSeq(queue, 1, k)) <= size})

(* An ended request is forgotten.                                          *)
Forget(r) ==
    /\ body' = [body EXCEPT ![r] = NoBody]
    /\ cap' = [cap EXCEPT ![r] = 0] /\ on' = [on EXCEPT ![r] = 0]
    /\ cost' = [cost EXCEPT ![r] = 0]

(* Semaphore s with so much taken and this line, once it has let in who    *)
(* fits; r goes to a place of its own, and keeps nothing.                  *)
Settle(s, used, queue, r, to) ==
    LET k  == LetIn(sems[s].size, used, queue)
        in == SubSeq(queue, 1, k)
    IN  /\ sems' = [sems EXCEPT ![s].used = used + Charges(in),
                                ![s].queue = SubSeq(queue, k + 1, Len(queue))]
        /\ held' = [q \in Requests |-> IF q = r THEN 0
                                       ELSE IF q \in ToSet(in) THEN cost[q] ELSE held[q]]
        /\ pc' = [q \in Requests |-> IF q = r THEN to
                                     ELSE IF q \in ToSet(in) THEN "atEngine" ELSE pc[q]]

-----------------------------------------------------------------------------
(* Guard.admit. *)

(* Active, and the first half of semaphore(): the capacity, with no lock.  *)
Arrive(r) ==
    /\ pc[r] = "away"
    /\ \E b \in Bodies : body' = [body EXCEPT ![r] = b]
    /\ cap' = [cap EXCEPT ![r] = card.pool]
    /\ Move(r, IF card.shared /\ card.pool > 0 THEN "lock" ELSE "atEngine")
    /\ UNCHANGED <<card, engine, sems, on, cost, held, edits>>

NewSemaphore(n) == [size |-> n, used |-> 0, queue |-> <<>>]

(* The second half, under the lock: a semaphore of another size replaces   *)
(* the live one, and whoever holds room on that one goes on holding it.    *)
Semaphore(r) ==
    IF sems = <<>> \/ Last(sems).size # cap[r]
    THEN Append(sems, NewSemaphore(cap[r]))
    ELSE sems

Lock(r) ==
    /\ pc[r] = "lock"
    /\ sems' = Semaphore(r)
    /\ on' = [on EXCEPT ![r] = Len(sems')]
    /\ Move(r, IF Generates(body[r]) THEN "size" ELSE "atEngine")
    /\ UNCHANGED <<card, engine, body, cap, cost, held, edits>>

(* A request so small that measuring it could not matter. *)
FastPathFits(r) == Bound(body[r]) * FastPath <= cap[r]

Admit(r) ==
    /\ pc[r] = "size" /\ FastPathFits(r) /\ GrantsNow(on[r], Bound(body[r]))
    /\ Take(r, Bound(body[r]))
    /\ Move(r, "atEngine")
    /\ UNCHANGED <<card, engine, body, cap, on, cost, edits>>

(* Any other is counted by the engine, in two hops that may fail; then it  *)
(* is charged what its length implies.                                     *)
Count(r) ==
    /\ pc[r] = "size"
    /\ ~(FastPathFits(r) /\ GrantsNow(on[r], Bound(body[r])))
    /\ \E n \in {Bound(body[r])}
                \cup (IF Countable(body[r]) THEN {Measured(body[r])} ELSE {}) :
           cost' = [cost EXCEPT ![r] = n]
    /\ Move(r, "acquire")
    /\ UNCHANGED <<card, engine, sems, body, cap, on, held, edits>>

(* Waiting cannot make this one fit: the engine shall refuse it.           *)
TooLarge(r) == cost[r] > cap[r]

LetThrough(r) ==
    /\ pc[r] = "acquire" /\ TooLarge(r)
    /\ Move(r, "atEngine")
    /\ UNCHANGED <<card, engine, sems, body, cap, on, cost, held, edits>>

Acquire(r) ==
    /\ pc[r] = "acquire" /\ ~TooLarge(r)
    /\ IF GrantsNow(on[r], cost[r])
       THEN Take(r, cost[r]) /\ Move(r, "atEngine")
       ELSE /\ sems' = [sems EXCEPT ![on[r]].queue = Append(@, r)]
            /\ Move(r, "queued")
            /\ UNCHANGED held
    /\ UNCHANGED <<card, engine, body, cap, on, cost, edits>>

(* Ten seconds are over, or the client is gone: 503 kv_budget_exhausted.   *)
TimeOut(r) ==
    /\ pc[r] = "queued"
    /\ \E i \in DOMAIN sems[on[r]].queue :
           /\ sems[on[r]].queue[i] = r
           /\ Settle(on[r], sems[on[r]].used, RemoveAt(sems[on[r]].queue, i), r, "refused")
    /\ Forget(r)
    /\ UNCHANGED <<card, engine, edits>>

(* The handler returns, and the deferred release runs.  Mutants: it gives  *)
(* back nothing, or what measuring the request would have cost.            *)
ReleaseNothing(r) == 0

ReleaseMeasured(r) == IF held[r] = 0 THEN 0 ELSE Measured(body[r])

Release(r) == held[r]

Done(r) ==
    /\ pc[r] \in {"atEngine", "cut"}
    /\ IF held[r] = 0
       THEN Move(r, "answered") /\ UNCHANGED <<sems, held>>
       ELSE Settle(on[r], sems[on[r]].used - Release(r), sems[on[r]].queue, r, "answered")
    /\ Forget(r)
    /\ UNCHANGED <<card, engine, edits>>

-----------------------------------------------------------------------------
(* The card is edited, or a capacity is recorded on it; the engine is      *)
(* relaunched under it later, which cuts what it was answering.            *)

Edit ==
    /\ edits < MaxEdits
    /\ card' \in Cards \ {card}
    /\ edits' = edits + 1
    /\ UNCHANGED <<engine, sems, request>>

Relaunch ==
    /\ engine # card
    /\ engine' = card
    /\ pc' = [r \in Requests |-> IF pc[r] = "atEngine" THEN "cut" ELSE pc[r]]
    /\ UNCHANGED <<card, sems, body, cap, on, cost, held, edits>>

Steps(r) ==
    Lock(r) \/ Admit(r) \/ Count(r) \/ LetThrough(r) \/ Acquire(r)

Next ==
    \/ \E r \in Requests : Arrive(r) \/ Steps(r) \/ TimeOut(r) \/ Done(r)
    \/ Edit \/ Relaunch

Spec == Init /\ [][Next]_vars

-----------------------------------------------------------------------------

Holders(s) == {r \in Requests : on[r] = s /\ held[r] > 0}

TypeOK ==
    /\ card \in Cards /\ engine \in Cards
    /\ sems \in Seq([size : Nat, used : Nat, queue : Seq(Requests)])
    /\ pc \in [Requests -> {"away", "lock", "size", "acquire", "queued", "atEngine",
                            "cut", "answered", "refused"}]
    /\ body \in [Requests -> Bodies \cup {NoBody}]
    /\ on \in [Requests -> 0..Len(sems)]
    /\ cap \in [Requests -> Nat] /\ cost \in [Requests -> Nat] /\ held \in [Requests -> Nat]
    /\ edits \in 0..MaxEdits

(* What a semaphore says is taken is what the requests in flight hold on   *)
(* it, across rebuilds, refusals and engines that go away (releaseOnce: "a *)
(* second release would hand the pool capacity that does not exist").      *)
RoomIsAccounted ==
    \A s \in DOMAIN sems :
        /\ sems[s].used = SumFunctionOnSet(held, Holders(s))
        /\ sems[s].used <= sems[s].size

(* What the metered requests at the engine can make it keep is no more     *)
(* than the pool it was launched with (kvbudget.go: the gate is "an        *)
(* accounting of what has been promised").                                 *)
Metered == {r \in Requests : pc[r] = "atEngine" /\ held[r] > 0}

Promised == SumFunctionOnSet([r \in Metered |-> Measured(body[r])], Metered)

PoolNotOverpromised == engine.shared /\ engine.pool > 0 => Promised <= engine.pool

(* That much holds as long as the card is not edited. *)
SteadyPoolHolds == edits = 0 => PoolNotOverpromised

(* Whoever still holds room on a semaphore that was replaced is not at the *)
(* engine any more (kvbudget.go, semaphore: forgetting them "is correct    *)
(* rather than merely tolerable: the engine they were talking to no longer *)
(* exists").                                                               *)
DiscardedRoomIsDead ==
    \A s \in DOMAIN sems :
        s # Len(sems) => \A r \in Holders(s) : pc[r] # "atEngine"

(* A request waits for somebody, and no wake-up is lost: whoever holds     *)
(* nothing back keeps nobody waiting (kvbudget.go: "refusing on arrival    *)
(* would turn a queue into an error").                                     *)
WaitsForSomebody ==
    \A s \in DOMAIN sems : sems[s].queue # <<>> => Holders(s) # {}

=============================================================================
