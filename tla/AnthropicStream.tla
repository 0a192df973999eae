-------------------------- MODULE AnthropicStream --------------------------
(***************************************************************************)
(* What a client of POST /v1/messages is promised of the event stream      *)
(* (internal/anthropic/events.go): message_start, then content blocks one  *)
(* at a time and numbered from 0 without holes, each with its deltas       *)
(* between its start and its stop, then one message_delta and one          *)
(* message_stop.  An error event may end the stream at any point after the *)
(* start.  A connection that breaks is a stream that just stops.           *)
(*                                                                         *)
(* Every action adds its event to told, so that an event a client sees is  *)
(* never a stuttering step: a second message_start, or anything after the  *)
(* end, is a step no action allows.                                        *)
(***************************************************************************)
EXTENDS Integers, Sequences

VARIABLES stage,   \* "idle", "open", "closing" or "ended"
          block,   \* the index of the open block, -1 for none
          next,    \* the index of the block to come
          told     \* the events so far, each with its block's index or -1

vars == <<stage, block, next, told>>

Init == stage = "idle" /\ block = -1 /\ next = 0 /\ told = <<>>

Tell(e, i) == told' = Append(told, [e |-> e, idx |-> i])

MessageStart ==
  /\ stage = "idle" /\ stage' = "open"
  /\ Tell("message_start", -1)
  /\ UNCHANGED <<block, next>>

BlockStart ==
  /\ stage = "open" /\ block = -1
  /\ block' = next /\ next' = next + 1
  /\ Tell("block_start", next)
  /\ UNCHANGED stage

\* Only an open block takes deltas.
BlockDelta ==
  /\ stage = "open" /\ block # -1
  /\ Tell("block_delta", block)
  /\ UNCHANGED <<stage, block, next>>

BlockStop ==
  /\ stage = "open" /\ block # -1 /\ block' = -1
  /\ Tell("block_stop", block)
  /\ UNCHANGED <<stage, next>>

MessageDelta ==
  /\ stage = "open" /\ block = -1 /\ next > 0
  /\ stage' = "closing"
  /\ Tell("message_delta", -1)
  /\ UNCHANGED <<block, next>>

MessageStop ==
  /\ stage = "closing" /\ stage' = "ended"
  /\ Tell("message_stop", -1)
  /\ UNCHANGED <<block, next>>

Error ==
  /\ stage = "open" /\ stage' = "ended" /\ block' = -1
  /\ Tell("error", -1)
  /\ UNCHANGED next

Next == MessageStart \/ BlockStart \/ BlockDelta \/ BlockStop \/ MessageDelta \/ MessageStop \/ Error

Spec == Init /\ [][Next]_vars
=============================================================================
