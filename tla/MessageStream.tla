--------------------------- MODULE MessageStream ---------------------------
(***************************************************************************)
(* The translators behind /v1/messages (on the proxy engines and on        *)
(* Ollama) and behind Ollama's /v1/chat/completions and /v1/completions:   *)
(* one request from its body to the last byte of the answer                *)
(* (internal/adapter/proxy/messages.go, internal/anthropic and             *)
(* internal/adapter/ollama/translate_messages.go, translate_chat.go,       *)
(* translate_completion.go, tool_calls.go).                                *)
(*                                                                         *)
(* The engine is external: it answers with frames, streams tool arguments  *)
(* in fragments that interleave, may end a stream without its last frame,  *)
(* break it, or put a line in it that is no frame.  A text or argument     *)
(* fragment is known by the number of the frame that brought it, so what   *)
(* is lost, repeated or reordered shows.                                   *)
(***************************************************************************)
EXTENDS Integers, FiniteSets, Sequences, SequencesExt

CONSTANTS
  Routes,          \* the <<engine, api>> pairs a request may take
  Conversations,   \* the conversations a client of /v1/messages may send
  Chats,           \* the messages a client of /v1/chat/completions may send
  Calls,           \* 0 .. n, the tool calls an answer may hold
  MaxFrames,       \* bound: frames of an answer
  MaxTokens        \* the request's max_tokens

ASSUME RoutesAssumption ==
  Routes \subseteq {<<"proxy", "messages">>, <<"ollama", "messages">>,
                    <<"ollama", "chat">>, <<"ollama", "completion">>}
ASSUME CallsAssumption == IsFiniteSet(Calls) /\ Calls \subseteq Nat
ASSUME TokensAssumption == MaxTokens \in Nat \ {0}

\* A turn of /v1/messages, its blocks with the id of their call or 0; and a
\* message of the OpenAI shape.
Turns ==
  [role : {"user", "assistant"}, blocks : Seq([type : STRING, id : Nat])]
Messages ==
  [role : {"", "system", "developer", "user", "assistant", "tool", "function"},
   text : BOOLEAN, ids : Seq(Nat)]

Makes(turn, id) ==
  turn.role = "assistant" /\ \E k \in DOMAIN turn.blocks : turn.blocks[k] = [type |-> "tool_use", id |-> id]
OnlyResults(turn) ==
  /\ turn.role = "user" /\ turn.blocks # <<>>
  /\ \A k \in DOMAIN turn.blocks : turn.blocks[k].type = "tool_result"

\* What both APIs ask of a client: a result answers a call of the assistant's
\* turn before it, with only other results between the two.
ASSUME ConversationsAssumption ==
  \A c \in Conversations :
    /\ c \in Seq(Turns)
    /\ \A n \in DOMAIN c : c[n].role = "user" =>
         \A b \in ToSet(c[n].blocks) : b.type = "tool_result" =>
           \E m \in 1 .. n - 1 :
             /\ Makes(c[m], b.id)
             /\ \A l \in m + 1 .. n - 1 : OnlyResults(c[l])
ASSUME ChatsAssumption ==
  \A c \in Chats :
    /\ c \in Seq(Messages)
    /\ \A n \in DOMAIN c : c[n].role = "tool" =>
         \E m \in 1 .. n - 1 :
           /\ c[m].role = "assistant" /\ c[n].ids[1] \in ToSet(c[m].ids)
           /\ \A l \in m + 1 .. n - 1 : c[l].role \in {"tool", ""}

VARIABLES
  route, streams, think,   \* the request: its route, stream flag, reasoning field
  conv, posted,            \* its conversation, and what was sent upstream
  level,                   \* whether the daemon knows thinking levels
  ndjson,                  \* whether it sends frames when asked for one body
  tries,                   \* how often the request went upstream
  sent, ended,             \* the engine's frames, and how they ended
  acc,                     \* the translator's accumulators
  todo, out,               \* events about to be emitted; events emitted
  answered,                \* what a request without streaming was answered
  pc

request == <<route, streams, think, level, ndjson>>
streamVars == <<request, conv, posted, tries, sent, ended, acc, todo, out, answered, pc>>

api == route[2]

\* The elements of S by what key says of them.
InOrder(S, key) ==
  [n \in 1 .. Cardinality(S) |->
     CHOOSE i \in S : Cardinality({j \in S : key[j] < key[i]}) = n - 1]

\* The numbers of K in ascending order, and the elements of s at those places.
Ascending(K) == InOrder(K, [k \in K |-> k])
Chosen(s, K) == [n \in 1 .. Cardinality(K) |-> s[Ascending(K)[n]]]

\* The numbers of the frames that Test.
Numbers(s, Test(_)) == SelectSeq([k \in DOMAIN s |-> k], LAMBDA k : Test(s[k]))
TextOf(s) == Numbers(s, LAMBDA f : f.text)
Event(e, i, d) == [e |-> e, idx |-> i, data |-> d]

-----------------------------------------------------------------------------
(* The request on its way up.                                              *)

Ids(blocks, t) ==
  LET mine == Chosen(blocks, {k \in DOMAIN blocks : blocks[k].type = t})
  IN  [i \in DOMAIN mine |-> mine[i].id]

\* ToolResultsFromMessage: one tool message per result, and what is left.
ToolMessages(m) ==
  LET ids == Ids(m.blocks, "tool_result")
  IN  [i \in DOMAIN ids |-> [role |-> "tool", text |-> FALSE, ids |-> <<ids[i]>>]]
Residual(m) == Chosen(m.blocks, {k \in DOMAIN m.blocks : m.blocks[k].type # "tool_result"})
HasText(blocks) == \E i \in DOMAIN blocks : blocks[i].type = "text"

\* AssistantToolUseToOpenAI: the text, and the calls it made.
AssistantMessage(m) ==
  <<[role |-> "assistant", text |-> HasText(m.blocks), ids |-> Ids(m.blocks, "tool_use")]>>

\* Mutant: the user's words before the results they came with.
UserMessagesTextFirst(m) ==
  (IF Residual(m) # <<>> \/ ToolMessages(m) = <<>>
   THEN <<[role |-> "user", text |-> HasText(Residual(m)), ids |-> <<>>]>> ELSE <<>>)
  \o ToolMessages(m)
UserMessages(m) ==
  ToolMessages(m)
  \o (IF Residual(m) # <<>> \/ ToolMessages(m) = <<>>
      THEN <<[role |-> "user", text |-> HasText(Residual(m)), ids |-> <<>>]>> ELSE <<>>)

BuildUpstreamMessages(c) ==
  FlattenSeq([i \in DOMAIN c |->
    IF c[i].role = "user" THEN UserMessages(c[i]) ELSE AssistantMessage(c[i])])

\* normalizeOpenAIChatMessages: already in this shape; what is no message goes.
NormalizeOpenAIChatMessages(c) == Chosen(c, {n \in DOMAIN c : c[n].role # ""})

-----------------------------------------------------------------------------
NoTools == [i \in Calls |-> <<>>]
Fresh == [tools |-> NoTools, stop |-> "end_turn", tokens |-> 0, role |-> FALSE]
NoAnswer == [text |-> <<>>, calls |-> <<>>, stop |-> "", status |-> 0]

StreamInit ==
  /\ route \in Routes /\ streams \in BOOLEAN /\ level \in BOOLEAN /\ ndjson \in BOOLEAN
  /\ think \in IF route[2] = "chat" THEN {"none", "bool", "level"} ELSE {"none"}
  /\ route[1] = "proxy" => level /\ ~ndjson
  /\ streams => ~ndjson
  /\ conv \in CASE route[2] = "messages" -> Conversations
               [] route[2] = "chat" -> Chats
               [] OTHER -> {<<>>}
  /\ posted = <<>> /\ tries = 0
  /\ sent = <<>> /\ ended = "" /\ acc = Fresh
  /\ todo = <<>> /\ out = <<>> /\ answered = NoAnswer
  /\ pc = "body"

\* The request's end: what no later step reads is dropped.
Reply(a) ==
  /\ answered' = a /\ pc' = "end"
  /\ UNCHANGED <<request, conv, posted, tries, sent, ended, acc, todo, out>>

\* A body that cannot be read, does not decode, or (/v1/messages) is too large
\* or lacks max_tokens or messages.
Refuse ==
  /\ pc = "body"
  /\ \E s \in {400, 413} : (s = 413 => api = "messages") /\ Reply([NoAnswer EXCEPT !.status = s])

Post ==
  /\ pc = "body"
  /\ posted' = IF api = "messages" THEN BuildUpstreamMessages(conv)
               ELSE NormalizeOpenAIChatMessages(conv)
  /\ tries' = 1
  /\ pc' = "posted"
  /\ UNCHANGED <<request, conv, sent, ended, acc, todo, out, answered>>

\* What the engine makes of the request.  One that predates the thinking
\* levels refuses them.
Statuses == IF think = "level" /\ ~level THEN {400, 0} ELSE {200, 400, 500, 0}

\* downgradeThinkLevel: once, and only for a 400 of a level.
DowngradeThinkLevel(status) == status = 400 /\ think = "level" /\ think' = "bool"

Retry(status) ==
  /\ pc = "posted" /\ status \in Statuses
  /\ tries = 1 /\ DowngradeThinkLevel(status)
  /\ tries' = 2
  /\ UNCHANGED <<route, streams, level, ndjson, conv, posted, sent, ended, acc, todo, out, answered, pc>>

Unreachable(status) ==
  /\ pc = "posted" /\ status \in Statuses \ {200}
  /\ ~(tries = 1 /\ status = 400 /\ think = "level")
  /\ Reply([NoAnswer EXCEPT !.status = 502])

Made(tools) == {i \in Calls : tools[i] # <<>>}

\* streamMessagesResponse opens the message and its text block at once;
\* streamChatResponse only commits its headers.
Opening ==
  IF api = "messages"
  THEN <<Event("message_start", -1, <<>>), Event("block_start", 0, <<>>)>>
  ELSE <<>>

EngineAccepts ==
  /\ pc = "posted" /\ 200 \in Statuses
  /\ todo' = IF streams THEN Opening ELSE <<>>
  /\ conv' = <<>> /\ posted' = <<>>
  /\ pc' = "frames"
  /\ UNCHANGED <<request, tries, sent, ended, acc, out, answered>>

\* Writer.Emit and writeSSEChunk: one event, flushed.
Emit ==
  /\ todo # <<>>
  /\ out' = Append(out, Head(todo)) /\ todo' = Tail(todo)
  /\ UNCHANGED <<request, conv, posted, tries, sent, ended, acc, answered, pc>>

-----------------------------------------------------------------------------
(* The answer on its way down. *)

\* What may come next: nothing, a line that does not decode, text, a fragment of
\* a call (all of it, on Ollama), the frame that says why it finished, the last.
Shapes(ok, text, call, fin, tokens, last) ==
  [ok : ok, text : text, call : call, fin : fin, tokens : tokens, last : last]
EveryFrame ==
  Shapes(BOOLEAN, BOOLEAN, Calls \cup {-1}, {"", "stop", "length", "tool_calls"}, {0, 1, MaxTokens}, BOOLEAN)

ProxyFrames ==
  Shapes(BOOLEAN, {FALSE}, {-1}, {""}, {0}, {FALSE})
  \cup Shapes({TRUE}, {FALSE}, {-1}, {""}, {0}, {TRUE})
  \cup IF \E k \in DOMAIN sent : sent[k].fin # "" THEN {}
       ELSE Shapes({TRUE}, {TRUE}, {-1}, {""}, {0}, {FALSE})
            \cup Shapes({TRUE}, {FALSE}, Calls, {""}, {0}, {FALSE})
            \cup Shapes({TRUE}, {FALSE}, {-1}, {"stop", "length", "tool_calls"}, {0, 1, MaxTokens}, {FALSE})

OllamaFrames ==
  LET new == IF api = "completion" THEN {} ELSE Calls \ {sent[k].call : k \in DOMAIN sent}
  IN  Shapes(BOOLEAN, {FALSE}, {-1}, {""}, {0}, {FALSE})
      \cup Shapes({TRUE}, {TRUE}, {-1}, {""}, {0}, {FALSE})
      \cup Shapes({TRUE}, {FALSE}, new, {""}, {0}, {FALSE})
      \cup Shapes({TRUE}, BOOLEAN, new \cup {-1}, {""}, {1, MaxTokens}, {TRUE})

Frames == IF route[1] = "proxy" THEN ProxyFrames ELSE OllamaFrames

MapFinishReason(fin) ==
  CASE fin = "length" -> "max_tokens" [] fin = "tool_calls" -> "tool_use" [] OTHER -> "end_turn"

\* Mutant: a fragment goes to the call spoken of last.
AccumulateToolCallLast(tools, i, k) ==
  LET last == {j \in Made(tools) : \A m \in Made(tools) : Last(tools[m]) <= Last(tools[j])}
  IN  [tools EXCEPT ![IF tools[i] = <<>> THEN i ELSE CHOOSE j \in last : TRUE] = Append(@, k)]
\* accumulateToolCall: fragments by the index they carry.
AccumulateToolCall(tools, i, k) == [tools EXCEPT ![i] = Append(@, k)]

\* One frame through the proxy engines' scan loop.
ProxyScanned(a, f, k) ==
  [tools  |-> IF f.call = -1 THEN a.tools ELSE AccumulateToolCall(a.tools, f.call, k),
   stop   |-> IF f.fin # "" THEN MapFinishReason(f.fin) ELSE a.stop,
   tokens |-> IF f.tokens # 0 THEN f.tokens ELSE a.tokens,
   role   |-> a.role]

\* One frame through Ollama's scan loops: calls are whole, and the last frame
\* tells the tokens.
OllamaScanned(a, f, k) ==
  [tools  |-> IF f.call = -1 THEN a.tools ELSE [a.tools EXCEPT ![f.call] = <<k>>],
   stop   |-> IF f.last /\ f.tokens >= MaxTokens THEN "max_tokens" ELSE a.stop,
   tokens |-> a.tokens,
   role   |-> a.role \/ f.text]

Scanned(a, f, k) == IF route[1] = "proxy" THEN ProxyScanned(a, f, k) ELSE OllamaScanned(a, f, k)

\* A text delta as a chunk of /v1/chat/completions, the first with the role.
\* Mutant: every one with the role.
ChatDeltaWithRole(a, k) == <<Event("role_chunk", 0, <<k>>)>>
ChatDelta(a, k) == <<Event(IF a.role THEN "chunk" ELSE "role_chunk", 0, <<k>>)>>

\* A chunk of /v1/completions for every frame, that of the last without text.
CompletionDelta(f, k) ==
  IF f.last THEN <<Event("finish", 0, <<"stop">>)>>
  ELSE IF f.ok THEN <<Event("chunk", 0, IF f.text THEN <<k>> ELSE <<>>)>> ELSE <<>>

Deltas(a, f, k) ==
  CASE api = "completion" -> CompletionDelta(f, k)
    [] api = "chat" /\ f.text -> ChatDelta(a, k)
    [] api = "messages" /\ f.text -> <<Event("block_delta", 0, <<k>>)>>
    [] OTHER -> <<>>

\* The blocks of the calls, numbered on from the text's, three events each.
ToolBlocks(tools, order) ==
  [m \in 1 .. 3 * Len(order) |->
     LET n == (m + 2) \div 3
     IN  CASE m % 3 = 1 -> Event("block_start", n, <<order[n]>>)
           [] m % 3 = 2 -> Event("block_delta", n, tools[order[n]])
           [] m % 3 = 0 -> Event("block_stop", n, <<>>)]

\* emitBufferedToolCalls: in the order of their index.
EmitBufferedToolCalls(tools) == ToolBlocks(tools, InOrder(Made(tools), [i \in Calls |-> i]))

\* emitOllamaToolUseBlocks: in the order they came.
EmitOllamaToolUseBlocks(tools) ==
  ToolBlocks(tools, InOrder(Made(tools), [i \in Made(tools) |-> tools[i][1]]))

\* An end of turn at the cap is upgraded; calls outrank both.
StopReason(a) ==
  IF Made(a.tools) # {} THEN "tool_use"
  ELSE IF a.stop = "end_turn" /\ a.tokens >= MaxTokens THEN "max_tokens"
  ELSE a.stop

Farewell(stop) == <<Event("message_delta", -1, <<stop>>), Event("message_stop", -1, <<>>)>>

\* The tail of the proxy engines' streamMessagesResponse.
ProxyClosing(a) ==
  <<Event("block_stop", 0, <<>>)>> \o EmitBufferedToolCalls(a.tools) \o Farewell(StopReason(a))

\* The tail of Ollama's.
OllamaClosing(a) ==
  <<Event("block_stop", 0, <<>>)>> \o EmitOllamaToolUseBlocks(a.tools)
  \o Farewell(IF Made(a.tools) # {} THEN "tool_use" ELSE a.stop)

\* The tail of streamChatResponse: the calls and the finish chunk come with the
\* last frame only, the end marker always.
ChatClosing(a, last) ==
  (IF ~last THEN <<>>
   ELSE (IF Made(a.tools) = {} THEN <<>>
         ELSE <<Event(IF a.role THEN "calls" ELSE "role_calls", 0, <<a.tools>>)>>)
        \o <<Event("finish", 0, <<IF Made(a.tools) = {} THEN "stop" ELSE "tool_calls">>)>>)
  \o <<Event("done", 0, <<>>)>>

\* Mutant: the proxy engines' tail goes on after the error.
CloseWithoutReturn(a, how) ==
  CASE api = "chat" -> ChatClosing(a, how = "done")
    [] api = "completion" -> <<Event("done", 0, <<>>)>>
    [] api = "messages" /\ how = "broken" ->
         <<Event("error", -1, <<>>)>> \o (IF route[1] = "proxy" THEN ProxyClosing(a) ELSE <<>>)
    [] OTHER -> IF route[1] = "proxy" THEN ProxyClosing(a) ELSE OllamaClosing(a)
Close(a, how) ==
  CASE api = "chat" -> ChatClosing(a, how = "done")
    [] api = "completion" -> <<Event("done", 0, <<>>)>>
    [] api = "messages" /\ how = "broken" -> <<Event("error", -1, <<>>)>>
    [] OTHER -> IF route[1] = "proxy" THEN ProxyClosing(a) ELSE OllamaClosing(a)

Frame(f) ==
  /\ pc = "frames" /\ todo = <<>> /\ ended = "" /\ Len(sent) < MaxFrames
  /\ f \in Frames
  /\ sent' = Append(sent, f)
  /\ ended' = IF f.last THEN "done" ELSE ""
  /\ LET k == Len(sent) + 1
         a == Scanned(acc, f, k)
     IN  IF streams
         THEN /\ acc' = a
              /\ todo' = Deltas(acc, f, k) \o (IF f.last THEN Close(a, "done") ELSE <<>>)
              /\ pc' = IF f.last THEN "end" ELSE pc
         ELSE UNCHANGED <<acc, todo, pc>>
  /\ UNCHANGED <<request, conv, posted, tries, out, answered>>

\* The body ends without a last frame, or reading it fails (the client's
\* timeout, a reset, a line past the scanner's buffer, the caller gone).
\* Mutant: a client without a time limit.
CutWithoutTimeout(how) ==
  /\ pc = "frames" /\ todo = <<>> /\ ended = "" /\ how = "eof"
  /\ ended' = how
  /\ IF streams THEN todo' = Close(acc, how) /\ pc' = "end" ELSE UNCHANGED <<todo, pc>>
  /\ UNCHANGED <<request, conv, posted, tries, sent, acc, out, answered>>
Cut(how) ==
  /\ pc = "frames" /\ todo = <<>> /\ ended = ""
  /\ ended' = how
  /\ IF streams THEN todo' = Close(acc, how) /\ pc' = "end" ELSE UNCHANGED <<todo, pc>>
  /\ UNCHANGED <<request, conv, posted, tries, sent, acc, out, answered>>

-----------------------------------------------------------------------------
(* A request without streaming. *)

ToolsOf(s) == [i \in Calls |-> Numbers(s, LAMBDA f : f.call = i)]
Settled(s) == FoldLeft(LAMBDA a, f : [a EXCEPT
    !.stop = IF f.fin # "" THEN MapFinishReason(f.fin) ELSE @,
    !.tokens = IF f.tokens # 0 THEN f.tokens ELSE @], Fresh, s)
Ok(text, tools, stop) == [text |-> text, calls |-> tools, stop |-> stop, status |-> 200]
BadGateway == [NoAnswer EXCEPT !.status = 502]

FramesOfCall(at) == [i \in Calls |-> IF at > 0 /\ sent[at].call = i THEN <<at>> ELSE <<>>]
LastOf(numbers) == IF numbers = <<>> THEN 0 ELSE Last(numbers)

\* lastNDJSONFrame and lastGenerateFrame: only what the last frame carried.
LastNDJSONFrame ==
  LET at == LastOf(Numbers(sent, LAMBDA f : f.ok))
  IN  [text |-> IF at > 0 /\ sent[at].text THEN <<at>> ELSE <<>>, calls |-> FramesOfCall(at)]

\* aggregateNDJSONFrames: all text, and the calls of the last frame with any.
AggregateNDJSONFrames ==
  [text |-> TextOf(sent), calls |-> FramesOfCall(LastOf(Numbers(sent, LAMBDA f : f.call # -1)))]

\* One body holds what the frames would have; frames where one body was asked
\* for, or a body cut short, are taken line by line.
OllamaBody ==
  IF ~ndjson /\ ended = "done" THEN [text |-> TextOf(sent), calls |-> ToolsOf(sent)]
  ELSE IF ~ndjson THEN [text |-> <<>>, calls |-> NoTools]
  ELSE IF api = "chat" THEN AggregateNDJSONFrames ELSE LastNDJSONFrame

\* collectMessagesResponse of the proxy engines.
CollectProxy ==
  IF ended # "done" THEN BadGateway
  ELSE Ok(TextOf(sent), ToolsOf(sent), Settled(sent).stop)

\* collectMessagesResponse of Ollama.
CollectMessages ==
  Ok(OllamaBody.text, OllamaBody.calls,
     IF Made(OllamaBody.calls) # {} THEN "tool_use"
     ELSE IF Settled(sent).tokens >= MaxTokens THEN "max_tokens" ELSE "end_turn")

\* collectChatResponse, chatFinishReason.
CollectChat ==
  Ok(OllamaBody.text, OllamaBody.calls,
     IF Made(OllamaBody.calls) # {} THEN "tool_calls" ELSE "stop")

CollectCompletion == Ok(OllamaBody.text, NoTools, "stop")

CollectOllama ==
  CASE ended = "broken" -> BadGateway
    [] api = "messages" /\ ended # "broken" -> CollectMessages
    [] api = "chat" /\ ended # "broken" -> CollectChat
    [] api = "completion" /\ ended # "broken" -> CollectCompletion

Collect ==
  /\ pc = "frames" /\ ~streams /\ ended # ""
  /\ Reply(IF route[1] = "proxy" THEN CollectProxy ELSE CollectOllama)

StreamNext ==
  \/ Refuse \/ Post \/ EngineAccepts \/ Emit \/ Collect
  \/ \E status \in {0, 400, 500} : Retry(status) \/ Unreachable(status)
  \/ \E f \in Frames : Frame(f)
  \/ \E how \in {"eof", "broken"} : Cut(how)

StreamSpec == StreamInit /\ [][StreamNext]_streamVars

\* The handler's goroutine goes on, and a silent engine runs into the client's
\* timeout, which is a broken read.
FairStream ==
  /\ StreamSpec
  /\ WF_streamVars(\/ Emit \/ Collect \/ Post \/ EngineAccepts \/ Cut("broken")
             \/ \E status \in {0, 400, 500} : Retry(status) \/ Unreachable(status))

-----------------------------------------------------------------------------
\* The type invariant of one request.
StreamTypeOK ==
  /\ route \in Routes /\ think \in {"none", "bool", "level"}
  /\ tries \in 0 .. 2 /\ ended \in {"", "done", "eof", "broken"}
  /\ Len(sent) <= MaxFrames
  /\ acc.tools \in [Calls -> Seq(1 .. MaxFrames)]
  /\ acc.stop \in {"end_turn", "max_tokens", "tool_use"}
  /\ answered.status \in {0, 200, 400, 413, 502}
  /\ pc \in {"body", "posted", "frames", "end"}
  /\ streams => answered.status # 200

Finished == pc = "end" /\ todo = <<>>

\* What the client has seen of a /v1/messages stream, as the protocol's state.
events == IF api = "messages" THEN out ELSE <<>>
Seen(s, e) == \E n \in DOMAIN s : s[n].e = e
StageOf(s) ==
  IF s = <<>> THEN "idle"
  ELSE IF Seen(s, "message_stop") \/ Seen(s, "error") THEN "ended"
  ELSE IF Seen(s, "message_delta") THEN "closing" ELSE "open"
BlockOf(s) ==
  IF s # <<>> /\ Last(s).e \in {"block_start", "block_delta"} THEN Last(s).idx ELSE -1
Begun(s) == Cardinality({n \in DOMAIN s : s[n].e = "block_start"})

\* Every event, with the index of its block; the others have none.
Indexed == {"block_start", "block_delta", "block_stop"}
HeardAs(x) == [e |-> x.e, idx |-> IF x.e \in Indexed THEN x.idx ELSE -1]
Heard(s) == [n \in DOMAIN s |-> HeardAs(s[n])]

Protocol == INSTANCE AnthropicStream WITH
  stage <- StageOf(events), block <- BlockOf(events), next <- Begun(events),
  told <- Heard(events)

\* Whatever the engine sends, and however it stops, the events of a
\* /v1/messages stream follow the protocol's order (events.go): blocks nested,
\* numbered without holes, one message_delta and message_stop, nothing after
\* the end (the returns behind EmitError in streamMessagesResponse).  Every
\* event emitted is a step of the protocol, none a stutter.
FollowsProtocol == Protocol!Spec

\* The frames that brought text (that of the last frame of /v1/completions is
\* blanked on purpose), and those that brought a part of each call.
Spoken == {k \in DOMAIN sent : sent[k].text /\ ~(api = "completion" /\ sent[k].last)}
Brought == [i \in Calls |-> {k \in DOMAIN sent : sent[k].call = i}]

Ascends(s, S) == ToSet(s) = S /\ \A m, n \in DOMAIN s : m < n => s[m] < s[n]

\* The events of s that carry text, a call's arguments, or all the calls.
Texts(s) == {n \in DOMAIN s : /\ s[n].e \in {"block_delta", "chunk", "role_chunk"}
                              /\ s[n].idx = 0 /\ s[n].data # <<>>}
Arguments(s) == {n \in DOMAIN s : s[n].e = "block_delta" /\ s[n].idx > 0}
CallLists(s) == {n \in DOMAIN s : s[n].e \in {"calls", "role_calls"}}

TextIsSaid(s, K) ==
  /\ \A n \in Texts(s) : \E k \in K : s[n].data = <<k>>
  /\ \A k \in K : \E n \in Texts(s) : s[n].data = <<k>>
  /\ \A m, n \in Texts(s) : m < n => s[m].data[1] < s[n].data[1]

CallsAreSaid(s, B) ==
  /\ \A n \in Arguments(s) : \E i \in Calls : B[i] # {} /\ Ascends(s[n].data, B[i])
  /\ \A i \in Calls : B[i] # {} => \E n \in Arguments(s) : Ascends(s[n].data, B[i])
  /\ \A m, n \in Arguments(s) : s[m].data = s[n].data => m = n

ListIsSaid(s, B) ==
  /\ CallLists(s) = {} <=> \A i \in Calls : B[i] = {}
  /\ \A n \in CallLists(s) : \A i \in Calls : Ascends(s[n].data[1][i], B[i])
  /\ \A m, n \in CallLists(s) : m = n

ToolUseIsSaid(s) == \E n \in DOMAIN s : s[n].e = "message_delta" /\ s[n].data = <<"tool_use">>
ToolsAreUsed ==
  \/ \E i \in Calls : Brought[i] # {}
  \/ \E k \in DOMAIN sent : sent[k].fin = "tool_calls"

\* A stream that ended with its last frame said everything the engine said,
\* once and in order: the text, and every call with its own fragments, however
\* the fragments of several calls interleaved (accumulateToolCall,
\* emitBufferedToolCalls); its stop reason is tool use when there were calls.
StreamSaysItAll ==
  Finished /\ streams /\ ended = "done" =>
    /\ TextIsSaid(out, Spoken)
    /\ api = "messages" => CallsAreSaid(out, Brought) /\ (ToolUseIsSaid(out) <=> ToolsAreUsed)
    /\ api = "chat" => ListIsSaid(out, Brought)

\* An OpenAI stream of Ollama's: only its first delta carries the role, the
\* finish chunk comes after every delta and before the end marker, and the end
\* marker is last (streamChatResponse's wire contract, streamCompletionResponse),
\* cut or not.
ChatStreamShape ==
  api # "messages" =>
    /\ \A n \in DOMAIN out : out[n].e \in {"role_chunk", "role_calls"} => n = 1
    /\ \A n \in DOMAIN out : out[n].e = "finish" =>
         \A m \in n + 1 .. Len(out) : out[m].e = "done"
    /\ \A n \in DOMAIN out : out[n].e = "done" => n = Len(out)
    /\ api = "chat" /\ out # <<>> => out[1].e \notin {"chunk", "calls"}
    /\ Finished /\ streams /\ ended # "" => out # <<>> /\ Last(out).e = "done"

\* Upstream, a tool's result stands directly behind the assistant turn that made
\* the call, with other results only between them, whatever words came with the
\* result (ToolResultsFromMessage, buildUpstreamMessages): engines refuse a
\* conversation that has it elsewhere.
ResultsFollowCalls ==
  \A n \in DOMAIN posted : posted[n].role = "tool" =>
    \E m \in 1 .. n - 1 :
      /\ posted[m].role = "assistant" /\ posted[n].ids[1] \in ToSet(posted[m].ids)
      /\ \A l \in m + 1 .. n - 1 : posted[l].role = "tool"

\* Every request is answered to its end.
RequestEnds == <>Finished

\* What streamMessagesResponse says of itself, "matches the non-streaming
\* heuristic" (proxy/messages.go): stream and buffered answer give one stop
\* reason for one completion.
StopReasonsAgree ==
  Finished /\ streams /\ ended = "done" /\ api = "messages" /\ route[1] = "proxy" =>
    \A n \in DOMAIN out : out[n].e = "message_delta" => out[n].data = <<CollectProxy.stop>>
=============================================================================
