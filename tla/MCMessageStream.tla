-------------------------- MODULE MCMessageStream --------------------------
(* A plain turn, and turns that answer one or two calls with and without   *)
(* words before, between and after the results.                            *)
EXTENDS MessageStream

Text == [type |-> "text", id |-> 0]
Use(i) == [type |-> "tool_use", id |-> i]
Result(i) == [type |-> "tool_result", id |-> i]
User(blocks) == [role |-> "user", blocks |-> blocks]
Assistant(blocks) == [role |-> "assistant", blocks |-> blocks]

MCRoutes == {<<"proxy", "messages">>, <<"ollama", "messages">>,
             <<"ollama", "chat">>, <<"ollama", "completion">>}
MCConversations ==
  {<<User(<<Text>>)>>}
  \cup {<<User(<<Text>>), Assistant(<<Use(1), Use(2)>>), User(b)>> :
          b \in {<<Result(1), Result(2)>>, <<Text, Result(2), Result(1)>>,
                 <<Result(1), Text, Result(2)>>}}
  \cup {<<User(<<Text>>), Assistant(<<Text, Use(1)>>), User(<<Text, Result(1)>>),
          Assistant(<<Use(2)>>), User(<<Result(2), Text>>)>>}
Msg(role, text, ids) == [role |-> role, text |-> text, ids |-> ids]
MCChats ==
  {<<Msg("user", TRUE, <<>>)>>,
   <<Msg("user", TRUE, <<>>), Msg("assistant", FALSE, <<1, 2>>), Msg("", FALSE, <<>>),
     Msg("tool", TRUE, <<2>>), Msg("tool", TRUE, <<1>>), Msg("user", TRUE, <<>>)>>}
MCCalls == {0, 1}
=============================================================================
