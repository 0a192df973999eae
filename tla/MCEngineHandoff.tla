-------------------------- MODULE MCEngineHandoff --------------------------
(* Small instances of EngineHandoff.  A chat app's flags go out as the     *)
(* operator wrote them; an embedding app's get --embedding merged in.      *)
EXTENDS EngineHandoff, TLC

CONSTANTS none, flags, ctx, embedding, flagsEmbedding, r1, r2

ChatArgs  == {none, flags, ctx}
ChatMerge == [a \in ChatArgs |-> a]

EmbeddingArgs  == {none, flags, embedding, flagsEmbedding}
EmbeddingMerge ==
    (none :> embedding) @@ (embedding :> embedding)
    @@ (flags :> flagsEmbedding) @@ (flagsEmbedding :> flagsEmbedding)
=============================================================================
