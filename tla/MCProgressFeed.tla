--------------------------- MODULE MCProgressFeed ---------------------------
(* A repository with two weight files of one name and a projector.  The     *)
(* larger weight prints its full size one byte early (Grain 2).             *)
EXTENDS ProgressFeed

MCFiles == {"x/w", "y/w", "p"}
MCBase == [f \in MCFiles |-> IF f = "p" THEN "p" ELSE "w"]
MCSize == [f \in MCFiles |-> IF f = "y/w" THEN 4 ELSE 1]
MCRuns == <<{"x/w", "y/w"}, {"p"}>>
MCQueue == <<"p", "x/w", "y/w">>
=============================================================================
