--------------------------- MODULE MCUrlDownload ---------------------------
(* Small instances of UrlDownload: two objects of one length and a shorter *)
(* one; a plain source and a pinned one.                                   *)
EXTENDS UrlDownload, TLC

CONSTANTS old, new, short, plain, pinned

Blocks      == (old :> 2) @@ (new :> 2) @@ (short :> 1)
SmallSize   == [o \in Objects |-> Blocks[o]]
PinnedToNew == [s \in Sources |-> IF s = pinned THEN new ELSE None]
=============================================================================
