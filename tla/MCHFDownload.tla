---------------------------- MODULE MCHFDownload ----------------------------
(* A two-part model and its projector in one repository; the second commit *)
(* changes one part and keeps the rest.                                    *)
EXTENDS HFDownload

MCFiles == {"m1", "m2", "p"}
MCWants == <<{"m1", "m2"}, {"p"}>>
MCCommits == {1, 2}
MCBlob == <<[m1 |-> 1, m2 |-> 2, p |-> 3], [m1 |-> 1, m2 |-> 4, p |-> 3]>>
=============================================================================
