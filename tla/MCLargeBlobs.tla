---------------------------- MODULE MCLargeBlobs ----------------------------
(* Small instances of LargeBlobs.                                          *)
EXTENDS LargeBlobs

\* Two arrays of one length and one that is shorter, one with a wrong digest, one
\* that is too long and one that is too short.
Array(n, l, s) == [name |-> n, len |-> l, sound |-> s]
MCArrays == {Array("p", 3, TRUE), Array("q", 3, TRUE), Array("r", 2, TRUE),
             Array("bad", 2, FALSE), Array("long", 4, TRUE), Array("short", 1, TRUE)}
=============================================================================
