----------------------------- MODULE MCCtapHid -----------------------------
(* Small instances of CtapHid.                                             *)
EXTENDS CtapHid

CONSTANTS a, b

\* One application gets as far as a second request after it gave one up; the
\* other opens a channel and makes one request.
MCMaxRequests == [x \in {a, b} |-> IF x = a THEN 4 ELSE 2]

\* The first makes any of these: an echo in three packets with padding, a command
\* that just fills one, a CTAPHID_INIT of a wrong length, an unknown command and
\* one that is too long.  The other makes the first two.
Shape(k, l) == [cmd |-> k, len |-> l]
Plain    == {Shape("Ping", 4), Shape("Cbor", 1)}
MCShapes == [x \in {a, b} |->
                IF x = a THEN Plain \cup {Shape("Init", 2), Shape("Other", 1), Shape("Other", 5)}
                ELSE Plain]
=============================================================================
