----------------------------- MODULE MCListView -----------------------------
(* ListView for TLC: five records, two of the first name, two of the next. *)
EXTENDS ListView

MCAccounts == 1..5
MCNameOf   == [a \in MCAccounts |-> <<2, 2, 4, 4, 8>>[a]]

\* Two whole names that others start with, a prefix, a criterion before all names
\* that none starts with, and one after all of them.
MCCriteria == {[at |-> 2, last |-> 4], [at |-> 3, last |-> 4], [at |-> 4, last |-> 8],
               [at |-> 0, last |-> -1], [at |-> 9, last |-> 9]}
=============================================================================
