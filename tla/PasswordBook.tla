---------------------------- MODULE PasswordBook ----------------------------
(***************************************************************************)
(* What the token promises for its passwords, without lists, screens, keys *)
(* or scans: a set with one record for an account.  An update takes a      *)
(* record out before it puts the new one in, and a power loss in between,  *)
(* or a write that fails, costs that record and no other.                  *)
(***************************************************************************)

CONSTANTS Record,  \* [desc, user and what else they hold]
          NoRecord

VARIABLES records, \* those that are stored
          taken    \* what an update is going to write, or NoRecord

vars == <<records, taken>>

SameAccount(x, y) == x.desc = y.desc /\ x.user = y.user

Write(r) == records' = {x \in records : ~SameAccount(x, r)} \cup {r}

Init == records = {} /\ taken = NoRecord

\* A new password, in place of any of its account.
Add == /\ taken = NoRecord
       /\ \E r \in Record : Write(r)
       /\ UNCHANGED taken

Remove == /\ taken = NoRecord
          /\ \E r \in records : records' = records \ {r}
          /\ UNCHANGED taken

\* To type it or to edit it: what is going to be written may be of another account.
Take == /\ taken = NoRecord
        /\ \E r \in records : records' = records \ {r}
        /\ taken' \in Record

PutBack == /\ taken # NoRecord
           /\ Write(taken)
           /\ taken' = NoRecord

\* A power loss, or the write fails.
GiveUp == /\ taken' = NoRecord
          /\ UNCHANGED records

Next == Add \/ Remove \/ Take \/ PutBack \/ GiveUp

Spec == Init /\ [][Next]_vars

OneRecordPerAccount == \A x, y \in records : SameAccount(x, y) => x = y
=============================================================================
