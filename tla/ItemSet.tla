------------------------------ MODULE ItemSet ------------------------------
(***************************************************************************)
(* What the list behind the password screen promises: it is a set of items *)
(* beside the records of the PDDB, to which an operation adds or from which*)
(* it drops the items it is about and, on a reload, those it had missed.   *)
(***************************************************************************)

CONSTANT Accounts  \* password records by their key

VARIABLES disk,  \* the keys of the records
          items  \* the keys of the items of the list

vars == <<disk, items>>

Init == /\ disk \in SUBSET Accounts
        /\ items = disk

\* Every record has an item; no item is taken away.
Reload == /\ UNCHANGED disk
          /\ items' = items \cup disk

Scan(a) == /\ disk' = disk \cup {a}
           /\ items' = items \cup disk'

\* An edit moves the record of a to the key of b.
Move(a, b) == /\ disk' = (disk \ {a}) \cup {b}
              /\ items' = (items \ {a}) \cup {b}

\* An edit that cannot be written leaves neither.
Lose(a) == /\ disk' = disk \ {a}
           /\ items' = items \ {a}

\* A deletion that fails leaves both.
Delete(a) == /\ disk' \in {disk, disk \ {a}}
             /\ items' = (items \ {a}) \cup disk'

Next == \/ Reload
        \/ \E a \in Accounts : Scan(a)
        \/ \E a \in items \cap disk :
              Delete(a) \/ Lose(a) \/ \E b \in Accounts : Move(a, b)

Spec == Init /\ [][Next]_vars

\* No item is left of a record that was moved or deleted.
ItemsHaveRecords == items \subseteq disk
=============================================================================
