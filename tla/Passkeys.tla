------------------------------ MODULE Passkeys ------------------------------
(***************************************************************************)
(* What the store of discoverable credentials promises to those who have   *)
(* one: it is a set with one credential for an account, in which only the  *)
(* next one of an account takes the place of another, and from which more  *)
(* than one goes only by a Reset, on a power-up of its own.                *)
(***************************************************************************)
EXTENDS Integers, FiniteSets

CONSTANTS Credential, \* [id, rp, user, order and what else they hold]
          Slots       \* how many there is room for

VARIABLES credentials, \* what is stored
          made,        \* IDs drawn so far
          resettable   \* no command since power-up forbids a Reset

vars == <<credentials, made, resettable>>

SameAccount(x, y) == x.rp = y.rp /\ x.user = y.user

Init == /\ credentials = {}
        /\ made = 0
        /\ resettable = TRUE

\* A new credential, later than all the others, in the place of that of its account.
Register == \E x \in credentials' :
    /\ x \in Credential
    /\ made' = made + 1
    /\ x.id = made'
    /\ \A y \in credentials : y.order < x.order
    /\ credentials' = {y \in credentials : ~SameAccount(x, y)} \cup {x}
    /\ Cardinality(credentials') <= Slots
    /\ resettable' \in {resettable, FALSE}

Without == \E x \in credentials : credentials' = credentials \ {x}

\* A registration that fails or is cut off, after it has drawn its ID, costs no more
\* than one.
Fail == /\ made' = made + 1
        /\ UNCHANGED credentials \/ Without
        /\ resettable' \in BOOLEAN

\* A deletion, or an update that fails or is cut off.
Lose == /\ Without
        /\ UNCHANGED made
        /\ resettable' \in BOOLEAN

\* All of them, or a part if it is cut off.
Reset == /\ resettable
         /\ credentials' \in SUBSET credentials
         /\ UNCHANGED <<made, resettable>>

\* Any command, or a power-up.
Other == /\ resettable' \in BOOLEAN
         /\ UNCHANGED <<credentials, made>>

Next == Other \/ Lose \/ Fail \/ Register \/ Reset

Spec == Init /\ [][Next]_vars

\* An account has one credential, and there is room for all.
WellStored == /\ \A x, y \in credentials : SameAccount(x, y) => x = y
              /\ Cardinality(credentials) <= Slots
=============================================================================
