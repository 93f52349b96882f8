-------------------------- MODULE MessageTransport --------------------------
(***************************************************************************)
(* What the CTAP HID transport promises to the applications of a host:     *)
(* each has at most one request in hand, the device runs a request only    *)
(* while it is in hand, whole, and at most once, and an application that   *)
(* is told of success had its request run.  Packets, channels, other       *)
(* applications and time are not in it.  CtapHid is shown to implement it. *)
(***************************************************************************)
CONSTANTS Apps,     \* applications of the host
          Requests, \* what they ask
          None      \* no request

VARIABLES inHand,   \* the request each application waits for
          told,     \* the request it was last told the success of, until it asks again
          run       \* the requests the device has run

Init == /\ inHand = [a \in Apps |-> None]
        /\ told = [a \in Apps |-> None]
        /\ run = {}

Ask(a) == \E r \in Requests \ run : /\ inHand[a] = None
                                   /\ inHand' = [inHand EXCEPT ![a] = r]
                                   /\ told' = [told EXCEPT ![a] = None]
                                   /\ UNCHANGED run

Run(a) == /\ inHand[a] # None
          /\ inHand[a] \notin run
          /\ run' = run \cup {inHand[a]}
          /\ UNCHANGED <<inHand, told>>

Succeed(a) == /\ inHand[a] \in run
              /\ told' = [told EXCEPT ![a] = inHand[a]]
              /\ inHand' = [inHand EXCEPT ![a] = None]
              /\ UNCHANGED run

\* A request that is given up runs no more, and may have run.
GiveUp(a) == /\ inHand' = [inHand EXCEPT ![a] = None]
             /\ told' = [told EXCEPT ![a] = None]
             /\ UNCHANGED run

Next == \E a \in Apps : Ask(a) \/ Run(a) \/ Succeed(a) \/ GiveUp(a)

Spec == Init /\ [][Next]_<<inHand, told, run>>
=============================================================================
