--------------------------- MODULE ExchangeLedger ---------------------------
(***************************************************************************)
(* What the light-gene exchange promises, without modes, menus, queues or  *)
(* cryptography: a badge's pattern changes only by an answer another badge *)
(* gave to the request it still has open, a new pattern can be kept or     *)
(* undone, and losing power goes back to the pattern that was kept.        *)
(* GeneExchange is shown to implement this module.                         *)
(***************************************************************************)
CONSTANTS Badges, Genes, NoGene,
          Requests,    \* the names requests are given
          None         \* no request open; not one of the names

VARIABLES asked,       \* requests that were ever put on display
          answers,     \* <<r, a>> when badge a has answered request r
          open,        \* the request each badge waits for an answer to
          pattern,     \* the gene on its lights
          undo,        \* the gene to go back to
          saved        \* the gene it starts with next time

requests == <<asked, answers, open>>
genes    == <<pattern, undo, saved>>

Init == /\ asked = {}
        /\ answers = {}
        /\ open = [b \in Badges |-> None]
        /\ pattern \in [Badges -> Genes \cup {NoGene}]
        /\ undo = [b \in Badges |-> NoGene]
        /\ saved = pattern

\* A new request replaces the one that was open.
Ask(b) == \E r \in Requests \ asked :
              /\ asked' = asked \cup {r}
              /\ open' = [open EXCEPT ![b] = r]
              /\ UNCHANGED <<answers, genes>>

\* Whoever answers gives up its own request.
Answer(a) == \E r \in asked :
                 /\ pattern[a] # NoGene
                 /\ answers' = answers \cup {<<r, a>>}
                 /\ open' = [open EXCEPT ![a] = None]
                 /\ UNCHANGED <<asked, genes>>

Withdraw(b) == /\ open' = [open EXCEPT ![b] = None]
               /\ UNCHANGED <<asked, answers, genes>>

\* The request stays open: nothing here says an answer is taken only once.
Take(b) == /\ \E a \in Badges \ {b} : <<open[b], a>> \in answers
           /\ \E g \in Genes : pattern' = [pattern EXCEPT ![b] = g]
           /\ undo' = [undo EXCEPT ![b] = pattern[b]]
           /\ UNCHANGED <<requests, saved>>

Keep(b) == /\ pattern[b] # NoGene
           /\ saved' = [saved EXCEPT ![b] = pattern[b]]
           /\ UNCHANGED <<requests, pattern, undo>>

Undo(b) == /\ undo[b] # NoGene
           /\ pattern' = [pattern EXCEPT ![b] = undo[b]]
           /\ undo' = [undo EXCEPT ![b] = NoGene]
           /\ UNCHANGED <<requests, saved>>

PowerLoss(b) == /\ open' = [open EXCEPT ![b] = None]
                /\ pattern' = [pattern EXCEPT ![b] = saved[b]]
                /\ undo' = [undo EXCEPT ![b] = NoGene]
                /\ UNCHANGED <<asked, answers, saved>>

Next == \E b \in Badges : \/ Ask(b)  \/ Answer(b) \/ Withdraw(b) \/ Take(b)
                          \/ Keep(b) \/ Undo(b)   \/ PowerLoss(b)

Spec == Init /\ [][Next]_<<requests, genes>>
=============================================================================
