---------------------------- MODULE GeneExchange ----------------------------
(***************************************************************************)
(* The light-gene exchange between badges (defcon-scheme.md, main.rs       *)
(* HandleQr, ux.rs handle_key, config.rs GlobalConfig).                    *)
(*                                                                         *)
(* A recipient shows its nonce as a QR code (ShowKey).  A donor that scans *)
(* it answers with a second code, its gamete encrypted to that nonce       *)
(* (ResponseGene).  The recipient scans the answer, mixes the gamete into  *)
(* its own gene and asks its user to keep or revert the result             *)
(* (ConfirmGene).                                                          *)
(*                                                                         *)
(* Each badge is one main loop that takes messages from its queue, inbox.  *)
(* Key presses are not queued here: the user may press any key at any      *)
(* time, so a key handled now stands for one that was queued before        *)
(* whatever is still in inbox.  A key dropped by skip_one_key is a key     *)
(* that was not pressed, and the menu key that the 500 ms timer posts is   *)
(* one the user could press: neither needs state in this module.           *)
(***************************************************************************)
EXTENDS Integers, Sequences

CONSTANTS Badges,      \* the badges
          Genes,       \* the light genes (Diploid) a badge can carry
          NoGene,      \* gene_cache = None
          Attached,    \* badges whose attach_state is attached()
          Factory,     \* what a badge may have in its PDDB at first boot: a gene, or none
          Secret,      \* the secret k0 of each badge
          StrayKinds,  \* QR codes that belong to no exchange
          MaxNonce,    \* bound: nonces generated in one behaviour
          MaxInbox     \* bound: messages waiting for one main loop

ASSUME GenesAssumption == NoGene \notin Genes
ASSUME AttachedAssumption == Attached \subseteq Badges
ASSUME FactoryAssumption == Factory \subseteq Genes \cup {NoGene}
ASSUME MaxNonceAssumption == MaxNonce \in Nat
ASSUME MaxInboxAssumption == MaxInbox \in Nat
ASSUME StrayAssumption ==
    StrayKinds \subseteq {"short", "cutKey", "cutGene", "text", "scheme", "test", "factory"}

VARIABLES
    mode,         \* VaultMode; "Other" is every mode outside the exchange
    menu,         \* menu_active, and whether a chosen item waits for MenuDone
    nonce_mine,   \* GlobalConfig.nonce_mine, 0 for None
    gene_cache,   \* GlobalConfig.gene_cache, which the lights express
    prior_gene,   \* GlobalConfig.prior_gene
    light_gene,   \* the gene in the PDDB
    inbox,        \* messages other than keys waiting for the main loop
    shown,        \* every exchange code a badge has displayed, or a photo of it
    lastNonce,    \* how many nonces were drawn: the next draw is lastNonce + 1
    spent         \* history: <<b, c>> when b has accepted the gene code c

geneVars == <<gene_cache, prior_gene, light_gene>>
wire     == <<shown, lastNonce, spent>>
vars     == <<mode, menu, nonce_mine, geneVars, inbox, wire>>

-----------------------------------------------------------------------------
(* Codes and messages.                                                     *)

NoNonce == 0
Nonces  == 1..MaxNonce

Modes == {"Idle", "ShowKey", "GeneScan", "ResponseGene", "ConfirmGene",
          "StandAloneTest", "Other", "Panicked"}

\* The modes in which HandleQr reads a code as part of an exchange.
ScanModes == {"GeneScan", "ResponseGene", "ShowKey"}

\* header || Nonce1
KeyCode(n) == [kind |-> "key", nonce |-> n]

\* The donor's gamete encrypted to nonce n.  own is the nonce the donor drew
\* for itself in the same step: it is not in the ciphertext, only in the model.
GeneCode(n, d, own) == [kind |-> "gene", to |-> n, by |-> d, own |-> own]

KeyCodes   == [kind : {"key"}, nonce : Nonces]
GeneCodes  == [kind : {"gene"}, to : Nonces, by : Badges, own : Nonces]
StrayCodes == [kind : StrayKinds]
Codes      == KeyCodes \cup GeneCodes \cup StrayCodes

Qr(c) == [op |-> "HandleQr", code |-> c]
Op(o) == [op |-> o]
Ops   == {"AbortQr", "MenuDone", "KeepGene", "RevertGene", "BadgeMode", "TokenMode"}
Msgs  == [op : {"HandleQr"}, code : Codes] \cup [op : Ops]

Post(b, ms) == /\ Len(inbox[b]) + Len(ms) <= MaxInbox
               /\ inbox' = [inbox EXCEPT ![b] = @ \o ms]

Received(b, o) == /\ mode[b] # "Panicked"
                  /\ inbox[b] # <<>>
                  /\ Head(inbox[b]).op = o
                  /\ inbox' = [inbox EXCEPT ![b] = Tail(@)]

SetMode(b, m) == mode' = [mode EXCEPT ![b] = m]

\* Mutants: a nonce drawn only while there is none, and a draw checked against the
\* previous nonce alone.
generate_my_nonce_Once(b) ==
    /\ lastNonce < MaxNonce
    /\ lastNonce' = lastNonce + 1
    /\ nonce_mine' = [nonce_mine EXCEPT ![b] = IF @ = NoNonce THEN lastNonce + 1 ELSE @]
generate_my_nonce_Fixed(b) ==
    /\ lastNonce' = 1
    /\ nonce_mine' = [nonce_mine EXCEPT ![b] = 1]

\* generate_my_nonce: 96 random bits, drawn again when they equal the header or
\* the previous nonce.  Draws are taken not to collide at all; the numbers give
\* their order.
generate_my_nonce(b) ==
    /\ lastNonce < MaxNonce
    /\ lastNonce' = lastNonce + 1
    /\ nonce_mine' = [nonce_mine EXCEPT ![b] = lastNonce + 1]

clear_nonces(b) == nonce_mine' = [nonce_mine EXCEPT ![b] = NoNonce]

\* Mutant: any code made under the secret is accepted.
Decrypts_AnyNonce(b, c) == c.kind = "gene" /\ Secret[b] = Secret[c.by]

\* AES-GCM-SIV accepts a code exactly when it was made under the same secret
\* and for the nonce this badge holds now.
Decrypts(b, c) == /\ c.kind = "gene"
                  /\ nonce_mine[b] = c.to
                  /\ Secret[b] = Secret[c.by]

-----------------------------------------------------------------------------
(* Power.                                                                  *)

Init == /\ mode = [b \in Badges |-> "Idle"]
        /\ menu = [b \in Badges |-> "none"]
        /\ nonce_mine = [b \in Badges |-> NoNonce]
        /\ gene_cache \in [Badges -> Factory]
        /\ prior_gene = [b \in Badges |-> NoGene]
        /\ light_gene = gene_cache
        /\ inbox = [b \in Badges |-> <<>>]
        /\ shown = {}
        /\ lastNonce = 0
        /\ spent = {}

\* The power manager's timeout, the power switch or a reset after a panic:
\* main starts over from what GlobalConfig::init reads back from the PDDB, on
\* the idle screen or, when a tour or the token list comes first, elsewhere.
PowerCycle(b) ==
    /\ \E m \in {"Idle", "Other"} : SetMode(b, m)
    /\ menu' = [menu EXCEPT ![b] = "none"]
    /\ clear_nonces(b)
    /\ gene_cache' = [gene_cache EXCEPT ![b] = light_gene[b]]
    /\ prior_gene' = [prior_gene EXCEPT ![b] = NoGene]
    /\ inbox' = [inbox EXCEPT ![b] = <<>>]
    /\ UNCHANGED <<light_gene, wire>>

-----------------------------------------------------------------------------
(* Keys, while no menu is up.                                              *)

\* Left or right on the idle screen draws a nonce and shows it.
ShowKey(b) ==
    /\ menu[b] = "none"
    /\ mode[b] = "Idle"
    /\ generate_my_nonce(b)
    /\ SetMode(b, "ShowKey")
    /\ shown' = shown \cup {KeyCode(nonce_mine'[b])}
    /\ UNCHANGED <<menu, geneVars, inbox, spent>>

\* The camera finds a code, is aborted, or fails (acquire_qr then says nothing).
Camera(b, found) ==
    \/ \E c \in found : Post(b, <<Qr(c)>>)
    \/ Post(b, <<Op("AbortQr")>>)
    \/ UNCHANGED inbox

\* The fire key where a scan can find an exchange code.
FireToScan(b) ==
    /\ menu[b] = "none"
    /\ mode[b] \in {"Idle", "ShowKey", "GeneScan"}
    /\ SetMode(b, "GeneScan")
    /\ Camera(b, shown \cup StrayCodes)
    /\ UNCHANGED <<menu, nonce_mine, geneVars, wire>>

\* The fire key in the other modes that pass it on: acquire_qr treats what it
\* finds as a token URL and sends the main loop nothing but AbortQr.
FireElsewhere(b) ==
    /\ menu[b] = "none"
    /\ mode[b] \in {"ConfirmGene", "Other"}
    /\ Camera(b, {})
    /\ UNCHANGED <<mode, menu, nonce_mine, geneVars, wire>>

\* A key on a code screen goes back to the idle screen; only the donor's
\* screen forgets the nonce.  The menu key also raises a menu.
LeaveCode(b) ==
    /\ menu[b] = "none"
    /\ mode[b] \in {"ShowKey", "ResponseGene"}
    /\ SetMode(b, "Idle")
    /\ IF mode[b] = "ResponseGene" THEN clear_nonces(b) ELSE UNCHANGED nonce_mine
    /\ \E up \in {"none", "open"} : menu' = [menu EXCEPT ![b] = up]
    /\ UNCHANGED <<geneVars, inbox, wire>>

RaiseMenu(b) ==
    /\ menu[b] = "none"
    /\ mode[b] \in {"Idle", "GeneScan", "ConfirmGene", "Other"}
    /\ menu' = [menu EXCEPT ![b] = "open"]
    /\ UNCHANGED <<mode, nonce_mine, geneVars, inbox, wire>>

\* The end of a tour, a help screen or the self test.
EndScreen(b) ==
    /\ menu[b] = "none"
    /\ mode[b] \in {"Other", "StandAloneTest"}
    /\ SetMode(b, "Idle")
    /\ UNCHANGED <<menu, nonce_mine, geneVars, inbox, wire>>

\* An item is chosen in the menu that the mode selects, whichever was drawn.
\* "Close Menu" posts no operation of its own.
MenuItems(m) == CASE m = "ConfirmGene" -> {"KeepGene", "RevertGene"}
                  [] m = "Idle"        -> {"TokenMode", "MenuDone"}
                  [] OTHER             -> {"BadgeMode", "TokenMode", "MenuDone"}

ChooseItem(b) ==
    /\ menu[b] = "open"
    /\ mode[b] # "Panicked"
    /\ \E o \in MenuItems(mode[b]) :
          Post(b, IF o = "MenuDone" THEN <<Op(o)>> ELSE <<Op(o), Op("MenuDone")>>)
    /\ menu' = [menu EXCEPT ![b] = "closing"]
    /\ UNCHANGED <<mode, nonce_mine, geneVars, wire>>

-----------------------------------------------------------------------------
(* HandleQr, one action per way through it.                                *)

QrIs(b, kinds) == /\ Received(b, "HandleQr")
                  /\ Head(inbox[b]).code.kind \in kinds
                  /\ UNCHANGED menu

\* A key code: draw a nonce of our own, then answer with a gamete encrypted to
\* theirs.  get_padded_gamete().unwrap() panics on a badge without a gene.
AnswerKey(b) ==
    LET c == Head(inbox[b]).code IN
    /\ QrIs(b, {"key"})
    /\ mode[b] \in ScanModes
    /\ generate_my_nonce(b)
    /\ IF gene_cache[b] = NoGene
       THEN SetMode(b, "Panicked") /\ UNCHANGED shown
       ELSE /\ SetMode(b, "ResponseGene")
            /\ shown' = shown \cup {GeneCode(c.nonce, b, nonce_mine'[b])}
    /\ UNCHANGED <<geneVars, spent>>

\* Mutant: the gene that is replaced is not put aside.
replace_gene_NoBackup(b) ==
    /\ \E g \in Genes : gene_cache' = [gene_cache EXCEPT ![b] = g]
    /\ UNCHANGED prior_gene

\* replace_gene: any egg of ours with the gamete they sent.
replace_gene(b) ==
    /\ prior_gene' = [prior_gene EXCEPT ![b] = gene_cache[b]]
    /\ \E g \in Genes : gene_cache' = [gene_cache EXCEPT ![b] = g]

\* A gene code that decrypts.  The nonce stays as it was.
AcceptGene(b) ==
    LET c == Head(inbox[b]).code IN
    /\ QrIs(b, {"gene"})
    /\ mode[b] \in ScanModes
    /\ Decrypts(b, c)
    /\ IF gene_cache[b] = NoGene
       THEN SetMode(b, "Panicked") /\ UNCHANGED <<gene_cache, prior_gene, spent>>
       ELSE /\ replace_gene(b)
            /\ SetMode(b, "ConfirmGene")
            /\ spent' = spent \cup {<<b, c>>}
    /\ UNCHANGED <<nonce_mine, light_gene, shown, lastNonce>>

\* A gene code without a nonce of our own or for another one, or a code that is
\* cut short, is no base45 or has an unknown scheme: a notice, then idle.
RefuseCode(b) ==
    LET c == Head(inbox[b]).code IN
    /\ QrIs(b, {"gene", "cutKey", "cutGene", "text", "scheme"})
    /\ mode[b] \in ScanModes
    /\ c.kind = "gene" => ~Decrypts(b, c)
    /\ SetMode(b, "Idle")
    /\ UNCHANGED <<nonce_mine, geneVars, wire>>

\* Base45 data shorter than the header: data[..DC34_HEADER.len()] panics.
ShortCode(b) ==
    /\ QrIs(b, {"short"})
    /\ mode[b] \in ScanModes
    /\ SetMode(b, "Panicked")
    /\ UNCHANGED <<nonce_mine, geneVars, wire>>

\* factory:// and test:// mean the same in every mode.
FactoryCode(b) ==
    /\ QrIs(b, {"factory", "test"})
    /\ IF Head(inbox[b]).code.kind = "factory"
       THEN SetMode(b, "StandAloneTest") ELSE UNCHANGED mode
    /\ UNCHANGED <<nonce_mine, geneVars, wire>>

\* A code that reaches a main loop whose mode has moved on is dropped.
LateCode(b) ==
    /\ QrIs(b, {"key", "gene", "short", "cutKey", "cutGene", "text", "scheme"})
    /\ mode[b] \notin ScanModes
    /\ UNCHANGED <<mode, nonce_mine, geneVars, wire>>

-----------------------------------------------------------------------------
(* The other messages.                                                     *)

AbortQr(b) ==
    /\ Received(b, "AbortQr")
    /\ IF b \in Attached THEN SetMode(b, "Idle") ELSE UNCHANGED mode
    /\ UNCHANGED <<menu, nonce_mine, geneVars, wire>>

MenuDone(b) ==
    /\ Received(b, "MenuDone")
    /\ menu' = [menu EXCEPT ![b] = "none"]
    /\ UNCHANGED <<mode, nonce_mine, geneVars, wire>>

KeepGene(b) ==
    /\ Received(b, "KeepGene")
    /\ light_gene' = [light_gene EXCEPT
                        ![b] = IF gene_cache[b] = NoGene THEN @ ELSE gene_cache[b]]
    /\ SetMode(b, "Idle")
    /\ UNCHANGED <<menu, nonce_mine, gene_cache, prior_gene, wire>>

RevertGene(b) ==
    /\ Received(b, "RevertGene")
    /\ IF prior_gene[b] = NoGene
       THEN UNCHANGED gene_cache
       ELSE gene_cache' = [gene_cache EXCEPT ![b] = prior_gene[b]]
    /\ prior_gene' = [prior_gene EXCEPT ![b] = NoGene]
    /\ SetMode(b, "Idle")
    /\ UNCHANGED <<menu, nonce_mine, light_gene, wire>>

\* BadgeMode goes to the idle screen; TokenMode stands for it and for the help
\* and about screens.
ChangeScreen(b) ==
    /\ \/ Received(b, "BadgeMode") /\ SetMode(b, "Idle")
       \/ Received(b, "TokenMode") /\ SetMode(b, "Other")
    /\ UNCHANGED <<menu, nonce_mine, geneVars, wire>>

-----------------------------------------------------------------------------
UserKey(b) == \/ ShowKey(b)   \/ FireToScan(b) \/ FireElsewhere(b)
              \/ LeaveCode(b) \/ RaiseMenu(b)  \/ EndScreen(b) \/ ChooseItem(b)

HandleQr(b) == \/ AnswerKey(b) \/ AcceptGene(b)  \/ RefuseCode(b)
               \/ ShortCode(b) \/ FactoryCode(b) \/ LateCode(b)

Handle(b) == \/ HandleQr(b) \/ AbortQr(b)    \/ MenuDone(b)
             \/ KeepGene(b) \/ RevertGene(b) \/ ChangeScreen(b)

Next == \E b \in Badges : UserKey(b) \/ Handle(b) \/ PowerCycle(b)

Spec == Init /\ [][Next]_vars
-----------------------------------------------------------------------------
(* Properties.                                                             *)

Answers == {c \in shown : c.kind = "gene"}

\* The nonces that were shown as a key.
Asked == {c.nonce : c \in shown \ Answers}

\* a's gamete can be accepted by b, if b scans it now.
Feeds(a, b) == \E c \in Answers : c.by = a /\ c.to = nonce_mine[b]

\* b's main loop is about to accept gene code c.
Accepting(b, c) == AcceptGene(b) /\ Head(inbox[b]).code = c /\ mode'[b] = "ConfirmGene"

TypeOK ==
    /\ mode \in [Badges -> Modes]
    /\ menu \in [Badges -> {"none", "open", "closing"}]
    /\ nonce_mine \in [Badges -> Nonces \cup {NoNonce}]
    /\ gene_cache \in [Badges -> Genes \cup {NoGene}]
    /\ prior_gene \in [Badges -> Genes \cup {NoGene}]
    /\ light_gene \in [Badges -> Genes \cup {NoGene}]
    /\ inbox \in [Badges -> Seq(Msgs)]
    /\ shown \subseteq KeyCodes \cup GeneCodes
    /\ lastNonce \in Nonces \cup {0}
    /\ spent \subseteq Badges \X GeneCodes

\* Answering a key replaces the answerer's own nonce, so a group of badges that
\* scan each other's screens in any order can never all be waiting for an answer
\* that still works: some badge of the group gets nothing from the others.
NoBreedingCycle ==
    \A S \in (SUBSET Badges) \ {{}} : \E b \in S : \A a \in S : ~Feeds(a, b)

\* No badge ever mixes its own gamete into its gene, though it may scan a photo
\* of its own key and then its own answer.
NoSelfBreeding == \A u \in spent : u[2].by # u[1]

\* An answer is worth something to the badge that asked and to no other, however
\* far a photo of it travels.
OneRecipient == \A u, v \in spent : u[2] = v[2] => u[1] = v[1]

\* A donor on its answer screen is not itself waiting: nothing any badge has
\* shown decrypts under the nonce it holds, and nobody has seen that nonce.
DonorCannotReceive ==
    \A b \in Badges : mode[b] = "ResponseGene" =>
        /\ nonce_mine[b] \notin Asked
        /\ \A c \in Answers : c.to # nonce_mine[b]

\* While the user is asked about a new gene, the one before it is still there to
\* go back to, whatever was queued when the question came up.
UndoAvailable == \A b \in Badges : mode[b] = "ConfirmGene" => prior_gene[b] # NoGene

\* Once an answer has stopped working for a badge (it showed a new key, answered
\* someone, left the answer screen or lost power) it never works for it again.
DeadStaysDead ==
    [][\A c \in Answers, b \in Badges : c.to # nonce_mine[b] => c.to # nonce_mine'[b]]_vars

\* defcon-scheme.md, security proposition 2: an honest user cannot scan the same
\* answer again and breed with it again.
OneTimeUse ==
    [][\A b \in Badges : \A c \in Answers : Accepting(b, c) => <<b, c>> \notin spent]_vars

-----------------------------------------------------------------------------
(* The exchange implements the ledger.  A nonce nobody has been shown is not a *)
(* request: the one a donor draws while it answers is no request of its own.   *)

Ledger == INSTANCE ExchangeLedger WITH
    Requests <- Nonces,
    None     <- NoNonce,
    asked    <- Asked,
    answers  <- {<<c.to, c.by>> : c \in Answers},
    open     <- [b \in Badges |-> IF nonce_mine[b] \in Asked THEN nonce_mine[b] ELSE NoNonce],
    pattern  <- gene_cache,
    undo     <- prior_gene,
    saved    <- light_gene

\* Every step of the badges is a step of the ledger or none of its business: a
\* pattern changes only by a consented answer from another badge, by undoing
\* it, or by a power loss that brings back what was kept.
ImplementsLedger == Ledger!Spec
=============================================================================
