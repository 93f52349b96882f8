------------------------ MODULE GeneExchange_proofs ------------------------
(***************************************************************************)
(* Proofs about GeneExchange for any set of badges, any genes, any number  *)
(* of nonces and any queue length.                                         *)
(*                                                                         *)
(* All of them rest on the order in which nonces were drawn: an answer was *)
(* made for an older nonce than the one its donor drew for itself in the   *)
(* same step, and a badge's nonce only ever gets newer or goes away.       *)
(***************************************************************************)
EXTENDS GeneExchange, WellFoundedInduction, TLAPS

USE MaxNonceAssumption, GenesAssumption

(***************************************************************************)
(* Type correctness.                                                       *)
(***************************************************************************)
LEMMA CodesType ==
    /\ \A n \in Nonces : KeyCode(n) \in KeyCodes
    /\ \A n, m \in Nonces, d \in Badges : GeneCode(n, d, m) \in GeneCodes
    /\ \A c \in Codes : Qr(c) \in Msgs
    /\ \A o \in Ops : Op(o) \in Msgs
BY DEF KeyCode, GeneCode, KeyCodes, GeneCodes, Codes, Qr, Op, Msgs

\* What is taken from a queue of messages leaves a queue of messages, and what
\* is taken is a message.
LEMMA TakeType ==
    ASSUME TypeOK, NEW b \in Badges, NEW o, Received(b, o)
    PROVE  /\ inbox' \in [Badges -> Seq(Msgs)]
           /\ Head(inbox[b]) \in Msgs
<1>1. inbox[b] \in Seq(Msgs) /\ inbox[b] # <<>>
  BY DEF TypeOK, Received
<1>2. Tail(inbox[b]) \in Seq(Msgs) /\ Head(inbox[b]) \in Msgs
  BY <1>1
<1>3. QED
  BY <1>2 DEF TypeOK, Received

\* Posting messages keeps the type of the queues.
LEMMA PostType ==
    ASSUME TypeOK, NEW b \in Badges, NEW ms \in Seq(Msgs), Post(b, ms)
    PROVE  inbox' \in [Badges -> Seq(Msgs)]
<1>1. inbox[b] \o ms \in Seq(Msgs)
  BY DEF TypeOK
<1>2. QED
  BY <1>1 DEF TypeOK, Post

\* A scan, which posts a code or that there is none, keeps the type of the queues.
LEMMA CameraType ==
    ASSUME TypeOK, NEW b \in Badges, NEW found, found \subseteq Codes, Camera(b, found)
    PROVE  inbox' \in [Badges -> Seq(Msgs)]
<1>1. \A c \in found : <<Qr(c)>> \in Seq(Msgs)
  BY CodesType
<1>2. <<Op("AbortQr")>> \in Seq(Msgs)
  BY CodesType DEF Ops
<1>3. CASE \E c \in found : Post(b, <<Qr(c)>>)
  BY <1>1, <1>3, PostType
<1>4. CASE Post(b, <<Op("AbortQr")>>)
  BY <1>2, <1>4, PostType
<1>5. CASE UNCHANGED inbox
  BY <1>5 DEF TypeOK
<1>6. QED
  BY <1>3, <1>4, <1>5 DEF Camera

\* Choosing an item, which posts it and MenuDone, keeps the type of the queues.
LEMMA ChooseType ==
    ASSUME TypeOK, NEW b \in Badges, ChooseItem(b)
    PROVE  inbox' \in [Badges -> Seq(Msgs)]
<1>1. PICK o \in MenuItems(mode[b]) :
          Post(b, IF o = "MenuDone" THEN <<Op(o)>> ELSE <<Op(o), Op("MenuDone")>>)
  BY DEF ChooseItem
<1>2. o \in Ops /\ "MenuDone" \in Ops
  BY <1>1 DEF MenuItems, Ops
<1>3. Op(o) \in Msgs /\ Op("MenuDone") \in Msgs
  BY <1>2, CodesType
<1>4. (IF o = "MenuDone" THEN <<Op(o)>> ELSE <<Op(o), Op("MenuDone")>>) \in Seq(Msgs)
  BY <1>3
<1>5. QED
  BY <1>1, <1>4, PostType

\* The nonce that is drawn is the next number.
LEMMA NonceType ==
    ASSUME TypeOK, NEW b \in Badges, generate_my_nonce(b)
    PROVE  /\ lastNonce' = lastNonce + 1
           /\ lastNonce' \in Nonces
           /\ nonce_mine' \in [Badges -> Nonces \cup {NoNonce}]
           /\ nonce_mine'[b] = lastNonce + 1
           /\ \A a \in Badges \ {b} : nonce_mine'[a] = nonce_mine[a]
BY DEF TypeOK, generate_my_nonce, Nonces, NoNonce

\* A message that HandleQr takes carries a code.
LEMMA HeadCode ==
    ASSUME TypeOK, NEW b \in Badges, Received(b, "HandleQr")
    PROVE  /\ Head(inbox[b]) \in Msgs
           /\ Head(inbox[b]).code \in Codes
<1>1. Head(inbox[b]) \in Msgs /\ Head(inbox[b]).op = "HandleQr"
  BY TakeType DEF Received
<1>2. Head(inbox[b]) \in [op : {"HandleQr"}, code : Codes]
  BY <1>1 DEF Msgs, Ops
<1>3. QED
  BY <1>1, <1>2

\* Types hold at the start.
LEMMA TypeInit == Init => TypeOK
<1> SUFFICES ASSUME Init PROVE TypeOK
  OBVIOUS
<1>1. [Badges -> Factory] \subseteq [Badges -> Genes \cup {NoGene}]
  BY FactoryAssumption
<1>2. QED
  BY <1>1
   DEF Init, TypeOK, Modes, NoNonce, Nonces

\* Types, over every step.
LEMMA TypeStep == TypeOK /\ [Next]_vars => TypeOK'
<1> SUFFICES ASSUME TypeOK, [Next]_vars PROVE TypeOK'
  OBVIOUS
<1> USE DEF wire, geneVars
<1>1. CASE UNCHANGED vars
  BY <1>1 DEF TypeOK, vars
<1>2. ASSUME NEW b \in Badges, PowerCycle(b) PROVE TypeOK'
  <2>1. inbox' \in [Badges -> Seq(Msgs)]
    BY <1>2 DEF PowerCycle, TypeOK
  <2>2. QED
    BY <1>2, <2>1 DEF PowerCycle, SetMode, clear_nonces, TypeOK, Modes, NoNonce
<1>3. ASSUME NEW b \in Badges, ShowKey(b) PROVE TypeOK'
  <2>1. KeyCode(nonce_mine'[b]) \in KeyCodes
    BY <1>3, NonceType, CodesType DEF ShowKey
  <2>2. QED
    BY <1>3, <2>1, NonceType DEF ShowKey, SetMode, TypeOK, Modes
<1>4. ASSUME NEW b \in Badges, FireToScan(b) PROVE TypeOK'
  <2>1. shown \cup StrayCodes \subseteq Codes
    BY DEF TypeOK, Codes
  <2>2. inbox' \in [Badges -> Seq(Msgs)]
    BY <1>4, <2>1, CameraType DEF FireToScan
  <2>3. QED
    BY <1>4, <2>2 DEF FireToScan, SetMode, TypeOK, Modes
<1>5. ASSUME NEW b \in Badges, FireElsewhere(b) PROVE TypeOK'
  <2>1. inbox' \in [Badges -> Seq(Msgs)]
    BY <1>5, CameraType DEF FireElsewhere
  <2>2. QED
    BY <1>5, <2>1 DEF FireElsewhere, TypeOK
<1>6. ASSUME NEW b \in Badges, LeaveCode(b) PROVE TypeOK'
  BY <1>6 DEF LeaveCode, SetMode, clear_nonces, TypeOK, Modes, NoNonce
<1>7. ASSUME NEW b \in Badges, RaiseMenu(b) PROVE TypeOK'
  BY <1>7 DEF RaiseMenu, TypeOK
<1>8. ASSUME NEW b \in Badges, EndScreen(b) PROVE TypeOK'
  BY <1>8 DEF EndScreen, SetMode, TypeOK, Modes
<1>9. ASSUME NEW b \in Badges, ChooseItem(b) PROVE TypeOK'
  BY <1>9, ChooseType DEF ChooseItem, TypeOK
<1>10. ASSUME NEW b \in Badges, AnswerKey(b) PROVE TypeOK'
  <2>1. /\ Head(inbox[b]).code \in Codes
        /\ inbox' \in [Badges -> Seq(Msgs)]
    BY <1>10, HeadCode, TakeType DEF AnswerKey, QrIs
  <2>2. Head(inbox[b]).code.nonce \in Nonces
    BY <1>10, <2>1, StrayAssumption
       DEF AnswerKey, QrIs, Codes, KeyCodes, GeneCodes, StrayCodes
  <2>3. nonce_mine'[b] \in Nonces
    BY <1>10, NonceType DEF AnswerKey
  <2>4. GeneCode(Head(inbox[b]).code.nonce, b, nonce_mine'[b]) \in GeneCodes
    BY <2>2, <2>3, CodesType
  <2>5. QED
    BY <1>10, <2>1, <2>4, NonceType DEF AnswerKey, QrIs, SetMode, TypeOK, Modes
<1>11. ASSUME NEW b \in Badges, AcceptGene(b) PROVE TypeOK'
  <2>1. /\ Head(inbox[b]).code \in Codes
        /\ inbox' \in [Badges -> Seq(Msgs)]
    BY <1>11, HeadCode, TakeType DEF AcceptGene, QrIs
  <2>2. Head(inbox[b]).code \in GeneCodes
    BY <1>11, <2>1, StrayAssumption
       DEF AcceptGene, QrIs, Codes, KeyCodes, GeneCodes, StrayCodes
  <2>3. CASE gene_cache[b] = NoGene
    BY <1>11, <2>1, <2>3 DEF AcceptGene, QrIs, SetMode, TypeOK, Modes
  <2>4. CASE gene_cache[b] # NoGene
    <3>1. spent' = spent \cup {<<b, Head(inbox[b]).code>>}
      BY <1>11, <2>4 DEF AcceptGene
    <3>2. replace_gene(b) /\ SetMode(b, "ConfirmGene")
      BY <1>11, <2>4 DEF AcceptGene
    <3>3. /\ spent' \subseteq Badges \X GeneCodes
          /\ mode' \in [Badges -> Modes]
      BY <2>2, <3>1, <3>2 DEF SetMode, TypeOK, Modes
    <3>4. /\ gene_cache' \in [Badges -> Genes \cup {NoGene}]
          /\ prior_gene' \in [Badges -> Genes \cup {NoGene}]
      BY <3>2 DEF replace_gene, TypeOK
    <3>5. QED
      BY <1>11, <2>1, <3>3, <3>4 DEF AcceptGene, QrIs, TypeOK
  <2>5. QED
    BY <2>3, <2>4
<1>12. ASSUME NEW b \in Badges, RefuseCode(b) \/ ShortCode(b) \/ FactoryCode(b) \/ LateCode(b)
       PROVE TypeOK'
  <2>1. inbox' \in [Badges -> Seq(Msgs)]
    BY <1>12, TakeType DEF RefuseCode, ShortCode, FactoryCode, LateCode, QrIs
  <2>2. QED
    BY <1>12, <2>1
       DEF RefuseCode, ShortCode, FactoryCode, LateCode, QrIs, SetMode, TypeOK, Modes
<1>13. ASSUME NEW b \in Badges, AbortQr(b) \/ MenuDone(b) \/ ChangeScreen(b) PROVE TypeOK'
  <2>1. inbox' \in [Badges -> Seq(Msgs)]
    BY <1>13, TakeType DEF AbortQr, MenuDone, ChangeScreen
  <2>2. QED
    BY <1>13, <2>1 DEF AbortQr, MenuDone, ChangeScreen, SetMode, TypeOK, Modes
<1>14. ASSUME NEW b \in Badges, KeepGene(b) \/ RevertGene(b) PROVE TypeOK'
  <2>1. inbox' \in [Badges -> Seq(Msgs)]
    BY <1>14, TakeType DEF KeepGene, RevertGene
  <2>2. QED
    BY <1>14, <2>1 DEF KeepGene, RevertGene, SetMode, TypeOK, Modes
<1>15. QED
  BY <1>1, <1>2, <1>3, <1>4, <1>5, <1>6, <1>7, <1>8, <1>9, <1>10, <1>11, <1>12, <1>13, <1>14
     DEF Next, UserKey, Handle, HandleQr

\* Every variable keeps its type, and no badge ever draws more nonces than the
\* bound allows.
THEOREM TypeCorrect == Spec => []TypeOK
BY TypeInit, TypeStep, PTL DEF Spec

-----------------------------------------------------------------------------
(***************************************************************************)
(* The inductive invariant.                                                *)
(***************************************************************************)

\* Only codes that were displayed, or stray ones, are waiting to be handled.
QueueOK == \A b \in Badges : \A i \in DOMAIN inbox[b] :
               inbox[b][i].op = "HandleQr" => inbox[b][i].code \in shown \cup StrayCodes

\* Nothing mentions a nonce that was not drawn yet.
DrawnOK == /\ \A b \in Badges : nonce_mine[b] <= lastNonce
           /\ \A n \in Asked : n <= lastNonce

\* An answer is for an older nonce than its donor's, and the donor's nonce has
\* since become newer or been forgotten.
OrderOK == \A c \in Answers : /\ c.to < c.own
                              /\ c.own <= lastNonce
                              /\ \/ nonce_mine[c.by] = NoNonce
                                 \/ c.own <= nonce_mine[c.by]

\* No two badges hold the same nonce.
DistinctOK == \A a, b \in Badges :
                  nonce_mine[a] = nonce_mine[b] /\ nonce_mine[a] # NoNonce => a = b

\* The nonce of an accepted answer is old, and whoever still holds it is the
\* badge that accepted.
SpentOK == \A u \in spent : /\ u[2].to <= lastNonce
                            /\ \A a \in Badges : nonce_mine[a] = u[2].to => a = u[1]

IInv == /\ TypeOK
        /\ QueueOK
        /\ DrawnOK
        /\ OrderOK
        /\ DistinctOK
        /\ SpentOK
        /\ NoSelfBreeding
        /\ OneRecipient
        /\ DonorCannotReceive

\* The inductive invariant holds at the start.
LEMMA IInvInit == Init => IInv
<1> SUFFICES ASSUME Init PROVE IInv
  OBVIOUS
<1>1. TypeOK
  BY TypeInit
<1>2. Answers = {} /\ Asked = {}
  BY DEF Init, Answers, Asked
<1>3. QueueOK
  BY DEF Init, QueueOK
<1>4. DrawnOK /\ OrderOK /\ DistinctOK
  BY <1>2 DEF Init, DrawnOK, OrderOK, DistinctOK, NoNonce
<1>5. SpentOK /\ NoSelfBreeding /\ OneRecipient /\ DonorCannotReceive
  BY DEF Init, SpentOK, NoSelfBreeding, OneRecipient, DonorCannotReceive
<1>6. QED
  BY <1>1, <1>3, <1>4, <1>5 DEF IInv

-----------------------------------------------------------------------------
(***************************************************************************)
(* What a step does to nonces and codes: one of five things.               *)
(***************************************************************************)

NoNewAnswerScreen == \A a \in Badges : mode'[a] = "ResponseGene" => mode[a] = "ResponseGene"

Draws(b) == /\ lastNonce' = lastNonce + 1
            /\ nonce_mine' = [nonce_mine EXCEPT ![b] = lastNonce + 1]
            /\ lastNonce + 1 \in Nonces
            /\ UNCHANGED spent

QuietStep    == /\ NoNewAnswerScreen
                /\ UNCHANGED <<nonce_mine, shown, lastNonce, spent>>
ForgetStep(b) == /\ NoNewAnswerScreen
                 /\ mode'[b] # "ResponseGene"
                 /\ nonce_mine' = [nonce_mine EXCEPT ![b] = NoNonce]
                 /\ UNCHANGED <<shown, lastNonce, spent>>
ShowStep(b)  == /\ NoNewAnswerScreen
                /\ Draws(b)
                /\ mode'[b] # "ResponseGene"
                /\ shown' = shown \cup {KeyCode(lastNonce + 1)}
AnswerStep(b) == /\ Draws(b)
                 /\ \A a \in Badges \ {b} : mode'[a] = mode[a]
                 /\ \/ UNCHANGED shown
                    \/ \E n \in Asked : shown' = shown \cup {GeneCode(n, b, lastNonce + 1)}
AcceptStep(b) == /\ NoNewAnswerScreen
                 /\ \E c \in Answers : /\ c.to = nonce_mine[b]
                                       /\ spent' = spent \cup {<<b, c>>}
                 /\ UNCHANGED <<nonce_mine, shown, lastNonce>>

\* The code at the head of a queue is a stray one or was displayed.
LEMMA HeadShown ==
    ASSUME TypeOK, QueueOK, NEW b \in Badges, Received(b, "HandleQr")
    PROVE  Head(inbox[b]).code \in shown \cup StrayCodes
<1>1. inbox[b] \in Seq(Msgs) /\ inbox[b] # <<>> /\ Head(inbox[b]).op = "HandleQr"
  BY DEF TypeOK, Received
<1>2. 1 \in DOMAIN inbox[b] /\ inbox[b][1] = Head(inbox[b])
  BY <1>1
<1>3. QED
  BY <1>1, <1>2 DEF QueueOK

\* A step forgets a nonce, shows a key, answers one, accepts an answer, or is quiet.
LEMMA StepKinds ==
    ASSUME TypeOK, QueueOK, [Next]_vars
    PROVE  \/ QuietStep
           \/ \E b \in Badges : \/ ForgetStep(b) \/ ShowStep(b)
                                \/ AnswerStep(b) \/ AcceptStep(b)
<1> USE DEF wire, geneVars
<1>1. CASE UNCHANGED vars
  BY <1>1 DEF vars, QuietStep, NoNewAnswerScreen
<1>2. ASSUME NEW b \in Badges, PowerCycle(b) PROVE ForgetStep(b)
  BY <1>2 DEF PowerCycle, SetMode, clear_nonces, ForgetStep, NoNewAnswerScreen, TypeOK
<1>3. ASSUME NEW b \in Badges, ShowKey(b) PROVE ShowStep(b)
  <2>1. Draws(b) /\ nonce_mine'[b] = lastNonce + 1
    BY <1>3, NonceType DEF ShowKey, generate_my_nonce, Draws
  <2>2. QED
    BY <1>3, <2>1 DEF ShowKey, SetMode, ShowStep, NoNewAnswerScreen, TypeOK
<1>4. ASSUME NEW b \in Badges, FireToScan(b) \/ FireElsewhere(b) \/ EndScreen(b) PROVE QuietStep
  BY <1>4 DEF FireToScan, FireElsewhere, EndScreen, SetMode, QuietStep, NoNewAnswerScreen, TypeOK
<1>5. ASSUME NEW b \in Badges, LeaveCode(b) PROVE QuietStep \/ ForgetStep(b)
  BY <1>5 DEF LeaveCode, SetMode, clear_nonces, QuietStep, ForgetStep, NoNewAnswerScreen, TypeOK
<1>6. ASSUME NEW b \in Badges, RaiseMenu(b) \/ ChooseItem(b) PROVE QuietStep
  BY <1>6 DEF RaiseMenu, ChooseItem, QuietStep, NoNewAnswerScreen
<1>7. ASSUME NEW b \in Badges, AnswerKey(b) PROVE AnswerStep(b)
  <2>1. Draws(b) /\ nonce_mine'[b] = lastNonce + 1
    BY <1>7, NonceType DEF AnswerKey, generate_my_nonce, Draws
  <2>2. \A a \in Badges \ {b} : mode'[a] = mode[a]
    BY <1>7 DEF AnswerKey, SetMode, TypeOK
  <2>3. Head(inbox[b]).code \in shown \cup StrayCodes /\ Head(inbox[b]).code.kind = "key"
    BY <1>7, HeadShown DEF AnswerKey, QrIs
  <2>4. Head(inbox[b]).code.nonce \in Asked
    BY <2>3, StrayAssumption DEF Asked, Answers, StrayCodes
  <2>5. QED
    BY <1>7, <2>1, <2>2, <2>4 DEF AnswerKey, AnswerStep
<1>8. ASSUME NEW b \in Badges, AcceptGene(b) PROVE QuietStep \/ AcceptStep(b)
  <2>1. Head(inbox[b]).code \in shown \cup StrayCodes /\ Head(inbox[b]).code.kind = "gene"
    BY <1>8, HeadShown DEF AcceptGene, QrIs
  <2>2. Head(inbox[b]).code \in Answers /\ Head(inbox[b]).code.to = nonce_mine[b]
    BY <1>8, <2>1, StrayAssumption DEF AcceptGene, Decrypts, Answers, StrayCodes
  <2>3. NoNewAnswerScreen
    BY <1>8 DEF AcceptGene, SetMode, NoNewAnswerScreen, TypeOK
  <2>4. QED
    BY <1>8, <2>2, <2>3 DEF AcceptGene, QuietStep, AcceptStep
<1>9. ASSUME NEW b \in Badges, RefuseCode(b) \/ ShortCode(b) \/ FactoryCode(b) \/ LateCode(b)
      PROVE QuietStep
  BY <1>9 DEF RefuseCode, ShortCode, FactoryCode, LateCode, SetMode, QuietStep,
              NoNewAnswerScreen, TypeOK
<1>10. ASSUME NEW b \in Badges,
              AbortQr(b) \/ MenuDone(b) \/ ChangeScreen(b) \/ KeepGene(b) \/ RevertGene(b)
       PROVE QuietStep
  BY <1>10 DEF AbortQr, MenuDone, ChangeScreen, KeepGene, RevertGene, SetMode, QuietStep,
               NoNewAnswerScreen, TypeOK
<1>11. QED
  BY <1>1, <1>2, <1>3, <1>4, <1>5, <1>6, <1>7, <1>8, <1>9, <1>10
     DEF Next, UserKey, Handle, HandleQr

-----------------------------------------------------------------------------
(***************************************************************************)
(* The parts of the invariant, each kept by the five kinds of step.        *)
(***************************************************************************)

\* Answers and Asked only grow: a key code adds a request, a gene code an answer.
LEMMA KeyGrows ==
    ASSUME NEW n, shown' = shown \cup {KeyCode(n)}
    PROVE  Answers' = Answers /\ Asked' = Asked \cup {n}
<1>1. KeyCode(n).kind = "key" /\ KeyCode(n).nonce = n
  BY DEF KeyCode
<1>2. Answers' = Answers
  BY <1>1 DEF Answers
<1>3. shown' \ Answers' = (shown \ Answers) \cup {KeyCode(n)}
  BY <1>1, <1>2 DEF Answers
<1>4. QED
  BY <1>1, <1>2, <1>3 DEF Asked

\* Showing an answer adds it to the answers and no key.
LEMMA GeneGrows ==
    ASSUME NEW n, NEW d, NEW m, shown' = shown \cup {GeneCode(n, d, m)}
    PROVE  Answers' = Answers \cup {GeneCode(n, d, m)} /\ Asked' = Asked
<1>1. GeneCode(n, d, m).kind = "gene"
  BY DEF GeneCode
<1>2. Answers' = Answers \cup {GeneCode(n, d, m)}
  BY <1>1 DEF Answers
<1>3. shown' \ Answers' = shown \ Answers
  BY <1>1, <1>2 DEF Answers
<1>4. QED
  BY <1>2, <1>3 DEF Asked

\* What shows nothing leaves the keys and the answers as they are.
LEMMA Same ==
    ASSUME UNCHANGED shown
    PROVE  Answers' = Answers /\ Asked' = Asked
BY DEF Answers, Asked

\* The fields of every answer, and of every one that was accepted, are of their types.
LEMMA AnswersType ==
    ASSUME TypeOK
    PROVE  /\ Answers \subseteq GeneCodes
           /\ Asked \subseteq Nonces
           /\ \A c \in Answers : c.to \in Nonces /\ c.own \in Nonces /\ c.by \in Badges
           /\ \A u \in spent : u[1] \in Badges /\ u[2] \in GeneCodes /\ u[2].to \in Nonces
BY DEF TypeOK, Answers, Asked, KeyCodes, GeneCodes

\* A queue that took or was given messages holds only what it held and what it
\* was given.
LEMMA QueueTake ==
    ASSUME TypeOK, QueueOK, shown \subseteq shown', NEW b \in Badges, NEW o, Received(b, o)
    PROVE  QueueOK'
<1> SUFFICES ASSUME NEW a \in Badges, NEW i \in DOMAIN inbox'[a], inbox'[a][i].op = "HandleQr"
             PROVE  inbox'[a][i].code \in shown' \cup StrayCodes
  BY DEF QueueOK
<1>1. CASE a # b
  BY <1>1 DEF QueueOK, Received, TypeOK
<1>2. CASE a = b
  <2>1. inbox[b] \in Seq(Msgs) /\ inbox[b] # <<>> /\ inbox'[b] = Tail(inbox[b])
    BY <1>2 DEF TypeOK, Received
  <2>2. i + 1 \in DOMAIN inbox[b] /\ inbox'[b][i] = inbox[b][i + 1]
    BY <1>2, <2>1
  <2>3. QED
    BY <1>2, <2>2 DEF QueueOK
<1>3. QED
  BY <1>1, <1>2

\* Posting what was shown, or is stray, keeps the queue so.
LEMMA QueuePost ==
    ASSUME TypeOK, QueueOK, shown \subseteq shown', NEW b \in Badges,
           NEW ms \in Seq(Msgs), Post(b, ms),
           \A i \in DOMAIN ms : ms[i].op = "HandleQr" => ms[i].code \in shown \cup StrayCodes
    PROVE  QueueOK'
<1> SUFFICES ASSUME NEW a \in Badges, NEW i \in DOMAIN inbox'[a], inbox'[a][i].op = "HandleQr"
             PROVE  inbox'[a][i].code \in shown' \cup StrayCodes
  BY DEF QueueOK
<1>1. CASE a # b
  BY <1>1 DEF QueueOK, Post, TypeOK
<1>2. CASE a = b
  <2>1. inbox[b] \in Seq(Msgs) /\ inbox'[b] = inbox[b] \o ms
    BY DEF TypeOK, Post
  <2>2. \/ i \in DOMAIN inbox[b] /\ inbox'[b][i] = inbox[b][i]
        \/ i - Len(inbox[b]) \in DOMAIN ms /\ inbox'[b][i] = ms[i - Len(inbox[b])]
    BY <1>2, <2>1
  <2>3. QED
    BY <1>2, <2>2 DEF QueueOK
<1>3. QED
  BY <1>1, <1>2

\* Scanning what was shown, or is stray, keeps the queue so.
LEMMA QueueCamera ==
    ASSUME TypeOK, QueueOK, shown \subseteq shown', NEW b \in Badges, NEW found,
           found \subseteq shown \cup StrayCodes, Camera(b, found)
    PROVE  QueueOK'
<1>1. \A c \in found : <<Qr(c)>> \in Seq(Msgs)
  BY CodesType DEF TypeOK, Codes
<1>2. <<Op("AbortQr")>> \in Seq(Msgs)
  BY CodesType DEF Ops
<1>3. CASE \E c \in found : Post(b, <<Qr(c)>>)
  <2>1. PICK c \in found : Post(b, <<Qr(c)>>)
    BY <1>3
  <2>2. \A i \in DOMAIN <<Qr(c)>> : <<Qr(c)>>[i].code \in shown \cup StrayCodes
    BY DEF Qr
  <2>3. QED
    BY <1>1, <2>1, <2>2, QueuePost
<1>4. CASE Post(b, <<Op("AbortQr")>>)
  <2>1. \A i \in DOMAIN <<Op("AbortQr")>> : <<Op("AbortQr")>>[i].op # "HandleQr"
    BY DEF Op
  <2>2. QED
    BY <1>2, <1>4, <2>1, QueuePost
<1>5. CASE UNCHANGED inbox
  BY <1>5 DEF QueueOK
<1>6. QED
  BY <1>3, <1>4, <1>5 DEF Camera

\* What is queued was shown, over every step.
LEMMA QueueStep == TypeOK /\ QueueOK /\ [Next]_vars => QueueOK'
<1> SUFFICES ASSUME TypeOK, QueueOK, [Next]_vars PROVE QueueOK'
  OBVIOUS
<1> USE DEF wire, geneVars
<1>0. shown \subseteq shown'
  BY StepKinds DEF QuietStep, ForgetStep, ShowStep, AnswerStep, AcceptStep
<1>1. CASE UNCHANGED vars
  BY <1>1 DEF QueueOK, vars
<1>2. ASSUME NEW b \in Badges, PowerCycle(b) PROVE QueueOK'
  BY <1>2 DEF PowerCycle, QueueOK, TypeOK
<1>3. ASSUME NEW b \in Badges,
             ShowKey(b) \/ LeaveCode(b) \/ RaiseMenu(b) \/ EndScreen(b) PROVE QueueOK'
  BY <1>0, <1>3 DEF ShowKey, LeaveCode, RaiseMenu, EndScreen, QueueOK
<1>4. ASSUME NEW b \in Badges, FireToScan(b) PROVE QueueOK'
  BY <1>0, <1>4, QueueCamera DEF FireToScan
<1>5. ASSUME NEW b \in Badges, FireElsewhere(b) PROVE QueueOK'
  BY <1>0, <1>5, QueueCamera DEF FireElsewhere
<1>6. ASSUME NEW b \in Badges, ChooseItem(b) PROVE QueueOK'
  <2>1. PICK o \in MenuItems(mode[b]) :
            Post(b, IF o = "MenuDone" THEN <<Op(o)>> ELSE <<Op(o), Op("MenuDone")>>)
    BY <1>6 DEF ChooseItem
  <2> DEFINE ms == IF o = "MenuDone" THEN <<Op(o)>> ELSE <<Op(o), Op("MenuDone")>>
  <2>2. o \in Ops /\ o # "HandleQr" /\ "MenuDone" \in Ops
    BY <2>1 DEF MenuItems, Ops
  <2>3. Op(o) \in Msgs /\ Op("MenuDone") \in Msgs
    BY <2>2, CodesType
  <2>4. ms \in Seq(Msgs)
    BY <2>3
  <2>5. \A i \in DOMAIN ms : ms[i].op # "HandleQr"
    BY <2>2 DEF Op
  <2>6. QED
    BY <1>0, <2>1, <2>4, <2>5, QueuePost
<1>7. ASSUME NEW b \in Badges, HandleQr(b) PROVE QueueOK'
  <2>1. Received(b, "HandleQr")
    BY <1>7 DEF HandleQr, AnswerKey, AcceptGene, RefuseCode, ShortCode, FactoryCode,
                LateCode, QrIs
  <2>2. QED
    BY <1>0, <2>1, QueueTake
<1>8. ASSUME NEW b \in Badges,
             AbortQr(b) \/ MenuDone(b) \/ KeepGene(b) \/ RevertGene(b) \/ ChangeScreen(b)
      PROVE QueueOK'
  <2>1. \E o \in Ops : Received(b, o)
    BY <1>8 DEF AbortQr, MenuDone, KeepGene, RevertGene, ChangeScreen, Ops
  <2>2. QED
    BY <1>0, <2>1, QueueTake
<1>9. QED
  BY <1>1, <1>2, <1>3, <1>4, <1>5, <1>6, <1>7, <1>8 DEF Next, UserKey, Handle

\* A badge that draws gets the next nonce and the others keep theirs.
LEMMA DrawsType ==
    ASSUME TypeOK, NEW b \in Badges, Draws(b)
    PROVE  /\ lastNonce \in Nat /\ lastNonce' = lastNonce + 1
           /\ nonce_mine'[b] = lastNonce + 1
           /\ \A a \in Badges \ {b} : nonce_mine'[a] = nonce_mine[a]
BY DEF Draws, TypeOK, Nonces

\* Nonces, and the mark of none, are numbers.
LEMMA NonceRange ==
    ASSUME TypeOK
    PROVE  /\ lastNonce \in Nat
           /\ \A a \in Badges : nonce_mine[a] \in Nat
BY DEF TypeOK, Nonces, NoNonce

\* Nothing mentions a nonce that was not drawn, over every kind of step.
LEMMA DrawnStep ==
    ASSUME TypeOK, DrawnOK, TypeOK',
           QuietStep \/ \E b \in Badges : \/ ForgetStep(b) \/ ShowStep(b)
                                          \/ AnswerStep(b) \/ AcceptStep(b)
    PROVE  DrawnOK'
<1>1. CASE QuietStep
  BY <1>1, Same DEF QuietStep, DrawnOK
<1>2. ASSUME NEW b \in Badges, AcceptStep(b) PROVE DrawnOK'
  BY <1>2, Same DEF AcceptStep, DrawnOK
<1>3. ASSUME NEW b \in Badges, ForgetStep(b) PROVE DrawnOK'
  BY <1>3, Same, NonceRange DEF ForgetStep, DrawnOK, NoNonce, TypeOK
<1>4. ASSUME NEW b \in Badges, ShowStep(b) PROVE DrawnOK'
  <2>1. Asked' = Asked \cup {lastNonce + 1}
    BY <1>4, KeyGrows DEF ShowStep
  <2>2. QED
    BY <1>4, <2>1, DrawsType, NonceRange, AnswersType DEF ShowStep, DrawnOK, Nonces
<1>5. ASSUME NEW b \in Badges, AnswerStep(b) PROVE DrawnOK'
  <2>1. Asked' = Asked
    BY <1>5, GeneGrows, Same DEF AnswerStep
  <2>2. QED
    BY <1>5, <2>1, DrawsType, NonceRange, AnswersType DEF AnswerStep, DrawnOK, Nonces
<1>6. QED
  BY <1>1, <1>2, <1>3, <1>4, <1>5

\* Answers stay older than what their donors drew, over every kind of step.
LEMMA OrderStep ==
    ASSUME TypeOK, DrawnOK, OrderOK,
           QuietStep \/ \E b \in Badges : \/ ForgetStep(b) \/ ShowStep(b)
                                          \/ AnswerStep(b) \/ AcceptStep(b)
    PROVE  OrderOK'
<1>1. CASE QuietStep
  BY <1>1, Same DEF QuietStep, OrderOK
<1>2. ASSUME NEW b \in Badges, AcceptStep(b) PROVE OrderOK'
  BY <1>2, Same DEF AcceptStep, OrderOK
<1>3. ASSUME NEW b \in Badges, ForgetStep(b) PROVE OrderOK'
  BY <1>3, Same, AnswersType DEF ForgetStep, OrderOK, TypeOK
<1>4. ASSUME NEW b \in Badges, ShowStep(b) PROVE OrderOK'
  <2>1. Answers' = Answers
    BY <1>4, KeyGrows DEF ShowStep
  <2>2. QED
    BY <1>4, <2>1, DrawsType, NonceRange, AnswersType DEF ShowStep, OrderOK, Nonces
<1>5. ASSUME NEW b \in Badges, AnswerStep(b) PROVE OrderOK'
  <2>1. Answers' = Answers \/ \E n \in Asked : Answers' = Answers \cup {GeneCode(n, b, lastNonce + 1)}
    BY <1>5, GeneGrows, Same DEF AnswerStep
  <2>2. \A n \in Asked : n \in Nat /\ n < lastNonce + 1
    BY NonceRange, AnswersType DEF DrawnOK, Nonces
  <2>3. QED
    BY <1>5, <2>1, <2>2, DrawsType, NonceRange, AnswersType
       DEF AnswerStep, OrderOK, Nonces, GeneCode
<1>6. QED
  BY <1>1, <1>2, <1>3, <1>4, <1>5

\* No two badges hold one nonce, over every kind of step.
LEMMA DistinctStep ==
    ASSUME TypeOK, DrawnOK, DistinctOK,
           QuietStep \/ \E b \in Badges : \/ ForgetStep(b) \/ ShowStep(b)
                                          \/ AnswerStep(b) \/ AcceptStep(b)
    PROVE  DistinctOK'
<1>1. CASE QuietStep
  BY <1>1 DEF QuietStep, DistinctOK
<1>2. ASSUME NEW b \in Badges, AcceptStep(b) PROVE DistinctOK'
  BY <1>2 DEF AcceptStep, DistinctOK
<1>3. ASSUME NEW b \in Badges, ForgetStep(b) PROVE DistinctOK'
  BY <1>3 DEF ForgetStep, DistinctOK, TypeOK
<1>4. ASSUME NEW b \in Badges, Draws(b) PROVE DistinctOK'
  BY <1>4, DrawsType, NonceRange DEF DistinctOK, DrawnOK
<1>5. QED
  BY <1>1, <1>2, <1>3, <1>4 DEF ShowStep, AnswerStep

\* The accepted answers after a step, and who holds their nonces.
LEMMA SpentStep ==
    ASSUME TypeOK, DrawnOK, DistinctOK, SpentOK, OrderOK,
           QuietStep \/ \E b \in Badges : \/ ForgetStep(b) \/ ShowStep(b)
                                          \/ AnswerStep(b) \/ AcceptStep(b)
    PROVE  SpentOK'
<1>1. CASE QuietStep
  BY <1>1 DEF QuietStep, SpentOK
<1>2. ASSUME NEW b \in Badges, AcceptStep(b) PROVE SpentOK'
  <2>1. PICK c \in Answers : c.to = nonce_mine[b] /\ spent' = spent \cup {<<b, c>>}
    BY <1>2 DEF AcceptStep
  <2>2. c.to \in Nonces /\ c.to # NoNonce /\ c.to <= lastNonce
    BY <2>1, AnswersType DEF DrawnOK, Nonces, NoNonce
  <2>3. \A a \in Badges : nonce_mine[a] = c.to => a = b
    BY <2>1, <2>2 DEF DistinctOK
  <2>4. QED
    BY <1>2, <2>1, <2>2, <2>3 DEF AcceptStep, SpentOK
<1>3. ASSUME NEW b \in Badges, ForgetStep(b) PROVE SpentOK'
  BY <1>3, AnswersType DEF ForgetStep, SpentOK, TypeOK, Nonces, NoNonce
<1>4. ASSUME NEW b \in Badges, Draws(b) PROVE SpentOK'
  <2>1. \A u \in spent : u[2].to \in Nat /\ u[2].to < lastNonce + 1
    BY AnswersType, NonceRange DEF SpentOK, Nonces
  <2>2. QED
    BY <1>4, <2>1, DrawsType, NonceRange DEF Draws, SpentOK
<1>5. QED
  BY <1>1, <1>2, <1>3, <1>4 DEF ShowStep, AnswerStep

\* No badge accepts its own answer, nor two badges one, over every kind of step.
LEMMA AcceptedStep ==
    ASSUME TypeOK, DrawnOK, DistinctOK, SpentOK, OrderOK, NoSelfBreeding, OneRecipient,
           QuietStep \/ \E b \in Badges : \/ ForgetStep(b) \/ ShowStep(b)
                                          \/ AnswerStep(b) \/ AcceptStep(b)
    PROVE  NoSelfBreeding' /\ OneRecipient'
<1>1. CASE UNCHANGED spent
  BY <1>1 DEF NoSelfBreeding, OneRecipient
<1>2. ASSUME NEW b \in Badges, AcceptStep(b) PROVE NoSelfBreeding' /\ OneRecipient'
  <2>1. PICK c \in Answers : c.to = nonce_mine[b] /\ spent' = spent \cup {<<b, c>>}
    BY <1>2 DEF AcceptStep
  <2>2. c.to \in Nonces /\ c.own \in Nonces
    BY <2>1, AnswersType
  <2>3. c.by # b
    BY <2>1, <2>2 DEF OrderOK, Nonces, NoNonce
  <2>4. \A u \in spent : u[2] = c => u[1] = b
    BY <2>1 DEF SpentOK
  <2>5. QED
    BY <2>1, <2>3, <2>4 DEF NoSelfBreeding, OneRecipient
<1>3. QED
  BY <1>1, <1>2 DEF QuietStep, ForgetStep, ShowStep, AnswerStep, Draws

\* A badge that shows its gene can receive none, over every kind of step.
LEMMA DonorStep ==
    ASSUME TypeOK, DrawnOK, DistinctOK, OrderOK, DonorCannotReceive,
           QuietStep \/ \E b \in Badges : \/ ForgetStep(b) \/ ShowStep(b)
                                          \/ AnswerStep(b) \/ AcceptStep(b)
    PROVE  DonorCannotReceive'
<1> SUFFICES ASSUME NEW a \in Badges, mode'[a] = "ResponseGene"
             PROVE  nonce_mine'[a] \notin Asked' /\ \A c \in Answers' : c.to # nonce_mine'[a]
  BY DEF DonorCannotReceive
<1> DEFINE Goal == nonce_mine'[a] \notin Asked' /\ \A c \in Answers' : c.to # nonce_mine'[a]
<1>0. ASSUME mode[a] = "ResponseGene"
      PROVE  nonce_mine[a] \notin Asked /\ \A c \in Answers : c.to # nonce_mine[a]
  BY <1>0 DEF DonorCannotReceive
<1>1. CASE QuietStep
  BY <1>0, <1>1, Same DEF QuietStep, NoNewAnswerScreen
<1>2. ASSUME NEW b \in Badges, AcceptStep(b) PROVE Goal
  BY <1>0, <1>2, Same DEF AcceptStep, NoNewAnswerScreen
<1>3. ASSUME NEW b \in Badges, ForgetStep(b) PROVE Goal
  <2>1. a # b /\ mode[a] = "ResponseGene" /\ nonce_mine'[a] = nonce_mine[a]
    BY <1>3 DEF ForgetStep, NoNewAnswerScreen, TypeOK
  <2>2. QED
    BY <1>0, <1>3, <2>1, Same DEF ForgetStep
<1>4. ASSUME NEW b \in Badges, ShowStep(b) PROVE Goal
  <2>1. a # b /\ mode[a] = "ResponseGene" /\ nonce_mine'[a] = nonce_mine[a]
    BY <1>4, DrawsType DEF ShowStep, NoNewAnswerScreen
  <2>2. Answers' = Answers /\ Asked' = Asked \cup {lastNonce + 1}
    BY <1>4, KeyGrows DEF ShowStep
  <2>3. nonce_mine[a] # lastNonce + 1
    BY NonceRange DEF DrawnOK
  <2>4. QED
    BY <1>0, <2>1, <2>2, <2>3
<1>5. ASSUME NEW b \in Badges, AnswerStep(b) PROVE Goal
  <2>1. /\ Asked' = Asked
        /\ \/ Answers' = Answers
           \/ \E n \in Asked : Answers' = Answers \cup {GeneCode(n, b, lastNonce + 1)}
    BY <1>5, GeneGrows, Same DEF AnswerStep
  <2>2. CASE a = b
    <3>1. nonce_mine'[a] = lastNonce + 1
      BY <1>5, <2>2, DrawsType DEF AnswerStep
    <3>2. \A n \in Asked : n \in Nat /\ n <= lastNonce
      BY AnswersType DEF DrawnOK, Nonces
    <3>3. \A c \in Answers' : c.to \in Nat /\ c.to <= lastNonce
      BY <2>1, <3>2, AnswersType, NonceRange DEF OrderOK, Nonces, GeneCode
    <3>4. QED
      BY <2>1, <3>1, <3>2, <3>3, NonceRange
  <2>3. CASE a # b
    <3>1. mode[a] = "ResponseGene" /\ nonce_mine'[a] = nonce_mine[a]
      BY <1>5, <2>3, DrawsType DEF AnswerStep
    <3>2. \A n \in Asked : GeneCode(n, b, lastNonce + 1).to = n
      BY DEF GeneCode
    <3>3. QED
      BY <1>0, <2>1, <3>1, <3>2
  <2>4. QED
    BY <2>2, <2>3
<1>6. QED
  BY <1>1, <1>2, <1>3, <1>4, <1>5

\* The inductive invariant, over every step.
LEMMA IInvStep == IInv /\ [Next]_vars => IInv'
<1> SUFFICES ASSUME IInv, [Next]_vars PROVE IInv'
  OBVIOUS
<1>1. TypeOK' /\ QueueOK'
  BY TypeStep, QueueStep DEF IInv
<1>2. QuietStep \/ \E b \in Badges : ForgetStep(b) \/ ShowStep(b) \/ AnswerStep(b) \/ AcceptStep(b)
  BY StepKinds DEF IInv
<1>3. DrawnOK'
  BY <1>1, <1>2, DrawnStep DEF IInv
<1>4. OrderOK' /\ DistinctOK' /\ SpentOK'
  BY <1>2, OrderStep, DistinctStep, SpentStep DEF IInv
<1>5. NoSelfBreeding' /\ OneRecipient' /\ DonorCannotReceive'
  BY <1>2, AcceptedStep, DonorStep DEF IInv
<1>6. QED
  BY <1>1, <1>3, <1>4, <1>5 DEF IInv

\* The inductive invariant holds in every state.
LEMMA Invariance == Spec => []IInv
BY IInvInit, IInvStep, PTL DEF Spec

-----------------------------------------------------------------------------
(***************************************************************************)
(* What follows from the invariant.                                        *)
(***************************************************************************)

\* A badge never mixes its own gamete into its gene, for any number of badges
\* and any reuse of photographed codes.
THEOREM SelfBreedingExcluded == Spec => []NoSelfBreeding
<1>1. IInv => NoSelfBreeding
  BY DEF IInv
<1>2. QED
  BY <1>1, Invariance, PTL

\* However often an answer is photographed and passed on, only one badge can
\* ever have accepted it.
THEOREM AnswerHasOneRecipient == Spec => []OneRecipient
<1>1. IInv => OneRecipient
  BY DEF IInv
<1>2. QED
  BY <1>1, Invariance, PTL

\* A badge that shows an answer is not waiting for one.
THEOREM DonorIsNotWaiting == Spec => []DonorCannotReceive
<1>1. IInv => DonorCannotReceive
  BY DEF IInv
<1>2. QED
  BY <1>1, Invariance, PTL

\* A non-empty set of naturals has a least element.
LEMMA LeastNat ==
    ASSUME NEW T, T \subseteq Nat, T # {}
    PROVE  \E x \in T : \A y \in T : x <= y
<1>1. PICK x \in T : \A y \in T : ~ (<<y, x>> \in OpToRel(<, Nat))
  BY NatLessThanWellFounded, WFMin
<1>2. \A y \in T : ~ (y < x)
  BY <1>1 DEF OpToRel
<1>3. QED
  BY <1>2

\* In every group of badges that have answered each other, one gets nothing from
\* the rest: a badge without a nonce or, if all have one, the one whose nonce is
\* the newest, since whoever answers ends up with a newer nonce than it answered.
LEMMA NoCycle == IInv => NoBreedingCycle
<1> SUFFICES ASSUME IInv, NEW S \in SUBSET Badges, S # {}
             PROVE  \E b \in S : \A a \in S : ~Feeds(a, b)
  BY Zenon DEF NoBreedingCycle
<1>1. ASSUME NEW a \in Badges, NEW b \in Badges, Feeds(a, b)
      PROVE  /\ nonce_mine[b] # NoNonce
             /\ nonce_mine[a] = NoNonce \/ nonce_mine[b] < nonce_mine[a]
  BY <1>1, AnswersType, NonceRange DEF IInv, OrderOK, Feeds, Nonces, NoNonce
<1>2. CASE \E b \in S : nonce_mine[b] = NoNonce
  BY <1>1, <1>2
<1>3. CASE \A b \in S : nonce_mine[b] # NoNonce
  <2> DEFINE T == {lastNonce - nonce_mine[b] : b \in S}
  <2>1. \A b \in S : lastNonce - nonce_mine[b] \in Nat
    <3> SUFFICES ASSUME NEW b \in S PROVE lastNonce - nonce_mine[b] \in Nat
      OBVIOUS
    <3>1. b \in Badges /\ nonce_mine[b] <= lastNonce
      BY DEF IInv, DrawnOK
    <3>2. QED
      BY <3>1, NonceRange DEF IInv
  <2>2. T \subseteq Nat /\ T # {}
    BY <2>1
  <2>3. PICK x \in T : \A y \in T : x <= y
    BY <2>2, LeastNat
  <2>4. PICK b \in S : x = lastNonce - nonce_mine[b]
    BY <2>3
  <2>5. \A a \in S : ~(nonce_mine[b] < nonce_mine[a])
    <3> SUFFICES ASSUME NEW a \in S, nonce_mine[b] < nonce_mine[a] PROVE FALSE
      OBVIOUS
    <3>1. lastNonce - nonce_mine[b] <= lastNonce - nonce_mine[a]
      BY <2>3, <2>4
    <3>2. QED
      BY <3>1, NonceRange DEF IInv
  <2>6. QED
    BY <1>1, <1>3, <2>5
<1>4. QED
  BY <1>2, <1>3

\* However many badges scan each other in whatever order, they never form a ring
\* in which everyone still has a working answer to scan.
THEOREM BreedingIsAcyclic == Spec => []NoBreedingCycle
BY NoCycle, Invariance, PTL

\* A nonce that was given up is never drawn again by the badge that gave it up,
\* so an answer that stopped working never works again.
THEOREM DeadAnswersStayDead == Spec => DeadStaysDead
<1>1. IInv /\ [Next]_vars =>
          [\A c \in Answers, b \in Badges : c.to # nonce_mine[b] => c.to # nonce_mine'[b]]_vars
  <2> SUFFICES ASSUME IInv, [Next]_vars, NEW c \in Answers, NEW b \in Badges, c.to # nonce_mine[b]
               PROVE  c.to # nonce_mine'[b]
    OBVIOUS
  <2>1. c.to \in Nat /\ c.to # NoNonce /\ c.to <= lastNonce
    BY AnswersType, NonceRange DEF IInv, OrderOK, Nonces, NoNonce
  <2>2. \/ nonce_mine'[b] = nonce_mine[b]
        \/ nonce_mine'[b] = NoNonce
        \/ nonce_mine'[b] = lastNonce + 1
    BY StepKinds, DrawsType
       DEF IInv, QuietStep, ForgetStep, ShowStep, AnswerStep, AcceptStep, TypeOK
  <2>3. QED
    BY <2>1, <2>2, NonceRange DEF IInv
<1>2. QED
  BY <1>1, Invariance, PTL DEF Spec, DeadStaysDead

\* RevertGene can go back: while the user is asked, the gene that was replaced is
\* kept, for a gene is replaced, and a backup dropped, only in a step that also
\* changes the screen.
LEMMA UndoStep == TypeOK /\ UndoAvailable /\ [Next]_vars => UndoAvailable'
<1> SUFFICES ASSUME TypeOK, UndoAvailable, [Next]_vars, NEW b \in Badges,
                    mode'[b] = "ConfirmGene"
             PROVE  prior_gene'[b] # NoGene
  BY DEF UndoAvailable
<1>1. CASE mode'[b] = mode[b] /\ prior_gene'[b] = prior_gene[b]
  BY <1>1 DEF UndoAvailable
<1>2. ASSUME NEW a \in Badges, AcceptGene(a), a = b PROVE prior_gene'[b] # NoGene
  <2>1. CASE gene_cache[b] = NoGene
    BY <1>2, <2>1 DEF AcceptGene, SetMode, TypeOK
  <2>2. CASE gene_cache[b] # NoGene
    BY <1>2, <2>2 DEF AcceptGene, replace_gene, TypeOK
  <2>3. QED
    BY <2>1, <2>2
<1>3. ASSUME NEW a \in Badges, UserKey(a) PROVE prior_gene'[b] # NoGene
  BY <1>1, <1>3
     DEF UserKey, ShowKey, FireToScan, FireElsewhere, LeaveCode, RaiseMenu, EndScreen,
         ChooseItem, SetMode, geneVars, TypeOK
<1>4. ASSUME NEW a \in Badges, PowerCycle(a) PROVE prior_gene'[b] # NoGene
  BY <1>1, <1>4 DEF PowerCycle, SetMode, TypeOK
<1>5. ASSUME NEW a \in Badges, HandleQr(a), ~AcceptGene(a) PROVE prior_gene'[b] # NoGene
  BY <1>1, <1>5
     DEF HandleQr, AnswerKey, RefuseCode, ShortCode, FactoryCode, LateCode, SetMode, geneVars,
         TypeOK
<1>6. ASSUME NEW a \in Badges, AcceptGene(a), a # b PROVE prior_gene'[b] # NoGene
  BY <1>1, <1>6 DEF AcceptGene, replace_gene, SetMode, TypeOK
<1>7. ASSUME NEW a \in Badges, Handle(a), ~HandleQr(a) PROVE prior_gene'[b] # NoGene
  BY <1>1, <1>7
     DEF Handle, AbortQr, MenuDone, KeepGene, RevertGene, ChangeScreen, SetMode, geneVars, TypeOK
<1>8. QED
  BY <1>1, <1>2, <1>3, <1>4, <1>5, <1>6, <1>7 DEF Next, Handle, vars, geneVars

\* RevertGene: on the confirmation screen the gene from before is always there to
\* go back to, whatever was queued when the question came up and whatever follows.
THEOREM UndoStaysAvailable == Spec => []UndoAvailable
<1>1. Init => UndoAvailable
  BY DEF Init, UndoAvailable
<1>2. QED
  BY <1>1, UndoStep, TypeCorrect, PTL DEF Spec

-----------------------------------------------------------------------------
(***************************************************************************)
(* GeneExchange implements ExchangeLedger, for any set of badges, any      *)
(* genes, any number of nonces and any queue length.                       *)
(***************************************************************************)

\* Every answer is to a nonce that was put on display as a key.
AnsweredOK == \A c \in Answers : c.to \in Asked

\* The requests of the ledger, as GeneExchange gives them to it.
Open    == [b \in Badges |-> IF nonce_mine[b] \in Asked THEN nonce_mine[b] ELSE NoNonce]
Replies == {<<c.to, c.by>> : c \in Answers}

LInv == IInv /\ AnsweredOK

\* Nothing has been answered at the start.
LEMMA AnsweredInit == Init => AnsweredOK
BY DEF Init, AnsweredOK, Answers

\* Every answer is to a request that was shown, over every step.
LEMMA AnsweredStep == LInv /\ [Next]_vars => AnsweredOK'
<1> SUFFICES ASSUME LInv, [Next]_vars PROVE AnsweredOK'
  OBVIOUS
<1>1. QuietStep \/ \E b \in Badges : ForgetStep(b) \/ ShowStep(b) \/ AnswerStep(b) \/ AcceptStep(b)
  BY StepKinds DEF LInv, IInv
<1>2. CASE UNCHANGED shown
  BY <1>2, Same DEF LInv, AnsweredOK
<1>3. ASSUME NEW b \in Badges, ShowStep(b) PROVE AnsweredOK'
  BY <1>3, KeyGrows DEF ShowStep, LInv, AnsweredOK
<1>4. ASSUME NEW b \in Badges, AnswerStep(b) PROVE AnsweredOK'
  <2>1. ASSUME NEW n \in Asked, shown' = shown \cup {GeneCode(n, b, lastNonce + 1)}
        PROVE  AnsweredOK'
    <3>1. GeneCode(n, b, lastNonce + 1).to = n
      BY DEF GeneCode
    <3>2. QED
      BY <2>1, <3>1, GeneGrows DEF LInv, AnsweredOK
  <2>2. QED
    BY <1>2, <1>4, <2>1 DEF AnswerStep
<1>5. QED
  BY <1>1, <1>2, <1>3, <1>4 DEF QuietStep, ForgetStep, AcceptStep

\* The invariant the refinement needs holds in every state.
LEMMA LInvariance == Spec => []LInv
<1>1. Init => LInv
  BY IInvInit, AnsweredInit DEF LInv
<1>2. LInv /\ [Next]_vars => LInv'
  BY IInvStep, AnsweredStep DEF LInv
<1>3. QED
  BY <1>1, <1>2, PTL DEF Spec

-----------------------------------------------------------------------------
(***************************************************************************)
(* What a step does to the requests.                                       *)
(***************************************************************************)

\* Nothing displayed and no nonce changed: the requests are as before.
LEMMA StillOpen ==
    ASSUME UNCHANGED <<nonce_mine, shown>>
    PROVE  Asked' = Asked /\ Replies' = Replies /\ Open' = Open
BY Same DEF Replies, Open

\* A badge that clears its nonce has no request open any more.
LEMMA Forgotten ==
    ASSUME LInv, NEW b \in Badges, clear_nonces(b), UNCHANGED shown
    PROVE  /\ Asked' = Asked /\ Replies' = Replies
           /\ Open' = [Open EXCEPT ![b] = NoNonce]
<1>1. nonce_mine' = [nonce_mine EXCEPT ![b] = NoNonce] /\ nonce_mine \in [Badges -> Nonces \cup {NoNonce}]
  BY DEF clear_nonces, LInv, IInv, TypeOK
<1>2. QED
  BY <1>1, Same DEF Replies, Open

\* A drawn nonce was never displayed.
LEMMA FreshNonce ==
    ASSUME LInv
    PROVE  lastNonce + 1 \notin Asked
BY NonceRange DEF LInv, IInv, DrawnOK

\* A badge that draws a nonce it does not show as a key has no request open.
LEMMA DrawnHidden ==
    ASSUME LInv, NEW b \in Badges, generate_my_nonce(b), Asked' = Asked
    PROVE  Open' = [Open EXCEPT ![b] = NoNonce]
<1>1. /\ nonce_mine'[b] = lastNonce + 1
      /\ \A a \in Badges \ {b} : nonce_mine'[a] = nonce_mine[a]
  BY NonceType DEF LInv, IInv
<1>2. QED
  BY <1>1, FreshNonce DEF Open

-----------------------------------------------------------------------------
(***************************************************************************)
(* Each action is an action of the ledger or leaves the ledger alone.      *)
(***************************************************************************)

\* Nothing the ledger knows of changes.
Aside == UNCHANGED <<Asked, Replies, Open, geneVars>>

LedgerAnswer(a) == \E r \in Asked : /\ gene_cache[a] # NoGene
                                    /\ Replies' = Replies \cup {<<r, a>>}
                                    /\ Open' = [Open EXCEPT ![a] = NoNonce]
                                    /\ UNCHANGED <<Asked, geneVars>>

\* Showing a key is a new request.
LEMMA AskStep ==
    ASSUME LInv, NEW b \in Badges, ShowKey(b)
    PROVE  /\ \E r \in Nonces \ Asked : Asked' = Asked \cup {r} /\ Open' = [Open EXCEPT ![b] = r]
           /\ UNCHANGED <<Replies, geneVars>>
<1>1. /\ lastNonce + 1 \in Nonces /\ nonce_mine'[b] = lastNonce + 1
      /\ \A a \in Badges \ {b} : nonce_mine'[a] = nonce_mine[a]
  BY NonceType DEF ShowKey, LInv, IInv
<1>2. Asked' = Asked \cup {lastNonce + 1} /\ Answers' = Answers
  BY <1>1, KeyGrows DEF ShowKey
<1>3. lastNonce + 1 \notin Asked
  BY FreshNonce
<1>4. \A a \in Badges : nonce_mine[a] # lastNonce + 1
  <2> SUFFICES ASSUME NEW a \in Badges PROVE nonce_mine[a] # lastNonce + 1
    OBVIOUS
  <2>1. nonce_mine[a] <= lastNonce
    BY DEF LInv, IInv, DrawnOK
  <2>2. lastNonce \in Nat /\ nonce_mine[a] \in Nat
    BY NonceRange DEF LInv, IInv
  <2>3. QED
    BY <2>1, <2>2
<1>5. Open' = [Open EXCEPT ![b] = lastNonce + 1]
  BY <1>1, <1>2, <1>4 DEF Open
<1>6. UNCHANGED <<Replies, geneVars>>
  BY <1>2 DEF ShowKey, Replies
<1>7. QED
  BY <1>1, <1>2, <1>3, <1>5, <1>6

\* Answering a key is an answer of the ledger, or closes the badge's own request.
LEMMA ReplyStep ==
    ASSUME LInv, NEW b \in Badges, AnswerKey(b)
    PROVE  \/ LedgerAnswer(b)
           \/ Open' = [Open EXCEPT ![b] = NoNonce] /\ UNCHANGED <<Asked, Replies, geneVars>>
<1> DEFINE n == Head(inbox[b]).code.nonce
<1>1. generate_my_nonce(b) /\ nonce_mine'[b] = lastNonce + 1 /\ UNCHANGED geneVars
  BY NonceType DEF AnswerKey, LInv, IInv
<1>2. n \in Asked
  <2>1. Head(inbox[b]).code \in shown \cup StrayCodes /\ Head(inbox[b]).code.kind = "key"
    BY HeadShown DEF AnswerKey, QrIs, LInv, IInv
  <2>2. QED
    BY <2>1, StrayAssumption DEF Asked, Answers, StrayCodes
<1>3. CASE gene_cache[b] = NoGene
  <2>1. UNCHANGED shown
    BY <1>3 DEF AnswerKey
  <2>2. Asked' = Asked /\ Replies' = Replies
    BY <2>1, Same DEF Replies
  <2>3. QED
    BY <1>1, <2>2, DrawnHidden
<1>4. CASE gene_cache[b] # NoGene
  <2>1. shown' = shown \cup {GeneCode(n, b, lastNonce + 1)}
    BY <1>1, <1>4 DEF AnswerKey
  <2>2. Asked' = Asked /\ Answers' = Answers \cup {GeneCode(n, b, lastNonce + 1)}
    BY <2>1, GeneGrows
  <2>3. Replies' = Replies \cup {<<n, b>>}
    <3>1. GeneCode(n, b, lastNonce + 1).to = n /\ GeneCode(n, b, lastNonce + 1).by = b
      BY DEF GeneCode
    <3>2. QED
      BY <2>2, <3>1 DEF Replies
  <2>4. QED
    BY <1>1, <1>2, <1>4, <2>2, <2>3, DrawnHidden DEF LedgerAnswer
<1>5. QED
  BY <1>3, <1>4

\* A gene code that is accepted answers the request that is open, and another
\* badge gave it.
LEMMA TakeStep ==
    ASSUME LInv, NEW b \in Badges, AcceptGene(b)
    PROVE  \/ Aside
           \/ /\ \E a \in Badges \ {b} : <<Open[b], a>> \in Replies
              /\ replace_gene(b)
              /\ UNCHANGED <<Asked, Replies, Open, light_gene>>
<1> DEFINE c == Head(inbox[b]).code
<1>1. Asked' = Asked /\ Replies' = Replies /\ Open' = Open /\ UNCHANGED light_gene
  BY StillOpen DEF AcceptGene
<1>2. c \in Answers /\ c.to = nonce_mine[b]
  <2>1. c \in shown \cup StrayCodes /\ c.kind = "gene"
    BY HeadShown DEF AcceptGene, QrIs, LInv, IInv
  <2>2. QED
    BY <2>1, StrayAssumption DEF AcceptGene, Decrypts, Answers, StrayCodes
<1>3. c.by \in Badges \ {b}
  <2>1. c.to \in Nonces /\ c.own \in Nonces /\ c.by \in Badges
    BY <1>2, AnswersType DEF LInv, IInv
  <2>2. QED
    BY <1>2, <2>1 DEF LInv, IInv, OrderOK, Nonces, NoNonce
<1>4. <<Open[b], c.by>> \in Replies
  BY <1>2 DEF LInv, AnsweredOK, Open, Replies
<1>5. CASE gene_cache[b] = NoGene
  BY <1>1, <1>5 DEF AcceptGene, Aside, geneVars
<1>6. CASE gene_cache[b] # NoGene
  BY <1>1, <1>3, <1>4, <1>6 DEF AcceptGene
<1>7. QED
  BY <1>5, <1>6

\* A power cycle is a power loss of the ledger.
LEMMA PowerStep ==
    ASSUME LInv, NEW b \in Badges, PowerCycle(b)
    PROVE  Ledger!PowerLoss(b)
<1>1. /\ Asked' = Asked /\ Replies' = Replies
      /\ Open' = [Open EXCEPT ![b] = NoNonce]
  BY Forgotten DEF PowerCycle, wire
<1>2. QED
  BY <1>1 DEF PowerCycle, Ledger!PowerLoss, Open, Replies

\* Leaving the screen of a code withdraws the request or changes nothing.
LEMMA WithdrawStep ==
    ASSUME LInv, NEW b \in Badges, LeaveCode(b)
    PROVE  Ledger!Withdraw(b) \/ Aside
<1>1. UNCHANGED geneVars /\ UNCHANGED shown
  BY DEF LeaveCode, wire
<1>2. CASE UNCHANGED nonce_mine
  BY <1>1, <1>2, StillOpen DEF Aside
<1>3. CASE clear_nonces(b)
  <2>1. /\ Asked' = Asked /\ Replies' = Replies
        /\ Open' = [Open EXCEPT ![b] = NoNonce]
    BY <1>1, <1>3, Forgotten
  <2>2. QED
    BY <1>1, <2>1 DEF Ledger!Withdraw, Ledger!genes, Open, Replies, geneVars
<1>4. QED
  BY <1>2, <1>3 DEF LeaveCode

\* Keeping and reverting a gene keep or undo a pattern, or change nothing.
LEMMA DecideStep ==
    ASSUME LInv, NEW b \in Badges, KeepGene(b) \/ RevertGene(b)
    PROVE  Ledger!Keep(b) \/ Ledger!Undo(b) \/ Aside
<1>1. Asked' = Asked /\ Replies' = Replies /\ Open' = Open
  BY StillOpen DEF KeepGene, RevertGene, wire
<1>2. TypeOK
  BY DEF LInv, IInv
<1>3. CASE KeepGene(b)
  <2>1. CASE gene_cache[b] = NoGene
    BY <1>1, <1>2, <1>3, <2>1 DEF KeepGene, Aside, geneVars, TypeOK
  <2>2. CASE gene_cache[b] # NoGene
    BY <1>1, <1>3, <2>2 DEF KeepGene, Ledger!Keep, Ledger!requests, Open, Replies
  <2>3. QED
    BY <2>1, <2>2
<1>4. CASE RevertGene(b)
  <2>1. CASE prior_gene[b] = NoGene
    BY <1>1, <1>2, <1>4, <2>1 DEF RevertGene, Aside, geneVars, TypeOK
  <2>2. CASE prior_gene[b] # NoGene
    BY <1>1, <1>4, <2>2 DEF RevertGene, Ledger!Undo, Ledger!requests, Open, Replies
  <2>3. QED
    BY <2>1, <2>2
<1>5. QED
  BY <1>3, <1>4

\* The steps that touch neither nonces, codes nor genes.
LEMMA AsideStep ==
    ASSUME NEW b \in Badges,
           \/ FireToScan(b) \/ FireElsewhere(b) \/ RaiseMenu(b) \/ EndScreen(b) \/ ChooseItem(b)
           \/ RefuseCode(b) \/ ShortCode(b) \/ FactoryCode(b) \/ LateCode(b)
           \/ AbortQr(b) \/ MenuDone(b) \/ ChangeScreen(b)
    PROVE  Aside
<1>1. UNCHANGED <<nonce_mine, shown, geneVars>>
  BY DEF wire, geneVars, FireToScan, FireElsewhere, RaiseMenu, EndScreen, ChooseItem,
         RefuseCode, ShortCode, FactoryCode, LateCode, AbortQr, MenuDone, ChangeScreen
<1>2. QED
  BY <1>1, StillOpen DEF Aside

\* Every step of the exchange is one of the ledger or none.
LEMMA LedgerStep == LInv /\ [Next]_vars => [Ledger!Next]_<<Ledger!requests, Ledger!genes>>
<1> SUFFICES ASSUME LInv, [Next]_vars PROVE [Ledger!Next]_<<Ledger!requests, Ledger!genes>>
  OBVIOUS
<1>1. Aside => UNCHANGED <<Ledger!requests, Ledger!genes>>
  BY DEF Aside, Ledger!requests, Ledger!genes, Open, Replies, geneVars
<1>2. ASSUME NEW b \in Badges, ShowKey(b) PROVE Ledger!Ask(b)
  BY <1>2, AskStep DEF Ledger!Ask, Ledger!genes, Open, Replies, geneVars
<1>3. ASSUME NEW b \in Badges, AnswerKey(b) PROVE Ledger!Answer(b) \/ Ledger!Withdraw(b)
  BY <1>3, ReplyStep
     DEF LedgerAnswer, Ledger!Answer, Ledger!Withdraw, Ledger!genes, Open, Replies, geneVars
<1>4. ASSUME NEW b \in Badges, AcceptGene(b) PROVE Ledger!Take(b) \/ Aside
  BY <1>4, TakeStep DEF replace_gene, Ledger!Take, Ledger!requests, Open, Replies
<1>5. CASE UNCHANGED vars
  BY <1>1, <1>5, StillOpen DEF vars, wire, Aside
<1>6. ASSUME NEW b \in Badges, UserKey(b) PROVE Ledger!Ask(b) \/ Ledger!Withdraw(b) \/ Aside
  BY <1>2, <1>6, WithdrawStep, AsideStep DEF UserKey
<1>7. ASSUME NEW b \in Badges, Handle(b)
      PROVE  \/ Ledger!Answer(b) \/ Ledger!Withdraw(b) \/ Ledger!Take(b)
             \/ Ledger!Keep(b) \/ Ledger!Undo(b) \/ Aside
  BY <1>3, <1>4, <1>7, DecideStep, AsideStep DEF Handle, HandleQr
<1>8. QED
  BY <1>1, <1>5, <1>6, <1>7, PowerStep DEF Next, Ledger!Next

\* Whatever badges, menus, queues and cameras do, a pattern changes only by an
\* answer another badge gave to the request still open, by an undo, or by a power
\* loss that brings back what was kept.
THEOREM ExchangeImplementsLedger == Spec => ImplementsLedger
<1>1. Init => Ledger!Init
  <2> SUFFICES ASSUME Init PROVE Ledger!Init
    OBVIOUS
  <2>1. Asked = {} /\ Answers = {}
    BY DEF Init, Asked, Answers
  <2>2. [Badges -> Factory] \subseteq [Badges -> Genes \cup {NoGene}]
    BY FactoryAssumption
  <2>3. QED
    BY <2>1, <2>2 DEF Init, Ledger!Init
<1>2. LInv /\ [Next]_vars => [Ledger!Next]_<<Ledger!requests, Ledger!genes>>
  BY LedgerStep
<1>3. QED
  BY <1>1, <1>2, LInvariance, PTL DEF Spec, ImplementsLedger, Ledger!Spec
=============================================================================
