----------------------------- MODULE Credentials -----------------------------
(***************************************************************************)
(* The discoverable credentials of the authenticator, the commands that    *)
(* make, use and manage them, and the series of answers that some of these *)
(* commands begin: GetNextAssertion, the next relying party, the next      *)
(* credential (ctap/mod.rs, ctap/credential_management.rs, ctap/storage.rs,*)
(* libraries/persistent_store).                                            *)
(*                                                                         *)
(* A series holds keys of the store between two commands.  Whether they    *)
(* still mean what they did is up to StatefulPermission, which drops it    *)
(* when a command of another kind or channel comes, or time has passed.    *)
(*                                                                         *)
(* One command runs at a time, to its end.  An update of the store is      *)
(* several calls to the PDDB: the power may go between them, and a call    *)
(* may fail, which leaves the list of keys the store keeps in memory as it *)
(* was; only the listing itself may fail at the end of one that is done.   *)
(* An answer may fail after the command has changed its state: a           *)
(* credential that is not read for a moment, an extension of the host's    *)
(* that is refused, a signature.  Whether a command is authorised, and     *)
(* whether the user consents, is left open: a command that is not is       *)
(* Refuse.                                                                 *)
(***************************************************************************)
EXTENDS Integers, FiniteSets, Sequences

CONSTANTS RPs,      \* relying parties, numbered in the order of their names
          Users,    \* user handles
          Slots,    \* max_supported_resident_keys()
          Channels, \* HID channels
          Policies, \* credProtect policies that are asked for
          MaxMade   \* bound: credentials that are made

ASSUME RPsAssumption      == RPs \subseteq Nat /\ IsFiniteSet(RPs)
ASSUME SlotsAssumption    == Slots \in Nat
ASSUME PoliciesAssumption == Policies \subseteq {"Optional", "WithList", "Required"}
ASSUME MadeAssumption     == MaxMade \in Nat
ASSUME ChannelsAssumption == 0 \notin Channels

VARIABLES
    pddb,    \* what the dictionary holds under the keys of credentials
    entries, \* Store.entries, of these keys, or Unlisted for None
    command, \* StatefulPermission.command_type
    channel, \* StatefulPermission.channel
    expired, \* its permission has timed out
    made,    \* credential IDs drawn so far
    given    \* history: the answers of the series under way, errors included

permission == <<command, channel, expired, given>>
vars       == <<pddb, entries, permission, made>>

-----------------------------------------------------------------------------
Keys     == 1..Slots
NoEntry  == [id |-> -2]   \* no such key
NoBytes  == [id |-> -1]   \* the key is there, its value is empty
Unlisted == {0}           \* no key, and no set of keys
NoAnswer == [id |-> 0]    \* an error in place of a credential
NoRp     == -1            \* an error in place of a relying party
Credential == [id : 1..MaxMade, rp : RPs, user : Users, order : 1..MaxMade, policy : Policies]

NoChannel == 0
Idle      == [kind |-> "none"]
Fresh     == [kind |-> "Reset"]   \* nothing has forbidden a Reset since power-up

Held(k) == pddb[k].id > 0

\* iter_credentials succeeds: each key that is listed has a value that parses.
Readable == entries # Unlisted /\ \A k \in entries : Held(k)

SameAccount(x, y) == x.rp = y.rp /\ x.user = y.user

\* is_discoverable, or user verification
Visible(x, uv) == uv \/ x.policy = "Optional"

Matching(rp, uv) == {k \in entries : pddb[k].rp = rp /\ Visible(pddb[k], uv)}

StoredRps == {pddb[k].rp : k \in entries}

\* The keys of S in some order.
Orders(S) == {s \in [1..Cardinality(S) -> S] : \A i, j \in DOMAIN s : s[i] = s[j] => i = j}

\* sort_unstable_by_key
ByCreation(S) == {s \in Orders(S) :
                     \A i, j \in DOMAIN s : i < j => pddb[s[i]].order <= pddb[s[j]].order}

Last(s)  == s[Len(s)]
Front(s) == SubSeq(s, 1, Len(s) - 1)

\* Mutant: the credentials are counted for the next order.
NewOrder_Counted == 1 + Cardinality(entries)

\* new_creation_order
NewOrder == 1 + (IF entries = {} THEN 0
                 ELSE CHOOSE n \in {pddb[k].order : k \in entries} :
                          \A k \in entries : pddb[k].order <= n)

-----------------------------------------------------------------------------
(* The store.                                                              *)

Listed(p) == {k \in Keys : p[k] # NoEntry}

\* list_keys(..).ok()
Relist == entries' \in {Listed(pddb'), Unlisted}

\* CtapState::new
PowerUp == /\ Relist
           /\ command' = Fresh
           /\ channel' = NoChannel
           /\ expired' = FALSE
           /\ given' = <<>>

\* An insertion deletes the key, creates it and writes the value.
Stored(k, x) == pddb' = [pddb EXCEPT ![k] = x] /\ Relist

\* A part of it.
Broken(k) == \E v \in {NoEntry, NoBytes} : pddb' = [pddb EXCEPT ![k] = v]

\* Mutant: a new credential for an account is always given a free key.
KeyFor_Free(rp, user) ==
    {k \in Keys \ entries : \A j \in Keys \ entries : k <= j}

\* Mutant: the free key is counted out and not looked for.
KeyFor_Counted(rp, user) ==
    LET old == {k \in entries : SameAccount(pddb[k], [rp |-> rp, user |-> user])}
    IN IF old # {} THEN {k \in old : Cardinality(old) = 1}
       ELSE {k \in Keys : k = 1 + Cardinality(entries)}

\* store_credential: the key of the account, or else the first free one. More than
\* one key of the account is an error, and so is a full store.
KeyFor(rp, user) ==
    LET old == {k \in entries : SameAccount(pddb[k], [rp |-> rp, user |-> user])}
    IN IF old # {} THEN {k \in old : Cardinality(old) = 1}
       ELSE {k \in Keys \ entries : \A j \in Keys \ entries : k <= j}

-----------------------------------------------------------------------------
(* Stateful commands.                                                      *)

\* Mutant: credential management leaves a command that is not of its kind alone.
Continues_Managed == {<<"GetNextAssertion", "GetAssertion">>,
                      <<"Reset", "Reset">>,
                      <<"GetInfo", "Reset">>,
                      <<"Selection", "Reset">>,
                      <<"MakeCredential", "Reset">>,
                      <<"GetNextRp", "EnumerateRps">>,
                      <<"GetNextCredential", "EnumerateCredentials">>,
                      <<"DeleteCredential", "EnumerateCredentials">>}

\* A command of the first kind leaves the state of the second alone.
Continues == {<<"GetNextAssertion", "GetAssertion">>,
              <<"Reset", "Reset">>,
              <<"GetInfo", "Reset">>,
              <<"Selection", "Reset">>,
              <<"MakeCredential", "Reset">>,
              <<"GetNextRp", "EnumerateRps">>,
              <<"GetNextCredential", "EnumerateCredentials">>}

\* clear_old_channels, clear_timer and the first look at the command.
Kept(c, kind) == /\ channel \in {NoChannel, c}
                 /\ ~expired
                 /\ <<kind, command.kind>> \in Continues

Clear == /\ command' = Idle
         /\ channel' = NoChannel
         /\ expired' = FALSE
         /\ given' = <<>>

Enter(c, kind) == IF Kept(c, kind) THEN UNCHANGED permission ELSE Clear

\* set_command. The clock was read when the packet came, so that what was waited
\* for the user since is taken off the time that is left.
SetCommand(new, c, first, waited) ==
    /\ command' = new
    /\ channel' = c
    /\ expired' \in IF waited THEN BOOLEAN ELSE {FALSE}
    /\ given' = <<first>>

\* The next answer of a series, which is in no case made again.
Answer(new, x) == /\ command' = new
                  /\ given' = Append(given, x)
                  /\ UNCHANGED <<channel, expired>>

-----------------------------------------------------------------------------
(* Commands.  Each takes what it was asked, on which channel.              *)

Kinds == {"MakeCredential", "GetAssertion", "GetNextAssertion", "GetInfo", "Selection", "Reset",
          "GetNextRp", "GetNextCredential", "Other"}

\* A command that does no more: it is refused or fails before it writes, it only
\* reads, or is of another component. Other stands for these: ClientPin, Config,
\* LargeBlobs, and the subcommands of credential management that begin or write.
Refuse(c, kind) == /\ Enter(c, kind)
                   /\ UNCHANGED <<pddb, entries, made>>

\* MakeCredential, of a discoverable credential. The order is drawn and the key is
\* found before anything is written.
MakeCredential(c, rp, user, policy) ==
    /\ made < MaxMade
    /\ Readable
    /\ made' = made + 1
    /\ \E k \in KeyFor(rp, user) :
           \/ /\ Stored(k, [id |-> made', rp |-> rp, user |-> user, order |-> NewOrder,
                            policy |-> policy])
              /\ Enter(c, "MakeCredential")
           \/ Broken(k) /\ Enter(c, "MakeCredential") /\ UNCHANGED entries
           \/ Broken(k) /\ PowerUp

\* What the host gets for a credential.
Answers(x) == {x, NoAnswer}

\* GetAssertion without an allow list. The newest credential is used, the others
\* are kept for GetNextAssertion before the answer is made.
GetAssertion(c, rp, uv, up) ==
    /\ Readable
    /\ \E keys \in ByCreation(Matching(rp, uv)) :
           /\ keys # <<>>
           /\ IF Len(keys) = 1 THEN Clear
              ELSE \E x \in Answers(pddb[Last(keys)]) :
                      SetCommand([kind |-> "GetAssertion", rp |-> rp, uv |-> uv,
                                  keys |-> Front(keys)], c, x, up)
    /\ UNCHANGED <<pddb, entries, made>>

\* GetNextAssertion, and with kind and held exchanged the next credential: the key
\* is taken off the list, whether or not there is a credential under it to answer with.
GetNext(c, kind, held) ==
    /\ Kept(c, kind) /\ command.kind = held
    /\ command.keys # <<>>
    /\ LET k == Last(command.keys)
       IN \E x \in IF Held(k) THEN Answers(pddb[k]) ELSE {NoAnswer} :
             Answer([command EXCEPT !.keys = Front(@)], x)
    /\ UNCHANGED <<pddb, entries, made>>

\* The relying party with i others before it.
NthRp(i) == CHOOSE rp \in StoredRps : Cardinality({q \in StoredRps : q < rp}) = i

EnumerateRps(c) ==
    /\ Readable
    /\ StoredRps # {}
    /\ IF Cardinality(StoredRps) = 1 THEN Clear
       ELSE SetCommand([kind |-> "EnumerateRps", index |-> 1], c, NthRp(0), FALSE)
    /\ UNCHANGED <<pddb, entries, made>>

\* The list is made anew for each, which may fail, and the place in it is a number,
\* which goes on past the end: its bound here is the number of relying parties.
GetNextRp(c) ==
    /\ Kept(c, "GetNextRp")
    /\ command.index <= Cardinality(RPs)
    /\ \E rp \in {NoRp} \cup (IF Readable /\ command.index < Cardinality(StoredRps)
                            THEN {NthRp(command.index)} ELSE {}) :
          Answer([command EXCEPT !.index = @ + 1], rp)
    /\ UNCHANGED <<pddb, entries, made>>

\* EnumerateCredentials holds keys alone; rp is kept for the properties.  The public
\* key of the first credential is computed when the others are kept.
EnumerateCredentials(c, rp) ==
    /\ Readable
    /\ \E keys \in Orders(Matching(rp, TRUE)) :
           /\ keys # <<>>
           /\ IF Len(keys) = 1 THEN Clear
              ELSE \E x \in Answers(pddb[Last(keys)]) :
                      SetCommand([kind |-> "EnumerateCredentials", rp |-> rp,
                                  keys |-> Front(keys)], c, x, FALSE)
    /\ UNCHANGED <<pddb, entries, made>>

DeleteCredential(c, k) ==
    /\ Readable /\ k \in entries
    /\ Stored(k, NoEntry)
    /\ Enter(c, "DeleteCredential")
    /\ UNCHANGED made

\* updateUserInformation. Names are not modelled: the credential is written again.
UpdateUser(c, k) ==
    /\ Readable /\ k \in entries
    /\ \/ Stored(k, pddb[k]) /\ Enter(c, "UpdateUser")
       \/ Broken(k) /\ Enter(c, "UpdateUser") /\ UNCHANGED entries
       \/ Broken(k) /\ PowerUp
    /\ UNCHANGED made

\* Reset, with the user's consent.  It may be asked for again.  The keys are deleted
\* one by one.
Reset(c) ==
    /\ Kept(c, "Reset")
    /\ \E gone \in SUBSET Keys :
           /\ pddb' = [k \in Keys |-> IF k \in gone THEN NoEntry ELSE pddb[k]]
           /\ \/ gone = Keys /\ Relist /\ UNCHANGED permission
              \/ UNCHANGED <<entries, permission>>
              \/ PowerUp
    /\ UNCHANGED made

\* Another component's update of the store, which lists the keys anew; CTAP1 does
\* one without a look at the series under way.
OtherUpdate == /\ UNCHANGED <<pddb, permission, made>>
               /\ Relist

-----------------------------------------------------------------------------
(* Time and power.                                                         *)

Expire == /\ command # Idle /\ ~expired
          /\ expired' = TRUE
          /\ UNCHANGED <<pddb, entries, command, channel, given, made>>

\* update_timeouts, on any packet
UpdateTimeouts == expired /\ Clear /\ UNCHANGED <<pddb, entries, made>>

PowerCycle == UNCHANGED <<pddb, made>> /\ PowerUp

-----------------------------------------------------------------------------
Init == /\ pddb = [k \in Keys |-> NoEntry]
        /\ entries \in {{}, Unlisted}
        /\ command = Fresh
        /\ channel = NoChannel
        /\ expired = FALSE
        /\ made = 0
        /\ given = <<>>

Manage(c) == \/ EnumerateRps(c) \/ GetNextRp(c)
             \/ \E rp \in RPs : EnumerateCredentials(c, rp)
             \/ GetNext(c, "GetNextCredential", "EnumerateCredentials")
             \/ \E k \in Keys : DeleteCredential(c, k) \/ UpdateUser(c, k)

Use(c) == \/ \E rp \in RPs, user \in Users, policy \in Policies : MakeCredential(c, rp, user, policy)
          \/ \E rp \in RPs, uv, up \in BOOLEAN : GetAssertion(c, rp, uv, up)
          \/ GetNext(c, "GetNextAssertion", "GetAssertion")

Next == \/ \E c \in Channels : \/ Use(c) \/ Manage(c) \/ Reset(c)
                               \/ \E kind \in Kinds : Refuse(c, kind)
        \/ OtherUpdate \/ Expire \/ UpdateTimeouts \/ PowerCycle

Spec == Init /\ [][Next]_vars

-----------------------------------------------------------------------------
(* Properties.                                                             *)

Series == [kind : {"GetAssertion"}, rp : RPs, uv : BOOLEAN, keys : Seq(Keys)]
          \cup [kind : {"EnumerateCredentials"}, rp : RPs, keys : Seq(Keys)]
          \cup [kind : {"EnumerateRps"}, index : Nat]

TypeOK == /\ pddb \in [Keys -> Credential \cup {NoEntry, NoBytes}]
          /\ entries \in (SUBSET Keys) \cup {Unlisted}
          /\ command \in Series \cup {Idle, Fresh}
          /\ channel \in Channels \cup {NoChannel}
          /\ expired \in BOOLEAN
          /\ made \in 0..MaxMade
          /\ given \in IF command.kind = "EnumerateRps" THEN Seq(RPs \cup {NoRp})
                       ELSE Seq(Credential \cup {NoAnswer})

\* An account has one credential, no two credentials have one ID, and their order of
\* creation is total: whatever was deleted, replaced, interrupted or failed before.
OneCredentialPerAccount ==
    \A j, k \in Keys : (Held(j) /\ Held(k) /\ j # k) =>
        /\ ~SameAccount(pddb[j], pddb[k])
        /\ pddb[j].id # pddb[k].id
        /\ pddb[j].order # pddb[k].order

\* A key goes from the credential of one account to that of another only by way of
\* an empty one: storing a credential costs nobody else's.
NeverOverwritten ==
    [][\A k \in Keys : (Held(k) /\ Held(k)') => SameAccount(pddb[k], pddb[k]')]_vars

\* The credentials that are stored.
Discoverable == {x \in {pddb[k] : k \in Keys} : x.id > 0}

\* What was answered and the credentials that are left are those of all, in its order:
\* each was told to the host, or cost it an error, or is still held, in its place.
Follows(all) ==
    /\ Len(given) + Len(command.keys) = Len(all)
    /\ \A i \in DOMAIN given : given[i] \in Answers(all[i])
    /\ \A i \in DOMAIN command.keys : pddb[command.keys[i]] = all[Len(all) + 1 - i]

NewestFirst(s) == {all \in Orders(s) : \A i, j \in DOMAIN all : i < j => all[i].order > all[j].order}

\* The answers of a series, the errors among them, are one for each credential that is
\* stored for the relying party and may be shown, the newest first; or one for each
\* relying party by name, and errors past the last. An answer that fails is never made
\* good, but it never hides another: nothing that is stored is left out or told twice,
\* and a series is over before anything else changes what it is of.
SeriesExact ==
    LET stored == Discoverable
        rps    == {x.rp : x \in stored}
    IN /\ command.kind = "GetAssertion" =>
              \E all \in NewestFirst({x \in stored : x.rp = command.rp /\ Visible(x, command.uv)}) :
                  Follows(all)
       /\ command.kind = "EnumerateCredentials" =>
              \E all \in Orders({x \in stored : x.rp = command.rp}) : Follows(all)
       /\ command.kind = "EnumerateRps" =>
              /\ command.index = Len(given)
              /\ \A i \in DOMAIN given : given[i] # NoRp =>
                     given[i] \in rps /\ Cardinality({rp \in rps : rp < given[i]}) = i - 1

Resettable == command = Fresh

\* Keys that are listed or not, values that are torn, failed updates and series under
\* way come to no more than a set of credentials by account: a key that is found free
\* holds nobody's, an update costs at most the credential it is of, and only a Reset
\* takes several.
Promise == INSTANCE Passkeys WITH credentials <- Discoverable, resettable <- Resettable
ImplementsPasskeys == Promise!Spec
=============================================================================
