------------------------------ MODULE ClientPin ------------------------------
(***************************************************************************)
(* The PIN of the authenticator and the token a platform gets for it:      *)
(* clientPin (client_pin.rs, token_state.rs), the PIN policy               *)
(* (config_command.rs), and the commands that spend the token (mod.rs).    *)
(*                                                                         *)
(* The PIN, its retries and its policy live in the persistent store, the   *)
(* rest in memory.  The store is built on the PDDB, where an update is up  *)
(* to three calls: delete the key, create it empty, write the value        *)
(* (libraries/persistent_store/src/store.rs).  The power may go between    *)
(* any two of them.  Each PDDB call is taken to be durable when it returns,*)
(* and a random token or key agreement key to be never drawn twice.        *)
(*                                                                         *)
(* One command runs at a time.  It is cut where the power can go, or time  *)
(* can pass, between two of its steps: after every PDDB call, and while it *)
(* waits for the user.                                                     *)
(***************************************************************************)
EXTENDS Integers, Sequences, FiniteSets

CONSTANTS Pins,         \* PINs, by number
          PinLength,    \* code points of each
          Protocols,    \* the PIN/UV auth protocols, "v1" and "v2"
          RPs,          \* relying parties
          Requests,     \* sets of permissions a platform asks for
          Lengths,      \* minimum PIN lengths a platform asks for
          DefaultMin,   \* default_min_pin_length()
          MaxRetries,   \* max_pin_retries()
          UsageLimit,   \* INITIAL_USAGE_TIME_LIMIT, in ticks
          MaxAllowance  \* bound: guesses granted by lost retry counters

NoEntry == -2   \* the store has no such key
NoBytes == -1   \* the key holds an empty value

\* MakeCredential, GetAssertion, CredentialManagement, LargeBlobWrite and
\* AuthenticatorConfiguration.
Permissions == {"MC", "GA", "CM", "LBW", "ACFG"}

ASSUME PinsAssumption       == Pins \subseteq Nat /\ PinLength \in [Pins -> Nat]
ASSUME RequestsAssumption   == Requests \subseteq (SUBSET Permissions) \ {{}}
ASSUME LengthsAssumption    == Lengths \subseteq Nat /\ DefaultMin \in Nat
ASSUME MaxRetriesAssumption == MaxRetries \in Nat /\ MaxRetries > 0
ASSUME LimitsAssumption     == UsageLimit \in Nat /\ MaxAllowance \in Nat

VARIABLES
    store,       \* the keys of the persistent store that matter here
    todo,        \* updates the command in progress has yet to make
    stage,       \* PDDB calls made for the first of them
    op,          \* the command in progress
    req,         \* its parameters
    mismatches,  \* ClientPin.consecutive_pin_mismatches
    agreed,      \* protocols whose current key agreement key the platform has
    live,        \* protocols whose current token the platform has
    token,       \* ClientPin.pin_uv_auth_token_state
    reset_ok,    \* stateful_command_permission is Reset and has not timed out
    guesses,     \* history: wrong guesses since the last right one or new PIN
    boot_guesses,\* history: the same, since power-up
    allowance,   \* history: guesses granted, one set of retries at a time
    issued,      \* history: PIN and minimum length when the token was given out
    spent,       \* history: it was used with the user's consent
    bound_to,    \* history: relying parties it was accepted for
    damaged      \* history: keys an interrupted update left neither old nor new

disk    == <<store, todo, stage>>
command == <<op, req>>
memory  == <<mismatches, agreed, live>>
counts  == <<guesses, boot_guesses, allowance>>
past    == <<issued, spent, bound_to>>
vars    == <<disk, command, memory, token, reset_ok, counts, past, damaged>>

-----------------------------------------------------------------------------
Keys == {"pin", "retries", "force", "min", "always_uv"}

\* What a key may hold: no entry, an empty value, or a value that parses.
Values(k) ==
    CASE k = "pin"     -> Pins \cup {NoEntry, NoBytes}
      [] k = "retries" -> 0..MaxRetries \cup {NoEntry, NoBytes}
      [] k = "min"     -> Lengths \cup {NoEntry, NoBytes}
      [] OTHER         -> {NoEntry, NoBytes}

NoRp  == "none"
ASSUME RPsAssumption == NoRp \notin RPs
NoPin == -3      \* a PIN hash that does not decrypt, or no PIN at all
NoReq == [use |-> "none"]

Stopped == [in_use |-> FALSE, uv |-> FALSE, perms |-> {}, rp |-> NoRp, age |-> 0]

\* The usage timer is read at every packet, before the command it completes.
CurrentToken ==
    IF token.in_use /\ token.age > UsageLimit THEN Stopped ELSE token

MinLength   == IF store["min"] = NoEntry THEN DefaultMin ELSE store["min"]
RetriesLeft == IF store["retries"] = NoEntry THEN MaxRetries ELSE store["retries"]

Update(k, v) == [key |-> k, old |-> store[k], val |-> v]

\* Mutant: an absent counter is not read as a full one.
Decrement_Raw == <<Update("retries", store["retries"] - 1)>>
Decrement == IF RetriesLeft = 0 THEN <<>> ELSE <<Update("retries", RetriesLeft - 1)>>

LongEnough(pin) == store["min"] # NoBytes /\ PinLength[pin] >= MinLength

\* What verify_pin_uv_auth_token, has_permission, check_user_verified_flag and
\* ensure_rp_id_permission let through.
Accepts(p, perm, rp) ==
    /\ CurrentToken.in_use
    /\ p \in live
    /\ perm \in CurrentToken.perms
    /\ perm \in {"MC", "GA"} => CurrentToken.uv /\ CurrentToken.rp \in {NoRp, rp}

Init ==
    /\ store = [k \in Keys |-> NoEntry]
    /\ todo = <<>> /\ stage = "whole"
    /\ op = "idle" /\ req = NoReq
    /\ mismatches = 0 /\ agreed = {} /\ live = {}
    /\ token = Stopped
    /\ reset_ok = TRUE
    /\ guesses = 0 /\ boot_guesses = 0 /\ allowance = MaxRetries
    /\ issued = [pin |-> NoPin, min |-> 0] /\ spent = FALSE /\ bound_to = {}
    /\ damaged = {}

-----------------------------------------------------------------------------
(* The store. *)

PddbDelete ==
    /\ todo # <<>> /\ stage = "whole"
    /\ store' = [store EXCEPT ![Head(todo).key] = NoEntry]
    /\ IF Head(todo).val = NoEntry
         THEN todo' = Tail(todo) /\ stage' = stage
         ELSE todo' = todo /\ stage' = "deleted"
    /\ UNCHANGED <<command, memory, token, reset_ok, counts, past, damaged>>

PddbCreate ==
    /\ todo # <<>> /\ stage = "deleted"
    /\ store' = [store EXCEPT ![Head(todo).key] = NoBytes]
    /\ stage' = "created"
    /\ UNCHANGED <<todo, command, memory, token, reset_ok, counts, past, damaged>>

PddbWrite ==
    /\ todo # <<>> /\ stage = "created"
    /\ store' = [store EXCEPT ![Head(todo).key] = Head(todo).val]
    /\ todo' = Tail(todo) /\ stage' = "whole"
    /\ UNCHANGED <<command, memory, token, reset_ok, counts, past, damaged>>

\* The retries an interrupted update has lost: an absent counter reads as full.
LostRetries ==
    /\ todo # <<>> /\ stage = "deleted"
    /\ Head(todo).key = "retries" /\ Head(todo).old # NoEntry

\* The power goes and comes back: Store::new recovers nothing, CtapState::new
\* starts over.
PowerLoss ==
    /\ todo' = <<>> /\ stage' = "whole"
    /\ op' = "idle" /\ req' = NoReq
    /\ mismatches' = 0 /\ agreed' = {} /\ live' = {}
    /\ token' = Stopped
    /\ reset_ok' = TRUE
    /\ boot_guesses' = 0
    /\ LostRetries => allowance + MaxRetries <= MaxAllowance
    /\ allowance' = IF LostRetries THEN allowance + MaxRetries ELSE allowance
    /\ damaged' = IF /\ todo # <<>>
                     /\ store[Head(todo).key] \notin {Head(todo).old, Head(todo).val}
                  THEN damaged \cup {Head(todo).key} ELSE damaged
    /\ issued' = [pin |-> NoPin, min |-> 0] /\ spent' = FALSE /\ bound_to' = {}
    /\ UNCHANGED <<store, guesses>>

-----------------------------------------------------------------------------
(* authenticatorClientPin. *)

\* What every command but Reset and MakeCredential does before its own work.
Begin == /\ op = "idle"
         /\ token' = CurrentToken
         /\ reset_ok' = FALSE

Finish == op' = "idle" /\ req' = NoReq

process_get_key_agreement(p) ==
    /\ Begin
    /\ agreed' = agreed \cup {p}
    /\ UNCHANGED <<disk, command, mismatches, live, counts, past, damaged>>

process_set_pin(p, pin) ==
    /\ Begin
    /\ store["pin"] = NoEntry
    /\ p \in agreed
    /\ LongEnough(pin)
    /\ op' = "write" /\ req' = NoReq
    /\ todo' = <<Update("pin", pin), Update("force", NoEntry), Update("retries", NoEntry)>>
    /\ guesses' = 0 /\ allowance' = MaxRetries
    /\ UNCHANGED <<store, stage, memory, boot_guesses, past, damaged>>

\* Mutants: the counters are not looked at before the PIN is.
verify_pin_hash_enc_NoRetryCheck(r) ==
    /\ Begin
    /\ store["retries"] # NoBytes
    /\ r.use = "change" => r.protocol \in agreed
    /\ store["pin"] \in Pins
    /\ mismatches < 3
    /\ todo' = Decrement
    /\ op' = "verify" /\ req' = r
    /\ UNCHANGED <<store, stage, memory, counts, past, damaged>>
verify_pin_hash_enc_NoMismatchCheck(r) ==
    /\ Begin
    /\ store["retries"] \notin {0, NoBytes}
    /\ r.use = "change" => r.protocol \in agreed
    /\ store["pin"] \in Pins
    /\ todo' = Decrement
    /\ op' = "verify" /\ req' = r
    /\ UNCHANGED <<store, stage, memory, counts, past, damaged>>

\* process_change_pin and process_get_pin_token up to the comparison.
verify_pin_hash_enc(r) ==
    /\ Begin
    /\ store["retries"] \notin {0, NoBytes}
    /\ r.use = "change" => r.protocol \in agreed
    /\ store["pin"] \in Pins
    /\ mismatches < 3
    /\ todo' = Decrement
    /\ op' = "verify" /\ req' = r
    /\ UNCHANGED <<store, stage, memory, counts, past, damaged>>

\* The hash is right only under the current key agreement key.
RightPin == req.guess = store["pin"] /\ req.protocol \in agreed

Undecryptable ==
    /\ op = "verify" /\ todo = <<>>
    /\ req.guess = NoPin
    /\ Finish
    /\ UNCHANGED <<disk, memory, token, reset_ok, counts, past, damaged>>

Mismatch ==
    /\ op = "verify" /\ todo = <<>>
    /\ req.guess # NoPin /\ ~RightPin
    /\ agreed' = agreed \ {req.protocol}
    /\ mismatches' = IF RetriesLeft = 0 THEN mismatches ELSE mismatches + 1
    /\ guesses' = guesses + 1 /\ boot_guesses' = boot_guesses + 1
    /\ Finish
    /\ UNCHANGED <<disk, live, token, reset_ok, allowance, past, damaged>>

Match ==
    /\ op = "verify" /\ todo = <<>>
    /\ req.guess # NoPin /\ RightPin
    /\ todo' = <<Update("retries", NoEntry)>>
    /\ op' = "verified" /\ req' = req
    /\ guesses' = 0 /\ boot_guesses' = 0 /\ allowance' = MaxRetries
    /\ UNCHANGED <<store, stage, memory, token, reset_ok, past, damaged>>

\* change_pin, with the old PIN verified.
StoreNewPin ==
    /\ op = "verified" /\ todo = <<>> /\ req.use = "change"
    /\ mismatches' = 0
    /\ IF LongEnough(req.new)
         THEN /\ op' = "change" /\ req' = req
              /\ todo' = <<Update("pin", req.new), Update("force", NoEntry)>>
         ELSE Finish /\ todo' = todo
    /\ UNCHANGED <<store, stage, agreed, live, token, reset_ok, counts, past, damaged>>

\* Mutant: only the token of the protocol in use is drawn anew.
FinishChange_OneProtocol ==
    /\ op = "change" /\ todo = <<>>
    /\ live' = live \ {req.protocol}
    /\ Finish
    /\ UNCHANGED <<disk, mismatches, agreed, token, reset_ok, counts, past, damaged>>

FinishChange ==
    /\ op = "change" /\ todo = <<>>
    /\ live' = {}
    /\ Finish
    /\ UNCHANGED <<disk, mismatches, agreed, token, reset_ok, counts, past, damaged>>

\* Mutants: only the token of the protocol in use is drawn anew; force_pin_change
\* is not looked at.
IssueToken_OneProtocol ==
    /\ op = "verified" /\ todo = <<>> /\ req.use = "token"
    /\ mismatches' = 0
    /\ store["force"] = NoEntry
    /\ live' = live \cup {req.protocol}
    /\ token' = [in_use |-> TRUE, uv |-> TRUE, perms |-> req.perms, rp |-> req.rp, age |-> 0]
    /\ issued' = [pin |-> store["pin"], min |-> MinLength]
    /\ spent' = FALSE /\ bound_to' = {}
    /\ Finish
    /\ UNCHANGED <<disk, agreed, reset_ok, counts, damaged>>
IssueToken_Unforced ==
    /\ op = "verified" /\ todo = <<>> /\ req.use = "token"
    /\ mismatches' = 0
    /\ live' = {req.protocol}
    /\ token' = [in_use |-> TRUE, uv |-> TRUE, perms |-> req.perms, rp |-> req.rp, age |-> 0]
    /\ issued' = [pin |-> store["pin"], min |-> MinLength]
    /\ spent' = FALSE /\ bound_to' = {}
    /\ Finish
    /\ UNCHANGED <<disk, agreed, reset_ok, counts, damaged>>

\* get_pin_token, with the PIN verified.
IssueToken ==
    /\ op = "verified" /\ todo = <<>> /\ req.use = "token"
    /\ mismatches' = 0
    /\ store["force"] = NoEntry
    /\ live' = {req.protocol}
    /\ token' = [in_use |-> TRUE, uv |-> TRUE, perms |-> req.perms, rp |-> req.rp, age |-> 0]
    /\ issued' = [pin |-> store["pin"], min |-> MinLength]
    /\ spent' = FALSE /\ bound_to' = {}
    /\ Finish
    /\ UNCHANGED <<disk, agreed, reset_ok, counts, damaged>>

RefuseToken ==
    /\ op = "verified" /\ todo = <<>> /\ req.use = "token"
    /\ mismatches' = 0
    /\ store["force"] # NoEntry
    /\ Finish
    /\ UNCHANGED <<disk, agreed, live, token, reset_ok, counts, past, damaged>>

-----------------------------------------------------------------------------
(* authenticatorConfig. *)

\* An auth is a protocol, or "none" when the command comes without a token.
Authorised(auth, enforce_uv) ==
    /\ store["pin"] # NoBytes
    /\ IF store["pin"] # NoEntry \/ enforce_uv
         THEN Accepts(auth, "ACFG", NoRp) ELSE auth = "none"

\* Mutant: the policy is written before the mark.
process_set_min_pin_length_Swapped(auth, new, force) ==
    LET must == force \/ (store["pin"] # NoEntry /\ new > PinLength[store["pin"]])
    IN  /\ Begin
        /\ Authorised(auth, store["always_uv"] # NoEntry)
        /\ store["min"] # NoBytes /\ new >= MinLength
        /\ force => store["pin"] # NoEntry
        /\ op' = "write" /\ req' = NoReq
        /\ todo' = <<Update("min", new)>>
                   \o (IF must THEN <<Update("force", NoBytes)>> ELSE <<>>)
        /\ UNCHANGED <<store, stage, memory, counts, past, damaged>>

process_set_min_pin_length(auth, new, force) ==
    LET must == force \/ (store["pin"] # NoEntry /\ new > PinLength[store["pin"]])
    IN  /\ Begin
        /\ Authorised(auth, store["always_uv"] # NoEntry)
        /\ store["min"] # NoBytes /\ new >= MinLength
        /\ force => store["pin"] # NoEntry
        /\ op' = "write" /\ req' = NoReq
        /\ todo' = (IF must THEN <<Update("force", NoBytes)>> ELSE <<>>)
                   \o <<Update("min", new)>>
        /\ UNCHANGED <<store, stage, memory, counts, past, damaged>>

toggle_always_uv(auth) ==
    /\ Begin
    /\ Authorised(auth, FALSE)
    /\ op' = "write" /\ req' = NoReq
    /\ todo' = <<Update("always_uv", IF store["always_uv"] = NoEntry THEN NoBytes ELSE NoEntry)>>
    /\ UNCHANGED <<store, stage, memory, counts, past, damaged>>

\* set_pin, set_min_pin_length or toggle_always_uv has written everything.
FinishWrite ==
    /\ op = "write" /\ todo = <<>>
    /\ Finish
    /\ UNCHANGED <<disk, memory, token, reset_ok, counts, past, damaged>>

-----------------------------------------------------------------------------
(* The commands that use the token. *)

\* Mutant: the relying party is checked and not kept.
ensure_rp_id_permission_Unbound(rp) ==
    /\ token' = CurrentToken
    /\ bound_to' = bound_to \cup {rp}

ensure_rp_id_permission(rp) ==
    /\ token' = [CurrentToken EXCEPT !.rp = rp]
    /\ bound_to' = bound_to \cup {rp}

WithToken(auth, perm, rp) ==
    /\ store["pin"] \in Pins
    /\ Accepts(auth, perm, rp)
    /\ ensure_rp_id_permission(rp)

WithoutToken(auth) ==
    /\ auth = "none"
    /\ store["always_uv"] = NoEntry
    /\ token' = CurrentToken
    /\ bound_to' = bound_to

\* MakeCredential does not close the window for a Reset.
process_make_credential(auth, rp) ==
    /\ op = "idle"
    /\ WithToken(auth, "MC", rp) \/ WithoutToken(auth)
    /\ op' = "presence" /\ req' = NoReq
    /\ UNCHANGED <<disk, memory, reset_ok, counts, issued, spent, damaged>>

process_get_assertion(auth, rp, up) ==
    /\ op = "idle"
    /\ WithToken(auth, "GA", rp) \/ (up /\ WithoutToken(auth))
    /\ reset_ok' = FALSE
    /\ op' = IF up THEN "presence" ELSE "idle"
    /\ req' = NoReq
    /\ UNCHANGED <<disk, memory, counts, issued, spent, damaged>>

\* Mutant: only the user_verified flag is consumed.
clear_token_flags_UvOnly == token' = [token EXCEPT !.uv = FALSE]

clear_token_flags ==
    token' = [token EXCEPT !.uv = FALSE, !.perms = @ \cap {"LBW"}]

\* The user consents, for a credential that is not excluded.
Consent ==
    /\ op = "presence"
    /\ clear_token_flags
    /\ spent' = TRUE
    /\ Finish
    /\ UNCHANGED <<disk, memory, reset_ok, counts, issued, bound_to, damaged>>

\* No consent, a cancel, an excluded credential, or no credential at all.
NoConsent ==
    /\ op \in {"presence", "reset"}
    /\ Finish
    /\ UNCHANGED <<disk, memory, token, reset_ok, counts, past, damaged>>

-----------------------------------------------------------------------------
(* authenticatorReset. *)

BeginReset ==
    /\ op = "idle"
    /\ reset_ok
    /\ token' = CurrentToken
    /\ op' = "reset" /\ req' = NoReq
    /\ UNCHANGED <<disk, memory, reset_ok, counts, past, damaged>>

process_reset ==
    /\ op = "reset"
    /\ store' = [k \in Keys |-> NoEntry]
    /\ mismatches' = 0 /\ agreed' = {} /\ live' = {}
    /\ token' = Stopped
    /\ Finish
    /\ guesses' = 0 /\ boot_guesses' = 0 /\ allowance' = MaxRetries
    /\ issued' = [pin |-> NoPin, min |-> 0] /\ spent' = FALSE /\ bound_to' = {}
    /\ damaged' = {}
    /\ UNCHANGED <<todo, stage, reset_ok>>

\* Its time runs out, or another command, refused or not, comes first.
ResetCloses ==
    /\ op = "idle"
    /\ reset_ok /\ reset_ok' = FALSE
    /\ token' = CurrentToken
    /\ UNCHANGED <<disk, command, memory, counts, past, damaged>>

\* Time passes while the authenticator waits; the PDDB is taken to be quick.
Tick ==
    /\ op \in {"idle", "presence", "reset"}
    /\ token.in_use /\ token.age <= UsageLimit
    /\ token' = [token EXCEPT !.age = @ + 1]
    /\ UNCHANGED <<disk, command, memory, reset_ok, counts, past, damaged>>

-----------------------------------------------------------------------------
Changes == [use : {"change"}, protocol : Protocols, guess : Pins \cup {NoPin}, new : Pins]

\* getPinToken, or with permissions: MC and GA need a relying party.
TokenRequests ==
    {r \in [use : {"token"}, protocol : Protocols, guess : Pins \cup {NoPin},
            perms : Requests \cup {{"MC", "GA"}}, rp : RPs \cup {NoRp}] :
        \/ r.perms = {"MC", "GA"}
        \/ r.perms \cap {"MC", "GA"} = {} \/ r.rp # NoRp}

Auths == Protocols \cup {"none"}

Next ==
    \/ PddbDelete \/ PddbCreate \/ PddbWrite \/ PowerLoss
    \/ \E p \in Protocols : process_get_key_agreement(p)
    \/ \E p \in Protocols, pin \in Pins : process_set_pin(p, pin)
    \/ \E r \in Changes \cup TokenRequests : verify_pin_hash_enc(r)
    \/ Undecryptable \/ Mismatch \/ Match
    \/ StoreNewPin \/ FinishChange \/ IssueToken \/ RefuseToken
    \/ \E a \in Auths, new \in Lengths, force \in BOOLEAN :
          process_set_min_pin_length(a, new, force)
    \/ \E a \in Auths : toggle_always_uv(a)
    \/ FinishWrite
    \/ \E a \in Auths, rp \in RPs : process_make_credential(a, rp)
    \/ \E a \in Auths, rp \in RPs, up \in BOOLEAN : process_get_assertion(a, rp, up)
    \/ Consent \/ NoConsent
    \/ BeginReset \/ process_reset \/ ResetCloses
    \/ Tick

Spec == Init /\ [][Next]_vars

-----------------------------------------------------------------------------
Updates == {u \in [key : Keys, old : Int, val : Int] : u.val \in Values(u.key)}
Tokens  == [in_use : BOOLEAN, uv : BOOLEAN, perms : SUBSET Permissions,
            rp : RPs \cup {NoRp}, age : 0..(UsageLimit + 1)]

DiskType ==
    /\ store \in [Keys -> Int] /\ \A k \in Keys : store[k] \in Values(k)
    /\ todo \in Seq(Updates)
    /\ stage \in {"whole", "deleted", "created"}
    /\ damaged \subseteq Keys
CommandType ==
    /\ op \in {"idle", "write", "verify", "verified", "change", "presence", "reset"}
    /\ req \in {NoReq} \cup Changes \cup TokenRequests
MemoryType ==
    /\ mismatches \in 0..3
    /\ agreed \subseteq Protocols /\ live \subseteq Protocols
    /\ token \in Tokens
    /\ reset_ok \in BOOLEAN
HistoryType ==
    /\ guesses \in Nat /\ boot_guesses \in Nat /\ allowance \in Nat
    /\ spent \in BOOLEAN
    /\ bound_to \subseteq RPs

TypeOK == DiskType /\ CommandType /\ MemoryType /\ HistoryType

\* max_pin_retries: between two right entries of the PIN it is compared with at
\* most so many wrong ones, over any number of power-ups, or so many again for
\* every time the power took the retry counter with it.
GuessesBounded == guesses <= allowance

\* consecutive_pin_mismatches: at most three of them without a power-up.
ThreePerBoot == boot_guesses <= 3

\* A token that verifies was given out for the PIN that is stored now.
TokenUnderCurrentPin ==
    op = "idle" /\ CurrentToken.in_use /\ live # {} => issued.pin = store["pin"]

\* At most one token verifies, whichever protocol it was asked for under.
OneToken == Cardinality(live) <= 1

\* clear_token_flags: after the user has consented once, a token writes large
\* blobs and does nothing else.
SpentTokenOnlyWritesBlobs ==
    spent => \A p \in Protocols, perm \in Permissions, rp \in RPs :
                Accepts(p, perm, rp) => perm = "LBW"

\* ensure_rp_id_permission: the first relying party a token is used for is the
\* only one it makes credentials or assertions for.
OneRpPerToken ==
    \A p \in Protocols, perm \in {"MC", "GA"}, rp \in RPs :
        Accepts(p, perm, rp) => bound_to \subseteq {rp}

\* A PIN shorter than the minimum is marked for a change, even if the power went
\* while the policy was being written.
ShortPinForced ==
    op = "idle" /\ damaged = {} /\ store["pin"] \in Pins /\ ~LongEnough(store["pin"])
        => store["force"] = NoBytes

\* has_force_pin_change: a PIN gets a token only if it met the minimum length.
TokenForLongPin ==
    live # {} /\ damaged = {} => PinLength[issued.pin] >= issued.min

\* store.rs, Store::new: a possible interrupted operation is recovered by being
\* either completed or rolled back.
InterruptedIsRecovered == damaged = {}
=============================================================================
