-------------------------- MODULE ClientPin_proofs --------------------------
(***************************************************************************)
(* Proofs about ClientPin for any PINs, any number of retries, any number  *)
(* of protocols and relying parties, and a power loss after any PDDB call. *)
(*                                                                         *)
(* The bound on guesses is not inductive: between the delete and the write *)
(* of a decrement the counter reads as full.  Budget adds what is still to *)
(* be written: a guess is paid for before it is compared, and a decrement  *)
(* that is interrupted either keeps the old count or is a lost counter.    *)
(*                                                                         *)
(* Of the token, Scope says what it may do, PinKept that its PIN stays     *)
(* while it verifies, and Policy what mark the PIN has before and after    *)
(* each update that is still to be made, so that a cut finds one of them.  *)
(***************************************************************************)
EXTENDS ClientPin, SequenceTheorems, FiniteSetTheorems, TLAPS

USE PinsAssumption, RequestsAssumption, LengthsAssumption, MaxRetriesAssumption, LimitsAssumption

\* What the command in progress says of the updates it has left.
Shape ==
    /\ op \in {"idle", "presence", "reset"} => todo = <<>>
    /\ todo = <<>> => stage = "whole"
    /\ stage # "whole" => todo[1].val # NoEntry
    /\ op \in {"verify", "verified", "change"} => req # NoReq
    /\ op = "verify" => mismatches < 3 /\ Len(todo) <= 1

\* Every value an entry of the store may have is a number.
LEMMA ValuesInt == \A k \in Keys : Values(k) \subseteq Int
BY DEF Values, Keys, NoEntry, NoBytes

\* An absent entry and an empty one are values of every key.
LEMMA EmptyIsValue == \A k \in Keys : NoEntry \in Values(k) /\ NoBytes \in Values(k)
BY DEF Values, Keys

\* An update keeps its key, its value and what the store held.
LEMMA UpdateType ==
    ASSUME DiskType, NEW k \in Keys, NEW v \in Values(k)
    PROVE  /\ Update(k, v) \in Updates
           /\ Update(k, v).key = k /\ Update(k, v).val = v /\ Update(k, v).old = store[k]
BY ValuesInt DEF DiskType, Update, Updates

\* Unless its entry is empty, the retries that are left are a number up to MaxRetries.
LEMMA Left ==
    ASSUME DiskType, store["retries"] # NoBytes
    PROVE  RetriesLeft \in 0..MaxRetries
BY DEF DiskType, RetriesLeft, Values, Keys, NoEntry, NoBytes

\* The token is of its type with and without what the usage timer stops.
LEMMA CurrentTokenType ==
    ASSUME MemoryType
    PROVE  CurrentToken \in Tokens /\ Stopped \in Tokens
BY DEF MemoryType, CurrentToken, Stopped, Tokens

\* The types and the shape hold at the first power-up.
LEMMA InitType == Init => TypeOK /\ Shape
<1> SUFFICES ASSUME Init PROVE TypeOK /\ Shape
  OBVIOUS
<1>1. store \in [Keys -> Int] /\ \A k \in Keys : store[k] \in Values(k)
  BY EmptyIsValue DEF Init, NoEntry
<1>2. todo = <<>> /\ stage = "whole" /\ op = "idle" /\ req = NoReq
  BY DEF Init
<1>3. todo \in Seq(Updates)
  BY <1>2
<1>4. DiskType
  BY <1>1, <1>2, <1>3 DEF Init, DiskType
<1>5. CommandType
  BY <1>2 DEF CommandType
<1>6. MemoryType
  <2>1. Stopped \in Tokens
    BY DEF Stopped, Tokens
  <2>2. mismatches = 0 /\ agreed = {} /\ live = {} /\ token = Stopped
    BY DEF Init
  <2>3. reset_ok \in BOOLEAN
    BY DEF Init
  <2>4. QED
    BY <2>1, <2>2, <2>3 DEF MemoryType
<1>7. HistoryType
  <2>1. guesses = 0 /\ boot_guesses = 0 /\ allowance = MaxRetries /\ bound_to = {}
    BY DEF Init
  <2>2. spent \in BOOLEAN
    BY DEF Init
  <2>3. QED
    BY <2>1, <2>2 DEF HistoryType
<1>8. QED
  BY <1>2, <1>4, <1>5, <1>6, <1>7 DEF TypeOK, Shape

(***************************************************************************)
(* Steps of the store.                                                     *)
(***************************************************************************)
LEMMA HeadType ==
    ASSUME DiskType, todo # <<>>
    PROVE  /\ Head(todo) = todo[1] /\ Head(todo) \in Updates
           /\ Head(todo).key \in Keys /\ Head(todo).val \in Values(Head(todo).key)
           /\ Tail(todo) \in Seq(Updates)
           /\ Len(Tail(todo)) = Len(todo) - 1
           /\ \A i \in 1..Len(Tail(todo)) : Tail(todo)[i] = todo[i + 1]
<1>1. todo \in Seq(Updates) /\ Len(todo) \in Nat /\ Len(todo) > 0
  BY DEF DiskType
<1>2. Head(todo) = todo[1] /\ Tail(todo) \in Seq(Updates) /\ Len(Tail(todo)) = Len(todo) - 1
  BY <1>1
<1>3. \A i \in 1..Len(Tail(todo)) : Tail(todo)[i] = todo[i + 1]
  BY <1>1
<1>4. Head(todo) \in Updates
  BY <1>1, <1>2
<1>5. Head(todo).key \in Keys /\ Head(todo).val \in Values(Head(todo).key)
  BY <1>4 DEF Updates
<1>6. QED
  BY <1>2, <1>3, <1>4, <1>5

\* Each of the three PDDB calls keeps the types, the store's included.
LEMMA StoreStep ==
    ASSUME TypeOK, Shape, PddbDelete \/ PddbCreate \/ PddbWrite
    PROVE  TypeOK' /\ Shape'
<1>1. todo # <<>>
  BY DEF PddbDelete, PddbCreate, PddbWrite
<1> DEFINE u == Head(todo)
<1>2. u.key \in Keys /\ u.val \in Values(u.key) /\ u.val \in Int /\ u = todo[1]
  BY <1>1, HeadType, ValuesInt DEF TypeOK
<1>3. store' \in [Keys -> Int] /\ (\A k \in Keys : store'[k] \in Values(k))
  <2>1. \E v \in Values(u.key) : store' = [store EXCEPT ![u.key] = v]
    BY <1>2, EmptyIsValue DEF PddbDelete, PddbCreate, PddbWrite
  <2>2. QED
    BY <1>2, <2>1, ValuesInt DEF TypeOK, DiskType
<1>4. todo' \in {todo, Tail(todo)}
  BY DEF PddbDelete, PddbCreate, PddbWrite
<1>5. todo' \in Seq(Updates) /\ Len(todo') <= Len(todo)
  <2>1. CASE todo' = todo
    BY <2>1 DEF TypeOK, DiskType
  <2>2. CASE todo' = Tail(todo)
    <3>1. Tail(todo) \in Seq(Updates) /\ Len(Tail(todo)) = Len(todo) - 1 /\ Len(todo) \in Nat
      BY <1>1, HeadType DEF TypeOK, DiskType
    <3>2. QED
      BY <2>2, <3>1
  <2>3. QED
    BY <1>4, <2>1, <2>2
<1>6. stage' \in {"whole", "deleted", "created"}
  BY DEF PddbDelete, PddbCreate, PddbWrite, TypeOK, DiskType
<1>7. UNCHANGED <<command, memory, token, reset_ok, counts, past, damaged>>
  BY DEF PddbDelete, PddbCreate, PddbWrite
<1>8. TypeOK'
  <2>1. DiskType'
    BY <1>3, <1>5, <1>6, <1>7 DEF TypeOK, DiskType
  <2>2. CommandType' /\ MemoryType' /\ HistoryType'
    BY <1>7 DEF TypeOK, CommandType, MemoryType, HistoryType, command, memory, counts, past
  <2>3. QED
    BY <2>1, <2>2 DEF TypeOK
<1>9. /\ todo' = <<>> => stage' = "whole"
      /\ stage' # "whole" => todo'[1].val # NoEntry
  BY <1>1, <1>2 DEF PddbDelete, PddbCreate, PddbWrite, Shape
<1>10. op \notin {"idle", "presence", "reset"}
  BY <1>1 DEF Shape
<1>11. op = "verify" => mismatches < 3 /\ Len(todo') <= 1
  BY <1>5, HeadType DEF Shape, TypeOK, DiskType
<1>12. QED
  BY <1>7, <1>8, <1>9, <1>10, <1>11 DEF Shape, command, memory

\* A power loss drops what was to be written and all of memory; the store is as it was.
LEMMA PowerLossStep ==
    ASSUME TypeOK, Shape, PowerLoss
    PROVE  TypeOK' /\ Shape'
<1>1. /\ todo' = <<>> /\ stage' = "whole" /\ op' = "idle" /\ req' = NoReq
      /\ store' = store /\ token' = Stopped
  BY DEF PowerLoss
<1>2. damaged' \subseteq Keys
  BY HeadType DEF PowerLoss, TypeOK, DiskType
<1>3. DiskType'
  BY <1>1, <1>2 DEF TypeOK, DiskType
<1>4. CommandType'
  BY <1>1 DEF CommandType
<1>5. reset_ok' \in BOOLEAN /\ spent' \in BOOLEAN
  BY DEF PowerLoss
<1>6. mismatches' = 0 /\ agreed' = {} /\ live' = {} /\ bound_to' = {} /\ boot_guesses' = 0
  BY DEF PowerLoss
<1>7. allowance' \in Nat /\ guesses' \in Nat
  BY DEF PowerLoss, TypeOK, HistoryType
<1>8. MemoryType' /\ HistoryType'
  BY <1>1, <1>5, <1>6, <1>7, CurrentTokenType DEF TypeOK, MemoryType, HistoryType
<1>9. QED
  BY <1>1, <1>3, <1>4, <1>8 DEF TypeOK, Shape

(***************************************************************************)
(* Steps of the commands.  Each leaves the store's keys alone and at most  *)
(* says what is to be written.                                             *)
(***************************************************************************)
LEMMA TodoType ==
    ASSUME TypeOK, UNCHANGED <<store, stage, damaged>>, todo' \in Seq(Updates)
    PROVE  DiskType'
BY DEF TypeOK, DiskType

\* What every command does first keeps the types of what is in memory.
LEMMA BeginType ==
    ASSUME TypeOK, Begin, UNCHANGED <<mismatches, live>>, agreed' \subseteq Protocols
    PROVE  MemoryType'
BY CurrentTokenType DEF TypeOK, Begin, MemoryType

\* A command that ends leaves no operation under way.
LEMMA FinishType == ASSUME Finish PROVE CommandType'
BY DEF Finish, CommandType

\* Types, over the setting of a first PIN.
LEMMA SetPinStep ==
    ASSUME TypeOK, Shape, NEW p \in Protocols, NEW pin \in Pins, process_set_pin(p, pin)
    PROVE  TypeOK' /\ Shape'
<1>1. pin \in Values("pin") /\ "pin" \in Keys /\ "force" \in Keys /\ "retries" \in Keys
  BY DEF Values, Keys
<1>2. /\ Update("pin", pin) \in Updates
      /\ Update("force", NoEntry) \in Updates /\ Update("retries", NoEntry) \in Updates
  BY <1>1, EmptyIsValue, UpdateType DEF TypeOK
<1>3. todo' \in Seq(Updates) /\ todo' # <<>>
  BY <1>2 DEF process_set_pin
<1>4. DiskType'
  BY <1>3, TodoType DEF process_set_pin
<1>5. MemoryType'
  BY BeginType DEF process_set_pin, memory, TypeOK, MemoryType
<1>6. op' = "write" /\ req' = NoReq /\ CommandType'
  BY DEF process_set_pin, CommandType
<1>7. HistoryType'
  BY DEF process_set_pin, past, TypeOK, HistoryType
<1>8. stage' = "whole"
  BY DEF process_set_pin, Begin, Shape
<1>9. QED
  BY <1>3, <1>4, <1>5, <1>6, <1>7, <1>8 DEF TypeOK, Shape

\* Types, over the start of a comparison: the counter is to be written.
LEMMA VerifyStep ==
    ASSUME TypeOK, Shape, NEW r \in Changes \cup TokenRequests, verify_pin_hash_enc(r)
    PROVE  TypeOK' /\ Shape'
<1>1. RetriesLeft \in 0..MaxRetries /\ "retries" \in Keys
  BY Left DEF verify_pin_hash_enc, TypeOK, Keys
<1>2. RetriesLeft # 0 => RetriesLeft - 1 \in Values("retries")
  BY <1>1 DEF Values
<1>3. RetriesLeft # 0 => Update("retries", RetriesLeft - 1) \in Updates
  BY <1>1, <1>2, UpdateType DEF TypeOK
<1>4. todo' \in Seq(Updates) /\ Len(todo') <= 1 /\ todo = <<>> /\ stage = "whole"
  BY <1>3 DEF verify_pin_hash_enc, Decrement, Begin, Shape
<1>5. DiskType'
  BY <1>4, TodoType DEF verify_pin_hash_enc
<1>6. MemoryType'
  BY BeginType DEF verify_pin_hash_enc, memory, TypeOK, MemoryType
<1>7. op' = "verify" /\ req' = r /\ CommandType' /\ req' # NoReq
  BY DEF verify_pin_hash_enc, CommandType, Changes, TokenRequests, NoReq
<1>8. HistoryType'
  BY DEF verify_pin_hash_enc, past, counts, TypeOK, HistoryType
<1>9. stage' = "whole" /\ mismatches' < 3
  BY <1>4 DEF verify_pin_hash_enc, memory
<1>10. QED
  BY <1>4, <1>5, <1>6, <1>7, <1>8, <1>9 DEF TypeOK, Shape

\* Types, over a comparison that fails.
LEMMA CompareStep ==
    ASSUME TypeOK, Shape, Undecryptable \/ Mismatch
    PROVE  TypeOK' /\ Shape'
<1>1. todo = <<>> /\ op = "verify" /\ mismatches < 3 /\ stage = "whole"
  BY DEF Undecryptable, Mismatch, Shape
<1>2. UNCHANGED disk /\ UNCHANGED damaged /\ Finish
  BY DEF Undecryptable, Mismatch
<1>3. DiskType'
  BY <1>1, <1>2, TodoType DEF disk, TypeOK, DiskType
<1>4. CommandType' /\ op' = "idle"
  BY <1>2, FinishType DEF Finish
<1>5. mismatches' \in 0..3 /\ agreed' \subseteq Protocols /\ live' \subseteq Protocols
  BY <1>1 DEF Undecryptable, Mismatch, TypeOK, MemoryType, memory
<1>6. token' \in Tokens
  BY DEF Undecryptable, Mismatch, TypeOK, MemoryType
<1>7. reset_ok' \in BOOLEAN
  BY DEF Undecryptable, Mismatch, TypeOK, MemoryType
<1>8. guesses' \in Nat /\ boot_guesses' \in Nat /\ allowance' \in Nat
  BY DEF Undecryptable, Mismatch, TypeOK, HistoryType, counts
<1>9. HistoryType'
  BY <1>8 DEF Undecryptable, Mismatch, TypeOK, HistoryType, past
<1>10. QED
  BY <1>1, <1>2, <1>3, <1>4, <1>5, <1>6, <1>7, <1>9 DEF TypeOK, MemoryType, Shape, disk

\* Types, over a comparison that succeeds: the counter is to be removed.
LEMMA MatchStep ==
    ASSUME TypeOK, Shape, Match
    PROVE  TypeOK' /\ Shape'
<1>1. Update("retries", NoEntry) \in Updates
  BY EmptyIsValue, UpdateType DEF TypeOK, Keys
<1>2. todo' \in Seq(Updates) /\ todo' # <<>> /\ stage' = "whole"
  BY <1>1 DEF Match, Shape
<1>3. DiskType'
  BY <1>2, TodoType DEF Match
<1>4. CommandType' /\ op' = "verified" /\ req' = req
  BY DEF Match, TypeOK, CommandType
<1>5. MemoryType'
  BY DEF Match, memory, TypeOK, MemoryType
<1>6. HistoryType'
  BY DEF Match, past, TypeOK, HistoryType
<1>7. req # NoReq
  BY DEF Match, Shape
<1>8. QED
  BY <1>2, <1>3, <1>4, <1>5, <1>6, <1>7 DEF TypeOK, Shape

\* Types, over the first half of a change of PIN: the new hash is to be written.
LEMMA StoreNewPinStep ==
    ASSUME TypeOK, Shape, StoreNewPin
    PROVE  TypeOK' /\ Shape'
<1>1. req \in Changes /\ req.new \in Pins
  BY DEF StoreNewPin, Shape, TypeOK, CommandType, Changes, TokenRequests
<1>2. req.new \in Values("pin") /\ "pin" \in Keys /\ "force" \in Keys
  BY <1>1 DEF Values, Keys
<1>3. Update("pin", req.new) \in Updates /\ Update("force", NoEntry) \in Updates
  BY <1>2, EmptyIsValue, UpdateType DEF TypeOK
<1>4. todo' \in Seq(Updates) /\ stage' = "whole"
  <2>1. todo = <<>> /\ stage' = stage /\ stage = "whole"
    BY DEF StoreNewPin, Shape
  <2>2. CASE LongEnough(req.new)
    <3>1. todo' = <<Update("pin", req.new), Update("force", NoEntry)>>
      BY <2>2 DEF StoreNewPin
    <3>2. QED
      BY <1>3, <2>1, <3>1
  <2>3. CASE ~LongEnough(req.new)
    BY <2>1, <2>3 DEF StoreNewPin, TypeOK, DiskType
  <2>4. QED
    BY <2>2, <2>3
<1>5. DiskType'
  BY <1>4, TodoType DEF StoreNewPin
<1>6. \/ op' = "idle" /\ req' = NoReq /\ todo' = <<>>
      \/ op' = "change" /\ req' = req
  BY DEF StoreNewPin, Finish
<1>7. CommandType'
  BY <1>6 DEF TypeOK, CommandType
<1>8. MemoryType'
  BY DEF StoreNewPin, TypeOK, MemoryType
<1>9. HistoryType'
  BY DEF StoreNewPin, counts, past, TypeOK, HistoryType
<1>10. req # NoReq
  BY DEF StoreNewPin, Shape
<1>11. QED
  BY <1>4, <1>5, <1>6, <1>7, <1>8, <1>9, <1>10 DEF TypeOK, Shape

\* The steps that end a command once everything is written.
LEMMA EndStep ==
    ASSUME TypeOK, Shape, FinishChange \/ IssueToken \/ RefuseToken \/ FinishWrite
    PROVE  TypeOK' /\ Shape'
<1>1. todo = <<>> /\ UNCHANGED disk /\ UNCHANGED damaged /\ Finish
  BY DEF FinishChange, IssueToken, RefuseToken, FinishWrite
<1>2. DiskType' /\ todo' = <<>> /\ stage' = "whole"
  BY <1>1 DEF disk, TypeOK, DiskType, Shape
<1>3. CommandType' /\ op' = "idle"
  BY <1>1, FinishType DEF Finish
<1>4. mismatches' \in 0..3 /\ agreed' \subseteq Protocols
  BY DEF FinishChange, IssueToken, RefuseToken, FinishWrite, memory, TypeOK, MemoryType
<1>5. live' \subseteq Protocols /\ token' \in Tokens
  <2>1. CASE IssueToken
    <3>1. req \in TokenRequests
      BY <2>1 DEF IssueToken, Shape, TypeOK, CommandType, Changes, TokenRequests
    <3>2. req.protocol \in Protocols /\ req.rp \in RPs \cup {NoRp} /\ req.perms \subseteq Permissions
      BY <3>1 DEF TokenRequests, Permissions
    <3>3. 0 \in 0..(UsageLimit + 1)
      OBVIOUS
    <3>4. QED
      BY <2>1, <3>2, <3>3 DEF IssueToken, Tokens
  <2>2. CASE FinishChange \/ RefuseToken \/ FinishWrite
    BY <2>2 DEF FinishChange, RefuseToken, FinishWrite, memory, TypeOK, MemoryType
  <2>3. QED
    BY <2>1, <2>2
<1>6. reset_ok' \in BOOLEAN
  BY DEF FinishChange, IssueToken, RefuseToken, FinishWrite, TypeOK, MemoryType
<1>7. spent' \in BOOLEAN
  BY DEF FinishChange, IssueToken, RefuseToken, FinishWrite, past, TypeOK, HistoryType
<1>8. bound_to' \subseteq RPs /\ UNCHANGED counts
  BY DEF FinishChange, IssueToken, RefuseToken, FinishWrite, past, TypeOK, HistoryType
<1>9. QED
  BY <1>2, <1>3, <1>4, <1>5, <1>6, <1>7, <1>8
     DEF TypeOK, MemoryType, HistoryType, Shape, counts

\* Types, over a change of the minimum length, one or two updates.
LEMMA MinLengthStep ==
    ASSUME TypeOK, Shape, NEW a \in Auths, NEW new \in Lengths, NEW force \in BOOLEAN,
           process_set_min_pin_length(a, new, force)
    PROVE  TypeOK' /\ Shape'
<1>1. new \in Values("min") /\ "min" \in Keys /\ "force" \in Keys
  BY DEF Values, Keys
<1>2. Update("min", new) \in Updates /\ Update("force", NoBytes) \in Updates
  BY <1>1, EmptyIsValue, UpdateType DEF TypeOK
<1>3. PICK s \in {<<>>, <<Update("force", NoBytes)>>} : todo' = s \o <<Update("min", new)>>
  BY DEF process_set_min_pin_length
<1>4. s \in Seq(Updates) /\ <<Update("min", new)>> \in Seq(Updates) /\ Len(<<Update("min", new)>>) = 1
  <2>1. CASE s = <<>>
    BY <1>2, <2>1
  <2>2. CASE s = <<Update("force", NoBytes)>>
    BY <1>2, <2>2
  <2>3. QED
    BY <2>1, <2>2
<1>5. todo' \in Seq(Updates) /\ todo' # <<>>
  <2>1. todo' \in Seq(Updates)
    BY <1>3, <1>4
  <2>2. Len(todo') = Len(s) + 1 /\ Len(s) \in Nat
    BY <1>3, <1>4
  <2>3. QED
    BY <2>1, <2>2
<1>6. DiskType'
  BY <1>5, TodoType DEF process_set_min_pin_length
<1>7. MemoryType'
  BY BeginType DEF process_set_min_pin_length, memory, TypeOK, MemoryType
<1>8. op' = "write" /\ req' = NoReq /\ CommandType'
  BY DEF process_set_min_pin_length, CommandType
<1>9. HistoryType'
  BY DEF process_set_min_pin_length, counts, past, TypeOK, HistoryType
<1>10. stage' = "whole"
  BY DEF process_set_min_pin_length, Begin, Shape
<1>11. QED
  BY <1>5, <1>6, <1>7, <1>8, <1>9, <1>10 DEF TypeOK, Shape

\* Types, over the setting that always asks for user verification.
LEMMA ToggleStep ==
    ASSUME TypeOK, Shape, NEW a \in Auths, toggle_always_uv(a)
    PROVE  TypeOK' /\ Shape'
<1>1. "always_uv" \in Keys
  BY DEF Keys
<1>2. \A v \in {NoEntry, NoBytes} : Update("always_uv", v) \in Updates
  BY <1>1, EmptyIsValue, UpdateType DEF TypeOK
<1>3. \E v \in {NoEntry, NoBytes} : todo' = <<Update("always_uv", v)>>
  BY DEF toggle_always_uv
<1>4. todo' \in Seq(Updates) /\ todo' # <<>>
  BY <1>2, <1>3
<1>5. DiskType'
  BY <1>4, TodoType DEF toggle_always_uv
<1>6. MemoryType'
  BY BeginType DEF toggle_always_uv, memory, TypeOK, MemoryType
<1>7. op' = "write" /\ req' = NoReq /\ CommandType'
  BY DEF toggle_always_uv, CommandType
<1>8. HistoryType'
  BY DEF toggle_always_uv, counts, past, TypeOK, HistoryType
<1>9. stage' = "whole"
  BY DEF toggle_always_uv, Begin, Shape
<1>10. QED
  BY <1>4, <1>5, <1>6, <1>7, <1>8, <1>9 DEF TypeOK, Shape

\* MakeCredential and GetAssertion.
LEMMA UseStep ==
    ASSUME TypeOK, Shape, NEW a \in Auths, NEW rp \in RPs, NEW up \in BOOLEAN,
           process_make_credential(a, rp) \/ process_get_assertion(a, rp, up)
    PROVE  TypeOK' /\ Shape'
<1>1. UNCHANGED disk /\ UNCHANGED damaged /\ todo = <<>>
  BY DEF process_make_credential, process_get_assertion, Shape
<1>2. DiskType' /\ todo' = <<>> /\ stage' = "whole"
  BY <1>1 DEF disk, TypeOK, DiskType, Shape
<1>3. op' \in {"idle", "presence"} /\ req' = NoReq
  BY DEF process_make_credential, process_get_assertion
<1>4. CommandType'
  BY <1>3 DEF CommandType
<1>5. \/ ensure_rp_id_permission(rp)
      \/ UNCHANGED bound_to /\ token' = CurrentToken
  BY DEF process_make_credential, process_get_assertion, WithToken, WithoutToken
<1>6. token' \in Tokens
  <2>1. [CurrentToken EXCEPT !.rp = rp] \in Tokens
    BY CurrentTokenType DEF TypeOK, Tokens
  <2>2. QED
    BY <1>5, <2>1, CurrentTokenType DEF TypeOK, ensure_rp_id_permission
<1>7. bound_to' \subseteq RPs
  BY <1>5 DEF ensure_rp_id_permission, TypeOK, HistoryType
<1>8. reset_ok' \in BOOLEAN
  BY DEF process_make_credential, process_get_assertion, TypeOK, MemoryType
<1>9. UNCHANGED <<memory, counts>>
  BY DEF process_make_credential, process_get_assertion
<1>10. MemoryType'
  BY <1>6, <1>8, <1>9 DEF memory, TypeOK, MemoryType
<1>11. spent' \in BOOLEAN
  BY DEF process_make_credential, process_get_assertion, TypeOK, HistoryType
<1>12. HistoryType'
  BY <1>7, <1>9, <1>11 DEF counts, TypeOK, HistoryType
<1>13. QED
  BY <1>2, <1>3, <1>4, <1>10, <1>12 DEF TypeOK, Shape

\* The user's answer, and the steps that change little else than a flag.
LEMMA SmallStep ==
    ASSUME TypeOK, Shape,
           \/ \E p \in Protocols : process_get_key_agreement(p)
           \/ Consent \/ NoConsent \/ BeginReset \/ ResetCloses \/ Tick
    PROVE  TypeOK' /\ Shape'
<1>1. /\ UNCHANGED disk /\ UNCHANGED damaged /\ UNCHANGED counts
      /\ todo = <<>>
  BY DEF process_get_key_agreement, Begin, Consent, NoConsent, BeginReset, ResetCloses, Tick,
         past, Shape
<1>2. DiskType' /\ todo' = <<>> /\ stage' = "whole"
  BY <1>1 DEF disk, TypeOK, DiskType, Shape
<1>3. /\ op' \in {"idle", "presence", "reset"}
      /\ req' = NoReq \/ req' = req
  BY DEF process_get_key_agreement, Begin, Consent, NoConsent, BeginReset, ResetCloses, Tick,
         command, Finish
<1>4. CommandType'
  BY <1>3 DEF TypeOK, CommandType
<1>5. token' \in Tokens
  <2>1. CASE Consent
    BY <2>1 DEF Consent, clear_token_flags, TypeOK, MemoryType, Tokens
  <2>2. CASE Tick
    <3>1. token.age + 1 \in 0..(UsageLimit + 1)
      BY <2>2 DEF Tick, TypeOK, MemoryType, Tokens
    <3>2. QED
      BY <2>2, <3>1 DEF Tick, TypeOK, MemoryType, Tokens
  <2>3. CASE token' \in {token, CurrentToken}
    BY <2>3, CurrentTokenType DEF TypeOK, MemoryType
  <2>4. QED
    BY <2>1, <2>2, <2>3 DEF process_get_key_agreement, Begin, NoConsent, BeginReset, ResetCloses
<1>6. mismatches' \in 0..3 /\ agreed' \subseteq Protocols /\ live' \subseteq Protocols
  BY DEF process_get_key_agreement, Consent, NoConsent, BeginReset, ResetCloses, Tick,
         memory, TypeOK, MemoryType
<1>7. reset_ok' \in BOOLEAN
  BY DEF process_get_key_agreement, Begin, Consent, NoConsent, BeginReset, ResetCloses, Tick,
         TypeOK, MemoryType
<1>8. spent' \in BOOLEAN
  BY DEF process_get_key_agreement, Consent, NoConsent, BeginReset, ResetCloses, Tick,
         past, TypeOK, HistoryType
<1>9. bound_to' \subseteq RPs
  BY DEF process_get_key_agreement, Consent, NoConsent, BeginReset, ResetCloses, Tick,
         past, TypeOK, HistoryType
<1>10. HistoryType'
  BY <1>1, <1>8, <1>9 DEF counts, TypeOK, HistoryType
<1>11. QED
  BY <1>2, <1>3, <1>4, <1>5, <1>6, <1>7, <1>10 DEF TypeOK, MemoryType, Shape

\* Types, over the deletion of all keys by a Reset.
LEMMA ResetStep ==
    ASSUME TypeOK, Shape, process_reset
    PROVE  TypeOK' /\ Shape'
<1>1. todo' = <<>> /\ stage' = "whole"
  BY DEF process_reset, Shape
<1>2. store' \in [Keys -> Int] /\ \A k \in Keys : store'[k] \in Values(k)
  BY EmptyIsValue DEF process_reset, NoEntry
<1>3. DiskType'
  BY <1>1, <1>2 DEF process_reset, DiskType
<1>4. CommandType' /\ op' = "idle"
  BY FinishType DEF process_reset, Finish
<1>5. mismatches' = 0 /\ agreed' = {} /\ live' = {} /\ token' = Stopped
  BY DEF process_reset
<1>6. reset_ok' \in BOOLEAN /\ spent' \in BOOLEAN
  BY DEF process_reset, TypeOK, MemoryType
<1>7. guesses' = 0 /\ boot_guesses' = 0 /\ allowance' = MaxRetries /\ bound_to' = {}
  BY DEF process_reset
<1>8. MemoryType' /\ HistoryType'
  BY <1>5, <1>6, <1>7, CurrentTokenType DEF TypeOK, MemoryType, HistoryType
<1>9. QED
  BY <1>1, <1>3, <1>4, <1>8 DEF TypeOK, Shape

\* Types, over a step that changes nothing.
LEMMA StutterStep == TypeOK /\ Shape /\ UNCHANGED vars => TypeOK' /\ Shape'
<1> SUFFICES ASSUME TypeOK, Shape, UNCHANGED vars PROVE TypeOK' /\ Shape'
  OBVIOUS
<1>1. UNCHANGED <<disk, command, memory, token, reset_ok, counts, past, damaged>>
  BY DEF vars
<1>2. UNCHANGED <<todo, stage, op, req, mismatches>>
  BY <1>1 DEF disk, command, memory
<1>3. DiskType' /\ CommandType'
  BY <1>1 DEF TypeOK, DiskType, CommandType, disk, command
<1>4. MemoryType' /\ HistoryType'
  BY <1>1 DEF TypeOK, MemoryType, HistoryType, memory, counts, past
<1>5. QED
  BY <1>2, <1>3, <1>4 DEF TypeOK, Shape

\* Types: every state of ClientPin is of the types its declarations name, an
\* entry of the store always holds nothing, an empty value or one that parses.
THEOREM TypeCorrect == Spec => [](TypeOK /\ Shape)
<1>1. TypeOK /\ Shape /\ [Next]_vars => TypeOK' /\ Shape'
  BY StoreStep, PowerLossStep, SetPinStep, VerifyStep, CompareStep, MatchStep, StoreNewPinStep,
     EndStep, MinLengthStep, ToggleStep, UseStep, SmallStep, ResetStep, StutterStep
     DEF Next
<1>2. QED
  BY <1>1, InitType, PTL DEF Spec

(***************************************************************************)
(* The bound on guesses.                                                   *)
(***************************************************************************)
\* An unreadable counter refuses every guess.
Count == IF store["retries"] = NoBytes THEN 0 ELSE RetriesLeft

\* A decrement on its way: the guess it pays for fits, whatever the store says.
Paid ==
    /\ todo[1].key = "retries" /\ todo[1].val \in 0..MaxRetries
    /\ guesses + 1 + todo[1].val <= allowance
    /\ todo[1].old = NoEntry => guesses + MaxRetries <= allowance
    /\ stage = "whole" => guesses + Count <= allowance
    /\ stage = "created" => store["retries"] = NoBytes

\* Other commands only ever remove the counter, when no guess is left to count.
Refill ==
    \A i \in 1..Len(todo) :
        todo[i].key = "retries" =>
            todo[i].val = NoEntry /\ guesses = 0 /\ MaxRetries <= allowance

Budget ==
    IF op = "verify"
      THEN IF todo = <<>>
             THEN /\ store["retries"] \in 0..MaxRetries
                  /\ guesses + 1 + store["retries"] <= allowance
             ELSE Paid
      ELSE Refill /\ guesses + Count <= allowance

\* An absent counter reads as full and a stored one is at most that.
LEMMA CountType == ASSUME DiskType PROVE Count \in 0..MaxRetries
BY Left DEF Count

\* Nothing has been guessed at the first power-up.
LEMMA InitBudget == Init => Budget
<1> SUFFICES ASSUME Init PROVE Budget
  OBVIOUS
<1>1. store["retries"] = NoEntry
  BY DEF Init, Keys
<1>2. Count = MaxRetries
  BY <1>1 DEF Count, RetriesLeft, NoEntry, NoBytes
<1>3. QED
  BY <1>2 DEF Init, Budget, Refill

\* A step between commands other than a comparison that has the counter neither
\* written nor about to be.
LEMMA QuietStep ==
    ASSUME Budget, op # "verify", op' # "verify",
           UNCHANGED <<store, guesses, allowance>>,
           \/ todo' = todo
           \/ \A i \in 1..Len(todo') : todo'[i].key # "retries"
    PROVE  Budget'
BY DEF Budget, Refill, Count, RetriesLeft

\* Deleting the counter is paid for by the update that is under way.
LEMMA DeleteBudget ==
    ASSUME TypeOK, Shape, Budget, PddbDelete
    PROVE  Budget'
<1>1. /\ todo # <<>> /\ stage = "whole" /\ Head(todo) = todo[1]
      /\ Head(todo).key \in Keys /\ Len(Tail(todo)) = Len(todo) - 1
      /\ \A i \in 1..Len(Tail(todo)) : Tail(todo)[i] = todo[i + 1]
      /\ Len(todo) \in Nat /\ Len(todo) > 0
  BY HeadType DEF PddbDelete, TypeOK, DiskType
<1>2. UNCHANGED <<op, guesses, allowance>>
  BY DEF PddbDelete, command, counts
<1>3. store' = [store EXCEPT ![todo[1].key] = NoEntry] /\ store \in [Keys -> Int]
  BY <1>1 DEF PddbDelete, TypeOK, DiskType
<1>4. guesses \in Nat /\ allowance \in Nat
  BY DEF TypeOK, HistoryType
<1>5. CASE op = "verify"
  <2>1. Paid /\ todo[1].val # NoEntry
    BY <1>1, <1>5 DEF Budget, Paid, NoEntry
  <2>2. todo' = todo /\ stage' = "deleted"
    BY <1>1, <2>1 DEF PddbDelete
  <2>3. QED
    BY <1>1, <1>2, <1>5, <2>1, <2>2 DEF Budget, Paid
<1>6. CASE op # "verify"
  <2>1. Refill /\ guesses + Count <= allowance
    BY <1>6 DEF Budget
  <2>2. Refill'
    <3>1. CASE todo' = todo
      BY <1>2, <2>1, <3>1 DEF Refill
    <3>2. CASE todo' = Tail(todo)
      <4>1. \A i \in 1..Len(Tail(todo)) : i + 1 \in 1..Len(todo)
        BY <1>1
      <4>2. QED
        BY <1>1, <1>2, <2>1, <3>2, <4>1 DEF Refill
    <3>3. QED
      BY <3>1, <3>2 DEF PddbDelete
  <2>3. CASE todo[1].key = "retries"
    <3>1. guesses = 0 /\ MaxRetries <= allowance
      BY <1>1, <2>1, <2>3 DEF Refill
    <3>2. Count' = MaxRetries
      BY <1>1, <1>3, <2>3 DEF Count, RetriesLeft, NoEntry, NoBytes
    <3>3. QED
      BY <1>2, <1>6, <2>2, <3>1, <3>2 DEF Budget
  <2>4. CASE todo[1].key # "retries"
    <3>1. store'["retries"] = store["retries"]
      BY <1>3, <2>4 DEF Keys
    <3>2. Count' = Count
      BY <3>1 DEF Count, RetriesLeft
    <3>3. QED
      BY <1>2, <1>6, <2>1, <2>2, <3>2 DEF Budget
  <2>5. QED
    BY <2>3, <2>4
<1>7. QED
  BY <1>5, <1>6

\* Creating the entry leaves the budget as it is.
LEMMA CreateBudget ==
    ASSUME TypeOK, Shape, Budget, PddbCreate
    PROVE  Budget'
<1>1. todo # <<>> /\ stage = "deleted" /\ Head(todo) = todo[1] /\ Len(todo) > 0
  BY HeadType DEF PddbCreate, TypeOK, DiskType
<1>2. UNCHANGED <<op, guesses, allowance, todo>> /\ stage' = "created"
  BY DEF PddbCreate, command, counts
<1>3. store' = [store EXCEPT ![todo[1].key] = NoBytes] /\ store \in [Keys -> Int]
  BY <1>1 DEF PddbCreate, TypeOK, DiskType
<1>4. guesses \in Nat /\ allowance \in Nat /\ Count \in Nat
  BY CountType DEF TypeOK, HistoryType
<1>5. CASE op = "verify"
  <2>1. Paid
    BY <1>1, <1>5 DEF Budget
  <2>2. store'["retries"] = NoBytes
    BY <1>3, <2>1 DEF Paid, Keys
  <2>3. QED
    BY <1>1, <1>2, <1>5, <2>1, <2>2 DEF Budget, Paid
<1>6. CASE op # "verify"
  <2>1. Refill /\ guesses + Count <= allowance
    BY <1>6 DEF Budget
  <2>2. Count' \in {0, Count}
    BY <1>3 DEF Count, RetriesLeft, Keys
  <2>3. Refill'
    BY <1>2, <2>1 DEF Refill
  <2>4. guesses' + Count' <= allowance'
    <3>1. guesses + Count <= allowance /\ guesses + 0 <= allowance
      BY <1>4, <2>1
    <3>2. guesses + Count' <= allowance
      BY <2>2, <3>1
    <3>3. QED
      BY <1>2, <3>2
  <2>5. QED
    BY <1>2, <1>6, <2>3, <2>4 DEF Budget
<1>7. QED
  BY <1>5, <1>6

\* Writing the counter makes the budget of the update that of the store.
LEMMA WriteBudget ==
    ASSUME TypeOK, Shape, Budget, PddbWrite
    PROVE  Budget'
<1>1. /\ todo # <<>> /\ stage = "created" /\ Head(todo) = todo[1]
      /\ Head(todo).key \in Keys /\ Len(Tail(todo)) = Len(todo) - 1
      /\ \A i \in 1..Len(Tail(todo)) : Tail(todo)[i] = todo[i + 1]
      /\ Len(todo) \in Nat /\ Len(todo) > 0
  BY HeadType DEF PddbWrite, TypeOK, DiskType
<1>2. UNCHANGED <<op, guesses, allowance>> /\ todo' = Tail(todo) /\ stage' = "whole"
  BY DEF PddbWrite, command, counts
<1>3. store' = [store EXCEPT ![todo[1].key] = todo[1].val] /\ store \in [Keys -> Int]
  BY <1>1 DEF PddbWrite, TypeOK, DiskType
<1>4. CASE op = "verify"
  <2>1. Paid
    BY <1>1, <1>4 DEF Budget
  <2>2. store'["retries"] = todo[1].val
    BY <1>1, <1>3, <2>1 DEF Paid
  <2>3. todo' = <<>>
    BY <1>1, <1>2, <1>4, HeadType DEF Shape, TypeOK, DiskType
  <2>4. QED
    BY <1>2, <1>4, <2>1, <2>2, <2>3 DEF Budget, Paid
<1>5. CASE op # "verify"
  <2>1. Refill /\ guesses + Count <= allowance
    BY <1>5 DEF Budget
  <2>2. todo[1].key # "retries"
    BY <1>1, <2>1 DEF Refill, Shape
  <2>3. store'["retries"] = store["retries"]
    BY <1>3, <2>2 DEF Keys
  <2>4. Count' = Count
    BY <2>3 DEF Count, RetriesLeft
  <2>5. \A i \in 1..Len(Tail(todo)) : i + 1 \in 1..Len(todo)
    BY <1>1
  <2>6. Refill'
    BY <1>1, <1>2, <2>1, <2>5 DEF Refill
  <2>7. QED
    BY <1>2, <1>5, <2>1, <2>4, <2>6 DEF Budget
<1>6. QED
  BY <1>4, <1>5

\* A counter that the power takes is one more full counter.
LEMMA PowerLossBudget ==
    ASSUME TypeOK, Shape, Budget, PowerLoss
    PROVE  Budget'
<1>1. /\ op' = "idle" /\ todo' = <<>> /\ UNCHANGED <<store, guesses>>
      /\ allowance' = IF LostRetries THEN allowance + MaxRetries ELSE allowance
  BY DEF PowerLoss
<1>2. /\ guesses \in Nat /\ allowance \in Nat /\ Count \in 0..MaxRetries
      /\ store \in [Keys -> Int]
  BY CountType DEF TypeOK, HistoryType, DiskType
<1>3. Count' = Count /\ Refill'
  BY <1>1 DEF Count, RetriesLeft, Refill
<1>4. guesses + Count <= allowance'
  <2>1. CASE op # "verify"
    BY <1>1, <1>2, <2>1 DEF Budget
  <2>2. CASE op = "verify" /\ todo = <<>>
    <3>1. store["retries"] \in 0..MaxRetries /\ guesses + 1 + store["retries"] <= allowance
      BY <2>2 DEF Budget
    <3>2. Count = store["retries"]
      BY <3>1 DEF Count, RetriesLeft, NoEntry, NoBytes
    <3>3. QED
      BY <1>1, <1>2, <3>1, <3>2
  <2>3. CASE op = "verify" /\ todo # <<>>
    <3>1. Paid /\ Head(todo) = todo[1]
      BY <2>3, HeadType DEF Budget, TypeOK
    <3>2. guesses <= allowance
      BY <1>2, <3>1 DEF Paid
    <3>3. CASE LostRetries
      BY <1>1, <1>2, <3>2, <3>3
    <3>4. CASE ~LostRetries /\ stage = "deleted"
      <4>1. guesses + MaxRetries <= allowance
        BY <2>3, <3>1, <3>4 DEF LostRetries, Paid
      <4>2. QED
        BY <1>1, <1>2, <3>4, <4>1
    <3>5. CASE stage = "created"
      <4>1. store["retries"] = NoBytes
        BY <3>1, <3>5 DEF Paid
      <4>2. QED
        BY <1>1, <1>2, <3>2, <4>1 DEF Count
    <3>6. CASE stage = "whole"
      BY <1>1, <1>2, <3>1, <3>6 DEF Paid
    <3>7. QED
      BY <3>3, <3>4, <3>5, <3>6 DEF TypeOK, DiskType
  <2>4. QED
    BY <2>1, <2>2, <2>3
<1>5. QED
  BY <1>1, <1>3, <1>4 DEF Budget

\* Setting a first PIN removes the counter when no guess is left to count.
LEMMA SetPinBudget ==
    ASSUME TypeOK, Budget, NEW p \in Protocols, NEW pin \in Pins, process_set_pin(p, pin)
    PROVE  Budget'
<1>1. /\ op' = "write" /\ guesses' = 0 /\ allowance' = MaxRetries /\ UNCHANGED store
      /\ todo' = <<Update("pin", pin), Update("force", NoEntry), Update("retries", NoEntry)>>
  BY DEF process_set_pin
<1>2. /\ Update("pin", pin).key = "pin" /\ Update("force", NoEntry).key = "force"
      /\ Update("retries", NoEntry).val = NoEntry
  BY DEF Update
<1>3. Refill'
  BY <1>1, <1>2 DEF Refill
<1>4. Count \in 0..MaxRetries /\ Count' = Count
  BY <1>1, CountType DEF Count, RetriesLeft, TypeOK
<1>5. guesses' + Count' <= allowance'
  BY <1>1, <1>4
<1>6. QED
  BY <1>1, <1>3, <1>5 DEF Budget

\* A guess is paid for before it is compared.
LEMMA VerifyBudget ==
    ASSUME TypeOK, Shape, Budget, NEW r, verify_pin_hash_enc(r)
    PROVE  Budget'
<1>1. /\ op = "idle" /\ op' = "verify" /\ UNCHANGED <<store, stage, guesses, allowance>>
      /\ store["retries"] \notin {0, NoBytes} /\ todo = <<>>
  BY DEF verify_pin_hash_enc, Begin, counts, Shape
<1>2. RetriesLeft \in 1..MaxRetries
  BY <1>1, Left DEF RetriesLeft, TypeOK
<1>3. todo' = <<Update("retries", RetriesLeft - 1)>>
  BY <1>2 DEF verify_pin_hash_enc, Decrement
<1>4. todo'[1] = Update("retries", RetriesLeft - 1) /\ todo' # <<>> /\ stage' = "whole"
  BY <1>1, <1>3 DEF Shape
<1>5. /\ todo'[1].key = "retries" /\ todo'[1].val = RetriesLeft - 1
      /\ todo'[1].old = store["retries"]
  BY <1>4 DEF Update
<1>6. Count = RetriesLeft /\ Count' = RetriesLeft /\ guesses + Count <= allowance
  BY <1>1 DEF Budget, Count, RetriesLeft
<1>7. store["retries"] = NoEntry => RetriesLeft = MaxRetries
  BY DEF RetriesLeft
<1>8. guesses \in Nat /\ allowance \in Nat
  BY DEF TypeOK, HistoryType
<1>9. Paid'
  BY <1>1, <1>2, <1>4, <1>5, <1>6, <1>7, <1>8 DEF Paid
<1>10. QED
  BY <1>1, <1>4, <1>9 DEF Budget

\* A wrong guess spends what was paid.
LEMMA CompareBudget ==
    ASSUME TypeOK, Budget, Undecryptable \/ Mismatch
    PROVE  Budget'
<1>1. /\ op = "verify" /\ todo = <<>> /\ UNCHANGED <<store, todo, allowance>>
      /\ op' = "idle" /\ guesses' \in {guesses, guesses + 1}
  BY DEF Undecryptable, Mismatch, disk, counts, Finish
<1>2. store["retries"] \in 0..MaxRetries /\ guesses + 1 + store["retries"] <= allowance
  BY <1>1 DEF Budget
<1>3. guesses \in Nat /\ allowance \in Nat
  BY DEF TypeOK, HistoryType
<1>4. Count' = store["retries"]
  BY <1>1, <1>2 DEF Count, RetriesLeft, NoEntry, NoBytes
<1>5. Refill'
  BY <1>1 DEF Refill
<1>6. guesses' + Count' <= allowance'
  BY <1>1, <1>2, <1>3, <1>4
<1>7. QED
  BY <1>1, <1>5, <1>6 DEF Budget

\* The right PIN resets the guesses, and so the counter may be removed.
LEMMA MatchBudget ==
    ASSUME TypeOK, Budget, Match
    PROVE  Budget'
<1>1. /\ op' = "verified" /\ guesses' = 0 /\ allowance' = MaxRetries /\ UNCHANGED store
      /\ todo' = <<Update("retries", NoEntry)>>
  BY DEF Match
<1>2. Update("retries", NoEntry).val = NoEntry
  BY DEF Update
<1>3. Refill'
  BY <1>1, <1>2 DEF Refill
<1>4. Count \in 0..MaxRetries /\ Count' = Count
  BY <1>1, CountType DEF Count, RetriesLeft, TypeOK
<1>5. guesses' + Count' <= allowance'
  BY <1>1, <1>4
<1>6. QED
  BY <1>1, <1>3, <1>5 DEF Budget

\* Of two sequences none of whose elements has a property, nor has the two in one.
LEMMA ConcatKeys ==
    ASSUME NEW S, NEW s \in Seq(S), NEW t \in Seq(S), NEW k,
           \A i \in 1..Len(s) : s[i].key # k, \A i \in 1..Len(t) : t[i].key # k
    PROVE  \A i \in 1..Len(s \o t) : (s \o t)[i].key # k
<1>1. /\ Len(s) \in Nat /\ Len(t) \in Nat /\ Len(s \o t) = Len(s) + Len(t)
      /\ \A i \in 1..Len(s) + Len(t) :
            (s \o t)[i] = IF i <= Len(s) THEN s[i] ELSE t[i - Len(s)]
  BY ConcatProperties
<1>2. SUFFICES ASSUME NEW i \in 1..Len(s) + Len(t) PROVE (s \o t)[i].key # k
  BY <1>1
<1>3. CASE i <= Len(s)
  <2>1. i \in 1..Len(s) /\ (s \o t)[i] = s[i]
    BY <1>1, <1>3
  <2>2. QED
    BY <2>1
<1>4. CASE ~(i <= Len(s))
  <2>1. i - Len(s) \in 1..Len(t) /\ (s \o t)[i] = t[i - Len(s)]
    BY <1>1, <1>4
  <2>2. QED
    BY <2>1
<1>5. QED
  BY <1>3, <1>4

\* A new PIN hash and a new policy are kept in other keys than the counter.
LEMMA PolicyBudget ==
    ASSUME TypeOK, Shape, Budget,
           \/ StoreNewPin
           \/ \E a \in Auths, new \in Lengths, force \in BOOLEAN :
                 process_set_min_pin_length(a, new, force)
           \/ \E a \in Auths : toggle_always_uv(a)
    PROVE  Budget'
<1>1. \A k, v : Update(k, v).key = k
  BY DEF Update
<1>2. CASE StoreNewPin
  <2>1. \/ todo' = todo
        \/ todo' = <<Update("pin", req.new), Update("force", NoEntry)>>
    BY <1>2 DEF StoreNewPin
  <2>2. \/ todo' = todo
        \/ \A i \in 1..Len(todo') : todo'[i].key # "retries"
    BY <1>1, <2>1
  <2>3. op # "verify" /\ op' # "verify" /\ UNCHANGED <<store, guesses, allowance>>
    BY <1>2 DEF StoreNewPin, Finish, counts
  <2>4. QED
    BY <2>2, <2>3, QuietStep
<1>3. CASE \E a \in Auths, new \in Lengths, force \in BOOLEAN :
             process_set_min_pin_length(a, new, force)
  <2>1. PICK new \in Lengths :
          \/ todo' = <<>> \o <<Update("min", new)>>
          \/ todo' = <<Update("force", NoBytes)>> \o <<Update("min", new)>>
    BY <1>3 DEF process_set_min_pin_length
  <2>2. \A i \in 1..Len(todo') : todo'[i].key # "retries"
    <3> DEFINE S == {Update("min", new), Update("force", NoBytes)}
               n == <<>>
               m == <<Update("min", new)>>
               f == <<Update("force", NoBytes)>>
    <3>1. n \in Seq(S) /\ \A i \in 1..Len(n) : n[i].key # "retries"
      OBVIOUS
    <3>2. m \in Seq(S) /\ \A i \in 1..Len(m) : m[i].key # "retries"
      BY <1>1
    <3>3. f \in Seq(S) /\ \A i \in 1..Len(f) : f[i].key # "retries"
      BY <1>1
    <3>4. todo' = n \o m \/ todo' = f \o m
      BY <2>1
    <3>5. QED
      <4> HIDE DEF S, n, m, f
      <4>1. \A i \in 1..Len(n \o m) : (n \o m)[i].key # "retries"
        BY <3>1, <3>2, ConcatKeys
      <4>2. \A i \in 1..Len(f \o m) : (f \o m)[i].key # "retries"
        BY <3>2, <3>3, ConcatKeys
      <4>3. QED
        BY <3>4, <4>1, <4>2
  <2>3. op # "verify" /\ op' # "verify" /\ UNCHANGED <<store, guesses, allowance>>
    BY <1>3 DEF process_set_min_pin_length, Begin, counts
  <2>4. QED
    BY <2>2, <2>3, QuietStep
<1>4. CASE \E a \in Auths : toggle_always_uv(a)
  <2>1. \E v \in {NoEntry, NoBytes} : todo' = <<Update("always_uv", v)>>
    BY <1>4 DEF toggle_always_uv
  <2>2. \A i \in 1..Len(todo') : todo'[i].key # "retries"
    BY <1>1, <2>1
  <2>3. op # "verify" /\ op' # "verify" /\ UNCHANGED <<store, guesses, allowance>>
    BY <1>4 DEF toggle_always_uv, Begin, counts
  <2>4. QED
    BY <2>2, <2>3, QuietStep
<1>5. QED
  BY <1>2, <1>3, <1>4

\* What neither writes the store nor compares a PIN leaves the budget as it is.
LEMMA OtherBudget ==
    ASSUME TypeOK, Budget,
           \/ FinishChange \/ IssueToken \/ RefuseToken \/ FinishWrite
           \/ \E p \in Protocols : process_get_key_agreement(p)
           \/ \E a \in Auths, rp \in RPs : process_make_credential(a, rp)
           \/ \E a \in Auths, rp \in RPs, up \in BOOLEAN : process_get_assertion(a, rp, up)
           \/ Consent \/ NoConsent \/ BeginReset \/ ResetCloses \/ Tick
    PROVE  Budget'
<1>1. UNCHANGED disk /\ UNCHANGED counts
  BY DEF FinishChange, IssueToken, RefuseToken, FinishWrite, process_get_key_agreement,
         process_make_credential, process_get_assertion, Consent, NoConsent, BeginReset,
         ResetCloses, Tick
<1>2. op # "verify"
  BY DEF FinishChange, IssueToken, RefuseToken, FinishWrite, process_get_key_agreement, Begin,
         process_make_credential, process_get_assertion, Consent, NoConsent, BeginReset,
         ResetCloses, Tick
<1>3. op' # "verify"
  BY <1>2 DEF FinishChange, IssueToken, RefuseToken, FinishWrite, process_get_key_agreement,
         process_make_credential, process_get_assertion, Consent, NoConsent, BeginReset,
         ResetCloses, Tick, Finish, command
<1>4. QED
  BY <1>1, <1>2, <1>3, QuietStep DEF disk, counts

\* A Reset deletes the PIN with its counter.
LEMMA ResetBudget ==
    ASSUME TypeOK, Shape, Budget, process_reset
    PROVE  Budget'
<1>1. /\ op' = "idle" /\ todo' = <<>> /\ guesses' = 0 /\ allowance' = MaxRetries
      /\ store' = [k \in Keys |-> NoEntry]
  BY DEF process_reset, Finish, Shape
<1>2. Count' = MaxRetries
  BY <1>1 DEF Count, RetriesLeft, Keys, NoEntry, NoBytes
<1>3. Refill'
  BY <1>1 DEF Refill
<1>4. QED
  BY <1>1, <1>2, <1>3 DEF Budget

\* The budget, over a step that changes nothing.
LEMMA StutterBudget == ASSUME Budget, UNCHANGED vars PROVE Budget'
<1>1. UNCHANGED <<store, todo, stage, op, guesses, allowance>>
  BY DEF vars, disk, command, counts
<1>2. QED
  BY <1>1 DEF Budget, Paid, Refill, Count, RetriesLeft

\* The budget, over every step.
LEMMA BudgetStep == TypeOK /\ Shape /\ Budget /\ [Next]_vars => Budget'
BY DeleteBudget, CreateBudget, WriteBudget, PowerLossBudget, SetPinBudget, VerifyBudget,
   CompareBudget, MatchBudget, PolicyBudget, OtherBudget, ResetBudget, StutterBudget
   DEF Next

\* What the budget says of the guesses is the bound.
LEMMA BudgetBounds == TypeOK /\ Budget => GuessesBounded
<1> SUFFICES ASSUME TypeOK, Budget PROVE guesses <= allowance
  BY DEF GuessesBounded
<1>1. guesses \in Nat /\ allowance \in Nat /\ Count \in 0..MaxRetries
  BY CountType DEF TypeOK, HistoryType
<1>2. CASE op = "verify" /\ todo = <<>>
  BY <1>1, <1>2 DEF Budget
<1>3. CASE op = "verify" /\ todo # <<>>
  BY <1>1, <1>3 DEF Budget, Paid
<1>4. CASE op # "verify"
  BY <1>1, <1>4 DEF Budget
<1>5. QED
  BY <1>2, <1>3, <1>4

\* max_pin_retries, for any number of retries: no order of commands and power
\* losses has the PIN compared with more wrong guesses than were granted.
THEOREM GuessesAlwaysBounded == Spec => []GuessesBounded
<1>1. Init => Budget
  BY InitBudget
<1>2. TypeOK /\ Shape /\ Budget /\ [Next]_vars => Budget'
  BY BudgetStep
<1>3. TypeOK /\ Budget => GuessesBounded
  BY BudgetBounds
<1>4. QED
  BY <1>1, <1>2, <1>3, TypeCorrect, PTL DEF Spec

(***************************************************************************)
(* The token: its scope.                                                   *)
(***************************************************************************)
\* One token at most verifies; a spent one keeps only LargeBlobWrite; one that is
\* in use was accepted for no other relying party than the one it is bound to.
Scope ==
    /\ live = {} \/ \E p \in Protocols : live = {p}
    /\ spent => token.perms \subseteq {"LBW"}
    /\ token.in_use => bound_to \subseteq {token.rp}

\* The usage timer only ever takes from a token.
LEMMA TimerTakes ==
    /\ CurrentToken = token \/ CurrentToken = Stopped
    /\ Stopped.in_use = FALSE /\ Stopped.perms = {} /\ Stopped.uv = FALSE
BY DEF CurrentToken, Stopped

\* A step that leaves the history alone, gives out no token and at most stops one.
LEMMA ScopeKept ==
    ASSUME Scope, token' \in {token, CurrentToken}, live' \in {live, {}},
           UNCHANGED <<spent, bound_to>>
    PROVE  Scope'
BY TimerTakes DEF Scope

\* No token has been given out when the authenticator starts.
LEMMA InitScope == Init => Scope
BY TimerTakes DEF Init, Scope

\* The scope, over a token that is given out: it is the only one and is not used yet.
LEMMA IssueScope ==
    ASSUME TypeOK, Shape, Scope, IssueToken
    PROVE  Scope'
<1>1. req \in Changes \cup TokenRequests /\ op = "verified"
  BY DEF IssueToken, Shape, TypeOK, CommandType
<1>2. req.protocol \in Protocols
  BY <1>1 DEF Changes, TokenRequests
<1>3. live' = {req.protocol} /\ spent' = FALSE /\ bound_to' = {}
  BY DEF IssueToken
<1>4. QED
  BY <1>2, <1>3 DEF Scope

\* The scope, over a use of the token: the relying party is the one it gets bound to.
LEMMA UseScope ==
    ASSUME TypeOK, Scope, NEW a \in Auths, NEW rp \in RPs, NEW up \in BOOLEAN,
           process_make_credential(a, rp) \/ process_get_assertion(a, rp, up)
    PROVE  Scope'
<1>1. UNCHANGED <<live, spent>>
  BY DEF process_make_credential, process_get_assertion, memory
<1>2. \/ WithToken(a, "MC", rp) \/ WithToken(a, "GA", rp)
      \/ WithoutToken(a)
  BY DEF process_make_credential, process_get_assertion
<1>3. CASE WithoutToken(a)
  BY <1>1, <1>3, ScopeKept DEF WithoutToken
<1>4. CASE WithToken(a, "MC", rp) \/ WithToken(a, "GA", rp)
  <2>1. /\ CurrentToken.in_use /\ CurrentToken.rp \in {NoRp, rp}
        /\ token' = [CurrentToken EXCEPT !.rp = rp] /\ bound_to' = bound_to \cup {rp}
    BY <1>4 DEF WithToken, Accepts, ensure_rp_id_permission
  <2>2. CurrentToken = token
    BY <2>1, TimerTakes
  <2>3. token \in Tokens /\ bound_to \subseteq RPs
    BY DEF TypeOK, MemoryType, HistoryType
  <2>4. token'.perms = token.perms /\ token'.rp = rp
    BY <2>1, <2>2, <2>3 DEF Tokens
  <2>5. bound_to \subseteq {token.rp}
    BY <2>1, <2>2 DEF Scope
  <2>6. bound_to \subseteq {rp}
    BY <2>1, <2>2, <2>3, <2>5, RPsAssumption
  <2>7. QED
    BY <1>1, <2>1, <2>4, <2>6 DEF Scope
<1>5. QED
  BY <1>2, <1>3, <1>4

\* The scope, over the user's consent: what is left of the token writes large blobs.
LEMMA ConsentScope ==
    ASSUME TypeOK, Scope, Consent
    PROVE  Scope'
<1>1. token \in Tokens
  BY DEF TypeOK, MemoryType
<1>2. token' = [token EXCEPT !.uv = FALSE, !.perms = token.perms \cap {"LBW"}]
  BY DEF Consent, clear_token_flags
<1>3. token'.perms \subseteq {"LBW"} /\ token'.in_use = token.in_use /\ token'.rp = token.rp
  BY <1>1, <1>2 DEF Tokens
<1>4. UNCHANGED <<live, bound_to>>
  BY DEF Consent, memory
<1>5. QED
  BY <1>3, <1>4 DEF Scope

\* The scope, over a tick of the usage timer.
LEMMA TickScope ==
    ASSUME TypeOK, Scope, Tick
    PROVE  Scope'
<1>1. token \in Tokens /\ token' = [token EXCEPT !.age = token.age + 1]
  BY DEF Tick, TypeOK, MemoryType
<1>2. token'.perms = token.perms /\ token'.in_use = token.in_use /\ token'.rp = token.rp
  BY <1>1 DEF Tokens
<1>3. UNCHANGED <<live, spent, bound_to>>
  BY DEF Tick, memory, past
<1>4. QED
  BY <1>2, <1>3 DEF Scope

\* The scope, over a power loss or a Reset: there is no token any more.
LEMMA RestartScope == ASSUME PowerLoss \/ process_reset PROVE Scope'
<1>1. live' = {} /\ token' = Stopped /\ spent' = FALSE
  BY DEF PowerLoss, process_reset
<1>2. QED
  BY <1>1, TimerTakes DEF Scope

\* The scope, over every other step.
LEMMA OtherScope ==
    ASSUME Scope,
           \/ PddbDelete \/ PddbCreate \/ PddbWrite
           \/ \E p \in Protocols : process_get_key_agreement(p)
           \/ \E p \in Protocols, pin \in Pins : process_set_pin(p, pin)
           \/ \E r \in Changes \cup TokenRequests : verify_pin_hash_enc(r)
           \/ Undecryptable \/ Mismatch \/ Match
           \/ StoreNewPin \/ FinishChange \/ RefuseToken
           \/ \E a \in Auths, new \in Lengths, force \in BOOLEAN :
                 process_set_min_pin_length(a, new, force)
           \/ \E a \in Auths : toggle_always_uv(a)
           \/ FinishWrite \/ NoConsent \/ BeginReset \/ ResetCloses
           \/ UNCHANGED vars
    PROVE  Scope'
<1>1. UNCHANGED <<spent, bound_to>>
  BY DEF PddbDelete, PddbCreate, PddbWrite, process_get_key_agreement, process_set_pin,
         verify_pin_hash_enc, Undecryptable, Mismatch, Match, StoreNewPin, FinishChange,
         RefuseToken, process_set_min_pin_length, toggle_always_uv, FinishWrite, NoConsent,
         BeginReset, ResetCloses, vars, past
<1>2. token' \in {token, CurrentToken}
  BY DEF PddbDelete, PddbCreate, PddbWrite, process_get_key_agreement, process_set_pin,
         verify_pin_hash_enc, Undecryptable, Mismatch, Match, StoreNewPin, FinishChange,
         RefuseToken, process_set_min_pin_length, toggle_always_uv, FinishWrite, NoConsent,
         BeginReset, ResetCloses, vars, Begin
<1>3. live' \in {live, {}}
  BY DEF PddbDelete, PddbCreate, PddbWrite, process_get_key_agreement, process_set_pin,
         verify_pin_hash_enc, Undecryptable, Mismatch, Match, StoreNewPin, FinishChange,
         RefuseToken, process_set_min_pin_length, toggle_always_uv, FinishWrite, NoConsent,
         BeginReset, ResetCloses, vars, memory
<1>4. QED
  BY <1>1, <1>2, <1>3, ScopeKept

\* The scope, over every step.
LEMMA ScopeStep == TypeOK /\ Shape /\ Scope /\ [Next]_vars => Scope'
BY IssueScope, UseScope, ConsentScope, TickScope, RestartScope, OtherScope DEF Next

\* The scope is invariant.
LEMMA ScopeCorrect == Spec => []Scope
BY InitScope, ScopeStep, TypeCorrect, PTL DEF Spec

\* At most one token verifies, for any number of protocols: giving one out draws
\* the tokens of all of them anew.
THEOREM OneTokenVerifies == Spec => []OneToken
<1>1. ASSUME Scope PROVE OneToken
  <2>1. CASE live = {}
    BY <2>1, FS_EmptySet DEF OneToken
  <2>2. CASE \E p \in Protocols : live = {p}
    <3>1. PICK p \in Protocols : live = {p}
      BY <2>2
    <3>2. Cardinality({p}) = 1
      BY FS_Singleton
    <3>3. QED
      BY <3>1, <3>2 DEF OneToken
  <2>3. QED
    BY <1>1, <2>1, <2>2 DEF Scope
<1>2. QED
  BY <1>1, ScopeCorrect, PTL

\* clear_token_flags: once the user has consented, no command but a write of large
\* blobs accepts the token, under any protocol and for any relying party.
THEOREM SpentStaysSpent == Spec => []SpentTokenOnlyWritesBlobs
<1>1. Scope => SpentTokenOnlyWritesBlobs
  BY TimerTakes DEF Scope, SpentTokenOnlyWritesBlobs, Accepts
<1>2. QED
  BY <1>1, ScopeCorrect, PTL

\* ensure_rp_id_permission: a token makes credentials and assertions for the
\* relying party it was first used for and for no other, of any number of them.
THEOREM BoundToOneRp == Spec => []OneRpPerToken
<1>1. ASSUME TypeOK, Scope PROVE OneRpPerToken
  <2>1. SUFFICES ASSUME NEW p \in Protocols, NEW perm \in {"MC", "GA"}, NEW rp \in RPs,
                        Accepts(p, perm, rp)
                 PROVE  bound_to \subseteq {rp}
    BY DEF OneRpPerToken
  <2>2. CurrentToken.in_use /\ CurrentToken.rp \in {NoRp, rp}
    BY <2>1 DEF Accepts
  <2>3. CurrentToken = token
    BY <2>2, TimerTakes
  <2>4. bound_to \subseteq {token.rp} /\ bound_to \subseteq RPs
    BY <1>1, <2>2, <2>3 DEF Scope, TypeOK, HistoryType
  <2>5. QED
    BY <2>2, <2>3, <2>4, RPsAssumption
<1>2. QED
  BY <1>1, ScopeCorrect, TypeCorrect, PTL

(***************************************************************************)
(* The token and the PIN it was given out for; the guesses of one boot.    *)
(***************************************************************************)
\* A PIN that is being compared stays; a right one has cleared the guesses.
Verifying ==
    /\ op \in {"verify", "verified"} =>
          store["pin"] \in Pins /\ \A i \in 1..Len(todo) : todo[i].key = "retries"
    /\ op \in {"verified", "change"} => boot_guesses = 0

\* Every wrong guess is counted as a mismatch, but for the one that uses up the
\* retries: after it no PIN is compared, and none is replaced, before power-up.
Counted ==
    \/ boot_guesses <= mismatches
    \/ /\ boot_guesses <= 3
       /\ store["retries"] = 0 /\ store["pin"] \in Pins
       /\ op \in {"idle", "write", "presence", "reset"}
       /\ \A i \in 1..Len(todo) : todo[i].key \notin {"pin", "retries"}

\* While a token verifies, its PIN is replaced by no command but changePin.
PinKept ==
    live # {} => \/ op = "change"
                 \/ /\ issued.pin = store["pin"] /\ store["pin"] \in Pins
                    /\ \A i \in 1..Len(todo) : todo[i].key # "pin"

\* An update names its key.
LEMMA KeyOf == \A k, v : Update(k, v).key = k /\ Update(k, v).val = v /\ Update(k, v).old = store[k]
BY DEF Update

\* One PDDB call changes one key of the store, that of the first update; what is
\* left to be done was to be done before.
LEMMA OneKey ==
    ASSUME TypeOK, PddbDelete \/ PddbCreate \/ PddbWrite
    PROVE  /\ todo # <<>> /\ 1 \in 1..Len(todo) /\ todo[1].key \in Keys
           /\ \A k \in Keys \ {todo[1].key} : store'[k] = store[k]
           /\ \A i \in 1..Len(todo') : \E j \in 1..Len(todo) : todo'[i] = todo[j]
           /\ UNCHANGED <<command, memory, token, reset_ok, counts, past, damaged>>
<1>1. /\ todo # <<>> /\ Head(todo) = todo[1] /\ todo[1].key \in Keys
      /\ Len(Tail(todo)) = Len(todo) - 1 /\ Len(todo) \in Nat
      /\ \A i \in 1..Len(Tail(todo)) : Tail(todo)[i] = todo[i + 1]
  BY HeadType DEF PddbDelete, PddbCreate, PddbWrite, TypeOK, DiskType
<1>2. 1 \in 1..Len(todo)
  BY <1>1 DEF TypeOK, DiskType
<1>3. \E v : store' = [store EXCEPT ![todo[1].key] = v]
  BY <1>1 DEF PddbDelete, PddbCreate, PddbWrite
<1>4. \A k \in Keys \ {todo[1].key} : store'[k] = store[k]
  BY <1>3 DEF TypeOK, DiskType
<1>5. \A i \in 1..Len(todo') : \E j \in 1..Len(todo) : todo'[i] = todo[j]
  <2>1. CASE todo' = todo
    BY <2>1
  <2>2. CASE todo' = Tail(todo)
    <3>1. \A i \in 1..Len(Tail(todo)) : i + 1 \in 1..Len(todo)
      BY <1>1
    <3>2. QED
      BY <1>1, <2>2, <3>1
  <2>3. QED
    BY <2>1, <2>2 DEF PddbDelete, PddbCreate, PddbWrite
<1>6. QED
  BY <1>1, <1>2, <1>4, <1>5 DEF PddbDelete, PddbCreate, PddbWrite

\* Two sequences of one element in a row.
LEMMA PairConcat ==
    ASSUME NEW S, NEW s \in Seq(S), NEW t \in Seq(S), Len(s) = 1, Len(t) = 1
    PROVE  s \o t = <<s[1], t[1]>>
<1>1. /\ s \o t \in Seq(S) /\ Len(s \o t) = Len(s) + Len(t)
      /\ \A i \in 1..Len(s) + Len(t) :
            (s \o t)[i] = IF i <= Len(s) THEN s[i] ELSE t[i - Len(s)]
  BY ConcatProperties
<1>2. Len(s \o t) = 2 /\ (s \o t)[1] = s[1] /\ (s \o t)[2] = t[1]
  BY <1>1
<1>3. s[1] \in S /\ t[1] \in S
  OBVIOUS
<1> DEFINE c == s \o t
           d == <<s[1], t[1]>>
<1>4. d \in Seq(S) /\ Len(d) = 2 /\ d[1] = s[1] /\ d[2] = t[1]
  BY <1>3
<1>5. c \in Seq(S) /\ Len(c) = 2 /\ c[1] = s[1] /\ c[2] = t[1]
  BY <1>1, <1>2
<1>6. c = d
  <2> HIDE DEF c, d
  <2>1. Len(c) = Len(d) /\ \A i \in 1..Len(c) : c[i] = d[i]
    BY <1>4, <1>5
  <2>2. QED
    BY <1>4, <1>5, <2>1, SeqEqual
<1>7. QED
  BY <1>6

\* An update, or one after another.
LEMMA ShortConcat ==
    ASSUME NEW x, NEW y
    PROVE  <<x>> \o <<y>> = <<x, y>> /\ <<>> \o <<y>> = <<y>>
<1>1. <<x>> \in Seq({x, y}) /\ <<y>> \in Seq({x, y})
  OBVIOUS
<1>2. Len(<<x>>) = 1 /\ Len(<<y>>) = 1 /\ <<x>>[1] = x /\ <<y>>[1] = y
  OBVIOUS
<1>3. <<x>> \o <<y>> = <<<<x>>[1], <<y>>[1]>>
  BY <1>1, <1>2, PairConcat
<1>4. <<>> \o <<y>> = <<y>>
  BY <1>1, ConcatEmptySeq
<1>5. QED
  BY <1>2, <1>3, <1>4

\* What setMinPINLength has to write: the mark, when it is called for, then the policy.
LEMMA MinTodo ==
    ASSUME NEW a \in Auths, NEW new \in Lengths, NEW force \in BOOLEAN,
           process_set_min_pin_length(a, new, force)
    PROVE  todo' = IF force \/ (store["pin"] # NoEntry /\ new > PinLength[store["pin"]])
                     THEN <<Update("force", NoBytes), Update("min", new)>>
                     ELSE <<Update("min", new)>>
<1> DEFINE must == force \/ (store["pin"] # NoEntry /\ new > PinLength[store["pin"]])
<1>1. todo' = (IF must THEN <<Update("force", NoBytes)>> ELSE <<>>) \o <<Update("min", new)>>
  BY DEF process_set_min_pin_length
<1>2. QED
  BY <1>1, ShortConcat

\* The PIN, over the PDDB calls.
LEMMA StorePin ==
    ASSUME TypeOK, Verifying, Counted, PinKept, PddbDelete \/ PddbCreate \/ PddbWrite
    PROVE  Verifying' /\ Counted' /\ PinKept'
<1>1. /\ todo # <<>> /\ 1 \in 1..Len(todo)
      /\ \A k \in Keys \ {todo[1].key} : store'[k] = store[k]
      /\ \A i \in 1..Len(todo') : \E j \in 1..Len(todo) : todo'[i] = todo[j]
  BY OneKey
<1>2. UNCHANGED <<op, mismatches, boot_guesses, live, issued>>
  BY OneKey DEF command, memory, counts, past
<1>3. "pin" \in Keys /\ "retries" \in Keys
  BY DEF Keys
<1>4. Verifying'
  BY <1>1, <1>2, <1>3 DEF Verifying
<1>5. Counted'
  BY <1>1, <1>2, <1>3 DEF Counted
<1>6. PinKept'
  BY <1>1, <1>2, <1>3 DEF PinKept
<1>7. QED
  BY <1>4, <1>5, <1>6

\* A power loss and a Reset leave neither token nor guess.
LEMMA RestartPin ==
    ASSUME TypeOK, PowerLoss \/ process_reset
    PROVE  Verifying' /\ Counted' /\ PinKept'
<1>1. live' = {} /\ boot_guesses' = 0 /\ mismatches' = 0 /\ op' = "idle"
  BY DEF PowerLoss, process_reset, Finish
<1>2. QED
  BY <1>1 DEF Verifying, Counted, PinKept

\* A first PIN is set only where there is none, so no token verifies.
LEMMA SetPinPin ==
    ASSUME Counted, PinKept, NEW p \in Protocols, NEW pin \in Pins, process_set_pin(p, pin)
    PROVE  Verifying' /\ Counted' /\ PinKept'
<1>1. /\ op = "idle" /\ op' = "write" /\ store["pin"] \notin Pins
      /\ UNCHANGED <<mismatches, boot_guesses, live>>
  BY DEF process_set_pin, Begin, memory, NoEntry
<1>2. live = {} /\ boot_guesses <= mismatches
  BY <1>1 DEF PinKept, Counted
<1>3. QED
  BY <1>1, <1>2 DEF Verifying, Counted, PinKept

\* The start of a comparison: there is a PIN and there are retries.
LEMMA VerifyPin ==
    ASSUME Counted, PinKept, NEW r, verify_pin_hash_enc(r)
    PROVE  Verifying' /\ Counted' /\ PinKept'
<1>1. /\ op = "idle" /\ op' = "verify" /\ store["pin"] \in Pins /\ store["retries"] # 0
      /\ todo' = Decrement
      /\ UNCHANGED <<store, mismatches, boot_guesses, live, issued>>
  BY DEF verify_pin_hash_enc, Begin, memory, counts, past
<1>2. \A i \in 1..Len(todo') : todo'[i].key = "retries"
  <2>1. todo' = <<>> \/ todo' = <<Update("retries", RetriesLeft - 1)>>
    BY <1>1 DEF Decrement
  <2>2. QED
    BY <2>1, KeyOf
<1>3. boot_guesses <= mismatches
  BY <1>1 DEF Counted
<1>4. QED
  BY <1>1, <1>2, <1>3 DEF Verifying, Counted, PinKept

\* A wrong guess is a mismatch, or it was the last.
LEMMA ComparePin ==
    ASSUME TypeOK, Shape, Verifying, Counted, PinKept, Undecryptable \/ Mismatch
    PROVE  Verifying' /\ Counted' /\ PinKept'
<1>1. /\ op = "verify" /\ op' = "idle" /\ todo = <<>> /\ mismatches < 3
      /\ UNCHANGED <<store, todo, live, issued>>
  BY DEF Undecryptable, Mismatch, Finish, disk, memory, past, Shape
<1>2. boot_guesses <= mismatches /\ store["pin"] \in Pins
  BY <1>1 DEF Counted, Verifying
<1>3. mismatches \in 0..3 /\ boot_guesses \in Nat
  BY DEF TypeOK, MemoryType, HistoryType
<1>4. Counted'
  <2>1. CASE Undecryptable
    BY <1>2, <2>1 DEF Undecryptable, memory, counts, Counted
  <2>2. CASE Mismatch /\ RetriesLeft # 0
    BY <1>2, <1>3, <2>2 DEF Mismatch, Counted
  <2>3. CASE Mismatch /\ RetriesLeft = 0
    <3>1. store["retries"] = 0
      BY <2>3 DEF RetriesLeft
    <3>2. boot_guesses' = boot_guesses + 1
      BY <2>3 DEF Mismatch
    <3>3. boot_guesses' <= 3
      BY <1>1, <1>2, <1>3, <3>2
    <3>4. QED
      BY <1>1, <1>2, <3>1, <3>3 DEF Counted
  <2>4. QED
    BY <2>1, <2>2, <2>3
<1>5. Verifying' /\ PinKept'
  BY <1>1 DEF Verifying, PinKept
<1>6. QED
  BY <1>4, <1>5

\* The right PIN: only the counter is to be written.
LEMMA MatchPin ==
    ASSUME TypeOK, Verifying, PinKept, Match
    PROVE  Verifying' /\ Counted' /\ PinKept'
<1>1. /\ op = "verify" /\ op' = "verified" /\ boot_guesses' = 0
      /\ todo' = <<Update("retries", NoEntry)>>
      /\ UNCHANGED <<store, mismatches, live, issued>>
  BY DEF Match, memory, past
<1>2. \A i \in 1..Len(todo') : todo'[i].key = "retries"
  BY <1>1, KeyOf
<1>3. mismatches \in 0..3
  BY DEF TypeOK, MemoryType
<1>4. Counted'
  BY <1>1, <1>3 DEF Counted
<1>5. Verifying' /\ PinKept'
  BY <1>1, <1>2 DEF Verifying, PinKept
<1>6. QED
  BY <1>4, <1>5

\* What follows the right PIN: it is replaced, or a token is given out for it.
LEMMA VerifiedPin ==
    ASSUME Verifying, PinKept, StoreNewPin \/ IssueToken \/ RefuseToken
    PROVE  Verifying' /\ Counted' /\ PinKept'
<1>1. /\ op = "verified" /\ todo = <<>> /\ mismatches' = 0
      /\ UNCHANGED <<store, boot_guesses>>
  BY DEF StoreNewPin, IssueToken, RefuseToken, counts, disk
<1>2. store["pin"] \in Pins /\ boot_guesses = 0
  BY <1>1 DEF Verifying
<1>3. op' \in {"idle", "change"} /\ (op' = "change" \/ todo' = <<>>)
  BY <1>1 DEF StoreNewPin, IssueToken, RefuseToken, Finish, disk
<1>4. \/ UNCHANGED <<live, issued>>
      \/ issued'.pin = store["pin"]
  BY DEF StoreNewPin, IssueToken, RefuseToken, past
<1>5. QED
  BY <1>1, <1>2, <1>3, <1>4 DEF Verifying, Counted, PinKept

\* A change of policy writes neither the PIN nor its counter.
LEMMA PolicyPin ==
    ASSUME Counted, PinKept,
           \/ \E a \in Auths, new \in Lengths, force \in BOOLEAN :
                 process_set_min_pin_length(a, new, force)
           \/ \E a \in Auths : toggle_always_uv(a)
    PROVE  Verifying' /\ Counted' /\ PinKept'
<1>1. /\ op = "idle" /\ op' = "write"
      /\ UNCHANGED <<store, mismatches, boot_guesses, live, issued>>
  BY DEF process_set_min_pin_length, toggle_always_uv, Begin, memory, counts, past
<1>2. \A i \in 1..Len(todo') : todo'[i].key \notin {"pin", "retries"}
  <2>1. ASSUME NEW a \in Auths, NEW new \in Lengths, NEW force \in BOOLEAN,
               process_set_min_pin_length(a, new, force)
        PROVE  \A i \in 1..Len(todo') : todo'[i].key \notin {"pin", "retries"}
    <3>1. \/ todo' = <<Update("force", NoBytes), Update("min", new)>>
          \/ todo' = <<Update("min", new)>>
      BY <2>1, MinTodo
    <3>2. QED
      BY <3>1, KeyOf
  <2>2. ASSUME NEW a \in Auths, toggle_always_uv(a)
        PROVE  \A i \in 1..Len(todo') : todo'[i].key \notin {"pin", "retries"}
    <3>1. \E v : todo' = <<Update("always_uv", v)>>
      BY <2>2 DEF toggle_always_uv
    <3>2. QED
      BY <3>1, KeyOf
  <2>3. QED
    BY <2>1, <2>2
<1>4. QED
  BY <1>1, <1>2 DEF Verifying, Counted, PinKept

\* Every other step leaves the PIN, the guesses and what is to be written alone,
\* and the end of a change leaves no token.
LEMMA OtherPin ==
    ASSUME Verifying, Counted, PinKept,
           \/ \E p \in Protocols : process_get_key_agreement(p)
           \/ FinishChange \/ FinishWrite
           \/ \E a \in Auths, rp \in RPs : process_make_credential(a, rp)
           \/ \E a \in Auths, rp \in RPs, up \in BOOLEAN : process_get_assertion(a, rp, up)
           \/ Consent \/ NoConsent \/ BeginReset \/ ResetCloses \/ Tick
    PROVE  Verifying' /\ Counted' /\ PinKept'
<1>1. UNCHANGED <<store, todo, boot_guesses, mismatches, issued>>
  BY DEF process_get_key_agreement, FinishChange, FinishWrite, process_make_credential,
         process_get_assertion, Consent, NoConsent, BeginReset, ResetCloses, Tick,
         disk, memory, counts, past
<1>2. /\ op \in {"idle", "write", "change", "presence", "reset"}
      /\ op' \in {"idle", "presence", "reset"}
  BY DEF process_get_key_agreement, Begin, FinishChange, FinishWrite, process_make_credential,
         process_get_assertion, Consent, NoConsent, BeginReset, ResetCloses, Tick,
         Finish, command
<1>3. \/ live' = {}
      \/ live' = live /\ op # "change"
  BY DEF process_get_key_agreement, Begin, FinishChange, FinishWrite, process_make_credential,
         process_get_assertion, Consent, NoConsent, BeginReset, ResetCloses, Tick, memory
<1>4. QED
  BY <1>1, <1>2, <1>3 DEF Verifying, Counted, PinKept

\* The PIN, over a step that changes nothing.
LEMMA StutterPin ==
    ASSUME Verifying, Counted, PinKept, UNCHANGED vars
    PROVE  Verifying' /\ Counted' /\ PinKept'
<1>1. UNCHANGED <<store, todo, op, boot_guesses, mismatches, live, issued>>
  BY DEF vars, disk, command, memory, counts, past
<1>2. QED
  BY <1>1 DEF Verifying, Counted, PinKept

\* The PIN, over every step.
LEMMA PinStep ==
    TypeOK /\ Shape /\ Verifying /\ Counted /\ PinKept /\ [Next]_vars
        => Verifying' /\ Counted' /\ PinKept'
<1> SUFFICES ASSUME TypeOK, Shape, Verifying, Counted, PinKept, [Next]_vars
             PROVE  Verifying' /\ Counted' /\ PinKept'
  OBVIOUS
<1>1. QED
  BY StorePin, RestartPin, SetPinPin, VerifyPin, ComparePin, MatchPin, VerifiedPin, PolicyPin,
     OtherPin, StutterPin
     DEF Next

\* These three are invariant.
LEMMA PinCorrect == Spec => [](Verifying /\ Counted /\ PinKept)
<1>1. Init => Verifying /\ Counted /\ PinKept
  BY DEF Init, Verifying, Counted, PinKept
<1>2. QED
  BY <1>1, PinStep, TypeCorrect, PTL DEF Spec

\* consecutive_pin_mismatches: between two power-ups the PIN is compared with at
\* most three wrong guesses in a row, however many retries the store grants.
THEOREM ThreeGuessesPerBoot == Spec => []ThreePerBoot
<1>1. TypeOK /\ Counted => ThreePerBoot
  BY DEF Counted, ThreePerBoot, TypeOK, MemoryType, HistoryType
<1>2. QED
  BY <1>1, PinCorrect, TypeCorrect, PTL

\* A token that verifies between two commands was given out for the PIN that is
\* stored: changing the PIN, a Reset and a power loss each end it.
THEOREM TokenEndsWithPin == Spec => []TokenUnderCurrentPin
<1>1. PinKept => TokenUnderCurrentPin
  BY DEF PinKept, TokenUnderCurrentPin
<1>2. QED
  BY <1>1, PinCorrect, PTL

(***************************************************************************)
(* The length policy, over updates that the power may cut.                 *)
(***************************************************************************)
\* A PIN is marked for a change or meets the minimum length.
Marked(pin, min, force) ==
    pin \in Pins =>
        \/ force = NoBytes
        \/ min # NoBytes /\ PinLength[pin] >= IF min = NoEntry THEN DefaultMin ELSE min

\* So it is before and after each update that is still to be made: a PIN is written
\* before its mark is removed, and a mark before the policy that calls for it.
NewPin ==
    /\ todo[1].key = "pin"
    /\ Marked(todo[1].old, store["min"], store["force"])
    /\ Marked(todo[1].val, store["min"], NoEntry)
    /\ Len(todo) >= 2 /\ todo[2].key = "force" /\ todo[2].val = NoEntry
    /\ \A i \in 3..Len(todo) : todo[i].key = "retries"
Unmark ==
    /\ todo[1].key = "force" /\ todo[1].val = NoEntry
    /\ Marked(store["pin"], store["min"], NoEntry)
    /\ \A i \in 2..Len(todo) : todo[i].key = "retries"
Mark ==
    /\ todo[1].key = "force" /\ todo[1].val = NoBytes
    /\ Marked(store["pin"], store["min"], todo[1].old)
    /\ Len(todo) = 2 /\ todo[2].key = "min"
NewMin ==
    /\ todo[1].key = "min" /\ Len(todo) = 1
    /\ Marked(store["pin"], todo[1].old, store["force"])
    /\ Marked(store["pin"], todo[1].val, store["force"])
Elsewhere ==
    /\ \A i \in 1..Len(todo) : todo[i].key \in {"retries", "always_uv"}
    /\ Marked(store["pin"], store["min"], store["force"])

Policy ==
    damaged = {} => Elsewhere \/ (todo # <<>> /\ (NewPin \/ Unmark \/ Mark \/ NewMin))

\* What a new PIN is checked for is what the mark would be for.
LEMMA LongIsMarked ==
    \A pin \in Pins : LongEnough(pin) => \A f : Marked(pin, store["min"], f)
BY DEF LongEnough, MinLength, Marked

\* A PIN that need not be marked may be marked or not.
LEMMA MarkAnyway == \A p, m, f : Marked(p, m, NoEntry) => Marked(p, m, f)
BY DEF Marked, NoEntry, NoBytes

\* Between two commands the store itself obeys the policy.
LEMMA PolicyAtRest ==
    ASSUME Policy, todo = <<>>, damaged = {}
    PROVE  Marked(store["pin"], store["min"], store["force"])
BY DEF Policy, Elsewhere

\* Deleting and creating the key of the first update touches no other key.
LEMMA MidwayPolicy ==
    ASSUME TypeOK, Policy, PddbDelete \/ PddbCreate, todo' = todo
    PROVE  Policy'
<1>1. /\ todo # <<>> /\ 1 \in 1..Len(todo) /\ UNCHANGED damaged
      /\ \A k \in Keys \ {todo[1].key} : store'[k] = store[k]
  BY OneKey
<1>2. "pin" \in Keys /\ "min" \in Keys /\ "force" \in Keys
  BY DEF Keys
<1>3. Elsewhere => Elsewhere'
  BY <1>1, <1>2 DEF Elsewhere
<1>4. NewPin => NewPin'
  BY <1>1, <1>2 DEF NewPin
<1>5. Unmark => Unmark'
  BY <1>1, <1>2 DEF Unmark
<1>6. Mark => Mark'
  BY <1>1, <1>2 DEF Mark
<1>7. NewMin => NewMin'
  BY <1>1, <1>2 DEF NewMin
<1>8. QED
  BY <1>1, <1>3, <1>4, <1>5, <1>6, <1>7 DEF Policy

\* An update that is done leaves the store, and the updates after it, as foreseen.
LEMMA DonePolicy ==
    ASSUME TypeOK, Policy, PddbDelete \/ PddbWrite, todo' = Tail(todo)
    PROVE  Policy'
<1>1. /\ todo # <<>> /\ 1 \in 1..Len(todo) /\ UNCHANGED damaged /\ todo[1].key \in Keys
      /\ \A k \in Keys \ {todo[1].key} : store'[k] = store[k]
  BY OneKey
<1>2. "pin" \in Keys /\ "min" \in Keys /\ "force" \in Keys
  BY DEF Keys
<1>3. /\ Len(todo) \in Nat /\ Len(todo') = Len(todo) - 1 /\ Head(todo) = todo[1]
      /\ \A i \in 1..Len(todo) - 1 : todo'[i] = todo[i + 1]
  BY <1>1, HeadType DEF TypeOK, DiskType
<1>4. store'[todo[1].key] = todo[1].val
  <2>1. todo # Tail(todo)
    BY <1>1, HeadType DEF TypeOK, DiskType
  <2>2. store' = [store EXCEPT ![todo[1].key] = todo[1].val]
    BY <1>3, <2>1 DEF PddbDelete, PddbWrite
  <2>3. QED
    BY <1>1, <2>2 DEF TypeOK, DiskType
<1>5. SUFFICES ASSUME damaged = {}
               PROVE  Elsewhere' \/ (todo' # <<>> /\ (NewPin' \/ Unmark' \/ Mark' \/ NewMin'))
  BY <1>1 DEF Policy
<1>6. CASE Elsewhere
  <2>1. \A i \in 1..Len(todo') : todo'[i].key \in {"retries", "always_uv"}
    BY <1>3, <1>6 DEF Elsewhere
  <2>2. UNCHANGED <<store["pin"], store["min"], store["force"]>>
    BY <1>1, <1>2, <1>6 DEF Elsewhere
  <2>3. QED
    BY <1>6, <2>1, <2>2 DEF Elsewhere
<1>7. CASE NewPin
  <2>1. /\ todo'[1] = todo[2] /\ Len(todo') >= 1
        /\ \A i \in 2..Len(todo') : todo'[i].key = "retries"
    BY <1>3, <1>7 DEF NewPin
  <2>2. store'["pin"] = todo[1].val /\ store'["min"] = store["min"]
    BY <1>1, <1>2, <1>4, <1>7 DEF NewPin
  <2>3. Unmark'
    BY <1>7, <2>1, <2>2 DEF NewPin, Unmark
  <2>4. todo' # <<>>
    BY <2>1
  <2>5. QED
    BY <2>3, <2>4
<1>8. CASE Unmark
  <2>1. \A i \in 1..Len(todo') : todo'[i].key = "retries"
    BY <1>3, <1>8 DEF Unmark
  <2>2. store'["force"] = NoEntry /\ UNCHANGED <<store["pin"], store["min"]>>
    BY <1>1, <1>2, <1>4, <1>8 DEF Unmark
  <2>3. QED
    BY <1>8, <2>1, <2>2 DEF Unmark, Elsewhere
<1>9. CASE Mark
  <2>1. todo'[1] = todo[2] /\ Len(todo') = 1 /\ todo' # <<>>
    <3>1. Len(todo) = 2
      BY <1>9 DEF Mark
    <3>2. 1 \in 1..Len(todo) - 1 /\ Len(todo') = 1
      BY <1>3, <3>1
    <3>3. QED
      BY <1>3, <3>2
  <2>2. store'["force"] = NoBytes
    BY <1>4, <1>9 DEF Mark
  <2>3. NewMin'
    BY <1>9, <2>1, <2>2 DEF Mark, NewMin, Marked
  <2>4. QED
    BY <2>1, <2>3
<1>10. CASE NewMin
  <2>1. Len(todo) = 1
    BY <1>10 DEF NewMin
  <2>2. Len(todo') = 0
    BY <1>3, <2>1
  <2>3. 1..Len(todo') = {}
    <3>1. 1..0 = {}
      OBVIOUS
    <3>2. QED
      BY <2>2, <3>1, Zenon
  <2>4. store'["min"] = todo[1].val /\ UNCHANGED <<store["pin"], store["force"]>>
    BY <1>1, <1>2, <1>4, <1>10 DEF NewMin
  <2>5. QED
    BY <1>10, <2>3, <2>4 DEF NewMin, Elsewhere
<1>11. QED
  BY <1>5, <1>6, <1>7, <1>8, <1>9, <1>10 DEF Policy

\* A cut that leaves a key as it was or as it was to be is covered.
LEMMA PowerLossPolicy ==
    ASSUME TypeOK, Policy, PowerLoss
    PROVE  Policy'
<1>1. /\ todo' = <<>> /\ store' = store
      /\ damaged' = {} => /\ damaged = {}
                          /\ todo # <<>> => store[todo[1].key] \in {todo[1].old, todo[1].val}
  BY HeadType DEF PowerLoss, TypeOK
<1>2. SUFFICES ASSUME damaged' = {} PROVE Marked(store["pin"], store["min"], store["force"])
  BY <1>1 DEF Policy, Elsewhere
<1>3. CASE Elsewhere
  BY <1>3 DEF Elsewhere
<1>4. CASE todo # <<>> /\ NewPin
  BY <1>1, <1>2, <1>4, MarkAnyway DEF NewPin
<1>5. CASE Unmark
  BY <1>5, MarkAnyway DEF Unmark
<1>6. CASE todo # <<>> /\ Mark
  BY <1>1, <1>2, <1>6 DEF Mark, Marked
<1>7. CASE todo # <<>> /\ NewMin
  BY <1>1, <1>2, <1>7 DEF NewMin
<1>8. QED
  BY <1>1, <1>2, <1>3, <1>4, <1>5, <1>6, <1>7 DEF Policy

\* A new PIN is long enough, so its mark may go once it is written.
LEMMA NewPinPolicy ==
    ASSUME TypeOK, Shape, Policy,
           StoreNewPin \/ \E p \in Protocols, pin \in Pins : process_set_pin(p, pin)
    PROVE  Policy'
<1>1. todo = <<>> /\ UNCHANGED <<store, damaged>>
  BY DEF StoreNewPin, process_set_pin, Begin, Shape
<1>2. CASE todo' = <<>>
  BY <1>1, <1>2 DEF Policy, Elsewhere
<1>3. CASE todo' # <<>>
  <2>1. PICK pin \in Pins :
          /\ LongEnough(pin)
          /\ \/ todo' = <<Update("pin", pin), Update("force", NoEntry)>>
             \/ todo' = <<Update("pin", pin), Update("force", NoEntry), Update("retries", NoEntry)>>
    <3>1. CASE StoreNewPin
      <4>1. req.new \in Pins
        BY <3>1 DEF StoreNewPin, Shape, TypeOK, CommandType, Changes, TokenRequests
      <4>2. LongEnough(req.new) /\ todo' = <<Update("pin", req.new), Update("force", NoEntry)>>
        BY <1>1, <1>3, <3>1 DEF StoreNewPin
      <4>3. QED
        BY <4>1, <4>2
    <3>2. CASE \E p \in Protocols, pin \in Pins : process_set_pin(p, pin)
      BY <3>2 DEF process_set_pin
    <3>3. QED
      BY <3>1, <3>2
  <2>2. /\ todo'[1] = Update("pin", pin) /\ todo'[2] = Update("force", NoEntry)
        /\ Len(todo') >= 2
        /\ \A i \in 3..Len(todo') : todo'[i].key = "retries"
    BY <2>1, KeyOf
  <2>3. damaged = {} => Marked(store["pin"], store["min"], store["force"])
    BY <1>1, PolicyAtRest
  <2>4. Marked(pin, store["min"], NoEntry)
    BY <2>1, LongIsMarked
  <2>5. damaged = {} => NewPin'
    BY <1>1, <2>2, <2>3, <2>4, KeyOf DEF NewPin
  <2>6. QED
    BY <1>1, <1>3, <2>5 DEF Policy
<1>4. QED
  BY <1>2, <1>3

\* A policy that the PIN does not meet is written after the mark.
LEMMA MinLengthPolicy ==
    ASSUME TypeOK, Shape, Policy, NEW a \in Auths, NEW new \in Lengths, NEW force \in BOOLEAN,
           process_set_min_pin_length(a, new, force)
    PROVE  Policy'
<1> DEFINE must == force \/ (store["pin"] # NoEntry /\ new > PinLength[store["pin"]])
<1>1. todo = <<>> /\ UNCHANGED <<store, damaged>>
  BY DEF process_set_min_pin_length, Begin, Shape
<1>2. todo' = IF must THEN <<Update("force", NoBytes), Update("min", new)>>
                      ELSE <<Update("min", new)>>
  BY MinTodo
<1>3. damaged = {} => Marked(store["pin"], store["min"], store["force"])
  BY <1>1, PolicyAtRest
<1>4. CASE must
  <2>1. todo'[1] = Update("force", NoBytes) /\ todo'[2] = Update("min", new) /\ Len(todo') = 2
    BY <1>2, <1>4
  <2>2. damaged = {} => Mark'
    BY <1>1, <1>3, <2>1, KeyOf DEF Mark
  <2>3. todo' # <<>>
    BY <2>1
  <2>4. QED
    BY <1>1, <2>2, <2>3 DEF Policy
<1>5. CASE ~must
  <2>1. todo'[1] = Update("min", new) /\ Len(todo') = 1 /\ todo' # <<>>
    BY <1>2, <1>5
  <2>2. store["pin"] \in Pins => PinLength[store["pin"]] \in Nat /\ store["pin"] # NoEntry
    <3>1. NoEntry \notin Pins
      BY DEF NoEntry
    <3>2. \A p \in Pins : PinLength[p] \in Nat
      BY PinsAssumption
    <3>3. QED
      BY <3>1, <3>2
  <2>3. new \in Nat /\ new # NoBytes /\ new # NoEntry
    BY DEF NoEntry, NoBytes
  <2>4. Marked(store["pin"], new, store["force"])
    BY <1>5, <2>2, <2>3 DEF Marked
  <2>5. damaged = {} => NewMin'
    BY <1>1, <1>3, <2>1, <2>4, KeyOf DEF NewMin
  <2>6. QED
    BY <1>1, <2>1, <2>5 DEF Policy
<1>6. QED
  BY <1>4, <1>5

\* The counter and the setting that always asks for verification are other keys.
LEMMA ElsewherePolicy ==
    ASSUME Shape, Policy,
           \/ \E r \in Changes \cup TokenRequests : verify_pin_hash_enc(r)
           \/ Match \/ \E a \in Auths : toggle_always_uv(a)
    PROVE  Policy'
<1>1. todo = <<>> /\ UNCHANGED <<store, damaged>>
  BY DEF verify_pin_hash_enc, Match, toggle_always_uv, Begin, Shape
<1>2. \/ todo' = <<>>
      \/ \E k \in {"retries", "always_uv"} : \E v : todo' = <<Update(k, v)>>
  BY DEF verify_pin_hash_enc, Decrement, Match, toggle_always_uv
<1>3. \A i \in 1..Len(todo') : todo'[i].key \in {"retries", "always_uv"}
  BY <1>2, KeyOf
<1>4. damaged = {} => Marked(store["pin"], store["min"], store["force"])
  BY <1>1, PolicyAtRest
<1>5. QED
  BY <1>1, <1>3, <1>4 DEF Policy, Elsewhere

\* A Reset leaves no PIN.
LEMMA ResetPolicy ==
    ASSUME Shape, process_reset
    PROVE  Policy'
<1>1. todo' = <<>> /\ store'["pin"] = NoEntry
  BY DEF process_reset, Shape, Keys
<1>2. NoEntry \notin Pins
  BY DEF NoEntry
<1>3. QED
  BY <1>1, <1>2 DEF Policy, Elsewhere, Marked

\* Every other step leaves the store, and what is to be written to it, alone.
LEMMA OtherPolicy ==
    ASSUME Policy,
           \/ \E p \in Protocols : process_get_key_agreement(p)
           \/ Undecryptable \/ Mismatch
           \/ FinishChange \/ IssueToken \/ RefuseToken \/ FinishWrite
           \/ \E a \in Auths, rp \in RPs : process_make_credential(a, rp)
           \/ \E a \in Auths, rp \in RPs, up \in BOOLEAN : process_get_assertion(a, rp, up)
           \/ Consent \/ NoConsent \/ BeginReset \/ ResetCloses \/ Tick \/ UNCHANGED vars
    PROVE  Policy'
<1>1. UNCHANGED <<store, todo, damaged>>
  BY DEF process_get_key_agreement, Undecryptable, Mismatch, FinishChange, IssueToken,
         RefuseToken, FinishWrite, process_make_credential, process_get_assertion, Consent,
         NoConsent, BeginReset, ResetCloses, Tick, vars, disk
<1>2. QED
  BY <1>1 DEF Policy, Elsewhere, NewPin, Unmark, Mark, NewMin

\* The policy, over every step.
LEMMA PolicyStep == TypeOK /\ Shape /\ Policy /\ [Next]_vars => Policy'
<1> SUFFICES ASSUME TypeOK, Shape, Policy, [Next]_vars PROVE Policy'
  OBVIOUS
<1>1. CASE PddbDelete \/ PddbCreate \/ PddbWrite
  BY <1>1, MidwayPolicy, DonePolicy DEF PddbDelete, PddbCreate, PddbWrite
<1>2. CASE Next /\ ~(PddbDelete \/ PddbCreate \/ PddbWrite)
  BY <1>2, PowerLossPolicy, NewPinPolicy, MinLengthPolicy, ElsewherePolicy, ResetPolicy,
     OtherPolicy
     DEF Next
<1>3. QED
  BY <1>1, <1>2, OtherPolicy

\* The policy is invariant.
LEMMA PolicyCorrect == Spec => []Policy
<1>1. Init => Policy
  <2>1. Init => todo = <<>> /\ store["pin"] = NoEntry /\ NoEntry \notin Pins
    BY DEF Init, Keys, NoEntry
  <2>2. QED
    BY <2>1 DEF Policy, Elsewhere, Marked
<1>2. QED
  BY <1>1, PolicyStep, TypeCorrect, PTL DEF Spec

\* A PIN that is shorter than the minimum is marked for a change, wherever the
\* power went while PIN, mark and policy were written, unless it left a key damaged.
THEOREM ShortPinIsForced == Spec => []ShortPinForced
<1>1. ASSUME Shape, Policy PROVE ShortPinForced
  <2>1. SUFFICES ASSUME op = "idle", damaged = {}, store["pin"] \in Pins, ~LongEnough(store["pin"])
                 PROVE  store["force"] = NoBytes
    BY DEF ShortPinForced
  <2>2. Marked(store["pin"], store["min"], store["force"])
    BY <1>1, <2>1, PolicyAtRest DEF Shape
  <2>3. QED
    BY <2>1, <2>2 DEF Marked, LongEnough, MinLength
<1>2. QED
  BY <1>1, PolicyCorrect, TypeCorrect, PTL

\* A token is given out only for a PIN without a mark, which so is long enough.
LEMMA LongStep ==
    TypeOK /\ Shape /\ Verifying /\ Policy /\ TokenForLongPin /\ [Next]_vars
        => TokenForLongPin'
<1> SUFFICES ASSUME TypeOK, Shape, Verifying, Policy, TokenForLongPin, [Next]_vars
             PROVE  TokenForLongPin'
  OBVIOUS
<1>1. CASE IssueToken
  <2>1. /\ op = "verified" /\ todo = <<>> /\ store["force"] = NoEntry /\ UNCHANGED damaged
        /\ issued' = [pin |-> store["pin"], min |-> MinLength]
    BY <1>1 DEF IssueToken
  <2>2. store["pin"] \in Pins
    BY <2>1 DEF Verifying
  <2>3. damaged = {} => Marked(store["pin"], store["min"], store["force"])
    BY <2>1, PolicyAtRest
  <2>4. damaged = {} => PinLength[store["pin"]] >= MinLength
    BY <2>1, <2>2, <2>3 DEF Marked, MinLength, NoEntry, NoBytes
  <2>5. QED
    BY <2>1, <2>4 DEF TokenForLongPin
<1>2. CASE PowerLoss \/ process_reset
  BY <1>2 DEF PowerLoss, process_reset, TokenForLongPin
<1>3. CASE live' \in {live, {}} /\ UNCHANGED <<issued, damaged>>
  BY <1>3 DEF TokenForLongPin
<1>4. QED
  BY <1>1, <1>2, <1>3
     DEF Next, PddbDelete, PddbCreate, PddbWrite, process_get_key_agreement, process_set_pin,
         verify_pin_hash_enc, Undecryptable, Mismatch, Match, StoreNewPin, FinishChange,
         RefuseToken, process_set_min_pin_length, toggle_always_uv, FinishWrite,
         process_make_credential, process_get_assertion, Consent, NoConsent, BeginReset,
         ResetCloses, Tick, vars, memory, past

\* has_force_pin_change: a token was given out for a PIN that met the minimum
\* length of its time, for any PINs and policies.
THEOREM TokenMeetsPolicy == Spec => []TokenForLongPin
<1>1. Init => TokenForLongPin
  BY DEF Init, TokenForLongPin
<1>2. QED
  BY <1>1, LongStep, PinCorrect, PolicyCorrect, TypeCorrect, PTL DEF Spec
=============================================================================
