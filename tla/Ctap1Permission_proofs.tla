----------------------- MODULE Ctap1Permission_proofs -----------------------
(***************************************************************************)
(* Proofs about Ctap1Permission for any applications, limits and bounds.   *)
(*                                                                         *)
(* None of the three properties is inductive.  That one key approves one   *)
(* request needs the keys that are still on their way to be counted; that  *)
(* a denial holds, that the server remembers it; that a prompt is guarded, *)
(* that the watchdog never runs without a pump.                            *)
(***************************************************************************)
EXTENDS Ctap1Permission, TLAPS

USE LimitAssumption, BoundAssumption, AppsAssumption

\* The three kinds of messages are told apart by their op.
LEMMA MessageOps ==
    /\ \A a \in Apps : PollMsg(a) \in Messages /\ PollMsg(a) # ForceMsg /\ PollMsg(a) # UpdateMsg
    /\ UpdateMsg \in Messages /\ ForceMsg \in Messages /\ UpdateMsg # ForceMsg
<1>1. ASSUME NEW a \in Apps PROVE PollMsg(a).op = "PollPermission"
  BY DEF PollMsg
<1>2. UpdateMsg.op = "UpdateAppInfo"
  BY DEF UpdateMsg
<1>3. ForceMsg.op = "ForceTimeout"
  BY DEF ForceMsg
<1>4. UpdateMsg # ForceMsg
  <2>1. "UpdateAppInfo" # "ForceTimeout"
    OBVIOUS
  <2>2. QED
    BY <2>1, <1>2, <1>3
<1>5. ASSUME NEW a \in Apps PROVE PollMsg(a) # ForceMsg /\ PollMsg(a) # UpdateMsg
  <2>1. "PollPermission" # "ForceTimeout" /\ "PollPermission" # "UpdateAppInfo"
    OBVIOUS
  <2>2. QED
    BY <2>1, <1>1, <1>2, <1>3
<1>6. UpdateMsg \in Messages /\ ForceMsg \in Messages
  BY ZenonT(20) DEF Messages
<1>7. ASSUME NEW a \in Apps PROVE PollMsg(a) \in Messages
  BY ZenonT(20) DEF Messages
<1>8. QED
  BY <1>4, <1>5, <1>6, <1>7

\* The time after which the watchdog closes the prompt is a number of ticks.
LEMMA DeadlineType == Deadline \in Nat
BY DEF Deadline

\* One listener more, or one less, that is about to store a key.
LEMMA LateType ==
    ASSUME NEW f \in [Hits -> Nat], NEW k \in Hits
    PROVE  /\ [f EXCEPT ![k] = @ + 1] \in [Hits -> Nat]
           /\ f[k] > 0 => [f EXCEPT ![k] = @ - 1] \in [Hits -> Nat]
OBVIOUS

\* The three kinds of hits.
LEMMA HitsAre == "none" \in Hits /\ "no" \in Hits /\ "yes" \in Hits
BY DEF Hits

\* What is left of a queue, and what is added to it, is of its type.
LEMMA InboxType ==
    ASSUME TypeOK
    PROVE  /\ inbox # <<>> => Tail(inbox) \in Seq(Messages)
           /\ \A m \in Messages : Append(inbox, m) \in Seq(Messages)
BY DEF TypeOK

\* The same of the watchdog's queue.
LEMMA TimeoutsType ==
    ASSUME TypeOK
    PROVE  /\ timeouts # <<>> => Tail(timeouts) \in Seq({"Run", "Pump", "Stop"})
           /\ \A m \in {"Run", "Pump", "Stop"} :
                 Append(timeouts, m) \in Seq({"Run", "Pump", "Stop"})
BY DEF TypeOK

\* Closing the box keeps the types of what it changes.
LEMMA CloseType ==
    ASSUME TypeOK, CloseBox
    PROVE  /\ current_id' \in Apps \cup {NoApp} /\ listening' \in BOOLEAN
           /\ late' \in [Hits -> Nat]
BY LateType, HitsAre DEF TypeOK, CloseBox

\* Types, over the handlers of the server.
LEMMA ServeType == TypeOK /\ Serve => TypeOK'
<1> SUFFICES ASSUME TypeOK, Serve PROVE TypeOK'
  OBVIOUS
<1> USE InboxType, TimeoutsType, CloseType
<1>1. CASE \E a \in Apps : OtherApp(a) \/ Approve(a) \/ Deny(a) \/ TimeOut(a)
  <2>1. PICK a \in Apps : OtherApp(a) \/ Approve(a) \/ Deny(a) \/ TimeOut(a)
    BY <1>1
  <2>2. /\ inbox' \in Seq(Messages) /\ fido' \in {"idle", "waiting", "granted"}
        /\ timeouts' \in Seq({"Run", "Pump", "Stop"})
    BY <2>1 DEF OtherApp, Approve, Deny, TimeOut, Polled, Reply, Send
  <2>3. /\ CloseBox
        /\ denied_id' \in Apps \cup {NoApp} /\ rejected' \in Apps \cup {NoApp}
        /\ approved' \in Nat
        /\ UNCHANGED <<elapsed, kbhit, watchdog, pressed>>
    BY <2>1 DEF OtherApp, Approve, Deny, TimeOut, history, TypeOK
  <2>4. QED
    BY <2>2, <2>3 DEF TypeOK, watchdog
<1>2. CASE \E a \in Apps : Wait(a) \/ Repeat(a)
  BY <1>2 DEF TypeOK, Wait, Repeat, Polled, Reply, server, keyboard, watchdog, history
<1>3. CASE \E a \in Apps : Raise(a)
  BY <1>3 DEF TypeOK, Raise, Polled, Reply, Send, watchdog, Hits
<1>4. CASE ForceTimeout
  BY <1>4 DEF TypeOK, ForceTimeout, watchdog, history
<1>5. QED
  BY <1>1, <1>2, <1>3, <1>4 DEF Serve

\* Types, over the handlers of the watchdog.
LEMMA WatchType == TypeOK /\ Watch => TypeOK'
<1> SUFFICES ASSUME TypeOK, Watch PROVE TypeOK'
  OBVIOUS
<1>1. UNCHANGED <<fido, server, elapsed, keyboard, history>>
  BY DEF Watch, StartTimer, Pump, Expire, Stop, Wake
<1>2. inbox' \in Seq(Messages)
  <2>1. CASE Expire
    <3>1. inbox' = Append(inbox, ForceMsg)
      BY <2>1 DEF Expire
    <3>2. QED
      BY <3>1, InboxType, MessageOps
  <2>2. CASE StartTimer \/ Pump \/ Stop \/ Wake
    <3>1. inbox' = inbox
      BY <2>2 DEF StartTimer, Pump, Stop, Wake
    <3>2. QED
      BY <3>1 DEF TypeOK
  <2>3. QED
    BY <2>1, <2>2 DEF Watch
<1>3. timeouts' \in Seq({"Run", "Pump", "Stop"})
  <2>1. CASE StartTimer \/ Pump \/ Expire \/ Stop
    <3>1. /\ timeouts # <<>>
          /\ timeouts' = Tail(timeouts) \/ timeouts' = Append(Tail(timeouts), "Pump")
      BY <2>1 DEF StartTimer, Pump, Expire, Stop, Told
    <3>2. QED
      BY <3>1, TimeoutsType
  <2>2. CASE Wake
    BY <2>2, TimeoutsType DEF Wake, Send
  <2>3. QED
    BY <2>1, <2>2 DEF Watch
<1>4. run' \in BOOLEAN /\ nap' \in {"no", "asleep", "over"} /\ age' \in 0..(Deadline + 1)
  <2>1. /\ run \in BOOLEAN /\ nap \in {"no", "asleep", "over"}
        /\ age \in 0..(Deadline + 1) /\ 0 \in 0..(Deadline + 1)
    BY DeadlineType DEF TypeOK
  <2>2. CASE StartTimer
    BY <2>1, <2>2 DEF StartTimer
  <2>3. CASE Pump
    BY <2>1, <2>3 DEF Pump
  <2>4. CASE Expire \/ Stop
    BY <2>1, <2>4 DEF Expire, Stop
  <2>5. CASE Wake
    BY <2>1, <2>5 DEF Wake
  <2>6. QED
    BY <2>2, <2>3, <2>4, <2>5 DEF Watch
<1>5. QED
  BY <1>1, <1>2, <1>3, <1>4 DEF TypeOK, server, keyboard, history

\* Types: in every state the threads and their queues are of their types; no
\* listener stores a key without having got one.
THEOREM TypeCorrect == Spec => []TypeOK
<1>1. Init => TypeOK
  <2> SUFFICES ASSUME Init PROVE TypeOK
    OBVIOUS
  <2>1. late \in [Hits -> Nat] /\ kbhit \in Hits
    BY DEF Init, Hits
  <2>2. age \in 0..(Deadline + 1) /\ elapsed \in 0..PromptLimit
    BY DeadlineType DEF Init
  <2>3. inbox \in Seq(Messages) /\ timeouts \in Seq({"Run", "Pump", "Stop"})
    BY DEF Init
  <2>4. /\ fido \in {"idle", "waiting", "granted"} /\ listening \in BOOLEAN
        /\ run \in BOOLEAN /\ nap \in {"no", "asleep", "over"}
        /\ pressed \in Nat /\ approved \in Nat
    BY DEF Init
  <2>5. /\ current_id \in Apps \cup {NoApp} /\ denied_id \in Apps \cup {NoApp}
        /\ rejected \in Apps \cup {NoApp}
    BY DEF Init
  <2>6. QED
    BY <2>1, <2>2, <2>3, <2>4, <2>5 DEF TypeOK
<1>2. ASSUME TypeOK, [Next]_vars PROVE TypeOK'
  <2>1. CASE \E a \in Apps : poll_approval_ctap1(a)
    BY <1>2, <2>1, InboxType, MessageOps
       DEF poll_approval_ctap1, TypeOK, server, keyboard, watchdog, history
  <2>2. CASE SendUpdate
    BY <1>2, <2>2, InboxType, MessageOps
       DEF SendUpdate, TypeOK, server, keyboard, watchdog, history
  <2>3. CASE Serve
    BY <1>2, <2>3, ServeType
  <2>4. CASE UpdateAppInfo
    BY <1>2, <2>4, InboxType DEF UpdateAppInfo, TypeOK, server, keyboard, watchdog, history
  <2>5. CASE \E k \in {"no", "yes"} : Press(k)
    <3>1. PICK k \in {"no", "yes"} : Press(k)
      BY <2>5
    <3>2. late' \in [Hits -> Nat]
      BY <1>2, <3>1, LateType, HitsAre DEF Press, TypeOK
    <3>3. listening' \in BOOLEAN
      BY <3>1 DEF Press
    <3>4. pressed' \in Nat
      <4>1. pressed' = pressed + 1 \/ pressed' = pressed
        BY <3>1 DEF Press
      <4>2. QED
        BY <1>2, <4>1 DEF TypeOK
    <3>5. UNCHANGED <<fido, inbox, server, elapsed, kbhit, timeouts, watchdog,
                      approved, rejected>>
      BY <3>1 DEF Press
    <3>6. QED
      BY <1>2, <3>2, <3>3, <3>4, <3>5 DEF TypeOK, server, watchdog
  <2>6. CASE \E k \in Hits : Store(k)
    BY <1>2, <2>6, LateType DEF Store, TypeOK, server, watchdog, history
  <2>7. CASE Watch
    BY <1>2, <2>7, WatchType
  <2>8. CASE Tick
    BY <1>2, <2>8, DeadlineType DEF Tick, TypeOK, server, keyboard, history
  <2>9. CASE UNCHANGED vars
    BY <1>2, <2>9 DEF vars, TypeOK, server, keyboard, watchdog, history
  <2>10. QED
    BY <1>2, <2>1, <2>2, <2>3, <2>4, <2>5, <2>6, <2>7, <2>8, <2>9 DEF Next
<1>3. QED
  BY <1>1, <1>2, PTL DEF Spec

-----------------------------------------------------------------------------
(* One key approves one request. *)

\* A key that approves is on its way, stored for the prompt that is up, or
\* spent.
KeysCounted ==
    approved + late["yes"] + (IF kbhit = "yes" /\ current_id # NoApp THEN 1 ELSE 0)
        <= pressed

\* Closing a prompt leaves the keys that approve where they are.
LEMMA CloseKeepsYes ==
    ASSUME TypeOK, CloseBox
    PROVE  current_id' = NoApp /\ late'["yes"] = late["yes"]
BY HitsAre DEF TypeOK, CloseBox

\* A listener that joins or leaves those of one key leaves the others alone.
LEMMA LateChanges ==
    ASSUME NEW f \in [Hits -> Nat], NEW k \in Hits, NEW l \in Hits
    PROVE  /\ [f EXCEPT ![k] = @ + 1][l] = IF l = k THEN f[l] + 1 ELSE f[l]
           /\ [f EXCEPT ![k] = @ - 1][l] = IF l = k THEN f[l] - 1 ELSE f[l]
OBVIOUS

\* The count of the keys, over every step.
LEMMA KeysCountedStep == TypeOK /\ KeysCounted /\ [Next]_vars => KeysCounted'
<1> SUFFICES ASSUME TypeOK, KeysCounted, [Next]_vars PROVE KeysCounted'
  OBVIOUS
<1>0. late["yes"] \in Nat /\ approved \in Nat /\ pressed \in Nat
  BY HitsAre DEF TypeOK
<1>1. ASSUME NEW a \in Apps, OtherApp(a) \/ Deny(a) \/ TimeOut(a) PROVE KeysCounted'
  <2>1. CloseBox /\ approved' = approved /\ pressed' = pressed
    BY <1>1 DEF OtherApp, Deny, TimeOut, history
  <2>2. QED
    BY <1>0, <2>1, CloseKeepsYes DEF KeysCounted
<1>2. ASSUME NEW a \in Apps, Approve(a) PROVE KeysCounted'
  <2>1. CloseBox /\ approved' = approved + 1 /\ pressed' = pressed
    BY <1>2 DEF Approve
  <2>2. kbhit = "yes" /\ current_id # NoApp
    BY <1>2 DEF Approve
  <2>3. QED
    BY <1>0, <2>1, <2>2, CloseKeepsYes DEF KeysCounted
<1>3. ASSUME NEW a \in Apps, Raise(a) PROVE KeysCounted'
  BY <1>0, <1>3 DEF Raise, KeysCounted
<1>4. CASE ForceTimeout
  <2>1. CloseBox /\ approved' = approved /\ pressed' = pressed
    BY <1>4 DEF ForceTimeout, history
  <2>2. QED
    BY <1>0, <2>1, CloseKeepsYes DEF KeysCounted
<1>5. ASSUME NEW k \in {"no", "yes"}, Press(k) PROVE KeysCounted'
  <2>1. late' = [late EXCEPT ![k] = @ + 1] /\ UNCHANGED <<current_id, kbhit, approved>>
    BY <1>5 DEF Press, server
  <2>2. late'["yes"] = IF k = "yes" THEN late["yes"] + 1 ELSE late["yes"]
    BY <2>1, LateChanges, HitsAre DEF TypeOK
  <2>3. pressed' = IF k = "yes" THEN pressed + 1 ELSE pressed
    BY <1>5 DEF Press
  <2>4. QED
    BY <1>0, <2>1, <2>2, <2>3 DEF KeysCounted
<1>6. ASSUME NEW k \in Hits, Store(k) PROVE KeysCounted'
  <2>1. late' = [late EXCEPT ![k] = @ - 1] /\ UNCHANGED <<current_id, approved, pressed>>
    BY <1>6 DEF Store, server, history
  <2>2. late'["yes"] = IF k = "yes" THEN late["yes"] - 1 ELSE late["yes"]
    BY <2>1, LateChanges, HitsAre DEF TypeOK
  <2>3. kbhit' = k
    BY <1>6 DEF Store
  <2>4. QED
    BY <1>0, <2>1, <2>2, <2>3 DEF KeysCounted
<1>7. ASSUME UNCHANGED <<current_id, kbhit, late, approved, pressed>> PROVE KeysCounted'
  BY <1>7 DEF KeysCounted
<1>8. CASE \/ \E a \in Apps : poll_approval_ctap1(a) \/ Wait(a) \/ Repeat(a)
           \/ SendUpdate \/ UpdateAppInfo \/ Watch \/ Tick \/ UNCHANGED vars
  <2>1. UNCHANGED <<server, keyboard, history>>
    BY <1>8 DEF poll_approval_ctap1, Wait, Repeat, SendUpdate, UpdateAppInfo, Watch,
                StartTimer, Pump, Expire, Stop, Wake, Tick, vars
  <2>2. QED
    BY <1>7, <2>1 DEF server, keyboard, history
<1>9. QED
  BY <1>1, <1>2, <1>3, <1>4, <1>5, <1>6, <1>8 DEF Next, Serve

\* One press, one approval: whatever listener stores its key, and whenever, as
\* many requests are approved at most as keys that approve were hit.
THEOREM ApprovalsPressed == Spec => []OnePressOneApproval
<1>1. Init => KeysCounted
  BY HitsAre DEF Init, KeysCounted
<1>2. TypeOK /\ KeysCounted => OnePressOneApproval
  <2> SUFFICES ASSUME TypeOK, KeysCounted PROVE OnePressOneApproval
    OBVIOUS
  <2>1. late["yes"] \in Nat /\ approved \in Nat /\ pressed \in Nat
    BY HitsAre DEF TypeOK
  <2>2. QED
    BY <2>1 DEF KeysCounted, OnePressOneApproval
<1>3. QED
  BY <1>1, <1>2, TypeCorrect, KeysCountedStep, PTL DEF Spec

-----------------------------------------------------------------------------
(* A denial holds. *)

\* What the server remembers of the last denial is what happened.
DenialKept == rejected # NoApp => current_id = NoApp /\ denied_id = rejected

\* The memory of the denial, over every step.
LEMMA DenialKeptStep == DenialKept /\ [Next]_vars => DenialKept'
<1> SUFFICES ASSUME DenialKept, [Next]_vars PROVE DenialKept'
  OBVIOUS
<1>1. CASE \E a \in Apps : OtherApp(a) \/ Approve(a) \/ Deny(a) \/ TimeOut(a) \/ Raise(a)
  BY <1>1 DEF DenialKept, OtherApp, Approve, Deny, TimeOut, Raise, CloseBox, history
<1>2. CASE ForceTimeout
  BY <1>2 DEF DenialKept, ForceTimeout, CloseBox, history
<1>3. CASE \E k \in {"no", "yes"} : Press(k)
  BY <1>3 DEF DenialKept, Press, server
<1>4. CASE \E k \in Hits : Store(k)
  BY <1>4 DEF DenialKept, Store, server, history
<1>5. CASE \/ \E a \in Apps : poll_approval_ctap1(a) \/ Wait(a) \/ Repeat(a)
           \/ SendUpdate \/ UpdateAppInfo \/ Watch \/ Tick \/ UNCHANGED vars
  <2>1. UNCHANGED <<server, history>>
    BY <1>5 DEF poll_approval_ctap1, Wait, Repeat, SendUpdate, UpdateAppInfo, Watch,
                StartTimer, Pump, Expire, Stop, Wake, Tick, vars
  <2>2. QED
    BY <2>1 DEF DenialKept, server, history
<1>6. QED
  BY <1>1, <1>2, <1>3, <1>4, <1>5 DEF Next, Serve

\* A denial holds: the application denied last gets no prompt until the time
\* of the one it was denied at is over.
THEOREM DenialStands == Spec => DenialHolds
<1>1. Init => DenialKept
  BY DEF Init, DenialKept
<1>2. ASSUME DenialKept, [Next]_vars,
             NEW a \in Apps, current_id = NoApp, current_id' = a, rejected = a
      PROVE  elapsed >= PromptLimit
  <2>1. a # NoApp /\ denied_id = a
    BY <1>2 DEF DenialKept
  <2>2. CASE \E b \in Apps : Raise(b)
    BY <1>2, <2>1, <2>2 DEF Raise
  <2>3. CASE \E b \in Apps : OtherApp(b) \/ Approve(b) \/ Deny(b) \/ TimeOut(b)
    BY <1>2, <2>1, <2>3 DEF OtherApp, Approve, Deny, TimeOut, CloseBox
  <2>4. CASE ForceTimeout
    BY <1>2, <2>1, <2>4 DEF ForceTimeout, CloseBox
  <2>5. CASE \/ \E b \in Apps : poll_approval_ctap1(b) \/ Wait(b) \/ Repeat(b)
             \/ SendUpdate \/ UpdateAppInfo \/ Watch \/ Tick \/ UNCHANGED vars
             \/ \E k \in {"no", "yes"} : Press(k)
             \/ \E k \in Hits : Store(k)
    <3>1. UNCHANGED server
      BY <2>5 DEF poll_approval_ctap1, Wait, Repeat, SendUpdate, UpdateAppInfo, Watch,
                  StartTimer, Pump, Expire, Stop, Wake, Tick, vars, Press, Store
    <3>2. QED
      BY <1>2, <2>1, <3>1 DEF server
  <2>6. QED
    BY <1>2, <2>2, <2>3, <2>4, <2>5 DEF Next, Serve
<1>3. DenialKept /\ [Next]_vars =>
        [\A a \in Apps : current_id = NoApp /\ current_id' = a /\ rejected = a
            => elapsed >= PromptLimit]_vars
  BY <1>2
<1>4. QED
  BY <1>1, <1>3, DenialKeptStep, PTL DEF Spec, DenialHolds

-----------------------------------------------------------------------------
(* A prompt is guarded. *)

\* Where the messages of a queue are when its first is gone or one has joined.
LEMMA TailAt ==
    ASSUME NEW S, NEW q \in Seq(S), q # <<>>
    PROVE  /\ Len(q) \in Nat \ {0} /\ Len(Tail(q)) = Len(q) - 1 /\ Head(q) = q[1]
           /\ \A i \in 1..Len(Tail(q)) : i + 1 \in 1..Len(q) /\ Tail(q)[i] = q[i + 1]
OBVIOUS

\* The messages of a queue stay where they are when another joins.
LEMMA AppendAt ==
    ASSUME NEW S, NEW q \in Seq(S), NEW m \in S
    PROVE  /\ Len(q) \in Nat /\ Len(Append(q, m)) = Len(q) + 1
           /\ Append(q, m) \in Seq(S)
           /\ Append(q, m)[Len(q) + 1] = m
           /\ \A i \in 1..Len(q) : Append(q, m)[i] = q[i]
OBVIOUS

\* The three ways to be guarded, of any queue.
Has(q, m)  == \E i \in 1..Len(q) : q[i] = m
Starts(q)  == \E i \in 1..Len(q) : q[i] = "Run" /\ \A j \in i..Len(q) : q[j] # "Stop"
Commands   == {"Run", "Pump", "Stop"}

\* A message that is not the first is still there when the first is gone; none is new.
LEMMA TailHas ==
    ASSUME NEW S, NEW q \in Seq(S), q # <<>>, NEW m
    PROVE  /\ Has(q, m) /\ Head(q) # m => Has(Tail(q), m)
           /\ ~Has(q, m) => ~Has(Tail(q), m)
<1>1. ASSUME NEW i \in 1..Len(q), q[i] = m, Head(q) # m PROVE Has(Tail(q), m)
  <2>1. i - 1 \in 1..Len(Tail(q)) /\ Tail(q)[i - 1] = q[i]
    <3>1. i # 1
      BY <1>1, TailAt
    <3>2. i - 1 \in 1..Len(Tail(q)) /\ (i - 1) + 1 = i
      BY <3>1, TailAt
    <3>3. QED
      BY <3>2, TailAt
  <2>2. QED
    BY <1>1, <2>1 DEF Has
<1>2. ASSUME NEW i \in 1..Len(Tail(q)), Tail(q)[i] = m PROVE Has(q, m)
  BY <1>2, TailAt DEF Has
<1>3. QED
  BY <1>1, <1>2 DEF Has

\* A message that joins is there, and so are those that were.
LEMMA AppendHas ==
    ASSUME NEW S, NEW q \in Seq(S), NEW n \in S, NEW m
    PROVE  /\ Has(q, m) => Has(Append(q, n), m)
           /\ m \in S => Has(Append(q, m), m)
           /\ n # m /\ ~Has(q, m) => ~Has(Append(q, n), m)
<1>1. ASSUME NEW i \in 1..Len(q), q[i] = m PROVE Has(Append(q, n), m)
  <2>1. i \in 1..Len(Append(q, n)) /\ Append(q, n)[i] = m
    BY <1>1, AppendAt
  <2>2. QED
    BY <2>1 DEF Has
<1>2. ASSUME m \in S PROVE Has(Append(q, m), m)
  <2>1. /\ Len(q) + 1 \in 1..Len(Append(q, m))
        /\ Append(q, m)[Len(q) + 1] = m
    BY <1>2, AppendAt
  <2>2. QED
    BY <2>1 DEF Has
<1>3. ASSUME NEW i \in 1..Len(Append(q, n)), Append(q, n)[i] = m, n # m PROVE Has(q, m)
  <2>1. i \in 1..Len(q) /\ q[i] = m
    BY <1>3, AppendAt
  <2>2. QED
    BY <2>1 DEF Has
<1>4. QED
  BY <1>1, <1>2, <1>3 DEF Has

\* A queued Run that no Stop follows stays one until it is read, whatever else
\* joins the queue but a Stop.
LEMMA TailStarts ==
    ASSUME NEW q \in Seq(Commands), q # <<>>, Starts(q)
    PROVE  \/ Head(q) = "Run" /\ ~Has(Tail(q), "Stop")
           \/ Starts(Tail(q))
<1>1. PICK i \in 1..Len(q) : q[i] = "Run" /\ \A j \in i..Len(q) : q[j] # "Stop"
  BY DEF Starts
<1>2. CASE i = 1
  <2>1. Head(q) = "Run"
    BY <1>1, <1>2, TailAt
  <2>2. ASSUME NEW j \in 1..Len(Tail(q)) PROVE Tail(q)[j] # "Stop"
    <3>1. j + 1 \in i..Len(q) /\ Tail(q)[j] = q[j + 1]
      BY <1>2, TailAt
    <3>2. QED
      BY <1>1, <3>1
  <2>3. QED
    BY <2>1, <2>2 DEF Has
<1>3. CASE i # 1
  <2>1. i - 1 \in 1..Len(Tail(q)) /\ (i - 1) + 1 = i
    BY <1>3, TailAt
  <2>2. Tail(q)[i - 1] = "Run"
    BY <1>1, <2>1, TailAt
  <2>3. ASSUME NEW j \in (i - 1)..Len(Tail(q)) PROVE Tail(q)[j] # "Stop"
    <3>1. j \in 1..Len(Tail(q)) /\ j + 1 \in i..Len(q)
      BY <2>1, TailAt
    <3>2. QED
      BY <1>1, <3>1, TailAt
  <2>4. QED
    BY <2>1, <2>2, <2>3 DEF Starts
<1>4. QED
  BY <1>2, <1>3

\* A Run that joins the queue is its last; one that is there stays if no Stop joins.
LEMMA AppendStarts ==
    ASSUME NEW q \in Seq(Commands), NEW n \in Commands, n # "Stop"
    PROVE  /\ Starts(q) => Starts(Append(q, n))
           /\ Starts(Append(q, "Run"))
<1>1. ASSUME NEW i \in 1..Len(q), q[i] = "Run", \A j \in i..Len(q) : q[j] # "Stop"
      PROVE  Starts(Append(q, n))
  <2>1. i \in 1..Len(Append(q, n)) /\ Append(q, n)[i] = "Run"
    BY <1>1, AppendAt
  <2>2. ASSUME NEW j \in i..Len(Append(q, n)) PROVE Append(q, n)[j] # "Stop"
    <3>1. CASE j = Len(q) + 1
      BY <3>1, AppendAt
    <3>2. CASE j # Len(q) + 1
      <4>1. j \in i..Len(q) /\ j \in 1..Len(q)
        BY <3>2, AppendAt
      <4>2. QED
        BY <1>1, <4>1, AppendAt
    <3>3. QED
      BY <3>1, <3>2
  <2>3. QED
    BY <2>1, <2>2 DEF Starts
<1>2. Starts(Append(q, "Run"))
  <2>1. "Run" \in Commands
    BY DEF Commands
  <2>2. /\ Len(q) + 1 \in 1..Len(Append(q, "Run"))
        /\ Append(q, "Run")[Len(q) + 1] = "Run"
    BY <2>1, AppendAt
  <2>3. \A j \in (Len(q) + 1)..Len(Append(q, "Run")) : j = Len(q) + 1
    BY <2>1, AppendAt
  <2>4. QED
    BY <2>2, <2>3 DEF Starts
<1>3. QED
  BY <1>1, <1>2 DEF Starts

\* The watchdog that runs has a pump on its way.
RunPumps == run => nap # "no" \/ Has(timeouts, "Pump")

GInv == TypeOK /\ PromptGuarded /\ RunPumps

\* PromptGuarded, by Has and Starts.
LEMMA GuardedBy ==
    PromptGuarded <=>
        (current_id # NoApp =>
            \/ run /\ (nap # "no" \/ Has(timeouts, "Pump")) /\ ~Has(timeouts, "Stop")
            \/ Starts(timeouts)
            \/ Has(inbox, ForceMsg))
BY DEF PromptGuarded, Pumping, Starting, Forcing, Has, Starts

\* The types of the two queues, in the words of the lemmas about queues.
LEMMA GuardTypes ==
    TypeOK => /\ timeouts \in Seq(Commands) /\ inbox \in Seq(Messages)
              /\ "Run" \in Commands /\ "Pump" \in Commands /\ "Stop" \in Commands
BY DEF TypeOK, Commands

\* The server raises a prompt with a Run, and otherwise closes it or leaves its guard alone.
LEMMA ServeGuards ==
    ASSUME GInv, Serve \/ UpdateAppInfo PROVE PromptGuarded' /\ RunPumps'
<1>0. TypeOK /\ timeouts \in Seq(Commands) /\ inbox \in Seq(Messages) /\ RunPumps
  BY GuardTypes DEF GInv
<1>1. CASE \E a \in Apps : OtherApp(a) \/ Approve(a) \/ Deny(a) \/ TimeOut(a)
  <2>1. /\ current_id' = NoApp /\ run' = run /\ nap' = nap
        /\ timeouts' = Append(timeouts, "Stop")
    BY <1>1 DEF OtherApp, Approve, Deny, TimeOut, CloseBox, Send, watchdog
  <2>2. QED
    BY <1>0, <2>1, GuardTypes, AppendHas DEF PromptGuarded, RunPumps
<1>2. CASE \E a \in Apps : Raise(a)
  <2>1. run' = run /\ nap' = nap /\ timeouts' = Append(timeouts, "Run")
    BY <1>2 DEF Raise, Send, watchdog
  <2>2. Starts(timeouts')
    BY <1>0, <2>1, GuardTypes, AppendStarts
  <2>3. RunPumps'
    BY <1>0, <2>1, GuardTypes, AppendHas DEF RunPumps
  <2>4. PromptGuarded'
    BY <2>2 DEF PromptGuarded, Starting, Starts
  <2>5. QED
    BY <2>3, <2>4
<1>3. CASE ForceTimeout
  <2>1. current_id' = NoApp /\ UNCHANGED <<run, nap, timeouts>>
    BY <1>3 DEF ForceTimeout, CloseBox, watchdog
  <2>2. QED
    BY <1>0, <2>1 DEF PromptGuarded, RunPumps
<1>4. CASE UpdateAppInfo \/ \E a \in Apps : Wait(a) \/ Repeat(a)
  <2>1. UNCHANGED <<current_id, run, nap, timeouts>> /\ inbox # <<>> /\ inbox' = Tail(inbox)
    BY <1>4 DEF UpdateAppInfo, Wait, Repeat, Polled, Reply, server, watchdog
  <2>2. Head(inbox) # ForceMsg
    BY <1>4, MessageOps DEF UpdateAppInfo, Wait, Repeat, Polled
  <2>3. Has(inbox, ForceMsg) => Has(inbox', ForceMsg)
    BY <1>0, <2>1, <2>2, TailHas
  <2>4. RunPumps'
    BY <1>0, <2>1 DEF RunPumps
  <2>5. PromptGuarded'
    <3>1. Has(inbox, ForceMsg) => Forcing'
      BY <2>3 DEF Has, Forcing
    <3>2. Has(inbox, ForceMsg) <=> Forcing
      BY DEF Has, Forcing
    <3>3. QED
      BY <2>1, <3>1, <3>2 DEF GInv, PromptGuarded, Starting, Pumping
  <2>6. QED
    BY <2>4, <2>5
<1>5. QED
  BY <1>1, <1>2, <1>3, <1>4 DEF Serve

\* The prompt stays guarded when the watchdog reads a message that is not the
\* one that guards it, or that moves the guard on.
LEMMA WatchGuards == ASSUME GInv, Watch PROVE PromptGuarded' /\ RunPumps'
<1>0. /\ TypeOK /\ timeouts \in Seq(Commands) /\ inbox \in Seq(Messages) /\ RunPumps
      /\ "Run" \in Commands /\ "Pump" \in Commands /\ "Stop" \in Commands
  BY GuardTypes DEF GInv
<1>1. current_id # NoApp =>
        \/ run /\ (nap # "no" \/ Has(timeouts, "Pump")) /\ ~Has(timeouts, "Stop")
        \/ Starts(timeouts)
        \/ Has(inbox, ForceMsg)
  BY GuardedBy DEF GInv
<1> DEFINE Guarded == \/ run' /\ (nap' # "no" \/ Has(timeouts', "Pump")) /\ ~Has(timeouts', "Stop")
                      \/ Starts(timeouts')
                      \/ Has(inbox', ForceMsg)
<1>2. ASSUME current_id' # NoApp => Guarded PROVE PromptGuarded'
  BY <1>2 DEF PromptGuarded, Pumping, Starting, Forcing, Has, Starts
<1>3. current_id' = current_id
  BY DEF Watch, StartTimer, Pump, Expire, Stop, Wake, server
<1>4. CASE StartTimer
  <2>1. /\ timeouts # <<>> /\ Head(timeouts) = "Run" /\ run' /\ nap' = nap
        /\ inbox' = inbox
    BY <1>4 DEF StartTimer, Told
  <2>2. Tail(timeouts) \in Seq(Commands)
    BY <1>0, <2>1
  <2>3. RunPumps'
    <3>1. CASE run
      <4>1. timeouts' = Tail(timeouts)
        BY <1>4, <3>1 DEF StartTimer
      <4>2. QED
        BY <1>0, <2>1, <3>1, <4>1, TailHas DEF RunPumps
    <3>2. CASE ~run
      <4>1. timeouts' = Append(Tail(timeouts), "Pump")
        BY <1>4, <3>2 DEF StartTimer
      <4>2. QED
        BY <1>0, <2>2, <4>1, AppendHas DEF RunPumps
    <3>3. QED
      BY <3>1, <3>2
  <2>4. timeouts' = Tail(timeouts) \/ timeouts' = Append(Tail(timeouts), "Pump")
    BY <1>4 DEF StartTimer
  <2>5. ~Has(Tail(timeouts), "Stop") => ~Has(timeouts', "Stop")
    <3>1. CASE timeouts' = Tail(timeouts)
      BY <3>1
    <3>2. CASE timeouts' = Append(Tail(timeouts), "Pump")
      <4>1. "Pump" # "Stop"
        OBVIOUS
      <4>2. ~Has(Tail(timeouts), "Stop") => ~Has(Append(Tail(timeouts), "Pump"), "Stop")
        BY <1>0, <2>2, <4>1, AppendHas
      <4>3. QED
        BY <3>2, <4>2
    <3>3. QED
      BY <2>4, <3>1, <3>2
  <2>6. Starts(Tail(timeouts)) => Starts(timeouts')
    BY <1>0, <2>2, <2>4, AppendStarts
  <2>7. Starts(timeouts) => ~Has(timeouts', "Stop") \/ Starts(timeouts')
    BY <1>0, <2>1, <2>5, <2>6, TailStarts
  <2>8. ~Has(timeouts, "Stop") => ~Has(timeouts', "Stop")
    BY <1>0, <2>1, <2>5, TailHas
  <2>9. nap' # "no" \/ Has(timeouts', "Pump")
    BY <2>1, <2>3 DEF RunPumps
  <2>10. current_id' # NoApp => Guarded
    BY <1>1, <1>3, <2>1, <2>7, <2>8, <2>9
  <2>11. QED
    BY <1>2, <2>3, <2>10
<1>5. CASE Pump
  <2>1. /\ timeouts # <<>> /\ Head(timeouts) = "Pump" /\ run' = run
        /\ timeouts' = Tail(timeouts) /\ inbox' = inbox
        /\ run => nap' = "asleep"
    BY <1>5 DEF Pump, Told
  <2>2. Starts(timeouts) => Starts(timeouts')
    BY <1>0, <2>1, TailStarts
  <2>3. ~Has(timeouts, "Stop") => ~Has(timeouts', "Stop")
    BY <1>0, <2>1, TailHas
  <2>4. RunPumps'
    BY <2>1 DEF RunPumps
  <2>5. current_id' # NoApp => Guarded
    BY <1>1, <1>3, <2>1, <2>2, <2>3
  <2>6. QED
    BY <1>2, <2>4, <2>5
<1>6. CASE Expire
  <2>1. run' = FALSE /\ inbox' = Append(inbox, ForceMsg)
    BY <1>6 DEF Expire
  <2>2. Has(inbox', ForceMsg)
    BY <1>0, <2>1, MessageOps, AppendHas
  <2>3. QED
    BY <1>2, <2>1, <2>2 DEF RunPumps
<1>7. CASE Stop
  <2>1. /\ timeouts # <<>> /\ Head(timeouts) = "Stop" /\ run' = FALSE
        /\ timeouts' = Tail(timeouts) /\ inbox' = inbox
    BY <1>7 DEF Stop, Told
  <2>2. Starts(timeouts) => Starts(timeouts')
    BY <1>0, <2>1, TailStarts
  <2>3. Has(timeouts, "Stop")
    BY <1>0, <2>1, TailAt DEF Has
  <2>4. current_id' # NoApp => Guarded
    BY <1>1, <1>3, <2>1, <2>2, <2>3
  <2>5. QED
    BY <1>2, <2>1, <2>4 DEF RunPumps
<1>8. CASE Wake
  <2>1. run' = run /\ timeouts' = Append(timeouts, "Pump") /\ inbox' = inbox
    BY <1>8 DEF Wake, Send
  <2>2. Has(timeouts', "Pump")
    BY <1>0, <2>1, AppendHas
  <2>3. Starts(timeouts) => Starts(timeouts')
    BY <1>0, <2>1, AppendStarts
  <2>4. ~Has(timeouts, "Stop") => ~Has(timeouts', "Stop")
    BY <1>0, <2>1, AppendHas
  <2>5. current_id' # NoApp => Guarded
    BY <1>1, <1>3, <2>1, <2>2, <2>3, <2>4
  <2>6. QED
    BY <1>2, <2>2, <2>5 DEF RunPumps
<1>9. QED
  BY <1>4, <1>5, <1>6, <1>7, <1>8 DEF Watch

\* The FIDO thread, the user, the listeners and time take no message from a queue.
LEMMA OtherGuards ==
    ASSUME GInv, \/ \E a \in Apps : poll_approval_ctap1(a)
                 \/ SendUpdate \/ Tick \/ UNCHANGED vars
                 \/ \E k \in {"no", "yes"} : Press(k)
                 \/ \E k \in Hits : Store(k)
    PROVE  PromptGuarded' /\ RunPumps'
<1>0. TypeOK /\ inbox \in Seq(Messages)
  BY GuardTypes DEF GInv
<1>1. UNCHANGED <<current_id, timeouts, run>>
  BY DEF poll_approval_ctap1, SendUpdate, Tick, Press, Store, server, watchdog, vars
<1>2. nap # "no" => nap' # "no"
  BY DEF poll_approval_ctap1, SendUpdate, Tick, Press, Store, watchdog, vars
<1>3. Has(inbox, ForceMsg) => Has(inbox', ForceMsg)
  <2>1. \/ inbox' = inbox
        \/ inbox' = Append(inbox, UpdateMsg)
        \/ \E a \in Apps : inbox' = Append(inbox, PollMsg(a))
    BY DEF poll_approval_ctap1, SendUpdate, Tick, Press, Store, vars
  <2>2. ASSUME NEW m \in Messages, inbox' = Append(inbox, m)
        PROVE  Has(inbox, ForceMsg) => Has(inbox', ForceMsg)
    BY <1>0, <2>2, AppendHas
  <2>3. QED
    BY <2>1, <2>2, MessageOps
<1>4. RunPumps'
  BY <1>1, <1>2 DEF GInv, RunPumps
<1>5. PromptGuarded'
  <2>1. Forcing => Forcing'
    BY <1>3 DEF Has, Forcing
  <2>2. QED
    BY <1>1, <1>2, <2>1 DEF GInv, PromptGuarded, Starting, Pumping
<1>6. QED
  BY <1>4, <1>5

\* Every prompt is guarded: at any time it is up, the watchdog is on its way to
\* closing it, or has been told to start and not to stop, or has told the server.
THEOREM PromptsGuarded == Spec => []PromptGuarded
<1>1. Init => PromptGuarded /\ RunPumps
  BY DEF Init, PromptGuarded, RunPumps
<1>2. PromptGuarded /\ RunPumps /\ TypeOK /\ [Next]_vars => PromptGuarded' /\ RunPumps'
  <2> SUFFICES ASSUME PromptGuarded, RunPumps, TypeOK, [Next]_vars
               PROVE  PromptGuarded' /\ RunPumps'
    OBVIOUS
  <2>1. GInv
    BY DEF GInv
  <2>2. CASE Serve \/ UpdateAppInfo
    BY <2>1, <2>2, ServeGuards
  <2>3. CASE Watch
    BY <2>1, <2>3, WatchGuards
  <2>4. CASE \/ \E a \in Apps : poll_approval_ctap1(a)
             \/ SendUpdate \/ Tick \/ UNCHANGED vars
             \/ \E k \in {"no", "yes"} : Press(k)
             \/ \E k \in Hits : Store(k)
    BY <2>1, <2>4, OtherGuards
  <2>5. QED
    BY <2>2, <2>3, <2>4 DEF Next
<1>3. QED
  BY <1>1, <1>2, TypeCorrect, PTL DEF Spec
=============================================================================
