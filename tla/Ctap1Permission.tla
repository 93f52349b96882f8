--------------------------- MODULE Ctap1Permission ---------------------------
(***************************************************************************)
(* The user's permission for a U2F (CTAP1) command: the threads of         *)
(* env/xous/mod.rs.                                                        *)
(*                                                                         *)
(* A U2F host polls.  The FIDO thread passes each poll to a server, waits  *)
(* for its reply and, when that is an approval, sends the server a note of *)
(* it.  The server raises a prompt at the first poll and answers later     *)
(* ones by the key the user has hit.  Each prompt has a listener thread of *)
(* its own, and they all store what they got in one kbhit.  A watchdog     *)
(* thread closes the prompt if the host stops polling.                     *)
(*                                                                         *)
(* The threads talk by messages and are scheduled in any order.  A tick is *)
(* a second.  What the record of an application says is left out: it is    *)
(* wording of the prompt.                                                  *)
(***************************************************************************)
EXTENDS Integers, Sequences

CONSTANTS Apps,        \* application ids
          PromptLimit, \* U2F_UP_PROMPT_TIMEOUT, in ticks
          Margin,      \* MARGIN_MS, in ticks
          MaxQueue,    \* bound: messages that wait for the watchdog
          MaxThreads,  \* bound: listeners that have yet to store a key
          MaxPresses   \* bound: keys that approve

ASSUME LimitAssumption == PromptLimit \in Nat /\ Margin \in Nat
ASSUME BoundAssumption == MaxQueue \in Nat /\ MaxThreads \in Nat /\ MaxPresses \in Nat

NoApp == "none"
ASSUME AppsAssumption == NoApp \notin Apps

VARIABLES
    fido,        \* the FIDO thread: "idle", "waiting" for a reply, or "granted"
    inbox,       \* messages for the server
    current_id,  \* the application whose prompt is up
    denied_id,   \* the one that was denied last
    elapsed,     \* ticks since request_start, up to PromptLimit
    kbhit,       \* the key that was stored last
    listening,   \* the listener of the prompt that is up has no key yet
    late,        \* listeners that are about to store each key
    timeouts,    \* messages for the watchdog
    run,         \* the watchdog's flag
    nap,         \* it sleeps between two pumps: "no", "asleep" or "over"
    age,         \* ticks since its start_time, up to the first that is too late
    pressed,     \* history: keys that approve, hit so far
    approved,    \* history: approvals given so far
    rejected     \* history: the application denied since the last prompt

server   == <<current_id, denied_id>>
keyboard == <<kbhit, listening, late>>
watchdog == <<run, nap, age>>
history  == <<pressed, approved, rejected>>
vars     == <<fido, inbox, server, elapsed, keyboard, timeouts, watchdog, history>>

-----------------------------------------------------------------------------
\* No key (0), the key that denies (the down arrow), and all others.
Hits == {"none", "no", "yes"}

PollMsg(a) == [op |-> "PollPermission", app |-> a]
UpdateMsg  == [op |-> "UpdateAppInfo", app |-> NoApp]
ForceMsg   == [op |-> "ForceTimeout", app |-> NoApp]

Deadline == PromptLimit + Margin

Init ==
    /\ fido = "idle" /\ inbox = <<>>
    /\ current_id = NoApp /\ denied_id = NoApp /\ elapsed = 0
    /\ kbhit = "none" /\ listening = FALSE /\ late = [k \in Hits |-> 0]
    /\ timeouts = <<>>
    /\ run = FALSE /\ nap = "no" /\ age = 0
    /\ pressed = 0 /\ approved = 0 /\ rejected = NoApp

-----------------------------------------------------------------------------
(* The FIDO thread. *)

\* The host registers or authenticates for an application, again or anew.
poll_approval_ctap1(a) ==
    /\ fido = "idle"
    /\ Len(timeouts) < MaxQueue
    /\ fido' = "waiting"
    /\ inbox' = Append(inbox, PollMsg(a))
    /\ UNCHANGED <<server, elapsed, keyboard, timeouts, watchdog, history>>

SendUpdate ==
    /\ fido = "granted"
    /\ fido' = "idle"
    /\ inbox' = Append(inbox, UpdateMsg)
    /\ UNCHANGED <<server, elapsed, keyboard, timeouts, watchdog, history>>

-----------------------------------------------------------------------------
(* The server. *)

Polled(a) == inbox # <<>> /\ Head(inbox) = PollMsg(a)
Reply     == inbox' = Tail(inbox) /\ fido' = "idle"
Send(m)   == timeouts' = Append(timeouts, m)

\* dynamic_notification_close: a listener without a key gets None.
CloseBox ==
    /\ current_id' = NoApp
    /\ listening' = FALSE
    /\ late' = IF listening THEN [late EXCEPT !["none"] = @ + 1] ELSE late

OtherApp(a) ==
    /\ Polled(a) /\ current_id \notin {NoApp, a}
    /\ Reply /\ Send("Stop") /\ CloseBox
    /\ UNCHANGED <<denied_id, elapsed, kbhit, watchdog, history>>

Approve(a) ==
    /\ Polled(a) /\ current_id = a /\ kbhit = "yes"
    /\ inbox' = Tail(inbox) /\ fido' = "granted"
    /\ Send("Stop") /\ CloseBox
    /\ approved' = approved + 1
    /\ UNCHANGED <<denied_id, elapsed, kbhit, watchdog, pressed, rejected>>

Deny(a) ==
    /\ Polled(a) /\ current_id = a /\ kbhit = "no"
    /\ Reply /\ Send("Stop") /\ CloseBox
    /\ denied_id' = a /\ rejected' = a
    /\ UNCHANGED <<elapsed, kbhit, watchdog, pressed, approved>>

Wait(a) ==
    /\ Polled(a) /\ current_id = a /\ kbhit = "none"
    /\ elapsed < PromptLimit
    /\ Reply
    /\ UNCHANGED <<server, elapsed, keyboard, timeouts, watchdog, history>>

TimeOut(a) ==
    /\ Polled(a) /\ current_id = a /\ kbhit = "none"
    /\ elapsed >= PromptLimit
    /\ Reply /\ Send("Stop") /\ CloseBox
    /\ denied_id' = NoApp
    /\ UNCHANGED <<elapsed, kbhit, watchdog, history>>

\* Mutant: a denial answers one repeated request and is forgotten.
Repeat_Once(a) ==
    /\ Polled(a) /\ current_id = NoApp
    /\ denied_id = a /\ elapsed < PromptLimit
    /\ Reply
    /\ denied_id' = NoApp
    /\ UNCHANGED <<current_id, elapsed, keyboard, timeouts, watchdog, history>>

Repeat(a) ==
    /\ Polled(a) /\ current_id = NoApp
    /\ denied_id = a /\ elapsed < PromptLimit
    /\ Reply
    /\ UNCHANGED <<server, elapsed, keyboard, timeouts, watchdog, history>>

\* Mutants: the key of an earlier prompt is kept; the watchdog is not started.
Raise_KeepKey(a) ==
    /\ Polled(a) /\ current_id = NoApp
    /\ denied_id = a => elapsed >= PromptLimit
    /\ late["none"] + late["no"] + late["yes"] < MaxThreads
    /\ Reply /\ Send("Run")
    /\ current_id' = a /\ denied_id' = NoApp /\ elapsed' = 0
    /\ listening' = TRUE
    /\ rejected' = NoApp
    /\ UNCHANGED <<kbhit, late, watchdog, pressed, approved>>
Raise_Unguarded(a) ==
    /\ Polled(a) /\ current_id = NoApp
    /\ denied_id = a => elapsed >= PromptLimit
    /\ late["none"] + late["no"] + late["yes"] < MaxThreads
    /\ Reply /\ timeouts' = timeouts
    /\ current_id' = a /\ denied_id' = NoApp /\ elapsed' = 0
    /\ kbhit' = "none" /\ listening' = TRUE
    /\ rejected' = NoApp
    /\ UNCHANGED <<late, watchdog, pressed, approved>>

Raise(a) ==
    /\ Polled(a) /\ current_id = NoApp
    /\ denied_id = a => elapsed >= PromptLimit
    /\ late["none"] + late["no"] + late["yes"] < MaxThreads
    /\ Reply /\ Send("Run")
    /\ current_id' = a /\ denied_id' = NoApp /\ elapsed' = 0
    /\ kbhit' = "none" /\ listening' = TRUE
    /\ rejected' = NoApp
    /\ UNCHANGED <<late, watchdog, pressed, approved>>

ForceTimeout ==
    /\ inbox # <<>> /\ Head(inbox) = ForceMsg
    /\ inbox' = Tail(inbox)
    /\ CloseBox
    /\ UNCHANGED <<fido, denied_id, elapsed, kbhit, timeouts, watchdog, history>>

\* It may ask the user for a name, and take as long as that takes.
UpdateAppInfo ==
    /\ inbox # <<>> /\ Head(inbox) = UpdateMsg
    /\ inbox' = Tail(inbox)
    /\ UNCHANGED <<fido, server, elapsed, keyboard, timeouts, watchdog, history>>

-----------------------------------------------------------------------------
(* The user and the listeners. *)

\* A listener returns with the first key and is not started again.
Press(k) ==
    /\ current_id # NoApp /\ listening
    /\ k = "yes" => pressed < MaxPresses
    /\ listening' = FALSE
    /\ late' = [late EXCEPT ![k] = @ + 1]
    /\ pressed' = IF k = "yes" THEN pressed + 1 ELSE pressed
    /\ UNCHANGED <<fido, inbox, server, elapsed, kbhit, timeouts, watchdog, approved, rejected>>

Store(k) ==
    /\ late[k] > 0
    /\ late' = [late EXCEPT ![k] = @ - 1]
    /\ kbhit' = k
    /\ UNCHANGED <<fido, inbox, server, elapsed, listening, timeouts, watchdog, history>>

-----------------------------------------------------------------------------
(* The watchdog. *)

Told(m) == nap = "no" /\ timeouts # <<>> /\ Head(timeouts) = m

StartTimer ==
    /\ Told("Run")
    /\ run' = TRUE
    /\ IF run THEN age' = age /\ timeouts' = Tail(timeouts)
              ELSE age' = 0 /\ timeouts' = Append(Tail(timeouts), "Pump")
    /\ UNCHANGED <<fido, inbox, server, elapsed, keyboard, nap, history>>

Pump ==
    /\ Told("Pump")
    /\ run => age <= Deadline
    /\ timeouts' = Tail(timeouts)
    /\ nap' = IF run THEN "asleep" ELSE nap
    /\ UNCHANGED <<fido, inbox, server, elapsed, keyboard, run, age, history>>

\* Mutant: the flag stays up, and the next Run does not start the pump.
Expire_KeepRun ==
    /\ Told("Pump")
    /\ run /\ age > Deadline
    /\ timeouts' = Tail(timeouts)
    /\ inbox' = Append(inbox, ForceMsg)
    /\ UNCHANGED <<fido, server, elapsed, keyboard, run, nap, age, history>>

Expire ==
    /\ Told("Pump")
    /\ run /\ age > Deadline
    /\ timeouts' = Tail(timeouts)
    /\ run' = FALSE
    /\ inbox' = Append(inbox, ForceMsg)
    /\ UNCHANGED <<fido, server, elapsed, keyboard, nap, age, history>>

Stop ==
    /\ Told("Stop")
    /\ timeouts' = Tail(timeouts)
    /\ run' = FALSE
    /\ UNCHANGED <<fido, inbox, server, elapsed, keyboard, nap, age, history>>

Wake ==
    /\ nap = "over"
    /\ nap' = "no"
    /\ Send("Pump")
    /\ UNCHANGED <<fido, inbox, server, elapsed, keyboard, run, age, history>>

Tick ==
    /\ elapsed < PromptLimit \/ age <= Deadline \/ nap = "asleep"
    /\ elapsed' = IF elapsed < PromptLimit THEN elapsed + 1 ELSE elapsed
    /\ age' = IF age <= Deadline THEN age + 1 ELSE age
    /\ nap' = IF nap = "asleep" THEN "over" ELSE nap
    /\ UNCHANGED <<fido, inbox, server, keyboard, timeouts, run, history>>

-----------------------------------------------------------------------------
Serve ==
    \/ \E a \in Apps : \/ OtherApp(a) \/ Approve(a) \/ Deny(a) \/ Wait(a)
                       \/ TimeOut(a) \/ Repeat(a) \/ Raise(a)
    \/ ForceTimeout

Watch == StartTimer \/ Pump \/ Expire \/ Stop \/ Wake

Next ==
    \/ \E a \in Apps : poll_approval_ctap1(a)
    \/ SendUpdate
    \/ Serve \/ UpdateAppInfo
    \/ \E k \in {"no", "yes"} : Press(k)
    \/ \E k \in Hits : Store(k)
    \/ Watch \/ Tick

\* The two threads are scheduled and time passes.  Nothing is assumed of the
\* host, the user or the listeners, nor of how long UpdateAppInfo takes.
Spec == /\ Init /\ [][Next]_vars
        /\ WF_vars(Serve) /\ WF_vars(Watch) /\ WF_vars(Tick)

-----------------------------------------------------------------------------
Messages == {PollMsg(a) : a \in Apps} \cup {UpdateMsg, ForceMsg}

TypeOK ==
    /\ fido \in {"idle", "waiting", "granted"}
    /\ inbox \in Seq(Messages)
    /\ current_id \in Apps \cup {NoApp} /\ denied_id \in Apps \cup {NoApp}
    /\ elapsed \in 0..PromptLimit
    /\ kbhit \in Hits /\ listening \in BOOLEAN /\ late \in [Hits -> Nat]
    /\ timeouts \in Seq({"Run", "Pump", "Stop"})
    /\ run \in BOOLEAN /\ nap \in {"no", "asleep", "over"} /\ age \in 0..(Deadline + 1)
    /\ pressed \in Nat /\ approved \in Nat
    /\ rejected \in Apps \cup {NoApp}

\* kbhit is stored by any listener at any time and is read, not taken, by the
\* server: still, one key approves at most one request.
OnePressOneApproval == approved <= pressed

\* The application that was denied last gets no new prompt before the time of
\* the one it was denied at is over, however often the host asks.
DenialHolds ==
    [][\A a \in Apps : current_id = NoApp /\ current_id' = a /\ rejected = a
          => elapsed >= PromptLimit]_vars

\* While a prompt is up something is on its way that will close it: the
\* watchdog pumps, a Run that no Stop follows is queued, or so is a ForceTimeout.
Pumping  == nap # "no" \/ \E i \in 1..Len(timeouts) : timeouts[i] = "Pump"
Starting == \E i \in 1..Len(timeouts) :
               /\ timeouts[i] = "Run"
               /\ \A j \in i..Len(timeouts) : timeouts[j] # "Stop"
Forcing  == \E i \in 1..Len(inbox) : inbox[i] = ForceMsg
PromptGuarded ==
    current_id # NoApp =>
        \/ run /\ Pumping /\ \A i \in 1..Len(timeouts) : timeouts[i] # "Stop"
        \/ Starting
        \/ Forcing

\* "if another token responds to the request, we will be left hanging": every
\* prompt is closed, though the host and the user may never come back.
PromptCloses == current_id # NoApp ~> current_id = NoApp
=============================================================================
