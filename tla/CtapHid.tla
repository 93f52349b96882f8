------------------------------ MODULE CtapHid ------------------------------
(***************************************************************************)
(* The CTAP HID transport (ctap/hid, ctap/main_hid.rs, fido2.rs): requests *)
(* of several applications of one host, cut into packets, put together     *)
(* again by one assembler for all channels, and answered.                  *)
(*                                                                         *)
(* The device handles a packet to the end, replies included, before it     *)
(* takes the next, so a packet is one step of it.  Packets of different    *)
(* applications interleave in any way, may be lost, and may come so late   *)
(* that the assembler gives up the message they belong to.                 *)
(*                                                                         *)
(* The applications are not in this repository.  They are what the         *)
(* protocol asks of a host: open a channel with a nonce, one request at a  *)
(* time, and after an error or an answer not waited for a CTAPHID_INIT     *)
(* with a new nonce before the next request.                               *)
(***************************************************************************)
EXTENDS Integers, Sequences

CONSTANTS Apps,
          InitData,    \* bytes of payload in an initialization packet, 57
          ContData,    \* and in a continuation packet, 59
          NonceLen,    \* length of a CTAPHID_INIT, 8
          MaxMsgSize,  \* 7609
          Shapes,      \* commands and lengths of the requests each application makes
          ReplyLens,   \* lengths of what a CTAP command returns
          MaxRequests, \* bound: requests of each application, CTAPHID_INITs included
          MaxCids,     \* bound: channels
          MaxInbox     \* bound: replies an application has not read

ASSUME PacketAssumption == /\ InitData \in Nat \ {0}
                           /\ ContData \in Nat \ {0}
                           /\ NonceLen \in 1..InitData
                           /\ MaxMsgSize \in Nat
                           /\ NonceLen <= MaxMsgSize
ASSUME LengthAssumption ==
    /\ Shapes \in [Apps -> SUBSET [cmd : {"Init", "Ping", "Cbor", "Other"}, len : Nat \ {0}]]
    /\ \A a \in Apps : \A k \in Shapes[a] : k.cmd = "Init" => k.len # NonceLen
    /\ ReplyLens \subseteq Nat
ASSUME BoundAssumption  == MaxRequests \in [Apps -> Nat] /\ MaxCids \in Nat /\ MaxInbox \in Nat

VARIABLES
    idle,      \* MessageAssembler: no message is under way
    cid,       \*   the channel of the message under way
    stale,     \*   TIMEOUT_DURATION has passed since last_timestamp
    cmd, seq, remaining, payload,
    allocated, \* CtapHid.allocated_cids
    st,        \* what each application does
    chan,      \* its channel
    msg,       \* its request in hand, the one answered last, or its CTAPHID_INIT
    pos,       \* the packets of it that were sent
    count,     \* the requests it has made
    inbox,     \* the replies it has not read
    executed   \* history: the messages that were run

assembler == <<idle, cid, stale, cmd, seq, remaining, payload>>
apps      == <<st, chan, msg, pos, count>>
vars      == <<assembler, allocated, apps, inbox, executed>>

-----------------------------------------------------------------------------
Reserved  == 0   \* CHANNEL_RESERVED
Broadcast == -1  \* CHANNEL_BROADCAST
Channels  == 1..MaxCids

\* Cbor stands for Msg, Wink and the vendor commands as well, which are run and
\* answered under their own command; Other for those that are unknown.
Cmds   == {"Init", "Ping", "Cbor", "Cancel", "Other"}
Errors == {"InvalidCmd", "InvalidLen", "InvalidSeq", "MsgTimeout", "ChannelBusy", "InvalidChannel"}

\* The nth request of an application.
RequestsOf(a) == {[app |-> a, n |-> i, cmd |-> k.cmd, len |-> k.len] :
                     i \in 1..MaxRequests[a], k \in Shapes[a] \cup {[cmd |-> "Init", len |-> NonceLen]}}
Requests == UNION {RequestsOf(a) : a \in Apps}
Nothing  == [cmd |-> "none"]

\* A byte of a payload is known by the request it comes from and its place there.
\* The status byte that replaces an answer is byte 0; Pad fills a packet.
Pad     == <<Nothing, 0>>
Data(m) == [i \in 1..m.len |-> <<m, i>>]

\* Packet k of a message of length len starts at Offset(k).
Offset(k)   == IF k = 0 THEN 0 ELSE InitData + (k - 1) * ContData
Size(k)     == IF k = 0 THEN InitData ELSE ContData
Frames(len) == {k \in 0..len : k = 0 \/ Offset(k) < len}

\* consume_data: the bytes of s from a place on, and zeros behind them.
Chunk(s, from, size) == [i \in 1..size |-> IF from + i <= Len(s) THEN s[from + i] ELSE Pad]

\* Mutant: a continuation packet skips a byte.
Split_Skips(s) == [k \in Frames(Len(s)) |-> Chunk(s, Offset(k) + (IF k = 0 THEN 0 ELSE 1), Size(k))]

\* HidPacketIterator
Split(s) == [k \in Frames(Len(s)) |-> Chunk(s, Offset(k), Size(k))]

\* What the host makes of the packets of a reply that says it is len long.
Joined(frames, len) ==
    [i \in 1..len |-> IF i <= InitData THEN frames[0][i]
                      ELSE LET j == i - InitData - 1
                           IN frames[1 + (j \div ContData)][1 + (j % ContData)]]

-----------------------------------------------------------------------------
(* Replies.                                                                *)

\* split_message: an answer that does not fit is replaced by a status byte.
SplitMessage(m) ==
    LET fits == Len(m.payload) <= MaxMsgSize
        s == IF fits THEN m.payload ELSE <<<<m.payload[1][1], 0>>>>
    IN [cmd |-> IF fits THEN m.cmd ELSE "Cbor", len |-> Len(s), frames |-> Split(s)]

ErrorMessage(e) == [cmd |-> "Error", len |-> 1, frames |-> Split(<<e>>)]

\* Every application of the host sees every reply and reads those on its channel.
Listens(b, c) == IF c = Broadcast THEN st[b] = "opening" ELSE chan[b] = c
Post(c, r)    == inbox' = [b \in Apps |-> IF Listens(b, c) THEN Append(inbox[b], r) ELSE inbox[b]]

IsAllocated(c) == c # Reserved /\ c \in 1..allocated

\* CtapHid::parse_packet, when the assembler returned an error
Refuse(c, e) == /\ Post(c, ErrorMessage(IF IsAllocated(c) THEN e ELSE "InvalidChannel"))
                /\ UNCHANGED <<allocated, executed>>

HasValidChannel(m) == IF m.cid = Broadcast THEN m.cmd = "Init" ELSE IsAllocated(m.cid)

\* Mutant: the number of channels is not counted up.
Initialize_SameChannel(m) ==
    /\ m.cmd = "Init" /\ Len(m.payload) = NonceLen
    /\ allocated' = IF m.cid = Broadcast THEN 1 ELSE allocated
    /\ LET new == IF m.cid = Broadcast THEN allocated' ELSE m.cid
       IN Post(m.cid, [cmd |-> "Init", nonce |-> m.payload, new |-> new])
    /\ UNCHANGED executed

\* preprocess_message of a CTAPHID_INIT: a new channel, or the one it came on.
Initialize(m) ==
    /\ m.cmd = "Init" /\ Len(m.payload) = NonceLen
    /\ allocated' = IF m.cid = Broadcast THEN allocated + 1 ELSE allocated
    /\ LET new == IF m.cid = Broadcast THEN allocated' ELSE m.cid
       IN Post(m.cid, [cmd |-> "Init", nonce |-> m.payload, new |-> new])
    /\ UNCHANGED executed

\* process_message: Ping returns what it was sent, the others what CTAP says.
Execute(m) ==
    /\ m.cmd \in {"Ping", "Cbor"}
    /\ executed' = executed \cup {m}
    /\ \E len \in IF m.cmd = "Ping" THEN {Len(m.payload)} ELSE ReplyLens :
           Post(m.cid, SplitMessage(
                   [cmd |-> m.cmd,
                    payload |-> IF m.cmd = "Ping" THEN m.payload
                                ELSE [i \in 1..len |-> <<m.payload[1][1], i>>]]))
    /\ UNCHANGED allocated

\* An assembled message that is answered with an error, or not at all.
Discard(m) ==
    /\ \/ m.cmd = "Init" /\ Len(m.payload) # NonceLen /\ Post(m.cid, ErrorMessage("InvalidLen"))
       \/ m.cmd = "Other" /\ Post(m.cid, ErrorMessage("InvalidCmd"))
       \/ m.cmd = "Cancel" /\ UNCHANGED inbox
    /\ UNCHANGED <<allocated, executed>>

PreprocessMessage(m) ==
    \/ /\ ~HasValidChannel(m)
       /\ Post(m.cid, ErrorMessage("InvalidChannel"))
       /\ UNCHANGED <<allocated, executed>>
    \/ HasValidChannel(m) /\ (Initialize(m) \/ Execute(m) \/ Discard(m))

-----------------------------------------------------------------------------
(* The assembler.                                                          *)

\* Mutant: the bytes collected so far stay.
Reset_KeepsPayload == /\ idle' = TRUE
                      /\ cid' = Reserved
                      /\ stale' = FALSE
                      /\ cmd' = "none"
                      /\ seq' = 0
                      /\ remaining' = 0
                      /\ UNCHANGED payload

\* reset
Reset == /\ idle' = TRUE
         /\ cid' = Reserved
         /\ stale' = FALSE
         /\ cmd' = "none"
         /\ seq' = 0
         /\ remaining' = 0
         /\ payload' = <<>>

\* Mutant: the payload is copied out, not swapped for an empty one.
AppendPayload_Copies(buffer, left, data, c, k) ==
    \/ /\ Len(data) < left
       /\ payload' = buffer \o data
       /\ idle' = FALSE
       /\ remaining' = left - Len(data)
       /\ UNCHANGED <<allocated, inbox, executed>>
    \/ /\ Len(data) >= left
       /\ payload' = buffer \o SubSeq(data, 1, left)
       /\ idle' = TRUE
       /\ remaining' = left
       /\ PreprocessMessage([cid |-> c, cmd |-> k, payload |-> payload'])

\* append_payload, to the bytes in buffer, of which left are to come. A message
\* that is complete leaves the assembler idle.
AppendPayload(buffer, left, data, c, k) ==
    \/ /\ Len(data) < left
       /\ payload' = buffer \o data
       /\ idle' = FALSE
       /\ remaining' = left - Len(data)
       /\ UNCHANGED <<allocated, inbox, executed>>
    \/ /\ Len(data) >= left
       /\ payload' = <<>>
       /\ idle' = TRUE
       /\ remaining' = left
       /\ PreprocessMessage([cid |-> c, cmd |-> k, payload |-> buffer \o SubSeq(data, 1, left)])

\* parse_init_packet. Any message that was under way has been reset.
ParseInitPacket(p) ==
    \/ /\ p.len > MaxMsgSize
       /\ IF idle THEN UNCHANGED assembler ELSE Reset
       /\ Refuse(p.cid, "InvalidLen")
    \/ /\ p.len <= MaxMsgSize
       /\ cid' = p.cid
       /\ stale' = FALSE
       /\ cmd' = p.cmd
       /\ seq' = 0
       /\ AppendPayload(IF idle THEN payload ELSE <<>>, p.len, p.data, p.cid, p.cmd)

\* Mutant: it never is.
TimedOut_Never == FALSE

\* The message under way is too old: any packet resets it.
TimedOut == ~idle /\ stale

\* parse_packet, one action for each of its ways out.
LateContinuation(p) == /\ TimedOut /\ p.cid = cid /\ p.kind = "cont"
                       /\ Reset
                       /\ Refuse(p.cid, "MsgTimeout")

\* UnexpectedContinuation gets no reply.
StrayContinuation(p) == /\ p.kind = "cont"
                        /\ idle \/ (TimedOut /\ p.cid # cid)
                        /\ IF idle THEN UNCHANGED assembler ELSE Reset
                        /\ UNCHANGED <<allocated, inbox, executed>>

StartMessage(p) == /\ p.kind = "init" /\ (idle \/ TimedOut)
                   /\ ParseInitPacket(p)

OtherChannel(p) == /\ ~idle /\ ~TimedOut /\ p.cid # cid
                   /\ Refuse(p.cid, "ChannelBusy")
                   /\ UNCHANGED assembler

\* A CTAPHID_INIT on the channel drops the message under way and is handled.
Restart(p) == /\ ~idle /\ ~TimedOut /\ p.cid = cid /\ p.kind = "init"
              /\ \/ p.cmd = "Init" /\ ParseInitPacket(p)
                 \/ p.cmd # "Init" /\ Reset /\ Refuse(p.cid, "InvalidSeq")

Continue(p) == /\ ~idle /\ ~TimedOut /\ p.cid = cid /\ p.kind = "cont"
               /\ \/ /\ p.seq = seq
                     /\ seq' = seq + 1
                     /\ stale' = FALSE
                     /\ AppendPayload(payload, remaining, p.data, cid, cmd)
                     /\ UNCHANGED <<cid, cmd>>
                  \/ p.seq # seq /\ Reset /\ Refuse(p.cid, "InvalidSeq")

ProcessHidPacket(p) == \/ LateContinuation(p) \/ StrayContinuation(p) \/ StartMessage(p)
                       \/ OtherChannel(p) \/ Restart(p) \/ Continue(p)

\* TIMEOUT_DURATION passes. What is stale stays so until a packet comes.
Tick == /\ ~idle /\ ~stale
        /\ stale' = TRUE
        /\ UNCHANGED <<idle, cid, cmd, seq, remaining, payload, allocated, apps, inbox, executed>>

-----------------------------------------------------------------------------
(* The applications, and the packets on their way.                         *)

Waits(a)  == st[a] \in {"opening", "syncing", "busy"}
ToSend(a) == Waits(a) /\ pos[a] \in Frames(msg[a].len)
AllSent(a) == Waits(a) /\ pos[a] \notin Frames(msg[a].len)

Packet(a) ==
    LET c    == IF st[a] = "opening" THEN Broadcast ELSE chan[a]
        data == Chunk(Data(msg[a]), Offset(pos[a]), Size(pos[a]))
    IN IF pos[a] = 0
       THEN [cid |-> c, kind |-> "init", cmd |-> msg[a].cmd, len |-> msg[a].len, data |-> data]
       ELSE [cid |-> c, kind |-> "cont", seq |-> pos[a] - 1, data |-> data]

RoomFor(a) == /\ \A b \in Apps : Len(inbox[b]) < MaxInbox
              /\ st[a] = "opening" => allocated < MaxCids

\* The next packet reaches the device.
Send(a) == /\ ToSend(a) /\ RoomFor(a)
           /\ pos' = [pos EXCEPT ![a] = @ + 1]
           /\ ProcessHidPacket(Packet(a))
           /\ UNCHANGED <<st, chan, msg, count>>

\* It is lost before.
Lose(a) == /\ ToSend(a)
           /\ pos' = [pos EXCEPT ![a] = @ + 1]
           /\ UNCHANGED <<assembler, allocated, st, chan, msg, count, inbox, executed>>

\* A CTAPHID_CANCEL while a request is waited for: it takes no reply.
SendCancel(a) == /\ st[a] = "busy" /\ AllSent(a) /\ RoomFor(a)
                 /\ ProcessHidPacket([cid |-> chan[a], kind |-> "init", cmd |-> "Cancel", len |-> 0,
                                      data |-> [i \in 1..InitData |-> Pad]])
                 /\ UNCHANGED apps

\* The application turns to a new request, which is not yet sent.
Turn(a, to, k, len) ==
    /\ count[a] < MaxRequests[a]
    /\ count' = [count EXCEPT ![a] = @ + 1]
    /\ st' = [st EXCEPT ![a] = to]
    /\ msg' = [msg EXCEPT ![a] = [app |-> a, n |-> count'[a], cmd |-> k, len |-> len]]
    /\ pos' = [pos EXCEPT ![a] = 0]

Open(a) == /\ st[a] = "closed"
           /\ Turn(a, "opening", "Init", NonceLen)
           /\ UNCHANGED <<assembler, allocated, chan, inbox, executed>>

Ask(a) == /\ st[a] = "ready"
          /\ \E k \in Shapes[a] : Turn(a, "busy", k.cmd, k.len)
          /\ UNCHANGED <<assembler, allocated, chan, inbox, executed>>

\* It stops waiting, or stops in the middle of a request.
Sync(a) == /\ st[a] = "busy"
           /\ Turn(a, "syncing", "Init", NonceLen)
           /\ UNCHANGED <<assembler, allocated, chan, inbox, executed>>

\* It sends the same CTAPHID_INIT again.
Retry(a) == /\ st[a] \in {"opening", "syncing"} /\ AllSent(a)
            /\ pos' = [pos EXCEPT ![a] = 0]
            /\ UNCHANGED <<assembler, allocated, st, chan, msg, count, inbox, executed>>

\* It reads the next reply, once it has sent its request: another's, an older
\* one and an error of a CTAPHID_INIT are dropped.
Read(a) == AllSent(a) /\ inbox[a] # <<>> /\ inbox' = [inbox EXCEPT ![a] = Tail(@)]

Initialized(a) == st[a] \in {"opening", "syncing"} /\ Head(inbox[a]).cmd = "Init"
                  /\ Head(inbox[a]).nonce = Data(msg[a])
Answered(a)    == st[a] = "busy" /\ Head(inbox[a]).cmd = msg[a].cmd /\ msg[a].cmd # "Init"

Connect(a) == /\ Read(a) /\ Initialized(a)
              /\ st' = [st EXCEPT ![a] = "ready"]
              /\ chan' = [chan EXCEPT ![a] = Head(inbox[a]).new]
              /\ msg' = [msg EXCEPT ![a] = Nothing]
              /\ UNCHANGED <<assembler, allocated, pos, count, executed>>

Accept(a) == /\ Read(a) /\ Answered(a)
             /\ st' = [st EXCEPT ![a] = "ready"]
             /\ UNCHANGED <<assembler, allocated, chan, msg, pos, count, executed>>

Fail(a) == /\ Read(a) /\ st[a] = "busy" /\ ~Answered(a)
           /\ Turn(a, "syncing", "Init", NonceLen)
           /\ UNCHANGED <<assembler, allocated, chan, executed>>

Drop(a) == /\ Read(a) /\ st[a] \in {"opening", "syncing"} /\ ~Initialized(a)
           /\ UNCHANGED <<assembler, allocated, apps, executed>>

\* It ends, at any moment; another that starts later opens a channel of its own.
Quit(a) == /\ st[a] # "closed"
           /\ st' = [st EXCEPT ![a] = "closed"]
           /\ chan' = [chan EXCEPT ![a] = Reserved]
           /\ msg' = [msg EXCEPT ![a] = Nothing]
           /\ inbox' = [inbox EXCEPT ![a] = <<>>]
           /\ UNCHANGED <<assembler, allocated, pos, count, executed>>

-----------------------------------------------------------------------------
Init == /\ idle = TRUE /\ cid = Reserved /\ stale = FALSE /\ cmd = "none"
        /\ seq = 0 /\ remaining = 0 /\ payload = <<>>
        /\ allocated = 0
        /\ st = [a \in Apps |-> "closed"]
        /\ chan = [a \in Apps |-> Reserved]
        /\ msg = [a \in Apps |-> Nothing]
        /\ pos = [a \in Apps |-> 0]
        /\ count = [a \in Apps |-> 0]
        /\ inbox = [a \in Apps |-> <<>>]
        /\ executed = {}

Next == \/ Tick
        \/ \E a \in Apps : \/ Send(a) \/ Lose(a) \/ SendCancel(a)
                           \/ Open(a) \/ Ask(a) \/ Sync(a) \/ Retry(a)
                           \/ Connect(a) \/ Accept(a) \/ Fail(a) \/ Drop(a) \/ Quit(a)

\* Time passes; nothing else is promised to happen.
Spec == Init /\ [][Next]_vars /\ WF_vars(Tick)

-----------------------------------------------------------------------------
(* Properties.                                                             *)

TypeOK == /\ idle \in BOOLEAN /\ stale \in BOOLEAN
          /\ cid \in Channels \cup {Reserved, Broadcast}
          /\ cmd \in Cmds \cup {"none"}
          /\ seq \in Nat /\ remaining \in Nat
          /\ payload \in Seq(Requests \X (1..MaxMsgSize))
          /\ allocated \in 0..MaxCids
          /\ st \in [Apps -> {"closed", "opening", "ready", "busy", "syncing"}]
          /\ chan \in [Apps -> Channels \cup {Reserved}]
          /\ msg \in [Apps -> Requests \cup {Nothing}]
          /\ pos \in [Apps -> Nat]
          /\ \A a \in Apps : count[a] \in 0..MaxRequests[a]

\* Every message that was run is one request of one application, whole and in
\* order, under the command it was sent with: whatever was lost, given up or sent
\* by others in between, no byte of another message is in it.
WholeMessages == \A m \in executed : \E r \in Requests : m.cmd = r.cmd /\ m.payload = Data(r)

\* While an application waits for an answer, the answers it may read are to its
\* request, byte by byte: none is to one it gave up.
AnswersOwn ==
    \A a \in Apps : st[a] = "busy" =>
        \A i \in 1..Len(inbox[a]) :
            LET r == inbox[a][i]
            IN r.cmd \in {"Ping", "Cbor"} =>
                   /\ r.cmd = msg[a].cmd
                   /\ \/ Joined(r.frames, r.len) = [j \in 1..r.len |-> <<msg[a], j>>]
                      \/ Joined(r.frames, r.len) = <<<<msg[a], 0>>>>

\* No two applications are on one channel, and each is on one that was allocated.
ChannelsDistinct == \A a, b \in Apps : chan[a] # Reserved => /\ chan[a] \in 1..allocated
                                                             /\ chan[a] = chan[b] => a = b

\* An application that quits in the middle of a message, or whose packets are
\* lost, does not keep the others out: as long as packets come, the message under
\* way is again and again one that is still being sent, or none.
LockExpires ==
    []<><<\E a \in Apps : Send(a) \/ SendCancel(a)>>_vars
        => []<>(idle \/ \E a \in Apps : cid = chan[a] /\ ToSend(a))

\* The promise to an application.
Transport == INSTANCE MessageTransport WITH
                 None   <- Nothing,
                 inHand <- [a \in Apps |-> IF st[a] = "busy" THEN msg[a] ELSE Nothing],
                 told   <- [a \in Apps |-> IF st[a] = "ready" THEN msg[a] ELSE Nothing],
                 run    <- {m.payload[1][1] : m \in executed}

ImplementsTransport == Transport!Spec
=============================================================================
