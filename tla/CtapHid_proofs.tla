---------------------------- MODULE CtapHid_proofs ----------------------------
(* Theorems about CtapHid, for any applications, requests, sizes and bounds:   *)
(* channels, whole messages, and the promise of MessageTransport.              *)
EXTENDS CtapHid, SequenceTheorems, TLAPS

\* The requests that were turned to.
Made == {m \in Requests : m.n <= count[m.app]}

\* The first bytes of a request.
Prefix(m, k) == [i \in 1..k |-> <<m, i>>]

Bytes == Requests \X Nat

\* The applications, each with a request of its own, on a channel of its own.
HostInv ==
    /\ st \in [Apps -> {"closed", "opening", "ready", "busy", "syncing"}]
    /\ chan \in [Apps -> 0..allocated]
    /\ msg \in [Apps -> Requests \cup {Nothing}]
    /\ pos \in [Apps -> Nat]
    /\ count \in [Apps -> Nat]
    /\ allocated \in Nat
    /\ \A a \in Apps :
          /\ Waits(a) => msg[a] \in Requests /\ msg[a].app = a /\ msg[a].n = count[a]
          /\ st[a] \in {"opening", "syncing"} => msg[a].cmd = "Init" /\ msg[a].len = NonceLen
          /\ (st[a] = "busy" /\ msg[a].cmd = "Init") => msg[a].len # NonceLen
          /\ st[a] \in {"closed", "opening"} <=> chan[a] = Reserved
    /\ \A a, b \in Apps : (chan[a] # Reserved /\ chan[a] = chan[b]) => a = b

\* What the assembler has of a request: its packets up to seq.
Underway(m) == /\ m.len <= MaxMsgSize
               /\ cmd = m.cmd
               /\ seq \in Nat
               /\ Offset(seq + 1) < m.len
               /\ payload = Prefix(m, Offset(seq + 1))
               /\ remaining = m.len - Offset(seq + 1)

\* The message under way is on an allocated channel. Its application, if it is still
\* there, waits for an answer to this very request, or has given it up and not yet
\* been heard by the device.
AssemblerInv ==
    /\ idle \in BOOLEAN /\ stale \in BOOLEAN
    /\ idle => payload = <<>>
    /\ ~idle => /\ cid \in 1..allocated
                /\ \A a \in Apps : chan[a] = cid => /\ st[a] # "ready"
                                                    /\ st[a] = "busy" => Underway(msg[a])

InboxInv ==
    /\ \E S : inbox \in [Apps -> Seq(S)]
    /\ \A a \in Apps : \A i \in 1..Len(inbox[a]) :
          /\ inbox[a][i].cmd \in {"Init", "Ping", "Cbor", "Error"}
          /\ inbox[a][i].cmd = "Init" => /\ inbox[a][i].new \in 1..allocated
                                         /\ \E m \in Made : inbox[a][i].nonce = Data(m)

IsAnswer(r) == r.cmd \in {"Ping", "Cbor"}

\* The reply is to the CTAPHID_INIT the application waits for.
Claims(a, r) == /\ st[a] \in {"opening", "syncing"}
                /\ r.cmd = "Init"
                /\ r.nonce = Data(msg[a])

\* It names the channel of the application, or a new one that nobody has or is told
\* of, on which no message is under way, and no answer comes after it.
ClaimInv ==
    \A a \in Apps : \A i \in 1..Len(inbox[a]) : Claims(a, inbox[a][i]) =>
        /\ st[a] = "syncing" => inbox[a][i].new = chan[a]
        /\ st[a] = "opening" => \A b \in Apps : chan[b] # inbox[a][i].new
        /\ \A b \in Apps \ {a} : \A j \in 1..Len(inbox[b]) :
               Claims(b, inbox[b][j]) => inbox[b][j].new # inbox[a][i].new
        /\ ~idle => cid # inbox[a][i].new
        /\ \A j \in i..Len(inbox[a]) : ~IsAnswer(inbox[a][j])

Ran == {m.payload[1][1] : m \in executed}

\* What was run, and the answers to it: none of a request that was run is under
\* way any more, and its answer comes once.
RunInv ==
    /\ \A x \in executed : \E m \in Made : x.cmd = m.cmd /\ x.payload = Data(m)
    /\ \A a \in Apps :
          /\ (st[a] = "busy" /\ msg[a] \in Ran) => AllSent(a) /\ (idle \/ cid # chan[a])
          /\ \A i \in 1..Len(inbox[a]) : IsAnswer(inbox[a][i]) =>
                 /\ st[a] \in {"busy", "syncing"}
                 /\ st[a] = "busy" => msg[a] \in Ran
                 /\ st[a] = "busy" => \A j \in 1..Len(inbox[a]) : IsAnswer(inbox[a][j]) => i = j

IInv == HostInv /\ AssemblerInv /\ InboxInv /\ ClaimInv /\ RunInv

-----------------------------------------------------------------------------
(* Requests, their bytes and their packets.                                  *)

LEMMA RequestFacts ==
    ASSUME NEW m \in Requests
    PROVE  /\ m.app \in Apps /\ m.n \in Nat /\ m.len \in Nat \ {0}
           /\ m.cmd \in {"Init", "Ping", "Cbor", "Other"}
           /\ m # Nothing
<1>1. PICK a \in Apps : m \in RequestsOf(a)
      BY DEF Requests
<1>2. PICK i \in 1..MaxRequests[a], k \in Shapes[a] \cup {[cmd |-> "Init", len |-> NonceLen]} :
          m = [app |-> a, n |-> i, cmd |-> k.cmd, len |-> k.len]
      BY <1>1 DEF RequestsOf
<1>3. i \in Nat
      BY BoundAssumption
<1>4. k.cmd \in {"Init", "Ping", "Cbor", "Other"} /\ k.len \in Nat \ {0}
      BY LengthAssumption, PacketAssumption
<1>5. m # Nothing
      <2>1. DOMAIN m = {"app", "n", "cmd", "len"} /\ DOMAIN Nothing = {"cmd"}
            BY <1>2 DEF Nothing
      <2> QED BY <2>1
<1> QED BY <1>2, <1>3, <1>4, <1>5

\* A request that an application turns to.
LEMMA TurnedTo ==
    ASSUME NEW a \in Apps, NEW n \in 1..MaxRequests[a],
           NEW k \in Shapes[a] \cup {[cmd |-> "Init", len |-> NonceLen]}
    PROVE  [app |-> a, n |-> n, cmd |-> k.cmd, len |-> k.len] \in Requests
BY DEF Requests, RequestsOf

LEMMA PrefixFacts ==
    ASSUME NEW m \in Requests, NEW k \in Nat
    PROVE  /\ Prefix(m, k) \in Seq(Bytes)
           /\ Len(Prefix(m, k)) = k
           /\ \A i \in 1..k : Prefix(m, k)[i] = <<m, i>>
<1>1. \A i \in 1..k : <<m, i>> \in Bytes
      BY DEF Bytes
<1> QED BY <1>1 DEF Prefix

LEMMA DataFacts ==
    ASSUME NEW m \in Requests
    PROVE  /\ Data(m) = Prefix(m, m.len)
           /\ Len(Data(m)) = m.len
           /\ Data(m)[1] = <<m, 1>>
           /\ \A n \in Requests : Data(m) = Data(n) => m = n
<1>1. \A n \in Requests : Data(n)[1] = <<n, 1>>
      <2> SUFFICES ASSUME NEW n \in Requests PROVE Data(n)[1] = <<n, 1>>
          OBVIOUS
      <2>1. 1 \in 1..n.len
            BY RequestFacts
      <2> QED BY <2>1 DEF Data
<1>2. \A n \in Requests : Data(m) = Data(n) => m = n
      BY <1>1
<1>3. m.len \in Nat /\ Data(m) = Prefix(m, m.len)
      BY RequestFacts DEF Data, Prefix
<1>4. Len(Data(m)) = m.len
      BY <1>3, PrefixFacts
<1> QED BY <1>1, <1>2, <1>3, <1>4

LEMMA OffsetFacts ==
    ASSUME NEW k \in Nat
    PROVE  /\ Offset(k) \in Nat /\ Size(k) \in Nat \ {0}
           /\ Offset(k + 1) = Offset(k) + Size(k)
           /\ k > 0 => Offset(k) >= InitData
<1>1. InitData \in Nat \ {0} /\ ContData \in Nat \ {0}
      BY PacketAssumption
<1>2. CASE k = 0
      BY <1>1, <1>2 DEF Offset, Size
<1>3. CASE k # 0
      <2>1. k - 1 \in Nat /\ (k - 1) * ContData \in Nat
            BY <1>1, <1>3
      <2>2. k * ContData = (k - 1) * ContData + ContData
            BY <1>1, <1>3
      <2>3. Offset(k) = InitData + (k - 1) * ContData
            BY <1>3 DEF Offset
      <2>4. Offset(k + 1) = InitData + k * ContData
            BY DEF Offset
      <2>5. Size(k) = ContData
            BY <1>3 DEF Size
      <2> QED BY <1>1, <2>1, <2>2, <2>3, <2>4, <2>5
<1> QED BY <1>2, <1>3

\* The packet that ends a request is its last.
LEMMA LastFrame ==
    ASSUME NEW k \in Nat, NEW len \in Nat, len <= Offset(k) + Size(k)
    PROVE  k + 1 \notin Frames(len)
BY OffsetFacts DEF Frames

\* A CTAPHID_INIT is one packet.
LEMMA InitIsOnePacket ==
    ASSUME NEW k \in Frames(NonceLen)
    PROVE  k = 0
<1>1. NonceLen \in Nat /\ NonceLen <= InitData /\ InitData \in Nat
      BY PacketAssumption
<1>2. k \in Nat /\ (k = 0 \/ Offset(k) < NonceLen)
      BY <1>1 DEF Frames
<1>3. Offset(k) \in Nat /\ (k > 0 => Offset(k) >= InitData)
      BY <1>2, OffsetFacts
<1> QED BY <1>1, <1>2, <1>3

LEMMA ChunkFacts ==
    ASSUME NEW m \in Requests, NEW from \in Nat, NEW size \in Nat
    PROVE  LET c == Chunk(Data(m), from, size)
           IN /\ Len(c) = size
              /\ \A i \in 1..size : from + i <= m.len => c[i] = <<m, from + i>>
<1>1. Len(Data(m)) = m.len /\ m.len \in Nat
      BY DataFacts, RequestFacts
<1>2. \A i \in 1..m.len : Data(m)[i] = <<m, i>>
      BY DEF Data
<1>3. \A i \in 1..size : from + i <= m.len => from + i \in 1..m.len
      BY <1>1
<1> QED BY <1>1, <1>2, <1>3 DEF Chunk

LEMMA Joins ==
    ASSUME NEW m \in Requests, NEW from \in Nat, NEW n \in Nat, NEW d \in Seq(Bytes), Len(d) = n,
           \A i \in 1..n : d[i] = <<m, from + i>>
    PROVE  Prefix(m, from) \o d = Prefix(m, from + n)
<1> DEFINE P == Prefix(m, from)
           Q == Prefix(m, from + n)
<1>1. P \in Seq(Bytes) /\ Len(P) = from /\ \A i \in 1..from : P[i] = <<m, i>>
      BY PrefixFacts
<1>2. Q \in Seq(Bytes) /\ Len(Q) = from + n /\ \A i \in 1..(from + n) : Q[i] = <<m, i>>
      <2>1. from + n \in Nat
            OBVIOUS
      <2> QED BY <2>1, PrefixFacts
<1> HIDE DEF P, Q
<1>3. /\ P \o d \in Seq(Bytes) /\ Len(P \o d) = from + n
      /\ \A i \in 1..(from + n) : (P \o d)[i] = IF i <= from THEN P[i] ELSE d[i - from]
      BY <1>1, ConcatProperties
<1>4. \A i \in 1..(from + n) : (P \o d)[i] = <<m, i>>
      BY <1>1, <1>3
<1>5. P \o d = Q
      BY <1>2, <1>3, <1>4, SeqEqual
<1> QED BY <1>5 DEF P, Q

\* A packet in the middle of a request makes a longer prefix of it.
LEMMA MiddlePacket ==
    ASSUME NEW m \in Requests, NEW from \in Nat, NEW size \in Nat, from + size < m.len
    PROVE  Prefix(m, from) \o Chunk(Data(m), from, size) = Prefix(m, from + size)
<1> DEFINE c == Chunk(Data(m), from, size)
<1>1. m.len \in Nat
      BY RequestFacts
<1>2. Len(c) = size /\ \A i \in 1..size : c[i] = <<m, from + i>>
      BY <1>1, ChunkFacts
<1>3. c \in Seq(Bytes)
      <2>1. c = [i \in 1..size |-> c[i]]
            BY DEF Chunk
      <2>2. \A i \in 1..size : <<m, from + i>> \in Bytes
            BY DEF Bytes
      <2> HIDE DEF c
      <2>3. \A i \in 1..size : c[i] \in Bytes
            BY <1>2, <2>2
      <2> QED BY <2>1, <2>3
<1> HIDE DEF c
<1>4. Prefix(m, from) \o c = Prefix(m, from + size)
      BY <1>2, <1>3, Joins
<1> QED BY <1>4 DEF c

\* The packet that reaches the end of a request completes it: the padding is cut off.
LEMMA LastPacket ==
    ASSUME NEW m \in Requests, NEW from \in Nat, NEW size \in Nat,
           from <= m.len, m.len - from <= size
    PROVE  Prefix(m, from) \o SubSeq(Chunk(Data(m), from, size), 1, m.len - from) = Data(m)
<1> DEFINE c == Chunk(Data(m), from, size)
           n == m.len - from
           d == SubSeq(c, 1, n)
<1>1. m.len \in Nat /\ n \in Nat /\ from + n = m.len /\ n <= size
      BY RequestFacts
<1>2. Len(c) = size /\ \A i \in 1..size : from + i <= m.len => c[i] = <<m, from + i>>
      BY ChunkFacts
<1> HIDE DEF c, n
<1>3. \A i \in 1..n : c[i] = <<m, from + i>> /\ c[i] \in Bytes
      <2> SUFFICES ASSUME NEW i \in 1..n PROVE c[i] = <<m, from + i>> /\ c[i] \in Bytes
          OBVIOUS
      <2>1. i \in 1..size /\ from + i <= m.len /\ from + i \in Nat
            BY <1>1
      <2>2. <<m, from + i>> \in Bytes
            BY <2>1 DEF Bytes
      <2>3. c[i] = <<m, from + i>>
            BY <1>2, <2>1
      <2> QED BY <2>2, <2>3
<1>4. d = [i \in 1..n |-> c[i]]
      BY <1>1, <1>2
<1>5. d \in Seq(Bytes) /\ Len(d) = n /\ \A i \in 1..n : d[i] = <<m, from + i>>
      <2> HIDE DEF d
      <2> QED BY <1>1, <1>3, <1>4
<1> HIDE DEF d
<1>6. Prefix(m, from) \o d = Prefix(m, from + n)
      BY <1>1, <1>5, Joins
<1>7. Prefix(m, from) \o d = Data(m)
      BY <1>1, <1>6, DataFacts
<1> QED BY <1>7 DEF d, c, n

-----------------------------------------------------------------------------
(* A packet of an application at the device.                                 *)

Channel(a) == IF st[a] = "opening" THEN Broadcast ELSE chan[a]

\* The request of an application, as it is assembled.
Assembled(a) == [cid |-> Channel(a), cmd |-> msg[a].cmd, payload |-> Data(msg[a])]

Refused(c) == \E e \in Errors : Refuse(c, e)

Silent == UNCHANGED <<allocated, inbox, executed>>

\* What is left in the assembler.
Left(a) == \/ UNCHANGED assembler
           \/ idle' = TRUE /\ payload' = <<>> /\ stale' \in BOOLEAN
           \/ /\ idle' = FALSE /\ stale' = FALSE /\ cid' = chan[a]
              /\ st[a] = "busy" /\ Underway(msg[a])'

\* What the packet brings about: nothing, an error, or the whole request.
Brought(a) == \/ Silent
              \/ Refused(Channel(a))
              \/ /\ idle' = TRUE
                 /\ pos[a] + 1 \notin Frames(msg[a].len)
                 /\ msg[a].len <= MaxMsgSize
                 /\ PreprocessMessage(Assembled(a))

LEMMA ResetLeaves == ASSUME Reset PROVE idle' = TRUE /\ payload' = <<>> /\ stale' \in BOOLEAN
BY DEF Reset

LEMMA PacketFacts ==
    ASSUME IInv, NEW a \in Apps, ToSend(a)
    PROVE  /\ msg[a] \in Requests /\ pos[a] \in Nat
           /\ Packet(a).cid = Channel(a)
           /\ Packet(a).data = Chunk(Data(msg[a]), Offset(pos[a]), Size(pos[a]))
           /\ pos[a] = 0 => /\ Packet(a).kind = "init"
                            /\ Packet(a).cmd = msg[a].cmd /\ Packet(a).len = msg[a].len
           /\ pos[a] # 0 => /\ Packet(a).kind = "cont" /\ Packet(a).seq = pos[a] - 1
                            /\ st[a] = "busy" /\ Channel(a) = chan[a]
<1>1. msg[a] \in Requests /\ pos[a] \in Nat /\ pos[a] \in Frames(msg[a].len)
      BY DEF IInv, HostInv, ToSend
<1>2. pos[a] # 0 => st[a] = "busy"
      <2>1. st[a] \in {"opening", "syncing"} => msg[a].len = NonceLen
            BY DEF IInv, HostInv
      <2>2. st[a] \in {"opening", "syncing"} => pos[a] = 0
            BY <1>1, <2>1, InitIsOnePacket
      <2> QED BY <2>2 DEF ToSend, Waits
<1>3. CASE pos[a] = 0
      BY <1>1, <1>3 DEF Packet, Channel
<1>4. CASE pos[a] # 0
      BY <1>1, <1>2, <1>4 DEF Packet, Channel
<1> QED BY <1>1, <1>3, <1>4

LEMMA ParseInit ==
    ASSUME IInv, NEW a \in Apps, ToSend(a), pos[a] = 0, ParseInitPacket(Packet(a)), msg' = msg
    PROVE  Left(a) /\ Brought(a)
<1> DEFINE m == msg[a]
           data == Chunk(Data(m), 0, InitData)
<1>1. /\ m \in Requests /\ m.len \in Nat \ {0}
      /\ InitData \in Nat \ {0} /\ Len(data) = InitData
      /\ Packet(a).cid = Channel(a) /\ Packet(a).data = data
      /\ Packet(a).cmd = m.cmd /\ Packet(a).len = m.len
      <2>1. Offset(0) = 0 /\ Size(0) = InitData /\ InitData \in Nat \ {0}
            BY PacketAssumption DEF Offset, Size
      <2>2. m \in Requests /\ m.len \in Nat \ {0}
            BY PacketFacts, RequestFacts
      <2>3. Len(data) = InitData
            BY <2>1, <2>2, ChunkFacts
      <2> QED BY <2>1, <2>2, <2>3, PacketFacts
<1>2. idle \in BOOLEAN /\ (idle => payload = <<>>)
      BY DEF IInv, AssemblerInv
<1>3. Prefix(m, 0) = <<>>
      BY DEF Prefix
<1> HIDE DEF m, data
<1>4. CASE Packet(a).len > MaxMsgSize
      <2>1. Refused(Channel(a))
            BY <1>1, <1>4, PacketAssumption DEF ParseInitPacket, Refused, Errors
      <2>2. Left(a)
            <3>1. (IF idle THEN UNCHANGED assembler ELSE Reset)
                  BY <1>1, <1>4, PacketAssumption DEF ParseInitPacket
            <3> QED BY <1>2, <3>1, ResetLeaves DEF Left
      <2> QED BY <2>1, <2>2 DEF Brought
<1>5. CASE Packet(a).len <= MaxMsgSize
      <2>1. /\ cid' = Channel(a) /\ stale' = FALSE /\ cmd' = m.cmd /\ seq' = 0
            /\ AppendPayload(<<>>, m.len, data, Channel(a), m.cmd)
            BY <1>1, <1>2, <1>5, PacketAssumption DEF ParseInitPacket
      <2>2. CASE InitData < m.len
            <3>1. /\ payload' = <<>> \o data /\ idle' = FALSE /\ remaining' = m.len - InitData
                  /\ Silent
                  BY <1>1, <2>1, <2>2 DEF AppendPayload, Silent
            <3>2. payload' = Prefix(m, InitData)
                  <4>1. m \in Requests /\ 0 \in Nat /\ InitData \in Nat /\ 0 + InitData < m.len
                        BY <1>1, <2>2
                  <4>2. Prefix(m, 0) \o Chunk(Data(m), 0, InitData) = Prefix(m, 0 + InitData)
                        BY <4>1, MiddlePacket
                  <4>3. 0 + InitData = InitData
                        BY <1>1
                  <4> QED BY <1>3, <3>1, <4>2, <4>3 DEF data
            <3>3. Offset(0 + 1) = InitData
                  <4>1. 0 + 1 # 0 /\ (0 + 1 - 1) * ContData = 0
                        BY PacketAssumption
                  <4> QED BY <1>1, <4>1 DEF Offset
            <3>4. Underway(msg[a])'
                  BY <1>1, <1>5, <2>1, <2>2, <3>1, <3>2, <3>3 DEF Underway, m
            <3>5. st[a] = "busy"
                  <4>1. st[a] \in {"opening", "syncing"} => m.len = NonceLen
                        BY DEF IInv, HostInv, m
                  <4>2. ~(InitData < NonceLen)
                        BY PacketAssumption
                  <4> QED BY <2>2, <4>1, <4>2 DEF ToSend, Waits
            <3>6. Channel(a) = chan[a]
                  BY <3>5 DEF Channel
            <3> QED BY <2>1, <3>1, <3>4, <3>5, <3>6 DEF Left, Brought
      <2>3. CASE ~(InitData < m.len)
            <3>1. /\ payload' = <<>> /\ idle' = TRUE
                  /\ PreprocessMessage([cid |-> Channel(a), cmd |-> m.cmd,
                                        payload |-> <<>> \o SubSeq(data, 1, m.len)])
                  BY <1>1, <2>1, <2>3 DEF AppendPayload
            <3>2. <<>> \o SubSeq(data, 1, m.len) = Data(m)
                  <4>1. m \in Requests /\ 0 \in Nat /\ InitData \in Nat /\ 0 <= m.len /\ m.len - 0 <= InitData
                        BY <1>1, <2>3
                  <4>2. Prefix(m, 0) \o SubSeq(Chunk(Data(m), 0, InitData), 1, m.len - 0) = Data(m)
                        BY <4>1, LastPacket
                  <4>3. m.len - 0 = m.len
                        BY <1>1
                  <4> QED BY <1>3, <4>2, <4>3 DEF data
            <3>3. pos[a] + 1 \notin Frames(m.len)
                  <4>1. Offset(0) + Size(0) = InitData
                        BY <1>1 DEF Offset, Size
                  <4> QED BY <1>1, <2>3, <4>1, LastFrame
            <3>4. PreprocessMessage(Assembled(a))
                  BY <3>1, <3>2 DEF Assembled, m
            <3> QED BY <1>1, <1>5, <2>1, <3>1, <3>3, <3>4 DEF Left, Brought, m
      <2> QED BY <2>2, <2>3
<1> QED BY <1>1, <1>4, <1>5, PacketAssumption

\* A continuation packet goes on with the very request that is under way.
LEMMA ContinueStep ==
    ASSUME IInv, NEW a \in Apps, ToSend(a), Continue(Packet(a)), msg' = msg
    PROVE  Left(a) /\ Brought(a)
<1> DEFINE m == msg[a]
           k == pos[a]
           data == Chunk(Data(m), Offset(k), Size(k))
<1>1. /\ m \in Requests /\ k \in Nat /\ Packet(a).cid = Channel(a) /\ Packet(a).data = data
      /\ Packet(a).cid = cid /\ Packet(a).kind = "cont" /\ ~idle
      BY PacketFacts DEF Continue
<1>2. k # 0 /\ Packet(a).seq = k - 1 /\ st[a] = "busy" /\ Channel(a) = chan[a]
      BY <1>1, PacketFacts
<1>3. Underway(m)
      BY <1>1, <1>2 DEF IInv, AssemblerInv
<1>4. /\ m.len \in Nat /\ Offset(k) \in Nat /\ Size(k) \in Nat /\ Len(data) = Size(k)
      /\ Offset(k + 1) = Offset(k) + Size(k)
      BY <1>1, RequestFacts, OffsetFacts, ChunkFacts
<1>5. CASE Packet(a).seq # seq
      <2>1. Reset /\ Refuse(Packet(a).cid, "InvalidSeq")
            BY <1>5 DEF Continue
      <2> QED BY <1>1, <2>1, ResetLeaves DEF Left, Brought, Refused, Errors
<1>6. CASE Packet(a).seq = seq
      <2>1. /\ seq' = seq + 1 /\ stale' = FALSE /\ UNCHANGED <<cid, cmd>>
            /\ AppendPayload(payload, remaining, data, cid, cmd)
            BY <1>1, <1>6 DEF Continue
      <2>2. /\ seq + 1 = k /\ seq' = k /\ payload = Prefix(m, Offset(k)) /\ cmd = m.cmd
            /\ remaining = m.len - Offset(k) /\ Offset(k) < m.len /\ m.len <= MaxMsgSize
            BY <1>1, <1>2, <1>3, <1>6, <2>1 DEF Underway
      <2> HIDE DEF m, k, data
      <2>3. CASE Len(data) < remaining
            <3>1. /\ payload' = payload \o data /\ idle' = FALSE
                  /\ remaining' = remaining - Len(data) /\ Silent
                  BY <1>4, <2>1, <2>2, <2>3 DEF AppendPayload, Silent
            <3>2. Offset(k) + Size(k) < m.len
                  BY <1>4, <2>2, <2>3
            <3>3. payload' = Prefix(m, Offset(k + 1))
                  <4>1. Prefix(m, Offset(k)) \o Chunk(Data(m), Offset(k), Size(k)) = Prefix(m, Offset(k) + Size(k))
                        BY <1>1, <1>4, <3>2, MiddlePacket
                  <4> QED BY <1>4, <2>2, <3>1, <4>1 DEF data
            <3>4. remaining' = m.len - Offset(k + 1) /\ Offset(k + 1) < m.len
                  BY <1>4, <2>2, <3>1, <3>2
            <3>5. Underway(msg[a])'
                  BY <1>1, <2>1, <2>2, <3>3, <3>4 DEF Underway, m
            <3> QED BY <1>1, <1>2, <2>1, <3>1, <3>5 DEF Left, Brought
      <2>4. CASE Len(data) >= remaining
            <3>1. /\ payload' = <<>> /\ idle' = TRUE
                  /\ PreprocessMessage([cid |-> cid, cmd |-> cmd,
                                        payload |-> payload \o SubSeq(data, 1, remaining)])
                  BY <1>4, <2>1, <2>2, <2>4 DEF AppendPayload
            <3>2. payload \o SubSeq(data, 1, remaining) = Data(m)
                  <4>1. Offset(k) <= m.len /\ m.len - Offset(k) <= Size(k)
                        BY <1>4, <2>2, <2>4
                  <4>2. Prefix(m, Offset(k)) \o SubSeq(Chunk(Data(m), Offset(k), Size(k)), 1, m.len - Offset(k))
                            = Data(m)
                        BY <1>1, <1>4, <4>1, LastPacket
                  <4> QED BY <2>2, <4>2 DEF data
            <3>3. k + 1 \notin Frames(m.len)
                  <4>1. m.len <= Offset(k) + Size(k)
                        BY <1>4, <2>2, <2>4
                  <4> QED BY <1>1, <1>4, <4>1, LastFrame
            <3>4. PreprocessMessage(Assembled(a))
                  BY <1>1, <2>2, <3>1, <3>2 DEF Assembled, m
            <3> QED BY <2>1, <2>2, <3>1, <3>3, <3>4 DEF Left, Brought, m, k
      <2> QED BY <1>4, <2>2, <2>3, <2>4
<1> QED BY <1>5, <1>6

\* The ways out of parse_packet that are the same for any packet.
LEMMA RefusedPacket ==
    ASSUME IInv, NEW p,
           \/ LateContinuation(p) \/ StrayContinuation(p) \/ OtherChannel(p)
           \/ Restart(p) /\ p.cmd # "Init"
    PROVE  /\ \/ UNCHANGED assembler
              \/ idle' = TRUE /\ payload' = <<>> /\ stale' \in BOOLEAN
           /\ Silent \/ Refused(p.cid)
<1>1. CASE LateContinuation(p)
      BY <1>1, ResetLeaves DEF LateContinuation, Refused, Errors
<1>2. CASE StrayContinuation(p)
      <2>1. (IF idle THEN UNCHANGED assembler ELSE Reset) /\ Silent /\ idle \in BOOLEAN
            BY <1>2 DEF StrayContinuation, Silent, IInv, AssemblerInv
      <2> QED BY <2>1, ResetLeaves
<1>3. CASE OtherChannel(p)
      BY <1>3 DEF OtherChannel, Refused, Errors
<1>4. CASE Restart(p) /\ p.cmd # "Init"
      BY <1>4, ResetLeaves DEF Restart, Refused, Errors
<1> QED BY <1>1, <1>2, <1>3, <1>4

LEMMA DeviceStep ==
    ASSUME IInv, NEW a \in Apps, ToSend(a), ProcessHidPacket(Packet(a)), msg' = msg
    PROVE  Left(a) /\ Brought(a)
<1> DEFINE p == Packet(a)
<1>1. p.cid = Channel(a) /\ (p.kind = "init" => pos[a] = 0)
      BY PacketFacts
<1> HIDE DEF p
<1>2. CASE \/ LateContinuation(p) \/ StrayContinuation(p) \/ OtherChannel(p)
           \/ Restart(p) /\ p.cmd # "Init"
      <2>1. /\ \/ UNCHANGED assembler
               \/ idle' = TRUE /\ payload' = <<>> /\ stale' \in BOOLEAN
            /\ Silent \/ Refused(p.cid)
            BY <1>2, RefusedPacket
      <2> QED BY <1>1, <2>1 DEF Left, Brought
<1>3. CASE StartMessage(p) \/ (Restart(p) /\ p.cmd = "Init")
      <2>1. ParseInitPacket(p) /\ p.kind = "init"
            BY <1>3 DEF StartMessage, Restart
      <2> QED BY <1>1, <2>1, ParseInit DEF p
<1>4. CASE Continue(p)
      BY <1>4, ContinueStep DEF p
<1> QED BY <1>2, <1>3, <1>4 DEF ProcessHidPacket, p

\* A CTAPHID_CANCEL brings nothing but an error.
LEMMA CancelStep ==
    ASSUME IInv, NEW a \in Apps, SendCancel(a)
    PROVE  /\ \/ UNCHANGED assembler
              \/ idle' = TRUE /\ payload' = <<>> /\ stale' \in BOOLEAN
           /\ Silent \/ Refused(chan[a])
<1> DEFINE p == [cid |-> chan[a], kind |-> "init", cmd |-> "Cancel", len |-> 0,
                 data |-> [i \in 1..InitData |-> Pad]]
<1>1. ProcessHidPacket(p) /\ st[a] = "busy"
      BY DEF SendCancel
<1>2. /\ p.cid = chan[a] /\ p.kind = "init" /\ p.cmd = "Cancel" /\ p.len = 0 /\ Len(p.data) = InitData
      /\ InitData \in Nat \ {0} /\ MaxMsgSize \in Nat
      BY PacketAssumption
<1>3. chan[a] \in 1..allocated /\ allocated \in Nat
      <2>1. chan \in [Apps -> 0..allocated] /\ allocated \in Nat
            BY DEF IInv, HostInv
      <2>2. chan[a] # Reserved
            BY <1>1 DEF IInv, HostInv
      <2>3. chan[a] \in 0..allocated
            BY <2>1
      <2> QED BY <2>1, <2>2, <2>3 DEF Reserved
<1>4. idle \in BOOLEAN /\ (idle => payload = <<>>)
      BY DEF IInv, AssemblerInv
<1> HIDE DEF p
<1>5. CASE \/ LateContinuation(p) \/ StrayContinuation(p) \/ OtherChannel(p)
           \/ Restart(p) /\ p.cmd # "Init"
      BY <1>2, <1>5, RefusedPacket
<1>6. CASE StartMessage(p)
      <2>1. ParseInitPacket(p) /\ ~(p.len > MaxMsgSize)
            BY <1>2, <1>6 DEF StartMessage
      <2>2. /\ stale' = FALSE
            /\ AppendPayload(<<>>, 0, p.data, chan[a], "Cancel")
            BY <1>2, <1>4, <2>1 DEF ParseInitPacket
      <2>3. /\ payload' = <<>> /\ idle' = TRUE
            /\ PreprocessMessage([cid |-> chan[a], cmd |-> "Cancel",
                                  payload |-> <<>> \o SubSeq(p.data, 1, 0)])
            BY <1>2, <2>2 DEF AppendPayload
      <2>4. Silent
            BY <1>3, <2>3 DEF PreprocessMessage, HasValidChannel, IsAllocated, Broadcast, Reserved,
                              Initialize, Execute, Discard, Silent
      <2> QED BY <2>2, <2>3, <2>4
<1> QED BY <1>1, <1>2, <1>5, <1>6 DEF ProcessHidPacket, LateContinuation, StrayContinuation, Continue

-----------------------------------------------------------------------------
(* What a step leaves of the replies.                                        *)

\* What an application has to read is what is left of what it had, in order, and errors.
Kept == /\ \E S : inbox' \in [Apps -> Seq(S)]
        /\ \A a \in Apps : \E d \in Nat : \A i \in 1..Len(inbox'[a]) :
              \/ i + d \in 1..Len(inbox[a]) /\ inbox'[a][i] = inbox[a][i + d]
              \/ inbox'[a][i].cmd = "Error"

\* One reply is added.
Added(c, r) ==
    /\ \E S : inbox' \in [Apps -> Seq(S)]
    /\ \A a \in Apps : \A i \in 1..Len(inbox'[a]) :
          \/ i \in 1..Len(inbox[a]) /\ inbox'[a][i] = inbox[a][i]
          \/ i = Len(inbox[a]) + 1 /\ Listens(a, c) /\ inbox'[a][i] = r

LEMMA Posted ==
    ASSUME InboxInv, NEW c, NEW r, Post(c, r)
    PROVE  Added(c, r)
<1>1. PICK S : inbox \in [Apps -> Seq(S)]
      BY DEF InboxInv
<1> DEFINE T == S \cup {r}
<1>2. \A a \in Apps : inbox[a] \in Seq(T) /\ Len(inbox[a]) \in Nat
      <2> SUFFICES ASSUME NEW a \in Apps PROVE inbox[a] \in Seq(T) /\ Len(inbox[a]) \in Nat
          OBVIOUS
      <2>1. inbox[a] \in Seq(S)
            BY <1>1
      <2>2. \A i \in 1..Len(inbox[a]) : inbox[a][i] \in T
            BY <2>1
      <2> QED BY <2>1, <2>2
<1>3. \A a \in Apps : /\ Append(inbox[a], r) \in Seq(T)
                      /\ Len(Append(inbox[a], r)) = Len(inbox[a]) + 1
                      /\ \A i \in 1..Len(inbox[a]) : Append(inbox[a], r)[i] = inbox[a][i]
                      /\ Append(inbox[a], r)[Len(inbox[a]) + 1] = r
      <2> SUFFICES ASSUME NEW a \in Apps
                   PROVE /\ Append(inbox[a], r) \in Seq(T)
                         /\ Len(Append(inbox[a], r)) = Len(inbox[a]) + 1
                         /\ \A i \in 1..Len(inbox[a]) : Append(inbox[a], r)[i] = inbox[a][i]
                         /\ Append(inbox[a], r)[Len(inbox[a]) + 1] = r
          OBVIOUS
      <2>1. inbox[a] \in Seq(T) /\ r \in T
            BY <1>2
      <2> QED BY <2>1, AppendProperties
<1> HIDE DEF T
<1>4. inbox' = [a \in Apps |-> IF Listens(a, c) THEN Append(inbox[a], r) ELSE inbox[a]]
      BY DEF Post
<1>5. inbox' \in [Apps -> Seq(T)]
      BY <1>2, <1>3, <1>4
<1>6. ASSUME NEW a \in Apps, NEW i \in 1..Len(inbox'[a])
      PROVE  \/ i \in 1..Len(inbox[a]) /\ inbox'[a][i] = inbox[a][i]
             \/ i = Len(inbox[a]) + 1 /\ Listens(a, c) /\ inbox'[a][i] = r
      <2>1. CASE Listens(a, c)
            <3>1. inbox'[a] = Append(inbox[a], r)
                  BY <1>4, <2>1
            <3>2. i \in 1..(Len(inbox[a]) + 1) /\ Len(inbox[a]) \in Nat
                  BY <1>2, <1>3, <3>1
            <3>3. i \in 1..Len(inbox[a]) \/ i = Len(inbox[a]) + 1
                  BY <3>2
            <3> QED BY <1>3, <2>1, <3>1, <3>3
      <2>2. CASE ~Listens(a, c)
            BY <1>4, <2>2
      <2> QED BY <2>1, <2>2
<1> QED BY <1>5, <1>6 DEF Added

LEMMA AddedError ==
    ASSUME InboxInv, NEW c, NEW e, Post(c, ErrorMessage(e))
    PROVE  Kept
<1>1. Added(c, ErrorMessage(e))
      BY Posted
<1>2. ErrorMessage(e).cmd = "Error"
      BY DEF ErrorMessage
<1>3. ASSUME NEW a \in Apps
      PROVE  \E d \in Nat : \A i \in 1..Len(inbox'[a]) :
                \/ i + d \in 1..Len(inbox[a]) /\ inbox'[a][i] = inbox[a][i + d]
                \/ inbox'[a][i].cmd = "Error"
      <2>1. \A i \in 1..Len(inbox'[a]) : i + 0 = i
            OBVIOUS
      <2>2. \A i \in 1..Len(inbox'[a]) :
                \/ i + 0 \in 1..Len(inbox[a]) /\ inbox'[a][i] = inbox[a][i + 0]
                \/ inbox'[a][i].cmd = "Error"
            BY <1>1, <1>2, <2>1 DEF Added
      <2> QED BY <2>2
<1> QED BY <1>1, <1>3 DEF Added, Kept

LEMMA KeptSame ==
    ASSUME InboxInv, inbox' = inbox
    PROVE  Kept
<1>1. ASSUME NEW a \in Apps
      PROVE  \E d \in Nat : \A i \in 1..Len(inbox'[a]) :
                i + d \in 1..Len(inbox[a]) /\ inbox'[a][i] = inbox[a][i + d]
      <2>1. \A i \in 1..Len(inbox'[a]) : i + 0 = i
            OBVIOUS
      <2>2. \A i \in 1..Len(inbox'[a]) : i + 0 \in 1..Len(inbox[a]) /\ inbox'[a][i] = inbox[a][i + 0]
            BY <2>1
      <2> QED BY <2>2
<1> QED BY <1>1 DEF Kept, InboxInv

LEMMA KeptRead ==
    ASSUME InboxInv, NEW a \in Apps, Read(a)
    PROVE  /\ Kept
           /\ 1 \in 1..Len(inbox[a]) /\ Head(inbox[a]) = inbox[a][1]
           /\ \A b \in Apps \ {a} : inbox'[b] = inbox[b]
           /\ \A i \in 1..Len(inbox'[a]) : i + 1 \in 1..Len(inbox[a]) /\ inbox'[a][i] = inbox[a][i + 1]
<1>1. PICK S : inbox \in [Apps -> Seq(S)]
      BY DEF InboxInv
<1>2. inbox[a] # <<>> /\ inbox' = [inbox EXCEPT ![a] = Tail(@)]
      BY DEF Read
<1>3. inbox[a] \in Seq(S)
      BY <1>1
<1>4. /\ Tail(inbox[a]) \in Seq(S) /\ Len(Tail(inbox[a])) = Len(inbox[a]) - 1
      /\ \A i \in 1..Len(Tail(inbox[a])) : Tail(inbox[a])[i] = inbox[a][i + 1]
      /\ Len(inbox[a]) \in Nat \ {0}
      BY <1>2, <1>3, HeadTailProperties, EmptySeq
<1>5. inbox' \in [Apps -> Seq(S)]
      BY <1>1, <1>2, <1>4
<1>6. inbox'[a] = Tail(inbox[a])
      BY <1>1, <1>2
<1>7. \A b \in Apps \ {a} : inbox'[b] = inbox[b]
      BY <1>1, <1>2
<1>8. \A i \in 1..Len(inbox'[a]) : i + 1 \in 1..Len(inbox[a]) /\ inbox'[a][i] = inbox[a][i + 1]
      BY <1>4, <1>6
<1>9. 1 \in 1..Len(inbox[a]) /\ Head(inbox[a]) = inbox[a][1]
      BY <1>2, <1>3, <1>4
<1>10. ASSUME NEW b \in Apps
       PROVE  \E d \in Nat : \A i \in 1..Len(inbox'[b]) :
                 i + d \in 1..Len(inbox[b]) /\ inbox'[b][i] = inbox[b][i + d]
       <2>1. \A i \in 1..Len(inbox'[b]) : i + 0 = i
             OBVIOUS
       <2>2. CASE b = a
             BY <1>8, <2>2
       <2>3. CASE b # a
             <3>1. \A i \in 1..Len(inbox'[b]) : i + 0 \in 1..Len(inbox[b]) /\ inbox'[b][i] = inbox[b][i + 0]
                   BY <1>7, <2>1, <2>3
             <3> QED BY <3>1
       <2> QED BY <2>2, <2>3
<1> QED BY <1>5, <1>7, <1>8, <1>9, <1>10 DEF Kept

\* Requests are only added.
LEMMA MadeGrows ==
    ASSUME HostInv, \A a \in Apps : count'[a] = count[a] \/ count'[a] = count[a] + 1
    PROVE  Made \subseteq Made'
<1>1. \A m \in Requests : m.app \in Apps /\ m.n \in Nat
      BY RequestFacts
<1>2. \A a \in Apps : count[a] \in Nat /\ count[a] <= count'[a] /\ count'[a] \in Nat
      BY DEF HostInv
<1>3. ASSUME NEW m \in Requests, m.n <= count[m.app]
      PROVE  m.n <= count'[m.app]
      <2>1. m.app \in Apps /\ m.n \in Nat
            BY <1>1
      <2>2. count[m.app] \in Nat /\ count[m.app] <= count'[m.app] /\ count'[m.app] \in Nat
            BY <1>2, <2>1
      <2> QED BY <1>3, <2>1, <2>2
<1> QED BY <1>3 DEF Made

LEMMA KeptInbox ==
    ASSUME InboxInv, Kept, Made \subseteq Made',
           allocated \in Nat, allocated' \in Nat, allocated <= allocated'
    PROVE  InboxInv'
<1>1. ASSUME NEW a \in Apps, NEW i \in 1..Len(inbox'[a])
      PROVE  /\ inbox'[a][i].cmd \in {"Init", "Ping", "Cbor", "Error"}
             /\ inbox'[a][i].cmd = "Init" => /\ inbox'[a][i].new \in 1..allocated'
                                            /\ \E m \in Made' : inbox'[a][i].nonce = Data(m)
      <2>1. PICK d \in Nat : \/ i + d \in 1..Len(inbox[a]) /\ inbox'[a][i] = inbox[a][i + d]
                             \/ inbox'[a][i].cmd = "Error"
            BY DEF Kept
      <2>2. CASE inbox'[a][i].cmd = "Error"
            BY <2>2
      <2>3. CASE i + d \in 1..Len(inbox[a]) /\ inbox'[a][i] = inbox[a][i + d]
            <3> DEFINE r == inbox[a][i + d]
            <3>1. /\ r.cmd \in {"Init", "Ping", "Cbor", "Error"}
                  /\ r.cmd = "Init" => r.new \in 1..allocated /\ \E m \in Made : r.nonce = Data(m)
                  BY <2>3 DEF InboxInv
            <3>2. inbox'[a][i] = r
                  BY <2>3
            <3> HIDE DEF r
            <3>3. r.new \in 1..allocated => r.new \in 1..allocated'
                  OBVIOUS
            <3> QED BY <3>1, <3>2, <3>3
      <2> QED BY <2>1, <2>2, <2>3
<1>2. \E S : inbox' \in [Apps -> Seq(S)]
      BY DEF Kept
<1> QED BY <1>1, <1>2 DEF InboxInv

\* The claims that were there, of applications that still make them, stand.
LEMMA KeptClaims ==
    ASSUME ClaimInv, Kept, \E S : inbox \in [Apps -> Seq(S)],
           \A a \in Apps : \A i \in 1..Len(inbox[a]) :
               /\ st'[a] \in {"opening", "syncing"} /\ inbox[a][i].cmd = "Init"
               /\ inbox[a][i].nonce = Data(msg'[a])
               => /\ Claims(a, inbox[a][i]) /\ st'[a] = st[a] /\ chan'[a] = chan[a]
                  /\ st[a] = "opening" => \A b \in Apps : chan'[b] # inbox[a][i].new
                  /\ ~idle' => cid' # inbox[a][i].new
    PROVE  ClaimInv'
<1>1. \A a \in Apps : Len(inbox[a]) \in Nat
      BY LenProperties
<1>2. ASSUME NEW a \in Apps, NEW i \in 1..Len(inbox'[a]), Claims(a, inbox[a][i])'
      PROVE  \E k \in 1..Len(inbox[a]) :
                /\ inbox'[a][i] = inbox[a][k] /\ Claims(a, inbox[a][k])
                /\ st'[a] = st[a] /\ chan'[a] = chan[a]
                /\ st[a] = "opening" => \A b \in Apps : chan'[b] # inbox[a][k].new
                /\ ~idle' => cid' # inbox[a][k].new
                /\ \A j \in i..Len(inbox'[a]) :
                      inbox'[a][j].cmd = "Error" \/ \E h \in k..Len(inbox[a]) : inbox'[a][j] = inbox[a][h]
      <2>1. PICK d \in Nat : \A j \in 1..Len(inbox'[a]) :
                \/ j + d \in 1..Len(inbox[a]) /\ inbox'[a][j] = inbox[a][j + d]
                \/ inbox'[a][j].cmd = "Error"
            BY DEF Kept
      <2>2. st'[a] \in {"opening", "syncing"} /\ inbox'[a][i].cmd = "Init" /\ inbox'[a][i].nonce = Data(msg'[a])
            BY <1>2 DEF Claims
      <2>3. i + d \in 1..Len(inbox[a]) /\ inbox'[a][i] = inbox[a][i + d]
            BY <2>1, <2>2
      <2> DEFINE k == i + d
      <2>4. /\ Claims(a, inbox[a][k]) /\ st'[a] = st[a] /\ chan'[a] = chan[a]
            /\ st[a] = "opening" => \A b \in Apps : chan'[b] # inbox[a][k].new
            /\ ~idle' => cid' # inbox[a][k].new
            BY <2>2, <2>3
      <2>5. \A j \in i..Len(inbox'[a]) :
               inbox'[a][j].cmd = "Error" \/ \E h \in k..Len(inbox[a]) : inbox'[a][j] = inbox[a][h]
            <3>1. \A j \in i..Len(inbox'[a]) : j \in 1..Len(inbox'[a]) /\ j \in Int /\ j >= i
                  OBVIOUS
            <3>2. \A j \in i..Len(inbox'[a]) : j + d \in 1..Len(inbox[a]) => j + d \in k..Len(inbox[a])
                  BY <1>1, <3>1
            <3> QED BY <2>1, <3>1, <3>2
      <2> QED BY <2>3, <2>4, <2>5
<1>3. ASSUME NEW a \in Apps, NEW i \in 1..Len(inbox'[a]), Claims(a, inbox[a][i])'
      PROVE  /\ st'[a] = "syncing" => inbox'[a][i].new = chan'[a]
             /\ st'[a] = "opening" => \A b \in Apps : chan'[b] # inbox'[a][i].new
             /\ \A b \in Apps \ {a} : \A j \in 1..Len(inbox'[b]) :
                    Claims(b, inbox[b][j])' => inbox'[b][j].new # inbox'[a][i].new
             /\ ~idle' => cid' # inbox'[a][i].new
             /\ \A j \in i..Len(inbox'[a]) : ~IsAnswer(inbox'[a][j])
      <2>1. PICK k \in 1..Len(inbox[a]) :
                /\ inbox'[a][i] = inbox[a][k] /\ Claims(a, inbox[a][k])
                /\ st'[a] = st[a] /\ chan'[a] = chan[a]
                /\ st[a] = "opening" => \A b \in Apps : chan'[b] # inbox[a][k].new
                /\ ~idle' => cid' # inbox[a][k].new
                /\ \A j \in i..Len(inbox'[a]) :
                      inbox'[a][j].cmd = "Error" \/ \E h \in k..Len(inbox[a]) : inbox'[a][j] = inbox[a][h]
            BY <1>2, <1>3
      <2>2. /\ st[a] = "syncing" => inbox[a][k].new = chan[a]
            /\ \A b \in Apps \ {a} : \A j \in 1..Len(inbox[b]) :
                   Claims(b, inbox[b][j]) => inbox[b][j].new # inbox[a][k].new
            /\ \A j \in k..Len(inbox[a]) : ~IsAnswer(inbox[a][j])
            BY <2>1 DEF ClaimInv
      <2>3. ASSUME NEW b \in Apps \ {a}, NEW j \in 1..Len(inbox'[b]), Claims(b, inbox[b][j])'
            PROVE  inbox'[b][j].new # inbox'[a][i].new
            <3>1. PICK h \in 1..Len(inbox[b]) : inbox'[b][j] = inbox[b][h] /\ Claims(b, inbox[b][h])
                  BY <1>2, <2>3
            <3> QED BY <2>1, <2>2, <3>1
      <2>4. ASSUME NEW j \in i..Len(inbox'[a])
            PROVE  ~IsAnswer(inbox'[a][j])
            <3>1. CASE inbox'[a][j].cmd = "Error"
                  BY <3>1 DEF IsAnswer
            <3>2. CASE \E h \in k..Len(inbox[a]) : inbox'[a][j] = inbox[a][h]
                  BY <2>2, <3>2
            <3> QED BY <2>1, <2>4, <3>1, <3>2
      <2> QED BY <2>1, <2>2, <2>3, <2>4
<1> QED BY <1>3 DEF ClaimInv

LEMMA KeptRuns ==
    ASSUME RunInv, Kept, Made \subseteq Made', executed' = executed,
           \A a \in Apps :
              /\ (st'[a] = "busy" /\ msg'[a] \in Ran) => AllSent(a)' /\ (idle' \/ cid' # chan'[a])
              /\ (\E i \in 1..Len(inbox'[a]) : IsAnswer(inbox'[a][i]))
                     => /\ st'[a] \in {"busy", "syncing"}
                        /\ st'[a] = "busy" => st[a] = "busy" /\ msg'[a] = msg[a]
    PROVE  RunInv'
<1>1. Ran' = Ran
      BY DEF Ran
<1>2. \A x \in executed' : \E m \in Made' : x.cmd = m.cmd /\ x.payload = Data(m)
      BY DEF RunInv
<1>3. ASSUME NEW a \in Apps, NEW i \in 1..Len(inbox'[a]), IsAnswer(inbox'[a][i])
      PROVE  /\ st'[a] \in {"busy", "syncing"}
             /\ st'[a] = "busy" => msg'[a] \in Ran'
             /\ st'[a] = "busy" => \A j \in 1..Len(inbox'[a]) : IsAnswer(inbox'[a][j]) => i = j
      <2>1. PICK d \in Nat : \A j \in 1..Len(inbox'[a]) :
                \/ j + d \in 1..Len(inbox[a]) /\ inbox'[a][j] = inbox[a][j + d]
                \/ inbox'[a][j].cmd = "Error"
            BY DEF Kept
      <2>2. \A j \in 1..Len(inbox'[a]) : IsAnswer(inbox'[a][j]) =>
                j + d \in 1..Len(inbox[a]) /\ inbox'[a][j] = inbox[a][j + d]
            BY <2>1 DEF IsAnswer
      <2>3. st'[a] \in {"busy", "syncing"} /\ (st'[a] = "busy" => st[a] = "busy" /\ msg'[a] = msg[a])
            BY <1>3
      <2>4. ASSUME st'[a] = "busy"
            PROVE  msg'[a] \in Ran' /\ \A j \in 1..Len(inbox'[a]) : IsAnswer(inbox'[a][j]) => i = j
            <3>1. i + d \in 1..Len(inbox[a]) /\ IsAnswer(inbox[a][i + d])
                  BY <1>3, <2>2
            <3>2. msg[a] \in Ran /\ \A j \in 1..Len(inbox[a]) : IsAnswer(inbox[a][j]) => i + d = j
                  BY <2>3, <2>4, <3>1 DEF RunInv
            <3>3. ASSUME NEW j \in 1..Len(inbox'[a]), IsAnswer(inbox'[a][j])
                  PROVE  i = j
                  <4>1. j + d \in 1..Len(inbox[a]) /\ IsAnswer(inbox[a][j + d])
                        BY <2>2, <3>3
                  <4>2. i + d = j + d
                        BY <3>2, <4>1
                  <4> QED BY <4>2
            <3> QED BY <1>1, <2>3, <2>4, <3>2, <3>3
      <2> QED BY <2>3, <2>4
<1> QED BY <1>1, <1>2, <1>3 DEF RunInv

-----------------------------------------------------------------------------
(* Packets keep the invariant.                                               *)

\* What a packet of an application leaves alone.
Packets(a) == /\ UNCHANGED <<st, chan, msg, count>>
              /\ pos' \in [Apps -> Nat]
              /\ \A b \in Apps \ {a} : pos'[b] = pos[b]

LEMMA ChanFacts ==
    ASSUME HostInv
    PROVE  /\ allocated \in Nat
           /\ \A a \in Apps : chan[a] \in 0..allocated
           /\ \A a \in Apps : st[a] \in {"ready", "busy", "syncing"} => chan[a] \in 1..allocated
           /\ \A a \in Apps : st[a] \in {"closed", "opening", "ready", "busy", "syncing"}
<1>1. chan \in [Apps -> 0..allocated] /\ allocated \in Nat
      /\ st \in [Apps -> {"closed", "opening", "ready", "busy", "syncing"}]
      BY DEF HostInv
<1>2. ASSUME NEW a \in Apps, st[a] \in {"ready", "busy", "syncing"}
      PROVE  chan[a] \in 1..allocated
      <2>1. chan[a] # 0
            BY <1>2 DEF HostInv, Reserved
      <2>2. chan[a] \in 0..allocated
            BY <1>1
      <2> QED BY <1>1, <2>1, <2>2
<1> QED BY <1>1, <1>2

LEMMA HostKept ==
    ASSUME HostInv, NEW a \in Apps, Packets(a), allocated' \in Nat, allocated <= allocated'
    PROVE  HostInv'
<1>1. chan \in [Apps -> 0..allocated] /\ allocated \in Nat
      BY DEF HostInv
<1>2. 0..allocated \subseteq 0..allocated'
      BY <1>1
<1>3. chan' \in [Apps -> 0..allocated']
      BY <1>1, <1>2 DEF Packets
<1>4. \A b \in Apps : /\ Waits(b)' = Waits(b)
                      /\ st'[b] = st[b] /\ msg'[b] = msg[b] /\ count'[b] = count[b] /\ chan'[b] = chan[b]
      BY DEF Packets, Waits
<1>5. \A b \in Apps :
          /\ Waits(b)' => msg'[b] \in Requests /\ msg'[b].app = b /\ msg'[b].n = count'[b]
          /\ st'[b] \in {"opening", "syncing"} => msg'[b].cmd = "Init" /\ msg'[b].len = NonceLen
          /\ (st'[b] = "busy" /\ msg'[b].cmd = "Init") => msg'[b].len # NonceLen
          /\ st'[b] \in {"closed", "opening"} <=> chan'[b] = Reserved
      BY <1>4 DEF HostInv
<1>6. \A b, c \in Apps : (chan'[b] # Reserved /\ chan'[b] = chan'[c]) => b = c
      BY DEF HostInv, Packets
<1>7. /\ st' \in [Apps -> {"closed", "opening", "ready", "busy", "syncing"}]
      /\ msg' \in [Apps -> Requests \cup {Nothing}]
      /\ pos' \in [Apps -> Nat]
      /\ count' \in [Apps -> Nat]
      BY DEF HostInv, Packets
<1> QED BY <1>3, <1>5, <1>6, <1>7 DEF HostInv

\* What is left in the assembler, as far as the other parts are concerned.
LEMMA AssemblerKept ==
    ASSUME IInv, NEW a \in Apps, Packets(a), Left(a), allocated' \in Nat, allocated <= allocated'
    PROVE  /\ AssemblerInv'
           /\ ~idle' => (~idle /\ cid' = cid) \/ (st[a] = "busy" /\ cid' = chan[a])
<1>1. AssemblerInv /\ allocated \in Nat
      BY ChanFacts DEF IInv
<1>2. \A n : n \in 1..allocated => n \in 1..allocated'
      BY <1>1
<1>3. CASE UNCHANGED assembler
      <2>1. \A b \in Apps : Underway(msg[b])' <=> Underway(msg[b])
            BY <1>3 DEF assembler, Packets, Underway
      <2>2. UNCHANGED <<idle, stale, cid, payload, st, chan>>
            BY <1>3 DEF assembler, Packets
      <2>3. AssemblerInv'
            BY <1>1, <1>2, <2>1, <2>2 DEF AssemblerInv
      <2> QED BY <2>2, <2>3
<1>4. CASE idle' = TRUE /\ payload' = <<>> /\ stale' \in BOOLEAN
      BY <1>4 DEF AssemblerInv
<1>5. CASE /\ idle' = FALSE /\ stale' = FALSE /\ cid' = chan[a]
           /\ st[a] = "busy" /\ Underway(msg[a])'
      <2>1. cid' \in 1..allocated'
            BY <1>2, <1>5, ChanFacts DEF IInv
      <2>2. \A b \in Apps : chan'[b] = cid' => b = a
            <3>1. chan[a] # Reserved
                  BY <1>5 DEF IInv, HostInv
            <3> QED BY <1>5, <3>1 DEF IInv, HostInv, Packets
      <2>3. st'[a] = "busy"
            BY <1>5 DEF Packets
      <2>4. AssemblerInv'
            BY <1>5, <2>1, <2>2, <2>3 DEF AssemblerInv
      <2> QED BY <1>5, <2>4
<1> QED BY <1>3, <1>4, <1>5 DEF Left

\* A packet that brings nothing but an error.
LEMMA QuietPacket ==
    ASSUME IInv, NEW a \in Apps, Packets(a), Left(a), Kept, UNCHANGED <<allocated, executed>>,
           \/ ToSend(a)
           \/ /\ pos'[a] = pos[a] \/ st[a] # "busy"
              /\ idle' = TRUE \/ UNCHANGED assembler
    PROVE  IInv'
<1>1. HostInv /\ AssemblerInv /\ InboxInv /\ ClaimInv /\ RunInv /\ allocated \in Nat
      BY ChanFacts DEF IInv
<1>2. allocated' \in Nat /\ allocated <= allocated'
      BY <1>1
<1>3. HostInv'
      BY <1>1, <1>2, HostKept
<1>4. AssemblerInv' /\ (~idle' => (~idle /\ cid' = cid) \/ (st[a] = "busy" /\ cid' = chan[a]))
      BY <1>2, AssemblerKept
<1>5. Made \subseteq Made'
      BY DEF Made, Packets
<1>6. InboxInv'
      BY <1>1, <1>2, <1>5, KeptInbox
<1>7. UNCHANGED <<st, chan, msg>>
      BY DEF Packets
<1>8. ASSUME NEW b \in Apps, NEW i \in 1..Len(inbox[b]),
             st'[b] \in {"opening", "syncing"}, inbox[b][i].cmd = "Init", inbox[b][i].nonce = Data(msg'[b])
      PROVE  /\ Claims(b, inbox[b][i]) /\ st'[b] = st[b] /\ chan'[b] = chan[b]
             /\ st[b] = "opening" => \A c \in Apps : chan'[c] # inbox[b][i].new
             /\ ~idle' => cid' # inbox[b][i].new
      <2>1. Claims(b, inbox[b][i])
            BY <1>7, <1>8 DEF Claims
      <2>2. /\ st[b] = "syncing" => inbox[b][i].new = chan[b]
            /\ st[b] = "opening" => \A c \in Apps : chan[c] # inbox[b][i].new
            /\ ~idle => cid # inbox[b][i].new
            BY <1>1, <2>1 DEF ClaimInv
      <2>3. st[a] = "busy" => chan[a] # Reserved
            BY <1>1 DEF HostInv
      <2>4. st[a] = "busy" => chan[a] # inbox[b][i].new
            <3>1. CASE st[b] = "opening"
                  BY <2>2, <3>1
            <3>2. CASE st[b] = "syncing"
                  <4>1. st[a] = "busy" => a # b
                        BY <3>2
                  <4> QED BY <1>1, <2>2, <2>3, <3>2, <4>1 DEF HostInv
            <3> QED BY <2>1, <3>1, <3>2 DEF Claims
      <2> QED BY <1>4, <1>7, <2>1, <2>2, <2>4
<1>9. ClaimInv'
      <2>1. \E S : inbox \in [Apps -> Seq(S)]
            BY <1>1 DEF InboxInv
      <2> QED BY <1>1, <1>8, <2>1, KeptClaims
<1>10. ASSUME NEW b \in Apps, st'[b] = "busy", msg'[b] \in Ran
       PROVE  AllSent(b)' /\ (idle' \/ cid' # chan'[b])
       <2>1. AllSent(b) /\ (idle \/ cid # chan[b])
             BY <1>1, <1>7, <1>10 DEF RunInv
       <2>2. pos'[b] = pos[b]
             <3>1. ~ToSend(b)
                   BY <2>1 DEF AllSent, ToSend
             <3>2. a = b => pos'[a] = pos[a]
                   BY <1>7, <1>10, <3>1
             <3> QED BY <3>2 DEF Packets
       <2>3. AllSent(b)'
             BY <1>7, <2>1, <2>2 DEF AllSent, Waits
       <2>4. CASE a = b
             <3>1. CASE ToSend(a)
                   BY <2>1, <2>4, <3>1 DEF AllSent, ToSend
             <3>2. CASE ~ToSend(a)
                   BY <1>7, <2>1, <2>3, <3>2, <2>4 DEF assembler
             <3> QED BY <3>1, <3>2
       <2>5. CASE a # b
             <3>1. st[a] = "busy" => chan[a] # chan[b]
                   <4>1. st[a] = "busy" => chan[a] # Reserved
                         BY <1>1 DEF HostInv
                   <4> QED BY <1>1, <2>5, <4>1 DEF HostInv
             <3> QED BY <1>4, <1>7, <2>1, <2>3, <2>5, <3>1
       <2> QED BY <2>4, <2>5
<1>11. ASSUME NEW b \in Apps, \E i \in 1..Len(inbox'[b]) : IsAnswer(inbox'[b][i])
       PROVE  /\ st'[b] \in {"busy", "syncing"}
              /\ st'[b] = "busy" => st[b] = "busy" /\ msg'[b] = msg[b]
       <2>1. PICK i \in 1..Len(inbox'[b]) : IsAnswer(inbox'[b][i])
             BY <1>11
       <2>2. \E k \in 1..Len(inbox[b]) : IsAnswer(inbox[b][k])
             <3>1. PICK d \in Nat : \/ i + d \in 1..Len(inbox[b]) /\ inbox'[b][i] = inbox[b][i + d]
                                    \/ inbox'[b][i].cmd = "Error"
                   BY DEF Kept
             <3>2. inbox'[b][i].cmd # "Error"
                   BY <2>1 DEF IsAnswer
             <3> QED BY <2>1, <3>1, <3>2
       <2> QED BY <1>1, <1>7, <2>2 DEF RunInv
<1>12. RunInv'
       BY <1>1, <1>5, <1>10, <1>11, KeptRuns
<1> QED BY <1>3, <1>4, <1>6, <1>9, <1>12 DEF IInv

\* A request that is whole is valid on its channel: it initializes, is run, or is refused.
LEMMA WholeStep ==
    ASSUME IInv, NEW a \in Apps, ToSend(a), PreprocessMessage(Assembled(a))
    PROVE  \/ Kept /\ UNCHANGED <<allocated, executed>>
           \/ Initialize(Assembled(a)) /\ st[a] \in {"opening", "syncing"}
           \/ Execute(Assembled(a)) /\ st[a] = "busy"
<1> DEFINE m == Assembled(a)
<1>1. m.cid = Channel(a) /\ m.cmd = msg[a].cmd /\ m.payload = Data(msg[a])
      BY DEF Assembled
<1> HIDE DEF m
<1>2. /\ InboxInv /\ st[a] \in {"opening", "syncing", "busy"} /\ msg[a] \in Requests
      /\ st[a] \in {"opening", "syncing"} => msg[a].cmd = "Init"
      /\ (st[a] = "busy" /\ msg[a].cmd = "Init") => msg[a].len # NonceLen
      BY DEF IInv, HostInv, ToSend, Waits
<1>3. Len(m.payload) = msg[a].len
      BY <1>1, <1>2, DataFacts
<1>4. HasValidChannel(m)
      <2>1. CASE st[a] = "opening"
            BY <1>1, <1>2, <2>1 DEF HasValidChannel, Channel
      <2>2. CASE st[a] # "opening"
            <3>1. chan[a] \in 1..allocated /\ allocated \in Nat
                  BY <1>2, <2>2, ChanFacts DEF IInv
            <3> QED BY <1>1, <2>2, <3>1 DEF HasValidChannel, Channel, IsAllocated, Reserved, Broadcast
      <2> QED BY <2>1, <2>2
<1>5. Initialize(m) \/ Execute(m) \/ Discard(m)
      BY <1>4 DEF PreprocessMessage, m
<1>6. CASE Initialize(m)
      BY <1>1, <1>2, <1>3, <1>6 DEF Initialize, m
<1>7. CASE Execute(m)
      BY <1>1, <1>2, <1>7 DEF Execute, m
<1>8. CASE Discard(m)
      BY <1>2, <1>8, AddedError, KeptSame DEF Discard
<1> QED BY <1>5, <1>6, <1>7, <1>8

\* The channel a CTAPHID_INIT gets is its own: a new one, or the one it has.
LEMMA InitializeStep ==
    ASSUME IInv, NEW a \in Apps, ToSend(a), Packets(a), Left(a), idle' = TRUE,
           Initialize(Assembled(a)), st[a] \in {"opening", "syncing"}
    PROVE  IInv'
<1> DEFINE new == IF st[a] = "opening" THEN allocated + 1 ELSE chan[a]
           r == [cmd |-> "Init", nonce |-> Data(msg[a]), new |-> new]
<1>1. /\ HostInv /\ AssemblerInv /\ InboxInv /\ ClaimInv /\ RunInv
      /\ allocated \in Nat /\ msg[a] \in Requests /\ msg[a].app = a
      BY ChanFacts DEF IInv, HostInv, Waits
<1>2. UNCHANGED <<st, chan, msg, count>>
      BY DEF Packets
<1>3. st[a] # "opening" => chan[a] \in 1..allocated
      BY ChanFacts DEF IInv
<1>4. /\ allocated' = IF st[a] = "opening" THEN allocated + 1 ELSE allocated
      /\ Post(Channel(a), r)
      /\ executed' = executed
      <2>1. Channel(a) = Broadcast <=> st[a] = "opening"
            BY <1>1, <1>3 DEF Channel, Broadcast
      <2>2. /\ Assembled(a).cid = Channel(a) /\ Assembled(a).cmd = msg[a].cmd
            /\ Assembled(a).payload = Data(msg[a])
            BY DEF Assembled
      <2>3. st[a] # "opening" => Channel(a) = chan[a]
            BY DEF Channel
      <2> QED BY <2>1, <2>2, <2>3 DEF Initialize
<1>5. allocated' \in Nat /\ allocated <= allocated' /\ new \in 1..allocated'
      BY <1>1, <1>3, <1>4
<1>6. Added(Channel(a), r) /\ r.cmd = "Init" /\ r.nonce = Data(msg[a]) /\ r.new = new
      BY <1>1, <1>4, Posted
<1> HIDE DEF r
<1>7. ASSUME NEW b \in Apps, NEW i \in 1..Len(inbox'[b])
      PROVE  (i \in 1..Len(inbox[b]) /\ inbox'[b][i] = inbox[b][i]) \/ inbox'[b][i] = r
      BY <1>6 DEF Added
<1>8. HostInv'
      BY <1>1, <1>5, HostKept
<1>9. AssemblerInv'
      BY <1>5, AssemblerKept
<1>10. Made' = Made /\ Ran' = Ran /\ msg[a] \in Made
       <2>1. msg[a].n = count[a] /\ count[a] \in Nat
             BY <1>1 DEF HostInv, ToSend
       <2> QED BY <1>1, <1>2, <1>4, <2>1 DEF Made, Ran
<1>11. InboxInv'
       <2>1. ASSUME NEW b \in Apps, NEW i \in 1..Len(inbox'[b])
             PROVE  /\ inbox'[b][i].cmd \in {"Init", "Ping", "Cbor", "Error"}
                    /\ inbox'[b][i].cmd = "Init" => /\ inbox'[b][i].new \in 1..allocated'
                                                   /\ \E m \in Made' : inbox'[b][i].nonce = Data(m)
             <3>1. CASE inbox'[b][i] = r
                   BY <1>5, <1>6, <1>10, <3>1
             <3>2. CASE i \in 1..Len(inbox[b]) /\ inbox'[b][i] = inbox[b][i]
                   <4>1. 1..allocated \subseteq 1..allocated'
                         BY <1>1, <1>5
                   <4> QED BY <1>1, <1>10, <3>2, <4>1 DEF InboxInv
             <3> QED BY <1>7, <3>1, <3>2
       <2>2. \E S : inbox' \in [Apps -> Seq(S)]
             BY <1>6 DEF Added
       <2> QED BY <2>1, <2>2 DEF InboxInv
<1>12. ASSUME NEW b \in Apps, st[b] \in {"opening", "syncing"}, Data(msg[a]) = Data(msg[b])
       PROVE  b = a
       <2>1. msg[b] \in Requests /\ msg[b].app = b
             BY <1>1, <1>12 DEF HostInv, Waits
       <2> QED BY <1>1, <1>12, <2>1, DataFacts
<1>13. ASSUME NEW b \in Apps, NEW i \in 1..Len(inbox'[b]), Claims(b, inbox[b][i])'
       PROVE  \/ /\ i \in 1..Len(inbox[b]) /\ inbox'[b][i] = inbox[b][i] /\ Claims(b, inbox[b][i])
                 /\ inbox'[b][i].new \in 1..allocated
              \/ b = a /\ inbox'[b][i].new = new /\ i = Len(inbox[b]) + 1
       <2>1. st[b] \in {"opening", "syncing"} /\ inbox'[b][i].cmd = "Init" /\ inbox'[b][i].nonce = Data(msg[b])
             BY <1>2, <1>13 DEF Claims
       <2>2. CASE i \in 1..Len(inbox[b]) /\ inbox'[b][i] = inbox[b][i]
             BY <1>1, <2>1, <2>2 DEF Claims, InboxInv
       <2>3. CASE i = Len(inbox[b]) + 1 /\ inbox'[b][i] = r
             BY <1>6, <1>12, <2>1, <2>3
       <2> QED BY <1>6, <2>2, <2>3 DEF Added
<1>14. /\ st[a] = "opening" => \A b \in Apps : chan[b] # new
       /\ \A b \in Apps \ {a} : \A j \in 1..Len(inbox[b]) : Claims(b, inbox[b][j]) => inbox[b][j].new # new
       <2>1. CASE st[a] = "opening"
             <3>1. \A b \in Apps : chan[b] \in 0..allocated
                   BY <1>1, ChanFacts
             <3>2. \A b \in Apps : \A j \in 1..Len(inbox[b]) :
                       Claims(b, inbox[b][j]) => inbox[b][j].new \in 1..allocated
                   BY <1>1 DEF InboxInv, Claims
             <3> QED BY <1>1, <2>1, <3>1, <3>2
       <2>2. CASE st[a] # "opening"
             <3> SUFFICES ASSUME NEW b \in Apps \ {a}, NEW j \in 1..Len(inbox[b]), Claims(b, inbox[b][j])
                          PROVE  inbox[b][j].new # chan[a]
                 BY <2>2
             <3>1. CASE st[b] = "opening"
                   BY <1>1, <3>1 DEF ClaimInv
             <3>2. CASE st[b] = "syncing"
                   <4>1. inbox[b][j].new = chan[b]
                         BY <1>1, <3>2 DEF ClaimInv
                   <4>2. chan[b] # Reserved
                         BY <1>1, <3>2 DEF HostInv
                   <4> QED BY <1>1, <4>1, <4>2 DEF HostInv
             <3> QED BY <3>1, <3>2 DEF Claims
       <2> QED BY <2>1, <2>2
<1>15. \A b \in Apps : Len(inbox[b]) \in Nat /\ Len(inbox'[b]) \in Nat
       <2>1. \E S : inbox \in [Apps -> Seq(S)]
             BY <1>1 DEF InboxInv
       <2>2. \E S : inbox' \in [Apps -> Seq(S)]
             BY <1>6 DEF Added
       <2> QED BY <2>1, <2>2, LenProperties
<1> HIDE DEF new
<1>16. ASSUME NEW b \in Apps, NEW i \in 1..Len(inbox'[b]), Claims(b, inbox[b][i])'
       PROVE  /\ st'[b] = "syncing" => inbox'[b][i].new = chan'[b]
              /\ st'[b] = "opening" => \A c \in Apps : chan'[c] # inbox'[b][i].new
              /\ \A c \in Apps \ {b} : \A j \in 1..Len(inbox'[c]) :
                     Claims(c, inbox[c][j])' => inbox'[c][j].new # inbox'[b][i].new
              /\ ~idle' => cid' # inbox'[b][i].new
              /\ \A j \in i..Len(inbox'[b]) : ~IsAnswer(inbox'[b][j])
       <2>1. ASSUME NEW j \in i..Len(inbox'[b])
             PROVE  ~IsAnswer(inbox'[b][j])
             <3>1. j \in 1..Len(inbox'[b])
                   BY <1>15
             <3>2. CASE inbox'[b][j] = r
                   BY <1>6, <3>2 DEF IsAnswer
             <3>3. CASE j \in 1..Len(inbox[b]) /\ inbox'[b][j] = inbox[b][j]
                   <4>1. i # Len(inbox[b]) + 1
                         BY <1>15, <3>3
                   <4>2. i \in 1..Len(inbox[b]) /\ Claims(b, inbox[b][i])
                         BY <1>13, <1>16, <4>1
                   <4>3. j \in i..Len(inbox[b])
                         BY <1>15, <3>3
                   <4> QED BY <1>1, <3>3, <4>2, <4>3 DEF ClaimInv
             <3> QED BY <1>7, <3>1, <3>2, <3>3
       <2>2. CASE b = a /\ inbox'[b][i].new = new
             <3>1. st[b] = "syncing" => new = chan[b]
                   BY <2>2 DEF new
             <3>2. ASSUME NEW c \in Apps \ {b}, NEW j \in 1..Len(inbox'[c]), Claims(c, inbox[c][j])'
                   PROVE  inbox'[c][j].new # new
                   <4>1. j \in 1..Len(inbox[c]) /\ inbox'[c][j] = inbox[c][j] /\ Claims(c, inbox[c][j])
                         BY <1>13, <2>2, <3>2
                   <4> QED BY <1>14, <2>2, <4>1
             <3> QED BY <1>2, <1>14, <2>1, <2>2, <3>1, <3>2
       <2>3. CASE i \in 1..Len(inbox[b]) /\ inbox'[b][i] = inbox[b][i] /\ Claims(b, inbox[b][i])
             <3>1. /\ st[b] = "syncing" => inbox[b][i].new = chan[b]
                   /\ st[b] = "opening" => \A c \in Apps : chan[c] # inbox[b][i].new
                   BY <1>1, <2>3 DEF ClaimInv
             <3>2. ASSUME NEW c \in Apps \ {b}, NEW j \in 1..Len(inbox'[c]), Claims(c, inbox[c][j])'
                   PROVE  inbox'[c][j].new # inbox[b][i].new
                   <4>1. CASE j \in 1..Len(inbox[c]) /\ inbox'[c][j] = inbox[c][j] /\ Claims(c, inbox[c][j])
                         BY <1>1, <2>3, <4>1 DEF ClaimInv
                   <4>2. CASE c = a /\ inbox'[c][j].new = new
                         BY <1>14, <2>3, <4>2
                   <4> QED BY <1>13, <3>2, <4>1, <4>2
             <3> QED BY <1>2, <2>1, <2>3, <3>1, <3>2
       <2> QED BY <1>13, <1>16, <2>2, <2>3
<1>17. ClaimInv'
       BY <1>16 DEF ClaimInv
<1>18. ASSUME NEW b \in Apps, NEW i \in 1..Len(inbox'[b]), IsAnswer(inbox'[b][i])
       PROVE  i \in 1..Len(inbox[b]) /\ inbox'[b][i] = inbox[b][i]
       BY <1>6, <1>7, <1>18 DEF IsAnswer
<1>19. ASSUME NEW b \in Apps, st[b] = "busy", msg[b] \in Ran
       PROVE  AllSent(b)'
       <2>1. AllSent(b) /\ b # a
             BY <1>1, <1>19 DEF RunInv
       <2> QED BY <1>2, <2>1 DEF AllSent, Waits, Packets
<1>20. RunInv'
       <2>1. \A x \in executed' : \E m \in Made' : x.cmd = m.cmd /\ x.payload = Data(m)
             BY <1>1, <1>4, <1>10 DEF RunInv
       <2>2. ASSUME NEW b \in Apps
             PROVE  (st'[b] = "busy" /\ msg'[b] \in Ran') => AllSent(b)' /\ (idle' \/ cid' # chan'[b])
             BY <1>2, <1>10, <1>19
       <2>3. ASSUME NEW b \in Apps, NEW i \in 1..Len(inbox'[b]), IsAnswer(inbox'[b][i])
             PROVE  /\ st'[b] \in {"busy", "syncing"}
                    /\ st'[b] = "busy" => msg'[b] \in Ran'
                    /\ st'[b] = "busy" => \A j \in 1..Len(inbox'[b]) : IsAnswer(inbox'[b][j]) => i = j
             <3>1. i \in 1..Len(inbox[b]) /\ IsAnswer(inbox[b][i])
                   BY <1>18, <2>3
             <3>2. /\ st[b] \in {"busy", "syncing"}
                   /\ st[b] = "busy" => msg[b] \in Ran
                   /\ st[b] = "busy" => \A j \in 1..Len(inbox[b]) : IsAnswer(inbox[b][j]) => i = j
                   BY <1>1, <3>1 DEF RunInv
             <3> QED BY <1>2, <1>10, <1>18, <3>2
       <2> QED BY <2>1, <2>2, <2>3 DEF RunInv
<1> QED BY <1>8, <1>9, <1>11, <1>17, <1>20 DEF IInv

\* Running a request: it is in hand, and was not run before.
LEMMA ExecuteFacts ==
    ASSUME IInv, NEW a \in Apps, ToSend(a), Execute(Assembled(a)), st[a] = "busy"
    PROVE  /\ msg[a] \in Requests /\ msg[a] \in Made /\ msg[a] \notin Ran
           /\ executed' = executed \cup {Assembled(a)}
           /\ Ran' = Ran \cup {msg[a]}
           /\ allocated' = allocated
           /\ \E r : IsAnswer(r) /\ Added(chan[a], r)
<1>1. HostInv /\ InboxInv /\ RunInv /\ msg[a] \in Requests /\ msg[a].app = a /\ msg[a].n = count[a]
      /\ count[a] \in Nat
      BY DEF IInv, HostInv, Waits
<1>2. msg[a] \in Made
      BY <1>1 DEF Made
<1>3. msg[a] \notin Ran
      BY <1>1 DEF RunInv, AllSent, ToSend
<1>4. /\ executed' = executed \cup {Assembled(a)}
      /\ allocated' = allocated
      BY DEF Execute
<1>5. Assembled(a).payload[1][1] = msg[a]
      BY <1>1, DataFacts DEF Assembled
<1>6. Ran' = Ran \cup {msg[a]}
      BY <1>4, <1>5 DEF Ran
<1>7. \E r : IsAnswer(r) /\ Post(chan[a], r)
      <2>1. Assembled(a).cid = chan[a] /\ Assembled(a).cmd \in {"Ping", "Cbor"}
            BY DEF Assembled, Channel, Execute
      <2>2. PICK q : Post(chan[a], SplitMessage([cmd |-> Assembled(a).cmd, payload |-> q]))
            BY <2>1 DEF Execute
      <2>3. IsAnswer(SplitMessage([cmd |-> Assembled(a).cmd, payload |-> q]))
            BY <2>1 DEF SplitMessage, IsAnswer
      <2> QED BY <2>2, <2>3
<1>8. \E r : IsAnswer(r) /\ Added(chan[a], r)
      BY <1>1, <1>7, Posted
<1> QED BY <1>1, <1>2, <1>3, <1>4, <1>6, <1>8

LEMMA ExecuteStep ==
    ASSUME IInv, NEW a \in Apps, ToSend(a), Packets(a), Left(a), idle' = TRUE,
           pos'[a] \notin Frames(msg[a].len),
           Execute(Assembled(a)), st[a] = "busy"
    PROVE  IInv'
<1>1. /\ HostInv /\ AssemblerInv /\ InboxInv /\ ClaimInv /\ RunInv
      /\ allocated \in Nat
      BY ChanFacts DEF IInv
<1>2. UNCHANGED <<st, chan, msg, count, allocated>>
      BY ExecuteFacts DEF Packets
<1>3. /\ msg[a] \in Requests /\ msg[a] \in Made /\ msg[a] \notin Ran
      /\ executed' = executed \cup {Assembled(a)}
      /\ Ran' = Ran \cup {msg[a]}
      BY ExecuteFacts
<1>4. PICK r : IsAnswer(r) /\ Added(chan[a], r)
      BY ExecuteFacts
<1>5. HostInv'
      BY <1>1, <1>2, HostKept
<1>6. AssemblerInv'
      BY <1>1, <1>2, AssemblerKept
<1>7. Made' = Made
      BY <1>2 DEF Made
<1>8. \A b \in Apps : Listens(b, chan[a]) => b = a
      <2>1. chan[a] # Broadcast /\ chan[a] # Reserved
            BY ChanFacts DEF IInv, Broadcast, Reserved
      <2> QED BY <1>1, <2>1 DEF HostInv, Listens
<1>9. ASSUME NEW b \in Apps, NEW i \in 1..Len(inbox'[b])
      PROVE  \/ i \in 1..Len(inbox[b]) /\ inbox'[b][i] = inbox[b][i]
             \/ b = a /\ i = Len(inbox[a]) + 1 /\ inbox'[b][i] = r
      BY <1>4, <1>8 DEF Added
<1>10. InboxInv'
       <2>1. ASSUME NEW b \in Apps, NEW i \in 1..Len(inbox'[b])
             PROVE  /\ inbox'[b][i].cmd \in {"Init", "Ping", "Cbor", "Error"}
                    /\ inbox'[b][i].cmd = "Init" => /\ inbox'[b][i].new \in 1..allocated'
                                                   /\ \E m \in Made' : inbox'[b][i].nonce = Data(m)
             <3>1. CASE inbox'[b][i] = r
                   BY <1>4, <3>1 DEF IsAnswer
             <3>2. CASE i \in 1..Len(inbox[b]) /\ inbox'[b][i] = inbox[b][i]
                   BY <1>1, <1>2, <1>7, <3>2 DEF InboxInv
             <3> QED BY <1>9, <3>1, <3>2
       <2>2. \E S : inbox' \in [Apps -> Seq(S)]
             BY <1>4 DEF Added
       <2> QED BY <2>1, <2>2 DEF InboxInv
<1>11. \A b \in Apps \ {a} : \A i \in 1..Len(inbox'[b]) : i \in 1..Len(inbox[b]) /\ inbox'[b][i] = inbox[b][i]
       BY <1>9
<1>12. \A b \in Apps : Len(inbox[b]) \in Nat /\ Len(inbox'[b]) \in Nat
       <2>1. \E S : inbox \in [Apps -> Seq(S)]
             BY <1>1 DEF InboxInv
       <2>2. \E S : inbox' \in [Apps -> Seq(S)]
             BY <1>4 DEF Added
       <2> QED BY <2>1, <2>2, LenProperties
<1>13. ASSUME NEW b \in Apps, NEW i \in 1..Len(inbox'[b]), Claims(b, inbox[b][i])'
       PROVE  b # a /\ i \in 1..Len(inbox[b]) /\ inbox'[b][i] = inbox[b][i] /\ Claims(b, inbox[b][i])
       <2>1. st[b] \in {"opening", "syncing"} /\ inbox'[b][i].cmd = "Init" /\ inbox'[b][i].nonce = Data(msg[b])
             BY <1>2, <1>13 DEF Claims
       <2> QED BY <1>11, <2>1 DEF Claims
<1>14. ASSUME NEW b \in Apps, NEW i \in 1..Len(inbox'[b]), Claims(b, inbox[b][i])'
       PROVE  /\ st'[b] = "syncing" => inbox'[b][i].new = chan'[b]
              /\ st'[b] = "opening" => \A c \in Apps : chan'[c] # inbox'[b][i].new
              /\ \A c \in Apps \ {b} : \A j \in 1..Len(inbox'[c]) :
                     Claims(c, inbox[c][j])' => inbox'[c][j].new # inbox'[b][i].new
              /\ ~idle' => cid' # inbox'[b][i].new
              /\ \A j \in i..Len(inbox'[b]) : ~IsAnswer(inbox'[b][j])
       <2>1. b # a /\ i \in 1..Len(inbox[b]) /\ inbox'[b][i] = inbox[b][i] /\ Claims(b, inbox[b][i])
             BY <1>13, <1>14
       <2>2. /\ st[b] = "syncing" => inbox[b][i].new = chan[b]
             /\ st[b] = "opening" => \A c \in Apps : chan[c] # inbox[b][i].new
             /\ \A c \in Apps \ {b} : \A j \in 1..Len(inbox[c]) :
                    Claims(c, inbox[c][j]) => inbox[c][j].new # inbox[b][i].new
             /\ \A j \in i..Len(inbox[b]) : ~IsAnswer(inbox[b][j])
             BY <1>1, <2>1 DEF ClaimInv
       <2>3. ASSUME NEW c \in Apps \ {b}, NEW j \in 1..Len(inbox'[c]), Claims(c, inbox[c][j])'
             PROVE  inbox'[c][j].new # inbox'[b][i].new
             <3>1. j \in 1..Len(inbox[c]) /\ inbox'[c][j] = inbox[c][j] /\ Claims(c, inbox[c][j])
                   BY <1>13, <2>3
             <3> QED BY <2>1, <2>2, <3>1
       <2>4. ASSUME NEW j \in i..Len(inbox'[b])
             PROVE  ~IsAnswer(inbox'[b][j])
             <3>1. j \in 1..Len(inbox'[b])
                   BY <1>12
             <3>2. j \in 1..Len(inbox[b]) /\ inbox'[b][j] = inbox[b][j]
                   BY <1>11, <2>1, <3>1
             <3>3. j \in i..Len(inbox[b])
                   BY <1>12, <3>2
             <3> QED BY <2>2, <3>2, <3>3
       <2> QED BY <1>2, <2>1, <2>2, <2>3, <2>4
<1>15. ClaimInv'
       BY <1>14 DEF ClaimInv
<1>16. \A x \in executed' : \E m \in Made' : x.cmd = m.cmd /\ x.payload = Data(m)
       <2>1. Assembled(a).cmd = msg[a].cmd /\ Assembled(a).payload = Data(msg[a])
             BY DEF Assembled
       <2> QED BY <1>1, <1>3, <1>7, <2>1 DEF RunInv
<1>17. ASSUME NEW b \in Apps, st[b] = "busy", msg[b] \in Ran'
       PROVE  AllSent(b)'
       <2>1. CASE b = a
             BY <1>2, <1>17, <2>1 DEF AllSent, Waits
       <2>2. CASE b # a
             <3>1. msg[b].app = b /\ msg[a].app = a
                   BY <1>1, <1>17 DEF HostInv, Waits
             <3>2. msg[b] \in Ran
                   BY <1>3, <1>17, <2>2, <3>1
             <3>3. AllSent(b)
                   BY <1>1, <1>17, <3>2 DEF RunInv
             <3> QED BY <1>2, <2>2, <3>3 DEF AllSent, Waits, Packets
       <2> QED BY <2>1, <2>2
<1>18. ASSUME NEW b \in Apps, NEW i \in 1..Len(inbox'[b]), IsAnswer(inbox'[b][i])
       PROVE  /\ st'[b] \in {"busy", "syncing"}
              /\ st'[b] = "busy" => msg'[b] \in Ran'
              /\ st'[b] = "busy" => \A j \in 1..Len(inbox'[b]) : IsAnswer(inbox'[b][j]) => i = j
       <2>1. CASE b = a
             <3>1. \A j \in 1..Len(inbox[a]) : ~IsAnswer(inbox[a][j])
                   BY <1>1, <1>3 DEF RunInv
             <3>2. \A j \in 1..Len(inbox'[a]) : IsAnswer(inbox'[a][j]) => j = Len(inbox[a]) + 1
                   BY <1>9, <3>1
             <3> QED BY <1>2, <1>3, <1>18, <2>1, <3>2
       <2>2. CASE b # a
             <3>1. \A j \in 1..Len(inbox'[b]) : j \in 1..Len(inbox[b]) /\ inbox'[b][j] = inbox[b][j]
                   BY <1>11, <2>2
             <3>2. i \in 1..Len(inbox[b]) /\ IsAnswer(inbox[b][i])
                   BY <1>18, <3>1
             <3>3. /\ st[b] \in {"busy", "syncing"}
                   /\ st[b] = "busy" => msg[b] \in Ran
                   /\ st[b] = "busy" => \A j \in 1..Len(inbox[b]) : IsAnswer(inbox[b][j]) => i = j
                   BY <1>1, <3>2 DEF RunInv
             <3> QED BY <1>2, <1>3, <3>1, <3>3
       <2> QED BY <2>1, <2>2
<1>19. RunInv'
       BY <1>2, <1>16, <1>17, <1>18 DEF RunInv
<1> QED BY <1>5, <1>6, <1>10, <1>15, <1>19 DEF IInv

LEMMA SendKeeps ==
    ASSUME IInv, NEW a \in Apps, Send(a)
    PROVE  IInv'
<1>1. ToSend(a) /\ ProcessHidPacket(Packet(a)) /\ UNCHANGED <<st, chan, msg, count>>
      /\ pos' = [pos EXCEPT ![a] = @ + 1] /\ pos \in [Apps -> Nat]
      BY DEF Send, IInv, HostInv
<1>2. Packets(a) /\ pos'[a] = pos[a] + 1
      BY <1>1 DEF Packets
<1>3. Left(a) /\ Brought(a)
      BY <1>1, DeviceStep
<1>4. InboxInv
      BY DEF IInv
<1>5. CASE Silent
      BY <1>1, <1>2, <1>3, <1>4, <1>5, KeptSame, QuietPacket DEF Silent
<1>6. CASE Refused(Channel(a))
      <2>1. Kept /\ UNCHANGED <<allocated, executed>>
            BY <1>4, <1>6, AddedError DEF Refused, Refuse
      <2> QED BY <1>1, <1>2, <1>3, <2>1, QuietPacket
<1>7. CASE /\ idle' = TRUE
           /\ pos[a] + 1 \notin Frames(msg[a].len)
           /\ PreprocessMessage(Assembled(a))
      <2>1. CASE Kept /\ UNCHANGED <<allocated, executed>>
            BY <1>1, <1>2, <1>3, <2>1, QuietPacket
      <2>2. CASE Initialize(Assembled(a)) /\ st[a] \in {"opening", "syncing"}
            BY <1>1, <1>2, <1>3, <1>7, <2>2, InitializeStep
      <2>3. CASE Execute(Assembled(a)) /\ st[a] = "busy"
            BY <1>1, <1>2, <1>3, <1>7, <2>3, ExecuteStep
      <2> QED BY <1>1, <1>7, <2>1, <2>2, <2>3, WholeStep
<1> QED BY <1>3, <1>5, <1>6, <1>7 DEF Brought

LEMMA LoseKeeps ==
    ASSUME IInv, NEW a \in Apps, Lose(a)
    PROVE  IInv'
<1>1. ToSend(a) /\ UNCHANGED <<st, chan, msg, count, inbox, allocated, executed, assembler>>
      /\ pos' = [pos EXCEPT ![a] = @ + 1] /\ pos \in [Apps -> Nat]
      BY DEF Lose, IInv, HostInv
<1>2. Packets(a) /\ Left(a)
      BY <1>1 DEF Packets, Left
<1>3. Kept
      BY <1>1, KeptSame DEF IInv
<1> QED BY <1>1, <1>2, <1>3, QuietPacket

LEMMA CancelKeeps ==
    ASSUME IInv, NEW a \in Apps, SendCancel(a)
    PROVE  IInv'
<1>1. UNCHANGED <<st, chan, msg, pos, count>> /\ pos \in [Apps -> Nat] /\ InboxInv
      BY DEF SendCancel, apps, IInv, HostInv
<1>2. Packets(a) /\ pos'[a] = pos[a]
      BY <1>1 DEF Packets
<1>3. /\ \/ UNCHANGED assembler
         \/ idle' = TRUE /\ payload' = <<>> /\ stale' \in BOOLEAN
      /\ Silent \/ Refused(chan[a])
      BY CancelStep
<1>4. Left(a) /\ (idle' = TRUE \/ UNCHANGED assembler)
      BY <1>3 DEF Left
<1>5. Kept /\ UNCHANGED <<allocated, executed>>
      BY <1>1, <1>3, KeptSame, AddedError DEF Silent, Refused, Refuse
<1> QED BY <1>2, <1>4, <1>5, QuietPacket

LEMMA TickKeeps ==
    ASSUME IInv, Tick
    PROVE  IInv'
<1>1. /\ HostInv /\ AssemblerInv /\ InboxInv /\ ClaimInv /\ RunInv
      /\ UNCHANGED <<idle, cid, cmd, seq, remaining, payload, allocated, st, chan, msg, pos, count, inbox, executed>>
      /\ stale' = TRUE
      BY DEF Tick, IInv, apps
<1>2. HostInv'
      BY <1>1 DEF HostInv, Waits
<1>3. AssemblerInv'
      BY <1>1 DEF AssemblerInv, Underway
<1>4. InboxInv'
      BY <1>1 DEF InboxInv, Made
<1>5. ClaimInv'
      BY <1>1 DEF ClaimInv, Claims
<1>6. RunInv'
      BY <1>1 DEF RunInv, Made, Ran, AllSent, Waits
<1> QED BY <1>2, <1>3, <1>4, <1>5, <1>6 DEF IInv

-----------------------------------------------------------------------------
(* The applications keep the invariant.                                      *)

\* An answer that is there was there before.
LEMMA KeptAnswers ==
    ASSUME Kept, NEW a \in Apps, NEW i \in 1..Len(inbox'[a]), IsAnswer(inbox'[a][i])
    PROVE  \E k \in 1..Len(inbox[a]) : IsAnswer(inbox[a][k])
<1>1. PICK d \in Nat : \/ i + d \in 1..Len(inbox[a]) /\ inbox'[a][i] = inbox[a][i + d]
                       \/ inbox'[a][i].cmd = "Error"
      BY DEF Kept
<1>2. inbox'[a][i].cmd # "Error"
      BY DEF IsAnswer
<1> QED BY <1>1, <1>2

\* A request that is turned to was never seen by the device.
LEMMA TurnFacts ==
    ASSUME IInv, NEW a \in Apps, NEW to, NEW k, NEW len, Turn(a, to, k, len),
           [cmd |-> k, len |-> len] \in Shapes[a] \cup {[cmd |-> "Init", len |-> NonceLen]}
    PROVE  LET m == [app |-> a, n |-> count[a] + 1, cmd |-> k, len |-> len]
           IN /\ m \in Requests /\ m \notin Made
              /\ \A r \in Made : Data(r) # Data(m)
              /\ m \notin Ran /\ Ran \subseteq Made
              /\ msg' = [msg EXCEPT ![a] = m]
              /\ st' = [st EXCEPT ![a] = to]
              /\ pos' = [pos EXCEPT ![a] = 0]
              /\ count' = [count EXCEPT ![a] = count[a] + 1]
<1> DEFINE m == [app |-> a, n |-> count[a] + 1, cmd |-> k, len |-> len]
           h == [cmd |-> k, len |-> len]
<1>1. count \in [Apps -> Nat] /\ count[a] \in Nat /\ MaxRequests[a] \in Nat /\ count[a] < MaxRequests[a]
      /\ msg \in [Apps -> Requests \cup {Nothing}]
      BY BoundAssumption DEF IInv, HostInv, Turn
<1>2. count'[a] = count[a] + 1 /\ count' = [count EXCEPT ![a] = count[a] + 1]
      BY <1>1 DEF Turn
<1>3. msg' = [msg EXCEPT ![a] = m]
      BY <1>1, <1>2 DEF Turn
<1>4. m \in Requests
      <2>1. count[a] + 1 \in 1..MaxRequests[a]
            BY <1>1
      <2>2. m = [app |-> a, n |-> count[a] + 1, cmd |-> h.cmd, len |-> h.len]
            OBVIOUS
      <2> HIDE DEF h
      <2>3. h \in Shapes[a] \cup {[cmd |-> "Init", len |-> NonceLen]}
            BY DEF h
      <2> QED BY <2>1, <2>2, <2>3, TurnedTo
<1>5. m.app = a /\ m.n = count[a] + 1
      OBVIOUS
<1> HIDE DEF m
<1>6. m \notin Made
      BY <1>1, <1>5 DEF Made
<1>7. \A r \in Made : r \in Requests
      BY DEF Made
<1>8. \A r \in Made : Data(r) # Data(m)
      BY <1>4, <1>6, <1>7, DataFacts
<1>9. Ran \subseteq Made
      <2> SUFFICES ASSUME NEW x \in executed PROVE x.payload[1][1] \in Made
          BY DEF Ran
      <2>1. PICK r \in Made : x.payload = Data(r)
            BY DEF IInv, RunInv
      <2> QED BY <1>7, <2>1, DataFacts
<1> QED BY <1>2, <1>3, <1>4, <1>6, <1>8, <1>9 DEF m, Turn

LEMMA TurnKeeps ==
    ASSUME IInv, NEW a \in Apps, NEW to, NEW k, NEW len, Turn(a, to, k, len),
           [cmd |-> k, len |-> len] \in Shapes[a] \cup {[cmd |-> "Init", len |-> NonceLen]},
           \/ st[a] = "closed" /\ to = "opening" /\ k = "Init" /\ len = NonceLen
           \/ st[a] = "ready" /\ to = "busy" /\ (k = "Init" => len # NonceLen)
           \/ st[a] = "busy" /\ to = "syncing" /\ k = "Init" /\ len = NonceLen,
           UNCHANGED <<assembler, allocated, chan, executed>>, Kept
    PROVE  IInv'
<1> DEFINE m == [app |-> a, n |-> count[a] + 1, cmd |-> k, len |-> len]
<1>1. /\ HostInv /\ AssemblerInv /\ InboxInv /\ ClaimInv /\ RunInv
      /\ allocated \in Nat /\ a \in Apps
      BY ChanFacts DEF IInv
<1>2. /\ m \in Requests /\ m \notin Made
      /\ \A r \in Made : Data(r) # Data(m)
      /\ m \notin Ran /\ Ran \subseteq Made
      /\ msg' = [msg EXCEPT ![a] = m]
      /\ st' = [st EXCEPT ![a] = to]
      /\ pos' = [pos EXCEPT ![a] = 0]
      /\ count' = [count EXCEPT ![a] = count[a] + 1]
      BY TurnFacts
<1>3. m.app = a /\ m.n = count[a] + 1 /\ m.cmd = k /\ m.len = len
      OBVIOUS
<1> HIDE DEF m
<1>4. /\ msg'[a] = m /\ st'[a] = to /\ pos'[a] = 0 /\ count'[a] = count[a] + 1
      /\ \A b \in Apps \ {a} : /\ msg'[b] = msg[b] /\ st'[b] = st[b] /\ pos'[b] = pos[b]
                               /\ count'[b] = count[b]
      BY <1>1, <1>2 DEF HostInv
<1>5. to \in {"opening", "busy", "syncing"}
      OBVIOUS
<1>6. UNCHANGED <<idle, cid, stale, cmd, seq, remaining, payload, chan, allocated, executed>>
      BY DEF assembler
<1>7. HostInv'
      <2>1. /\ st' \in [Apps -> {"closed", "opening", "ready", "busy", "syncing"}]
            /\ chan' \in [Apps -> 0..allocated']
            /\ msg' \in [Apps -> Requests \cup {Nothing}]
            /\ pos' \in [Apps -> Nat]
            /\ count' \in [Apps -> Nat]
            /\ allocated' \in Nat
            BY <1>1, <1>2, <1>5, <1>6 DEF HostInv
      <2>2. ASSUME NEW b \in Apps
            PROVE  /\ Waits(b)' => msg'[b] \in Requests /\ msg'[b].app = b /\ msg'[b].n = count'[b]
                   /\ st'[b] \in {"opening", "syncing"} => msg'[b].cmd = "Init" /\ msg'[b].len = NonceLen
                   /\ (st'[b] = "busy" /\ msg'[b].cmd = "Init") => msg'[b].len # NonceLen
                   /\ st'[b] \in {"closed", "opening"} <=> chan'[b] = Reserved
            <3>1. CASE b = a
                  BY <1>1, <1>2, <1>3, <1>4, <1>6, <3>1 DEF HostInv
            <3>2. CASE b # a
                  <4>1. Waits(b)' = Waits(b)
                        BY <1>4, <3>2 DEF Waits
                  <4> QED BY <1>1, <1>4, <1>6, <3>2, <4>1 DEF HostInv
            <3> QED BY <3>1, <3>2
      <2>3. \A b, c \in Apps : (chan'[b] # Reserved /\ chan'[b] = chan'[c]) => b = c
            BY <1>1, <1>6 DEF HostInv
      <2> QED BY <2>1, <2>2, <2>3 DEF HostInv
<1>8. ~idle => chan[a] # cid \/ st[a] = "busy"
      BY <1>1, ChanFacts DEF AssemblerInv, HostInv, Reserved
<1>9. AssemblerInv'
      <2>1. ASSUME ~idle, NEW b \in Apps, chan[b] = cid
            PROVE  st'[b] # "ready" /\ (st'[b] = "busy" => Underway(msg[b])')
            <3>1. CASE b = a
                  BY <1>4, <1>8, <2>1, <3>1
            <3>2. CASE b # a
                  <4>1. st[b] # "ready" /\ (st[b] = "busy" => Underway(msg[b]))
                        BY <1>1, <2>1 DEF AssemblerInv
                  <4>2. Underway(msg[b])' <=> Underway(msg[b])
                        BY <1>4, <1>6, <3>2 DEF Underway
                  <4> QED BY <1>4, <3>2, <4>1, <4>2
            <3> QED BY <3>1, <3>2
      <2> QED BY <1>1, <1>6, <2>1 DEF AssemblerInv
<1>10. Made \subseteq Made'
       BY <1>1, <1>4, MadeGrows
<1>11. InboxInv'
       BY <1>1, <1>6, <1>10, KeptInbox
<1>12. ClaimInv'
       <2>1. ASSUME NEW b \in Apps, NEW i \in 1..Len(inbox[b]),
                    st'[b] \in {"opening", "syncing"}, inbox[b][i].cmd = "Init",
                    inbox[b][i].nonce = Data(msg'[b])
             PROVE  /\ Claims(b, inbox[b][i]) /\ st'[b] = st[b] /\ chan'[b] = chan[b]
                    /\ st[b] = "opening" => \A c \in Apps : chan'[c] # inbox[b][i].new
                    /\ ~idle' => cid' # inbox[b][i].new
             <3>1. PICK r \in Made : inbox[b][i].nonce = Data(r)
                   BY <1>1, <2>1 DEF InboxInv
             <3>2. b # a
                   BY <1>2, <1>4, <2>1, <3>1
             <3>3. Claims(b, inbox[b][i])
                   BY <1>4, <2>1, <3>2 DEF Claims
             <3>4. /\ st[b] = "opening" => \A c \in Apps : chan[c] # inbox[b][i].new
                   /\ ~idle => cid # inbox[b][i].new
                   BY <1>1, <3>3 DEF ClaimInv
             <3> QED BY <1>4, <1>6, <3>2, <3>3, <3>4
       <2>2. \E S : inbox \in [Apps -> Seq(S)]
             BY <1>1 DEF InboxInv
       <2> QED BY <1>1, <2>1, <2>2, KeptClaims
<1>13. RunInv'
       <2>1. ASSUME NEW b \in Apps, st'[b] = "busy", msg'[b] \in Ran
             PROVE  AllSent(b)' /\ (idle' \/ cid' # chan'[b])
             <3>1. b # a
                   BY <1>2, <1>4, <2>1
             <3>2. AllSent(b) /\ (idle \/ cid # chan[b])
                   BY <1>1, <1>4, <2>1, <3>1 DEF RunInv
             <3> QED BY <1>4, <1>6, <3>1, <3>2 DEF AllSent, Waits
       <2>2. ASSUME NEW b \in Apps, \E i \in 1..Len(inbox'[b]) : IsAnswer(inbox'[b][i])
             PROVE  /\ st'[b] \in {"busy", "syncing"}
                    /\ st'[b] = "busy" => st[b] = "busy" /\ msg'[b] = msg[b]
             <3>1. \E i \in 1..Len(inbox[b]) : IsAnswer(inbox[b][i])
                   BY <2>2, KeptAnswers
             <3>2. st[b] \in {"busy", "syncing"}
                   BY <1>1, <3>1 DEF RunInv
             <3> QED BY <1>4, <3>2
       <2> QED BY <1>1, <1>6, <1>10, <2>1, <2>2, KeptRuns
<1> QED BY <1>7, <1>9, <1>11, <1>12, <1>13 DEF IInv

LEMMA AskingKeeps ==
    ASSUME IInv, NEW a \in Apps, Open(a) \/ Ask(a) \/ Sync(a) \/ Fail(a)
    PROVE  IInv'
<1>1. InboxInv
      BY DEF IInv
<1>2. CASE Open(a)
      <2>1. Kept /\ UNCHANGED <<assembler, allocated, chan, executed>>
            BY <1>1, <1>2, KeptSame DEF Open
      <2>2. Turn(a, "opening", "Init", NonceLen) /\ st[a] = "closed"
            BY <1>2 DEF Open
      <2> QED BY <2>1, <2>2, TurnKeeps
<1>3. CASE Ask(a)
      <2>1. Kept /\ UNCHANGED <<assembler, allocated, chan, executed>>
            BY <1>1, <1>3, KeptSame DEF Ask
      <2>2. PICK k \in Shapes[a] : Turn(a, "busy", k.cmd, k.len)
            BY <1>3 DEF Ask
      <2>3. /\ k.cmd = "Init" => k.len # NonceLen
            /\ [cmd |-> k.cmd, len |-> k.len] = k
            BY LengthAssumption
      <2>4. st[a] = "ready"
            BY <1>3 DEF Ask
      <2> QED BY <2>1, <2>2, <2>3, <2>4, TurnKeeps
<1>4. CASE Sync(a)
      <2>1. Kept /\ UNCHANGED <<assembler, allocated, chan, executed>>
            BY <1>1, <1>4, KeptSame DEF Sync
      <2>2. Turn(a, "syncing", "Init", NonceLen) /\ st[a] = "busy"
            BY <1>4 DEF Sync
      <2> QED BY <2>1, <2>2, TurnKeeps
<1>5. CASE Fail(a)
      <2>1. Kept /\ UNCHANGED <<assembler, allocated, chan, executed>>
            BY <1>1, <1>5, KeptRead DEF Fail
      <2>2. Turn(a, "syncing", "Init", NonceLen) /\ st[a] = "busy"
            BY <1>5 DEF Fail
      <2> QED BY <2>1, <2>2, TurnKeeps
<1> QED BY <1>2, <1>3, <1>4, <1>5

LEMMA RetryKeeps ==
    ASSUME IInv, NEW a \in Apps, Retry(a)
    PROVE  IInv'
<1>1. /\ UNCHANGED <<assembler, allocated, st, chan, msg, count, inbox, executed>>
      /\ st[a] # "busy"
      /\ pos' = [pos EXCEPT ![a] = 0] /\ pos \in [Apps -> Nat]
      BY DEF Retry, IInv, HostInv
<1>2. Packets(a) /\ Left(a) /\ Kept
      BY <1>1, KeptSame DEF Packets, Left, IInv
<1> QED BY <1>1, <1>2, QuietPacket

LEMMA DropKeeps ==
    ASSUME IInv, NEW a \in Apps, Drop(a)
    PROVE  IInv'
<1>1. /\ UNCHANGED <<assembler, allocated, st, chan, msg, pos, count, executed>>
      /\ pos \in [Apps -> Nat]
      BY DEF Drop, apps, IInv, HostInv
<1>2. Packets(a) /\ Left(a) /\ Kept
      BY <1>1, KeptRead DEF Packets, Left, IInv, Drop
<1> QED BY <1>1, <1>2, QuietPacket

\* The channel it is told of is its own.
LEMMA ConnectKeeps ==
    ASSUME IInv, NEW a \in Apps, Connect(a)
    PROVE  IInv'
<1> DEFINE new == inbox[a][1].new
<1>1. /\ HostInv /\ AssemblerInv /\ InboxInv /\ ClaimInv /\ RunInv
      /\ allocated \in Nat
      BY ChanFacts DEF IInv
<1>2. /\ Kept
      /\ 1 \in 1..Len(inbox[a]) /\ Head(inbox[a]) = inbox[a][1]
      /\ \A b \in Apps \ {a} : inbox'[b] = inbox[b]
      /\ \A i \in 1..Len(inbox'[a]) : i + 1 \in 1..Len(inbox[a]) /\ inbox'[a][i] = inbox[a][i + 1]
      BY <1>1, KeptRead DEF Connect
<1>3. /\ UNCHANGED <<idle, stale, cid, cmd, seq, remaining, payload, allocated, pos, count, executed>>
      /\ st' = [st EXCEPT ![a] = "ready"]
      /\ chan' = [chan EXCEPT ![a] = new]
      /\ msg' = [msg EXCEPT ![a] = Nothing]
      BY <1>2 DEF Connect, assembler
<1>4. Claims(a, inbox[a][1])
      BY <1>2 DEF Connect, Initialized, Claims
<1>5. /\ new \in 1..allocated
      /\ st[a] = "syncing" => new = chan[a]
      /\ st[a] = "opening" => \A b \in Apps : chan[b] # new
      /\ \A b \in Apps \ {a} : \A j \in 1..Len(inbox[b]) : Claims(b, inbox[b][j]) => inbox[b][j].new # new
      /\ ~idle => cid # new
      /\ \A j \in 1..Len(inbox[a]) : ~IsAnswer(inbox[a][j])
      BY <1>1, <1>2, <1>4 DEF ClaimInv, InboxInv, Claims
<1> HIDE DEF new
<1>6. /\ st'[a] = "ready" /\ chan'[a] = new /\ msg'[a] = Nothing
      /\ \A b \in Apps \ {a} : st'[b] = st[b] /\ chan'[b] = chan[b] /\ msg'[b] = msg[b]
      BY <1>1, <1>3 DEF HostInv
<1>7. \A b \in Apps \ {a} : chan[b] # new
      <2>1. CASE st[a] = "opening"
            BY <1>5, <2>1
      <2>2. CASE st[a] = "syncing"
            <3>1. chan[a] # Reserved /\ new = chan[a]
                  BY <1>1, <1>5, <2>2 DEF HostInv
            <3>2. \A b \in Apps : chan[a] = chan[b] => a = b
                  BY <1>1, <3>1 DEF HostInv
            <3> QED BY <3>1, <3>2
      <2> QED BY <1>4, <2>1, <2>2 DEF Claims
<1>8. HostInv'
      <2>1. /\ st' \in [Apps -> {"closed", "opening", "ready", "busy", "syncing"}]
            /\ chan' \in [Apps -> 0..allocated']
            /\ msg' \in [Apps -> Requests \cup {Nothing}]
            /\ pos' \in [Apps -> Nat]
            /\ count' \in [Apps -> Nat]
            /\ allocated' \in Nat
            BY <1>1, <1>3, <1>5 DEF HostInv
      <2>2. ASSUME NEW b \in Apps
            PROVE  /\ Waits(b)' => msg'[b] \in Requests /\ msg'[b].app = b /\ msg'[b].n = count'[b]
                   /\ st'[b] \in {"opening", "syncing"} => msg'[b].cmd = "Init" /\ msg'[b].len = NonceLen
                   /\ (st'[b] = "busy" /\ msg'[b].cmd = "Init") => msg'[b].len # NonceLen
                   /\ st'[b] \in {"closed", "opening"} <=> chan'[b] = Reserved
            <3>1. CASE b = a
                  BY <1>1, <1>5, <1>6, <3>1 DEF Waits, Reserved
            <3>2. CASE b # a
                  <4>1. Waits(b)' = Waits(b)
                        BY <1>6, <3>2 DEF Waits
                  <4> QED BY <1>1, <1>3, <1>6, <3>2, <4>1 DEF HostInv
            <3> QED BY <3>1, <3>2
      <2>3. \A b, c \in Apps : (chan'[b] # Reserved /\ chan'[b] = chan'[c]) => b = c
            BY <1>1, <1>6, <1>7 DEF HostInv
      <2> QED BY <2>1, <2>2, <2>3 DEF HostInv
<1>9. AssemblerInv'
      <2>1. ASSUME ~idle, NEW b \in Apps, chan'[b] = cid
            PROVE  st'[b] # "ready" /\ (st'[b] = "busy" => Underway(msg[b])')
            <3>1. b # a
                  BY <1>5, <1>6, <2>1
            <3>2. st[b] # "ready" /\ (st[b] = "busy" => Underway(msg[b]))
                  BY <1>1, <1>6, <2>1, <3>1 DEF AssemblerInv
            <3>3. Underway(msg[b])' <=> Underway(msg[b])
                  BY <1>3, <1>6, <3>1 DEF Underway
            <3> QED BY <1>6, <3>1, <3>2, <3>3
      <2> QED BY <1>1, <1>3, <2>1 DEF AssemblerInv
<1>10. Made' = Made
       BY <1>3 DEF Made
<1>11. InboxInv'
       BY <1>1, <1>2, <1>3, <1>10, KeptInbox
<1>12. ClaimInv'
       <2>1. ASSUME NEW b \in Apps, NEW i \in 1..Len(inbox[b]),
                    st'[b] \in {"opening", "syncing"}, inbox[b][i].cmd = "Init",
                    inbox[b][i].nonce = Data(msg'[b])
             PROVE  /\ Claims(b, inbox[b][i]) /\ st'[b] = st[b] /\ chan'[b] = chan[b]
                    /\ st[b] = "opening" => \A c \in Apps : chan'[c] # inbox[b][i].new
                    /\ ~idle' => cid' # inbox[b][i].new
             <3>1. b # a
                   BY <1>6, <2>1
             <3>2. Claims(b, inbox[b][i])
                   BY <1>6, <2>1, <3>1 DEF Claims
             <3>3. /\ st[b] = "opening" => \A c \in Apps : chan[c] # inbox[b][i].new
                   /\ ~idle => cid # inbox[b][i].new
                   /\ inbox[b][i].new # new
                   BY <1>1, <1>5, <3>1, <3>2 DEF ClaimInv
             <3> QED BY <1>3, <1>6, <3>1, <3>2, <3>3
       <2>2. \E S : inbox \in [Apps -> Seq(S)]
             BY <1>1 DEF InboxInv
       <2> QED BY <1>1, <1>2, <2>1, <2>2, KeptClaims
<1>13. RunInv'
       <2>1. ASSUME NEW b \in Apps, st'[b] = "busy", msg'[b] \in Ran
             PROVE  AllSent(b)' /\ (idle' \/ cid' # chan'[b])
             <3>1. b # a
                   BY <1>6, <2>1
             <3>2. AllSent(b) /\ (idle \/ cid # chan[b])
                   BY <1>1, <1>6, <2>1, <3>1 DEF RunInv
             <3> QED BY <1>3, <1>6, <3>1, <3>2 DEF AllSent, Waits
       <2>2. ASSUME NEW b \in Apps, \E i \in 1..Len(inbox'[b]) : IsAnswer(inbox'[b][i])
             PROVE  /\ st'[b] \in {"busy", "syncing"}
                    /\ st'[b] = "busy" => st[b] = "busy" /\ msg'[b] = msg[b]
             <3>1. PICK i \in 1..Len(inbox[b]) : IsAnswer(inbox[b][i])
                   BY <1>2, <2>2, KeptAnswers
             <3>2. st[b] \in {"busy", "syncing"} /\ b # a
                   BY <1>1, <1>5, <3>1 DEF RunInv
             <3> QED BY <1>6, <3>2
       <2> QED BY <1>1, <1>2, <1>3, <1>10, <2>1, <2>2, KeptRuns
<1> QED BY <1>8, <1>9, <1>11, <1>12, <1>13 DEF IInv

\* What is accepted answers a request that was run.
LEMMA AcceptFacts ==
    ASSUME IInv, NEW a \in Apps, Accept(a)
    PROVE  /\ st[a] = "busy" /\ msg[a] \in Ran
           /\ 1 \in 1..Len(inbox[a]) /\ IsAnswer(inbox[a][1])
<1>1. /\ 1 \in 1..Len(inbox[a]) /\ Head(inbox[a]) = inbox[a][1]
      /\ st[a] = "busy" /\ inbox[a][1].cmd = msg[a].cmd /\ msg[a].cmd # "Init"
      BY KeptRead DEF Accept, Answered, IInv
<1>2. msg[a] \in Requests
      BY <1>1 DEF IInv, HostInv, Waits
<1>3. msg[a].cmd # "Error"
      BY <1>2, RequestFacts
<1>4. inbox[a][1].cmd \in {"Init", "Ping", "Cbor", "Error"}
      BY <1>1 DEF IInv, InboxInv
<1>5. IsAnswer(inbox[a][1])
      BY <1>1, <1>3, <1>4 DEF IsAnswer
<1>6. msg[a] \in Ran
      BY <1>1, <1>5 DEF IInv, RunInv
<1> QED BY <1>1, <1>5, <1>6

\* An application that turns away from its request: answered, or gone.
LEMMA LeaveKeeps ==
    ASSUME IInv, NEW a \in Apps, NEW to \in {"ready", "closed"},
           Kept, UNCHANGED <<assembler, allocated, pos, count, executed>>,
           st' = [st EXCEPT ![a] = to],
           \/ to = "ready" /\ chan' = chan /\ msg' = msg /\ st[a] = "busy" /\ (idle \/ cid # chan[a])
           \/ to = "closed" /\ chan' = [chan EXCEPT ![a] = Reserved] /\ msg' = [msg EXCEPT ![a] = Nothing],
           \A i \in 1..Len(inbox'[a]) : ~IsAnswer(inbox'[a][i])
    PROVE  IInv'
<1>1. /\ HostInv /\ AssemblerInv /\ InboxInv /\ ClaimInv /\ RunInv
      /\ allocated \in Nat
      BY ChanFacts DEF IInv
<1>2. UNCHANGED <<idle, stale, cid, cmd, seq, remaining, payload, allocated, pos, count, executed>>
      BY DEF assembler
<1>3. /\ st'[a] = to
      /\ \A b \in Apps \ {a} : st'[b] = st[b] /\ chan'[b] = chan[b] /\ msg'[b] = msg[b]
      /\ \A b \in Apps : chan'[b] = chan[b] \/ chan'[b] = Reserved
      /\ chan'[a] = Reserved <=> to = "closed"
      /\ to = "ready" => chan'[a] = chan[a]
      <2>1. /\ chan \in [Apps -> 0..allocated] /\ st \in [Apps -> {"closed", "opening", "ready", "busy", "syncing"}]
            /\ msg \in [Apps -> Requests \cup {Nothing}]
            /\ st[a] = "busy" => chan[a] # Reserved
            BY <1>1 DEF HostInv
      <2>2. CASE to = "ready"
            BY <2>1, <2>2
      <2>3. CASE to = "closed"
            BY <2>1, <2>3
      <2> QED BY <2>2, <2>3
<1>4. HostInv'
      <2>1. /\ st' \in [Apps -> {"closed", "opening", "ready", "busy", "syncing"}]
            /\ chan' \in [Apps -> 0..allocated']
            /\ msg' \in [Apps -> Requests \cup {Nothing}]
            /\ pos' \in [Apps -> Nat]
            /\ count' \in [Apps -> Nat]
            /\ allocated' \in Nat
            <3>1. /\ chan \in [Apps -> 0..allocated] /\ st \in [Apps -> {"closed", "opening", "ready", "busy", "syncing"}]
                  /\ msg \in [Apps -> Requests \cup {Nothing}]
                  /\ pos \in [Apps -> Nat] /\ count \in [Apps -> Nat] /\ Reserved \in 0..allocated
                  BY <1>1 DEF HostInv, Reserved
            <3>2. CASE to = "ready"
                  BY <1>1, <1>2, <3>1, <3>2
            <3>3. CASE to = "closed"
                  BY <1>1, <1>2, <3>1, <3>3
            <3> QED BY <3>2, <3>3
      <2>2. ASSUME NEW b \in Apps
            PROVE  /\ Waits(b)' => msg'[b] \in Requests /\ msg'[b].app = b /\ msg'[b].n = count'[b]
                   /\ st'[b] \in {"opening", "syncing"} => msg'[b].cmd = "Init" /\ msg'[b].len = NonceLen
                   /\ (st'[b] = "busy" /\ msg'[b].cmd = "Init") => msg'[b].len # NonceLen
                   /\ st'[b] \in {"closed", "opening"} <=> chan'[b] = Reserved
            <3>1. CASE b = a
                  BY <1>3, <3>1 DEF Waits
            <3>2. CASE b # a
                  <4>1. Waits(b)' = Waits(b)
                        BY <1>3, <3>2 DEF Waits
                  <4> QED BY <1>1, <1>2, <1>3, <3>2, <4>1 DEF HostInv
            <3> QED BY <3>1, <3>2
      <2>3. \A b, c \in Apps : (chan'[b] # Reserved /\ chan'[b] = chan'[c]) => b = c
            BY <1>1, <1>3 DEF HostInv
      <2> QED BY <2>1, <2>2, <2>3 DEF HostInv
<1>5. AssemblerInv'
      <2>1. ASSUME ~idle, NEW b \in Apps, chan'[b] = cid
            PROVE  st'[b] # "ready" /\ (st'[b] = "busy" => Underway(msg[b])')
            <3>1. cid # Reserved
                  BY <1>1, <2>1 DEF AssemblerInv, Reserved
            <3>2. b # a
                  BY <1>3, <2>1, <3>1
            <3>3. st[b] # "ready" /\ (st[b] = "busy" => Underway(msg[b]))
                  BY <1>1, <1>3, <2>1, <3>2 DEF AssemblerInv
            <3>4. Underway(msg[b])' <=> Underway(msg[b])
                  BY <1>2, <1>3, <3>2 DEF Underway
            <3> QED BY <1>3, <3>2, <3>3, <3>4
      <2> QED BY <1>1, <1>2, <2>1 DEF AssemblerInv
<1>6. Made' = Made
      BY <1>2 DEF Made
<1>7. InboxInv'
      BY <1>1, <1>2, <1>6, KeptInbox
<1>8. ClaimInv'
      <2>1. ASSUME NEW b \in Apps, NEW i \in 1..Len(inbox[b]),
                   st'[b] \in {"opening", "syncing"}, inbox[b][i].cmd = "Init",
                   inbox[b][i].nonce = Data(msg'[b])
            PROVE  /\ Claims(b, inbox[b][i]) /\ st'[b] = st[b] /\ chan'[b] = chan[b]
                   /\ st[b] = "opening" => \A c \in Apps : chan'[c] # inbox[b][i].new
                   /\ ~idle' => cid' # inbox[b][i].new
            <3>1. b # a
                  BY <1>3, <2>1
            <3>2. Claims(b, inbox[b][i])
                  BY <1>3, <2>1, <3>1 DEF Claims
            <3>3. /\ st[b] = "opening" => \A c \in Apps : chan[c] # inbox[b][i].new
                  /\ ~idle => cid # inbox[b][i].new
                  /\ inbox[b][i].new \in 1..allocated
                  BY <1>1, <2>1, <3>2 DEF ClaimInv, InboxInv
            <3>4. inbox[b][i].new # Reserved
                  BY <3>3 DEF Reserved
            <3> QED BY <1>2, <1>3, <3>1, <3>2, <3>3, <3>4
      <2>2. \E S : inbox \in [Apps -> Seq(S)]
            BY <1>1 DEF InboxInv
      <2> QED BY <1>1, <2>1, <2>2, KeptClaims
<1>9. RunInv'
      <2>1. ASSUME NEW b \in Apps, st'[b] = "busy", msg'[b] \in Ran
            PROVE  AllSent(b)' /\ (idle' \/ cid' # chan'[b])
            <3>1. b # a
                  BY <1>3, <2>1
            <3>2. AllSent(b) /\ (idle \/ cid # chan[b])
                  BY <1>1, <1>3, <2>1, <3>1 DEF RunInv
            <3> QED BY <1>2, <1>3, <3>1, <3>2 DEF AllSent, Waits
      <2>2. ASSUME NEW b \in Apps, \E i \in 1..Len(inbox'[b]) : IsAnswer(inbox'[b][i])
            PROVE  /\ st'[b] \in {"busy", "syncing"}
                   /\ st'[b] = "busy" => st[b] = "busy" /\ msg'[b] = msg[b]
            <3>1. \E i \in 1..Len(inbox[b]) : IsAnswer(inbox[b][i])
                  BY <2>2, KeptAnswers
            <3>2. st[b] \in {"busy", "syncing"} /\ b # a
                  BY <1>1, <2>2, <3>1 DEF RunInv
            <3> QED BY <1>3, <3>2
      <2> QED BY <1>1, <1>2, <1>6, <2>1, <2>2, KeptRuns
<1> QED BY <1>4, <1>5, <1>7, <1>8, <1>9 DEF IInv

LEMMA AcceptKeeps ==
    ASSUME IInv, NEW a \in Apps, Accept(a)
    PROVE  IInv'
<1>1. /\ st[a] = "busy" /\ msg[a] \in Ran
      /\ 1 \in 1..Len(inbox[a]) /\ IsAnswer(inbox[a][1])
      BY AcceptFacts
<1>2. /\ Kept
      /\ \A i \in 1..Len(inbox'[a]) : i + 1 \in 1..Len(inbox[a]) /\ inbox'[a][i] = inbox[a][i + 1]
      BY KeptRead DEF Accept, IInv
<1>3. ASSUME NEW i \in 1..Len(inbox'[a]), IsAnswer(inbox'[a][i])
      PROVE  FALSE
      <2>1. i + 1 \in 1..Len(inbox[a]) /\ IsAnswer(inbox[a][i + 1])
            BY <1>2, <1>3
      <2>2. 1 = i + 1
            BY <1>1, <2>1 DEF IInv, RunInv
      <2> QED BY <2>2
<1>4. idle \/ cid # chan[a]
      BY <1>1 DEF IInv, RunInv
<1>5. UNCHANGED <<assembler, allocated, chan, msg, pos, count, executed>> /\ st' = [st EXCEPT ![a] = "ready"]
      BY DEF Accept
<1> QED BY <1>1, <1>2, <1>3, <1>4, <1>5, LeaveKeeps

LEMMA QuitKeeps ==
    ASSUME IInv, NEW a \in Apps, Quit(a)
    PROVE  IInv'
<1>1. PICK S : inbox \in [Apps -> Seq(S)]
      BY DEF IInv, InboxInv
<1>2. /\ inbox' = [inbox EXCEPT ![a] = <<>>] /\ st' = [st EXCEPT ![a] = "closed"]
      /\ chan' = [chan EXCEPT ![a] = Reserved] /\ msg' = [msg EXCEPT ![a] = Nothing]
      /\ UNCHANGED <<assembler, allocated, pos, count, executed>>
      BY DEF Quit
<1>3. inbox' \in [Apps -> Seq(S)] /\ inbox'[a] = <<>> /\ \A b \in Apps \ {a} : inbox'[b] = inbox[b]
      <2>1. <<>> \in Seq(S)
            OBVIOUS
      <2> QED BY <1>1, <1>2, <2>1
<1>4. 1..Len(inbox'[a]) = {}
      BY <1>3
<1>5. ASSUME NEW b \in Apps
      PROVE  \E d \in Nat : \A i \in 1..Len(inbox'[b]) :
                i + d \in 1..Len(inbox[b]) /\ inbox'[b][i] = inbox[b][i + d]
      <2>1. \A i \in 1..Len(inbox'[b]) : i + 0 = i
            OBVIOUS
      <2>2. \A i \in 1..Len(inbox'[b]) : i + 0 \in 1..Len(inbox[b]) /\ inbox'[b][i] = inbox[b][i + 0]
            <3>1. CASE b = a
                  BY <1>4, <3>1
            <3>2. CASE b # a
                  BY <1>3, <2>1, <3>2
            <3> QED BY <3>1, <3>2
      <2> QED BY <2>2
<1>6. Kept
      BY <1>3, <1>5 DEF Kept
<1>7. \A i \in 1..Len(inbox'[a]) : ~IsAnswer(inbox'[a][i])
      BY <1>4
<1> QED BY <1>2, <1>6, <1>7, LeaveKeeps

-----------------------------------------------------------------------------
(* The invariant, and what follows from it.                                  *)

LEMMA InitInv ==
    ASSUME Init
    PROVE  IInv
<1>1. /\ idle = TRUE /\ stale = FALSE /\ payload = <<>> /\ allocated = 0 /\ executed = {}
      /\ st = [a \in Apps |-> "closed"] /\ chan = [a \in Apps |-> 0]
      /\ msg = [a \in Apps |-> Nothing] /\ pos = [a \in Apps |-> 0] /\ count = [a \in Apps |-> 0]
      /\ inbox = [a \in Apps |-> <<>>]
      BY DEF Init, Reserved
<1>2. HostInv
      BY <1>1 DEF HostInv, Waits, Reserved
<1>3. AssemblerInv
      BY <1>1 DEF AssemblerInv
<1>4. \A a \in Apps : 1..Len(inbox[a]) = {}
      <2>1. \A a \in Apps : inbox[a] = <<>>
            BY <1>1
      <2>2. 1..Len(<<>>) = {}
            OBVIOUS
      <2> QED BY <2>1, <2>2
<1>5. InboxInv
      <2>1. <<>> \in Seq({})
            OBVIOUS
      <2>2. inbox \in [Apps -> Seq({})]
            BY <1>1, <2>1
      <2> QED BY <1>4, <2>2 DEF InboxInv
<1>6. ClaimInv
      BY <1>4 DEF ClaimInv
<1>7. RunInv
      BY <1>1, <1>4 DEF RunInv
<1> QED BY <1>2, <1>3, <1>5, <1>6, <1>7 DEF IInv

LEMMA NextInv ==
    ASSUME IInv, [Next]_vars
    PROVE  IInv'
<1>1. CASE Tick
      BY <1>1, TickKeeps
<1>2. ASSUME NEW a \in Apps,
             \/ Send(a) \/ Lose(a) \/ SendCancel(a)
             \/ Open(a) \/ Ask(a) \/ Sync(a) \/ Retry(a)
             \/ Connect(a) \/ Accept(a) \/ Fail(a) \/ Drop(a) \/ Quit(a)
      PROVE  IInv'
      <2>1. CASE Send(a)
            BY <2>1, SendKeeps
      <2>2. CASE Lose(a)
            BY <2>2, LoseKeeps
      <2>3. CASE SendCancel(a)
            BY <2>3, CancelKeeps
      <2>4. CASE Open(a) \/ Ask(a) \/ Sync(a) \/ Fail(a)
            BY <2>4, AskingKeeps
      <2>5. CASE Retry(a)
            BY <2>5, RetryKeeps
      <2>6. CASE Connect(a)
            BY <2>6, ConnectKeeps
      <2>7. CASE Accept(a)
            BY <2>7, AcceptKeeps
      <2>8. CASE Drop(a)
            BY <2>8, DropKeeps
      <2>9. CASE Quit(a)
            BY <2>9, QuitKeeps
      <2> QED BY <1>2, <2>1, <2>2, <2>3, <2>4, <2>5, <2>6, <2>7, <2>8, <2>9
<1>3. CASE UNCHANGED vars
      <2>1. /\ HostInv /\ AssemblerInv /\ InboxInv /\ ClaimInv /\ RunInv
            /\ UNCHANGED <<idle, stale, cid, cmd, seq, remaining, payload, allocated, st, chan, msg, pos,
                           count, inbox, executed>>
            BY <1>3 DEF vars, assembler, apps, IInv
      <2>2. HostInv'
            BY <2>1 DEF HostInv, Waits
      <2>3. AssemblerInv'
            BY <2>1 DEF AssemblerInv, Underway
      <2>4. InboxInv'
            BY <2>1 DEF InboxInv, Made
      <2>5. ClaimInv'
            BY <2>1 DEF ClaimInv, Claims
      <2>6. RunInv'
            BY <2>1 DEF RunInv, Made, Ran, AllSent, Waits
      <2> QED BY <2>2, <2>3, <2>4, <2>5, <2>6 DEF IInv
<1> QED BY <1>1, <1>2, <1>3 DEF Next

LEMMA Invariant == Spec => []IInv
<1>1. Init => IInv
      BY InitInv
<1>2. IInv /\ [Next]_vars => IInv'
      BY NextInv
<1> QED BY <1>1, <1>2, PTL DEF Spec

\* No two applications are ever on one channel, whatever CTAPHID_INITs and replies
\* cross (CtapHid::preprocess_message, and the nonces of its replies).
THEOREM ChannelsAreDistinct == Spec => []ChannelsDistinct
<1>1. IInv => ChannelsDistinct
      <2> SUFFICES ASSUME IInv, NEW a \in Apps, NEW b \in Apps, chan[a] # Reserved
                   PROVE  chan[a] \in 1..allocated /\ (chan[a] = chan[b] => a = b)
          BY DEF ChannelsDistinct
      <2>1. chan[a] \in 0..allocated /\ allocated \in Nat
            BY ChanFacts DEF IInv
      <2>2. chan[a] \in 1..allocated
            BY <2>1 DEF Reserved
      <2> QED BY <2>2 DEF IInv, HostInv
<1> QED BY <1>1, Invariant, PTL

\* Every message that is run is one request of one application, whole and in order
\* (MessageAssembler::parse_packet): nothing is cut off, added or mixed in, however
\* packets interleave, are lost or come too late.
THEOREM MessagesAreWhole == Spec => []WholeMessages
<1>1. IInv => WholeMessages
      BY DEF IInv, RunInv, WholeMessages, Made
<1> QED BY <1>1, Invariant, PTL

-----------------------------------------------------------------------------
(* The rest of the state.                                                    *)

\* The parts of the state that the invariant says nothing of. What is under way is
\* the beginning of one request, also when its application is gone.
RestInv ==
    /\ cid \in Channels \cup {Reserved, Broadcast}
    /\ cmd \in Cmds \cup {"none"}
    /\ seq \in Nat /\ remaining \in Nat
    /\ allocated <= MaxCids
    /\ \A a \in Apps : count[a] <= MaxRequests[a]
    /\ ~idle => \E m \in Requests : Underway(m)

\* A packet that any application may send.
IsPacket(p) == /\ p.cid \in Channels \cup {Reserved, Broadcast}
               /\ Len(p.data) \in Nat
               /\ p.kind = "init" => p.cmd \in Cmds /\ p.len \in Nat

\* What the assembler keeps of a packet has its type.
LEMMA PacketKinds ==
    ASSUME RestInv, NEW p, IsPacket(p), ProcessHidPacket(p)
    PROVE  /\ cid' \in Channels \cup {Reserved, Broadcast}
           /\ cmd' \in Cmds \cup {"none"}
           /\ seq' \in Nat /\ remaining' \in Nat
<1> DEFINE Typed == /\ cid' \in Channels \cup {Reserved, Broadcast}
                    /\ cmd' \in Cmds \cup {"none"}
                    /\ seq' \in Nat /\ remaining' \in Nat
<1>1. CASE UNCHANGED assembler
      BY <1>1 DEF RestInv, assembler
<1>2. CASE Reset
      BY <1>2 DEF Reset
<1>3. ASSUME NEW buffer, NEW left \in Nat, NEW data, Len(data) \in Nat, NEW c, NEW k,
             AppendPayload(buffer, left, data, c, k)
      PROVE  remaining' \in Nat
      BY <1>3 DEF AppendPayload
<1>4. CASE ParseInitPacket(p) /\ p.kind = "init"
      <2>1. p.len \in Nat /\ p.cmd \in Cmds /\ MaxMsgSize \in Nat /\ Len(p.data) \in Nat
            BY <1>4, PacketAssumption DEF IsPacket
      <2>2. CASE p.len > MaxMsgSize
            <3>1. UNCHANGED assembler \/ Reset
                  BY <1>4, <2>1, <2>2 DEF ParseInitPacket
            <3> QED BY <1>1, <1>2, <3>1
      <2>3. CASE p.len <= MaxMsgSize
            <3>1. /\ cid' = p.cid /\ cmd' = p.cmd /\ seq' = 0
                  /\ AppendPayload(IF idle THEN payload ELSE <<>>, p.len, p.data, p.cid, p.cmd)
                  BY <1>4, <2>1, <2>3 DEF ParseInitPacket
            <3>2. remaining' \in Nat
                  BY <1>3, <2>1, <3>1
            <3> QED BY <2>1, <3>1, <3>2 DEF IsPacket
      <2> QED BY <2>1, <2>2, <2>3
<1>5. CASE LateContinuation(p) \/ StrayContinuation(p) \/ OtherChannel(p)
      <2>1. UNCHANGED assembler \/ Reset
            BY <1>5 DEF LateContinuation, StrayContinuation, OtherChannel
      <2> QED BY <1>1, <1>2, <2>1
<1>6. CASE StartMessage(p)
      BY <1>4, <1>6 DEF StartMessage
<1>7. CASE Restart(p)
      <2>1. (ParseInitPacket(p) /\ p.kind = "init") \/ Reset
            BY <1>7 DEF Restart
      <2> QED BY <1>2, <1>4, <2>1
<1>8. CASE Continue(p)
      <2>1. CASE p.seq = seq
            <3>1. /\ seq' = seq + 1 /\ UNCHANGED <<cid, cmd>>
                  /\ AppendPayload(payload, remaining, p.data, cid, cmd)
                  BY <1>8, <2>1 DEF Continue
            <3>2. remaining' \in Nat
                  BY <1>3, <3>1 DEF RestInv, IsPacket
            <3> QED BY <3>1, <3>2 DEF RestInv
      <2>2. CASE p.seq # seq
            BY <1>2, <1>8, <2>2 DEF Continue
      <2> QED BY <2>1, <2>2
<1> QED BY <1>5, <1>6, <1>7, <1>8 DEF ProcessHidPacket

LEMMA StillUnderway ==
    ASSUME RestInv, UNCHANGED assembler
    PROVE  ~idle' => \E m \in Requests : Underway(m)'
<1>1. \A m \in Requests : Underway(m)' <=> Underway(m)
      BY DEF assembler, Underway
<1>2. idle' = idle
      BY DEF assembler
<1> QED BY <1>1, <1>2 DEF RestInv

\* Only a CTAPHID_INIT on the broadcast channel takes a channel, of which there is one left.
LEMMA SendRest ==
    ASSUME IInv, RestInv, NEW a \in Apps, Send(a)
    PROVE  RestInv'
<1>1. ToSend(a) /\ ProcessHidPacket(Packet(a)) /\ UNCHANGED <<st, chan, msg, count>> /\ RoomFor(a)
      BY DEF Send
<1>2. Left(a) /\ Brought(a)
      BY <1>1, DeviceStep
<1>3. allocated \in Nat /\ MaxCids \in Nat /\ chan[a] \in 0..allocated /\ allocated <= MaxCids
      BY ChanFacts, BoundAssumption DEF IInv, RestInv
<1>4. Channel(a) \in Channels \cup {Reserved, Broadcast} /\ (Channel(a) = Broadcast => st[a] = "opening")
      BY <1>3 DEF Channel, Channels, Reserved, Broadcast
<1>5. IsPacket(Packet(a))
      <2>1. /\ msg[a] \in Requests /\ pos[a] \in Nat /\ Packet(a).cid = Channel(a)
            /\ Packet(a).data = Chunk(Data(msg[a]), Offset(pos[a]), Size(pos[a]))
            /\ Packet(a).kind = "init" => Packet(a).cmd = msg[a].cmd /\ Packet(a).len = msg[a].len
            BY <1>1, PacketFacts
      <2>2. Offset(pos[a]) \in Nat /\ Size(pos[a]) \in Nat
            BY <2>1, OffsetFacts
      <2>3. Len(Packet(a).data) \in Nat
            BY <2>1, <2>2, ChunkFacts
      <2>4. msg[a].cmd \in Cmds /\ msg[a].len \in Nat
            BY <2>1, RequestFacts DEF Cmds
      <2> QED BY <1>4, <2>1, <2>3, <2>4 DEF IsPacket
<1>6. /\ cid' \in Channels \cup {Reserved, Broadcast}
      /\ cmd' \in Cmds \cup {"none"}
      /\ seq' \in Nat /\ remaining' \in Nat
      BY <1>1, <1>5, PacketKinds
<1>7. allocated' <= MaxCids
      <2>1. CASE Silent \/ Refused(Channel(a))
            BY <1>3, <2>1 DEF Silent, Refused, Refuse
      <2>2. CASE PreprocessMessage(Assembled(a))
            <3>1. allocated' = allocated \/ (Assembled(a).cid = Broadcast /\ allocated' = allocated + 1)
                  BY <2>2 DEF PreprocessMessage, Initialize, Execute, Discard
            <3>2. Assembled(a).cid = Broadcast => allocated < MaxCids
                  BY <1>1, <1>4 DEF Assembled, RoomFor
            <3> QED BY <1>3, <3>1, <3>2
      <2> QED BY <1>2, <2>1, <2>2 DEF Brought
<1>8. ~idle' => \E m \in Requests : Underway(m)'
      <2>1. CASE UNCHANGED assembler
            BY <2>1, StillUnderway
      <2>2. CASE st[a] = "busy" /\ Underway(msg[a])'
            <3>1. msg[a] \in Requests
                  BY <1>1, PacketFacts
            <3>2. PICK m \in Requests : m = msg[a]
                  BY <3>1
            <3>3. Underway(m)'
                  BY <1>1, <2>2, <3>2 DEF Underway
            <3> QED BY <3>3
      <2> QED BY <1>2, <2>1, <2>2 DEF Left
<1> QED BY <1>1, <1>6, <1>7, <1>8 DEF RestInv

\* What does not go by way of the device but for a CTAPHID_CANCEL.
LEMMA CancelRest ==
    ASSUME IInv, RestInv, NEW a \in Apps, SendCancel(a)
    PROVE  RestInv'
<1> DEFINE p == [cid |-> chan[a], kind |-> "init", cmd |-> "Cancel", len |-> 0,
                 data |-> [i \in 1..InitData |-> Pad]]
<1>1. ProcessHidPacket(p) /\ UNCHANGED count
      BY DEF SendCancel, apps
<1>2. allocated \in Nat /\ MaxCids \in Nat /\ chan[a] \in 0..allocated /\ allocated <= MaxCids
      BY ChanFacts, BoundAssumption DEF IInv, RestInv
<1>3. IsPacket(p)
      BY <1>2, PacketAssumption DEF IsPacket, Channels, Reserved, Cmds
<1> HIDE DEF p
<1>4. /\ cid' \in Channels \cup {Reserved, Broadcast}
      /\ cmd' \in Cmds \cup {"none"}
      /\ seq' \in Nat /\ remaining' \in Nat
      BY <1>1, <1>3, PacketKinds
<1>5. /\ UNCHANGED assembler \/ idle' = TRUE
      /\ allocated' = allocated
      BY CancelStep DEF Silent, Refused, Refuse
<1>6. ~idle' => \E m \in Requests : Underway(m)'
      <2>1. CASE UNCHANGED assembler
            BY <2>1, StillUnderway
      <2> QED BY <1>5, <2>1
<1> QED BY <1>1, <1>2, <1>4, <1>5, <1>6 DEF RestInv

LEMMA NextRest ==
    ASSUME IInv, RestInv, [Next]_vars
    PROVE  RestInv'
<1>1. ASSUME UNCHANGED <<idle, cid, cmd, seq, remaining, payload, allocated>>,
             \A a \in Apps : count'[a] <= MaxRequests[a]
      PROVE  RestInv'
      <2>1. \A m \in Requests : Underway(m)' <=> Underway(m)
            BY <1>1 DEF Underway
      <2> QED BY <1>1, <2>1 DEF RestInv
<1>2. CASE Tick \/ UNCHANGED vars
      BY <1>1, <1>2 DEF Tick, vars, apps, assembler, RestInv
<1>3. ASSUME NEW a \in Apps, Lose(a) \/ Retry(a) \/ Connect(a) \/ Accept(a) \/ Drop(a) \/ Quit(a)
      PROVE  RestInv'
      BY <1>1, <1>3 DEF Lose, Retry, Connect, Accept, Drop, Quit, apps, assembler, RestInv
<1>4. ASSUME NEW a \in Apps, Open(a) \/ Ask(a) \/ Sync(a) \/ Fail(a)
      PROVE  RestInv'
      <2>1. count \in [Apps -> Nat] /\ MaxRequests[a] \in Nat
            BY BoundAssumption DEF IInv, HostInv
      <2>2. /\ count[a] < MaxRequests[a] /\ count' = [count EXCEPT ![a] = @ + 1]
            /\ UNCHANGED <<assembler, allocated>>
            BY <1>4 DEF Open, Ask, Sync, Fail, Turn
      <2>3. \A b \in Apps : count'[b] <= MaxRequests[b]
            BY <2>1, <2>2 DEF RestInv
      <2> QED BY <1>1, <2>2, <2>3 DEF assembler
<1> QED BY <1>2, <1>3, <1>4, SendRest, CancelRest DEF Next

LEMMA Rest == Spec => [](IInv /\ RestInv)
<1>1. Init => RestInv
      BY BoundAssumption DEF Init, RestInv
<1>2. IInv /\ RestInv /\ [Next]_vars => RestInv'
      BY NextRest
<1> QED BY <1>1, <1>2, Invariant, PTL DEF Spec

\* What the assembler holds is always the beginning of one request, as long as its
\* packets so far, with the rest of its length to come: also when its application
\* has ended, lost packets or turned to another (MessageAssembler::parse_packet).
THEOREM OneRequestUnderWay == Spec => [](~idle => \E m \in Requests : Underway(m))
<1>1. IInv /\ RestInv => (~idle => \E m \in Requests : Underway(m))
      BY DEF RestInv
<1> QED BY <1>1, Rest, PTL

\* Every variable keeps its type: the payload in the assembler is made of bytes of
\* requests and is no longer than a message may be (MessageAssembler::append_payload),
\* and the channels that are given out stay within their bound.
THEOREM TypeCorrect == Spec => []TypeOK
<1>1. IInv /\ RestInv => TypeOK
      <2> SUFFICES ASSUME IInv, RestInv PROVE TypeOK
          OBVIOUS
      <2>1. /\ idle \in BOOLEAN /\ stale \in BOOLEAN /\ allocated \in 0..MaxCids
            /\ cid \in Channels \cup {Reserved, Broadcast}
            /\ cmd \in Cmds \cup {"none"} /\ seq \in Nat /\ remaining \in Nat
            /\ st \in [Apps -> {"closed", "opening", "ready", "busy", "syncing"}]
            /\ msg \in [Apps -> Requests \cup {Nothing}] /\ pos \in [Apps -> Nat]
            BY BoundAssumption DEF IInv, HostInv, AssemblerInv, RestInv
      <2>2. chan \in [Apps -> Channels \cup {Reserved}]
            <3>1. 0..allocated \subseteq Channels \cup {Reserved}
                  BY <2>1, BoundAssumption DEF Channels, Reserved
            <3> QED BY <3>1 DEF IInv, HostInv
      <2>3. ASSUME NEW a \in Apps PROVE count[a] \in 0..MaxRequests[a]
            <3>1. count[a] \in Nat /\ MaxRequests[a] \in Nat
                  BY BoundAssumption DEF IInv, HostInv
            <3>2. count[a] <= MaxRequests[a]
                  BY DEF RestInv
            <3> QED BY <3>1, <3>2
      <2>4. payload \in Seq(Requests \X (1..MaxMsgSize))
            <3>1. CASE idle
                  BY <3>1 DEF IInv, AssemblerInv
            <3>2. CASE ~idle
                  <4>1. PICK m \in Requests : Underway(m)
                        BY <3>2 DEF RestInv
                  <4> DEFINE k == Offset(seq + 1)
                  <4>2. /\ k \in Nat /\ m.len \in Nat /\ k < m.len /\ m.len <= MaxMsgSize
                        /\ MaxMsgSize \in Nat /\ payload = Prefix(m, k)
                        BY <4>1, RequestFacts, OffsetFacts, PacketAssumption DEF Underway
                  <4> HIDE DEF k
                  <4>3. \A i \in 1..k : i \in 1..MaxMsgSize
                        BY <4>2
                  <4>4. \A i \in 1..k : <<m, i>> \in Requests \X (1..MaxMsgSize)
                        BY <4>3
                  <4> QED BY <4>2, <4>4 DEF Prefix
            <3> QED BY <3>1, <3>2
      <2> QED BY <2>1, <2>2, <2>3, <2>4 DEF TypeOK
<1> QED BY <1>1, Rest, PTL

-----------------------------------------------------------------------------
(* Answers.                                                                  *)

\* What is cut into packets is joined again, for any sizes.
LEMMA SplitJoins ==
    ASSUME NEW S, NEW s \in Seq(S)
    PROVE  Joined(Split(s), Len(s)) = [i \in 1..Len(s) |-> s[i]]
<1> DEFINE C == ContData
           D == InitData
           n == Len(s)
<1>1. C \in Nat \ {0} /\ D \in Nat \ {0} /\ n \in Nat
      BY PacketAssumption
<1> HIDE DEF C, D, n
<1>2. Split(s) = [k \in Frames(n) |-> Chunk(s, Offset(k), Size(k))]
      BY DEF Split, n
<1>3. ASSUME NEW k \in Frames(n), NEW i \in 1..Size(k), Offset(k) + i <= n
      PROVE  Split(s)[k][i] = s[Offset(k) + i]
      BY <1>2, <1>3 DEF Chunk, n
<1>4. ASSUME NEW i \in 1..n, i <= D
      PROVE  Split(s)[0][i] = s[i]
      <2>1. 0 \in Frames(n) /\ Size(0) = D /\ Offset(0) = 0
            BY <1>1 DEF Frames, Size, Offset, D
      <2>2. i \in 1..Size(0) /\ Offset(0) + i <= n /\ Offset(0) + i = i
            BY <1>1, <1>4, <2>1
      <2> QED BY <1>3, <2>1, <2>2
<1>5. ASSUME NEW i \in 1..n, ~(i <= D)
      PROVE  Split(s)[1 + ((i - D - 1) \div C)][1 + ((i - D - 1) % C)] = s[i]
      <2> DEFINE j == i - D - 1
                 q == j \div C
                 r == j % C
                 k == 1 + q
      <2>1. j \in Nat /\ j = i - D - 1
            BY <1>1, <1>5
      <2> HIDE DEF j
      <2>2. q \in Nat /\ r \in 0..(C - 1) /\ j = C * q + r
            BY <1>1, <2>1
      <2> HIDE DEF q, r
      <2>3. q <= C * q /\ q * C = C * q /\ C * q \in Nat
            BY <1>1, <2>2
      <2>4. Offset(k) = D + C * q
            <3>1. k # 0 /\ k - 1 = q
                  BY <2>2
            <3> QED BY <2>3, <3>1 DEF Offset, C, D
      <2>5. Offset(k) + (1 + r) = i /\ Offset(k) < n /\ k \in 0..n
            BY <1>1, <2>1, <2>2, <2>3, <2>4
      <2>6. k \in Frames(n)
            BY <2>5 DEF Frames
      <2>7. Size(k) = C
            BY <2>2 DEF Size, C
      <2>8. 1 + r \in 1..Size(k) /\ Offset(k) + (1 + r) <= n
            BY <1>1, <2>2, <2>5, <2>7
      <2>9. Split(s)[k][1 + r] = s[i]
            BY <1>3, <2>5, <2>6, <2>8
      <2> QED BY <2>9 DEF j, q, r
<1> QED BY <1>4, <1>5 DEF Joined, C, D, n

\* An answer carries its own bytes, or a status byte of its request.
LEMMA AnswerIsOwn ==
    ASSUME NEW m \in Requests, m.cmd \in {"Ping", "Cbor"}, m.len <= MaxMsgSize,
           NEW n \in Nat, m.cmd = "Ping" => n = m.len
    PROVE  LET r == SplitMessage([cmd |-> m.cmd, payload |-> IF m.cmd = "Ping" THEN Data(m)
                                                             ELSE [i \in 1..n |-> <<m, i>>]])
           IN /\ r.cmd = m.cmd
              /\ \/ Joined(r.frames, r.len) = [j \in 1..r.len |-> <<m, j>>]
                 \/ Joined(r.frames, r.len) = <<<<m, 0>>>>
<1> DEFINE p == IF m.cmd = "Ping" THEN Data(m) ELSE [i \in 1..n |-> <<m, i>>]
           r == SplitMessage([cmd |-> m.cmd, payload |-> p])
<1>1. m.len \in Nat \ {0} /\ MaxMsgSize \in Nat /\ NonceLen <= MaxMsgSize /\ NonceLen \in Nat \ {0}
      BY RequestFacts, PacketAssumption
<1>2. p \in Seq(Bytes) /\ Len(p) = n /\ \A i \in 1..n : p[i] = <<m, i>>
      <2>1. p = Prefix(m, n)
            BY <1>1, DataFacts DEF Prefix
      <2> HIDE DEF p
      <2> QED BY <1>1, <2>1, PrefixFacts
<1> HIDE DEF p
<1>3. CASE n <= MaxMsgSize
      <2>1. r.cmd = m.cmd /\ r.len = n /\ r.frames = Split(p)
            BY <1>2, <1>3 DEF SplitMessage
      <2>2. Joined(Split(p), n) = [i \in 1..n |-> p[i]]
            BY <1>2, SplitJoins
      <2> HIDE DEF r
      <2>3. Joined(r.frames, r.len) = [i \in 1..r.len |-> <<m, i>>]
            BY <1>2, <2>1, <2>2
      <2> QED BY <2>1, <2>3 DEF r, p
<1>4. CASE ~(n <= MaxMsgSize)
      <2> DEFINE s == <<<<m, 0>>>>
      <2>1. m.cmd = "Cbor"
            BY <1>1, <1>4
      <2>2. p[1][1] = m
            <3>1. 1 \in 1..n
                  BY <1>1, <1>4
            <3> QED BY <1>2, <3>1
      <2>3. s \in Seq(Bytes) /\ Len(s) = 1 /\ s[1] = <<m, 0>>
            BY DEF Bytes
      <2>4. r.cmd = "Cbor" /\ r.len = 1 /\ r.frames = Split(s)
            BY <1>2, <1>4, <2>2, <2>3 DEF SplitMessage
      <2>5. s = [i \in 1..1 |-> s[i]]
            BY <2>3
      <2> HIDE DEF r, s
      <2>6. Joined(Split(s), 1) = [i \in 1..1 |-> s[i]]
            BY <2>3, SplitJoins
      <2>7. Joined(r.frames, r.len) = s
            BY <2>4, <2>5, <2>6
      <2> QED BY <2>1, <2>4, <2>7 DEF r, p, s
<1> QED BY <1>1, <1>3, <1>4

\* The answer to a request carries its bytes, or a status byte of its own.
Own(a, r) == /\ r.cmd = msg[a].cmd
             /\ \/ Joined(r.frames, r.len) = [j \in 1..r.len |-> <<msg[a], j>>]
                \/ Joined(r.frames, r.len) = <<<<msg[a], 0>>>>

OwnAnswers == \A a \in Apps : st[a] = "busy" =>
                  \A i \in 1..Len(inbox[a]) : IsAnswer(inbox[a][i]) => Own(a, inbox[a][i])

\* What a run posts.
LEMMA ExecutePosts ==
    ASSUME IInv, NEW a \in Apps, ToSend(a), Execute(Assembled(a)), st[a] = "busy",
           msg[a].len <= MaxMsgSize
    PROVE  \E r : Own(a, r) /\ Added(chan[a], r)
<1> DEFINE m == msg[a]
           q(n) == [cmd |-> m.cmd, payload |-> IF m.cmd = "Ping" THEN Data(m)
                                              ELSE [i \in 1..n |-> <<m, i>>]]
<1>1. m \in Requests /\ InboxInv
      BY ExecuteFacts DEF IInv
<1>2. m.len \in Nat /\ Len(Data(m)) = m.len /\ Data(m)[1] = <<m, 1>>
      BY <1>1, DataFacts, RequestFacts
<1>3. Assembled(a).cid = chan[a] /\ Assembled(a).cmd = m.cmd /\ Assembled(a).payload = Data(m)
      BY DEF Assembled, Channel
<1>4. m.cmd \in {"Ping", "Cbor"}
      BY <1>3 DEF Execute
<1>5. PICK n \in IF m.cmd = "Ping" THEN {m.len} ELSE ReplyLens : Post(chan[a], SplitMessage(q(n)))
      <2>1. Data(m)[1][1] = m
            BY <1>2
      <2> QED BY <1>2, <1>3, <2>1 DEF Execute
<1>6. n \in Nat /\ (m.cmd = "Ping" => n = m.len)
      BY <1>2, <1>5, LengthAssumption
<1>7. Own(a, SplitMessage(q(n)))
      <2> HIDE DEF m
      <2> QED BY <1>1, <1>4, <1>6, AnswerIsOwn DEF Own, m
<1>8. Added(chan[a], SplitMessage(q(n)))
      BY <1>1, <1>5, Posted
<1> QED BY <1>7, <1>8

LEMMA OwnKept ==
    ASSUME OwnAnswers, Kept,
           \A a \in Apps : st'[a] = "busy" /\ (\E i \in 1..Len(inbox'[a]) : IsAnswer(inbox'[a][i]))
               => st[a] = "busy" /\ msg'[a] = msg[a]
    PROVE  OwnAnswers'
<1> SUFFICES ASSUME NEW a \in Apps, st'[a] = "busy", NEW i \in 1..Len(inbox'[a]), IsAnswer(inbox'[a][i])
             PROVE  Own(a, inbox[a][i])'
    BY DEF OwnAnswers
<1>1. st[a] = "busy" /\ msg'[a] = msg[a]
      OBVIOUS
<1>2. PICK d \in Nat : \/ i + d \in 1..Len(inbox[a]) /\ inbox'[a][i] = inbox[a][i + d]
                       \/ inbox'[a][i].cmd = "Error"
      BY DEF Kept
<1>3. inbox'[a][i].cmd # "Error"
      BY DEF IsAnswer
<1>4. Own(a, inbox[a][i + d]) /\ inbox'[a][i] = inbox[a][i + d]
      BY <1>1, <1>2, <1>3 DEF OwnAnswers
<1> QED BY <1>1, <1>4 DEF Own

LEMMA SendOwns ==
    ASSUME IInv, OwnAnswers, NEW a \in Apps, Send(a)
    PROVE  OwnAnswers'
<1>1. ToSend(a) /\ ProcessHidPacket(Packet(a)) /\ UNCHANGED <<st, chan, msg, count>>
      BY DEF Send
<1>2. Brought(a) /\ InboxInv /\ HostInv
      BY <1>1, DeviceStep DEF IInv
<1>3. CASE Kept
      BY <1>1, <1>3, OwnKept
<1>4. CASE Initialize(Assembled(a))
      <2>1. PICK c, r : r.cmd = "Init" /\ Post(c, r)
            BY <1>4 DEF Initialize
      <2>2. Added(c, r)
            BY <1>2, <2>1, Posted
      <2>3. \A b \in Apps : \A i \in 1..Len(inbox'[b]) : IsAnswer(inbox'[b][i]) =>
                i \in 1..Len(inbox[b]) /\ inbox'[b][i] = inbox[b][i]
            BY <2>1, <2>2 DEF Added, IsAnswer
      <2> QED BY <1>1, <2>3 DEF OwnAnswers, Own
<1>5. CASE Execute(Assembled(a)) /\ st[a] = "busy" /\ msg[a].len <= MaxMsgSize
      <2>1. PICK r : Own(a, r) /\ Added(chan[a], r)
            BY <1>1, <1>5, ExecutePosts
      <2>2. \A b \in Apps : Listens(b, chan[a]) => b = a
            <3>1. chan[a] # Broadcast /\ chan[a] # Reserved
                  BY <1>5, ChanFacts DEF IInv, Broadcast, Reserved
            <3> QED BY <1>2, <3>1 DEF HostInv, Listens
      <2>3. ASSUME NEW b \in Apps, st[b] = "busy", NEW i \in 1..Len(inbox'[b]), IsAnswer(inbox'[b][i])
            PROVE  Own(b, inbox'[b][i])
            <3>1. CASE i \in 1..Len(inbox[b]) /\ inbox'[b][i] = inbox[b][i]
                  BY <2>3, <3>1 DEF OwnAnswers
            <3>2. CASE b = a /\ inbox'[b][i] = r
                  BY <2>1, <3>2
            <3> QED BY <2>1, <2>2, <3>1, <3>2 DEF Added
      <2> QED BY <1>1, <2>3 DEF OwnAnswers, Own
<1>6. \/ Kept
      \/ Initialize(Assembled(a))
      \/ Execute(Assembled(a)) /\ st[a] = "busy" /\ msg[a].len <= MaxMsgSize
      <2>1. CASE Silent
            BY <1>2, <2>1, KeptSame DEF Silent
      <2>2. CASE Refused(Channel(a))
            BY <1>2, <2>2, AddedError DEF Refused, Refuse
      <2>3. CASE msg[a].len <= MaxMsgSize /\ PreprocessMessage(Assembled(a))
            BY <1>1, <2>3, WholeStep
      <2> QED BY <1>2, <2>1, <2>2, <2>3 DEF Brought
<1> QED BY <1>3, <1>4, <1>5, <1>6

LEMMA OwnStep ==
    ASSUME IInv, OwnAnswers, [Next]_vars
    PROVE  OwnAnswers'
<1>1. /\ InboxInv /\ RunInv /\ HostInv
      /\ st \in [Apps -> {"closed", "opening", "ready", "busy", "syncing"}]
      /\ msg \in [Apps -> Requests \cup {Nothing}]
      BY DEF IInv, HostInv
<1>2. CASE Tick \/ UNCHANGED vars
      <2>1. UNCHANGED <<st, msg, inbox>>
            BY <1>2 DEF Tick, vars, apps
      <2> QED BY <2>1 DEF OwnAnswers, Own
<1>3. ASSUME NEW a \in Apps, Send(a)
      PROVE  OwnAnswers'
      BY <1>3, SendOwns
<1>4. ASSUME NEW a \in Apps, Lose(a) \/ SendCancel(a) \/ Retry(a) \/ Drop(a)
      PROVE  OwnAnswers'
      <2>1. UNCHANGED <<st, msg>>
            BY <1>4 DEF Lose, SendCancel, Retry, Drop, apps
      <2>2. Kept
            <3>1. CASE SendCancel(a)
                  BY <1>1, <3>1, CancelStep, KeptSame, AddedError DEF Silent, Refused, Refuse
            <3>2. CASE Drop(a)
                  BY <1>1, <3>2, KeptRead DEF Drop
            <3>3. CASE Lose(a) \/ Retry(a)
                  BY <1>1, <3>3, KeptSame DEF Lose, Retry
            <3> QED BY <1>4, <3>1, <3>2, <3>3
      <2> QED BY <2>1, <2>2, OwnKept
<1>5. ASSUME NEW a \in Apps, Open(a) \/ Ask(a) \/ Sync(a) \/ Connect(a) \/ Accept(a) \/ Fail(a)
      PROVE  OwnAnswers'
      <2>1. Kept
            <3>1. CASE Open(a) \/ Ask(a) \/ Sync(a)
                  BY <1>1, <3>1, KeptSame DEF Open, Ask, Sync
            <3>2. CASE Connect(a) \/ Accept(a) \/ Fail(a)
                  BY <1>1, <3>2, KeptRead DEF Connect, Accept, Fail
            <3> QED BY <1>5, <3>1, <3>2
      <2>2. /\ \A b \in Apps \ {a} : st'[b] = st[b] /\ msg'[b] = msg[b]
            /\ st'[a] = "busy" => st[a] = "ready"
            BY <1>1, <1>5 DEF Open, Ask, Sync, Connect, Accept, Fail, Turn
      <2>3. ASSUME NEW b \in Apps, st'[b] = "busy", NEW i \in 1..Len(inbox'[b]), IsAnswer(inbox'[b][i])
            PROVE  st[b] = "busy" /\ msg'[b] = msg[b]
            <3>1. PICK k \in 1..Len(inbox[b]) : IsAnswer(inbox[b][k])
                  BY <2>1, <2>3, KeptAnswers
            <3>2. st[b] \in {"busy", "syncing"}
                  BY <1>1, <3>1 DEF RunInv
            <3> QED BY <2>2, <2>3, <3>2
      <2> QED BY <2>1, <2>3, OwnKept
<1>6. ASSUME NEW a \in Apps, Quit(a)
      PROVE  OwnAnswers'
      <2>1. \E S : inbox \in [Apps -> Seq(S)]
            BY <1>1 DEF InboxInv
      <2>2. \A b \in Apps \ {a} : st'[b] = st[b] /\ msg'[b] = msg[b] /\ inbox'[b] = inbox[b]
            BY <1>1, <1>6, <2>1 DEF Quit
      <2>3. st'[a] # "busy"
            BY <1>1, <1>6 DEF Quit
      <2> QED BY <2>2, <2>3 DEF OwnAnswers, Own
<1> QED BY <1>2, <1>3, <1>4, <1>5, <1>6 DEF Next

\* While an application waits, every answer it may read is to the request it waits for,
\* byte by byte, however it was cut into packets: none is to one it gave up
\* (CtapHid::split_message, HidPacketIterator).
THEOREM AnswersAreOwn == Spec => []AnswersOwn
<1>1. Init => OwnAnswers
      <2> SUFFICES ASSUME Init PROVE OwnAnswers
          OBVIOUS
      <2>1. \A a \in Apps : st[a] = "closed"
            BY DEF Init
      <2> QED BY <2>1 DEF OwnAnswers
<1>2. IInv /\ IInv' /\ OwnAnswers /\ [Next]_vars => OwnAnswers'
      BY OwnStep
<1>3. OwnAnswers => AnswersOwn
      BY DEF OwnAnswers, AnswersOwn, Own, IsAnswer
<1> QED BY <1>1, <1>2, <1>3, Invariant, PTL DEF Spec

-----------------------------------------------------------------------------
(* The promise to an application.                                            *)

InHand == [a \in Apps |-> IF st[a] = "busy" THEN msg[a] ELSE Nothing]
Told   == [a \in Apps |-> IF st[a] = "ready" THEN msg[a] ELSE Nothing]

LEMMA MapsTo ==
    ASSUME NEW a \in Apps
    PROVE  /\ Transport!Ask(a) <=> \E r \in Requests \ Ran : /\ InHand[a] = Nothing
                                                             /\ InHand' = [InHand EXCEPT ![a] = r]
                                                             /\ Told' = [Told EXCEPT ![a] = Nothing]
                                                             /\ UNCHANGED Ran
           /\ Transport!Run(a) <=> /\ InHand[a] # Nothing
                                   /\ InHand[a] \notin Ran
                                   /\ Ran' = Ran \cup {InHand[a]}
                                   /\ UNCHANGED <<InHand, Told>>
           /\ Transport!Succeed(a) <=> /\ InHand[a] \in Ran
                                       /\ Told' = [Told EXCEPT ![a] = InHand[a]]
                                       /\ InHand' = [InHand EXCEPT ![a] = Nothing]
                                       /\ UNCHANGED Ran
           /\ Transport!GiveUp(a) <=> /\ InHand' = [InHand EXCEPT ![a] = Nothing]
                                      /\ Told' = [Told EXCEPT ![a] = Nothing]
                                      /\ UNCHANGED Ran
BY DEF Transport!Ask, Transport!Run, Transport!Succeed, Transport!GiveUp, InHand, Told, Ran

\* A packet runs the request in hand, or nothing.
LEMMA SendMaps ==
    ASSUME IInv, NEW a \in Apps, Send(a)
    PROVE  Transport!Run(a) \/ UNCHANGED <<InHand, Told, Ran>>
<1>1. ToSend(a) /\ ProcessHidPacket(Packet(a)) /\ UNCHANGED <<st, chan, msg, count>>
      BY DEF Send
<1>2. UNCHANGED <<InHand, Told>>
      BY <1>1 DEF InHand, Told
<1>3. Brought(a)
      BY <1>1, DeviceStep
<1>4. CASE executed' = executed
      BY <1>2, <1>4 DEF Ran
<1>5. CASE Execute(Assembled(a)) /\ st[a] = "busy"
      <2>1. msg[a] \in Requests /\ msg[a] \notin Ran /\ Ran' = Ran \cup {msg[a]}
            BY <1>1, <1>5, ExecuteFacts
      <2>2. InHand[a] = msg[a] /\ msg[a] # Nothing
            BY <1>5, <2>1, RequestFacts DEF InHand
      <2> QED BY <1>2, <2>1, <2>2, MapsTo
<1>6. executed' = executed \/ (Execute(Assembled(a)) /\ st[a] = "busy")
      <2>1. CASE Silent \/ Refused(Channel(a))
            BY <2>1 DEF Silent, Refused, Refuse
      <2>2. CASE PreprocessMessage(Assembled(a))
            BY <1>1, <2>2, WholeStep DEF Initialize
      <2> QED BY <1>3, <2>1, <2>2 DEF Brought
<1> QED BY <1>4, <1>5, <1>6

LEMMA NextMaps ==
    ASSUME IInv, [Next]_vars
    PROVE  [Transport!Next]_<<InHand, Told, Ran>>
<1> SUFFICES (\E a \in Apps : Transport!Ask(a) \/ Transport!Run(a) \/ Transport!Succeed(a) \/ Transport!GiveUp(a))
             \/ UNCHANGED <<InHand, Told, Ran>>
    BY DEF Transport!Next
<1>1. CASE Tick \/ UNCHANGED vars
      BY <1>1 DEF Tick, vars, apps, InHand, Told, Ran
<1>2. ASSUME NEW a \in Apps, Send(a)
      PROVE  Transport!Run(a) \/ UNCHANGED <<InHand, Told, Ran>>
      BY <1>2, SendMaps
<1>3. ASSUME NEW a \in Apps, Lose(a) \/ SendCancel(a) \/ Retry(a) \/ Drop(a)
      PROVE  UNCHANGED <<InHand, Told, Ran>>
      <2>1. SendCancel(a) => executed' = executed
            BY CancelStep DEF Silent, Refused, Refuse
      <2>2. UNCHANGED <<st, msg, executed>>
            BY <1>3, <2>1 DEF Lose, SendCancel, Retry, Drop, apps
      <2> QED BY <2>2 DEF InHand, Told, Ran
<1>4. st \in [Apps -> {"closed", "opening", "ready", "busy", "syncing"}]
      /\ msg \in [Apps -> Requests \cup {Nothing}]
      BY DEF IInv, HostInv
<1>5. ASSUME NEW a \in Apps, Open(a) \/ Connect(a)
      PROVE  UNCHANGED <<InHand, Told, Ran>>
      <2>1. /\ executed' = executed /\ st[a] \notin {"ready", "busy"} /\ st'[a] # "busy"
            /\ st'[a] = "ready" => msg'[a] = Nothing
            /\ \A b \in Apps \ {a} : st'[b] = st[b] /\ msg'[b] = msg[b]
            BY <1>4, <1>5 DEF Open, Connect, Initialized, Turn
      <2> QED BY <2>1 DEF InHand, Told, Ran
<1>6. ASSUME NEW a \in Apps, Ask(a)
      PROVE  Transport!Ask(a)
      <2>1. PICK k \in Shapes[a] : Turn(a, "busy", k.cmd, k.len)
            BY <1>6 DEF Ask
      <2>2. [cmd |-> k.cmd, len |-> k.len] = k /\ st[a] = "ready" /\ executed' = executed
            BY <1>6, LengthAssumption DEF Ask
      <2>3. PICK m \in Requests : m \notin Ran /\ msg' = [msg EXCEPT ![a] = m] /\ st' = [st EXCEPT ![a] = "busy"]
            <3>1. [cmd |-> k.cmd, len |-> k.len] \in Shapes[a] \cup {[cmd |-> "Init", len |-> NonceLen]}
                  BY <2>2
            <3> DEFINE n == [app |-> a, n |-> count[a] + 1, cmd |-> k.cmd, len |-> k.len]
            <3>2. n \in Requests /\ n \notin Ran /\ msg' = [msg EXCEPT ![a] = n] /\ st' = [st EXCEPT ![a] = "busy"]
                  BY <2>1, <3>1, TurnFacts
            <3> QED BY <3>2
      <2>4. InHand[a] = Nothing /\ Ran' = Ran
            BY <2>2 DEF InHand, Ran
      <2>5. InHand' = [InHand EXCEPT ![a] = m] /\ Told' = [Told EXCEPT ![a] = Nothing]
            BY <1>4, <2>3 DEF InHand, Told
      <2> QED BY <2>3, <2>4, <2>5, MapsTo
<1>7. ASSUME NEW a \in Apps, Accept(a)
      PROVE  Transport!Succeed(a)
      <2>1. st[a] = "busy" /\ msg[a] \in Ran
            BY <1>7, AcceptFacts
      <2>2. st' = [st EXCEPT ![a] = "ready"] /\ msg' = msg /\ executed' = executed
            BY <1>7 DEF Accept
      <2>3. InHand[a] = msg[a] /\ Ran' = Ran
            BY <2>1, <2>2 DEF InHand, Ran
      <2>4. Told' = [Told EXCEPT ![a] = InHand[a]] /\ InHand' = [InHand EXCEPT ![a] = Nothing]
            BY <1>4, <2>2, <2>3 DEF InHand, Told
      <2> QED BY <2>1, <2>3, <2>4, MapsTo
<1>8. ASSUME NEW a \in Apps, Sync(a) \/ Fail(a) \/ Quit(a)
      PROVE  Transport!GiveUp(a)
      <2>1. /\ executed' = executed /\ st'[a] \in {"syncing", "closed"}
            /\ \A b \in Apps \ {a} : st'[b] = st[b] /\ msg'[b] = msg[b]
            BY <1>4, <1>8 DEF Sync, Fail, Quit, Turn
      <2>2. InHand' = [InHand EXCEPT ![a] = Nothing] /\ Told' = [Told EXCEPT ![a] = Nothing]
            BY <2>1 DEF InHand, Told
      <2>3. Ran' = Ran
            BY <2>1 DEF Ran
      <2> QED BY <2>2, <2>3, MapsTo
<1> QED BY <1>1, <1>2, <1>3, <1>5, <1>6, <1>7, <1>8 DEF Next

\* Whatever happens on the way, to one application the transport is one request at a
\* time, run whole, at most once, only while it is waited for, and before its success
\* is told (MessageAssembler and CtapHid with the host's side of the protocol).
THEOREM ImplementsPromise == Spec => ImplementsTransport
<1>1. Init => Transport!Init
      BY DEF Init, Transport!Init
<1>2. IInv /\ [Next]_vars => [Transport!Next]_<<InHand, Told, Ran>>
      BY NextMaps
<1>3. <<InHand, Told, Ran>> = <<[a \in Apps |-> IF st[a] = "busy" THEN msg[a] ELSE Nothing],
                                [a \in Apps |-> IF st[a] = "ready" THEN msg[a] ELSE Nothing],
                                {m.payload[1][1] : m \in executed}>>
      BY DEF InHand, Told, Ran
<1> QED BY <1>1, <1>2, <1>3, Invariant, PTL DEF Spec, ImplementsTransport, Transport!Spec, InHand, Told, Ran
===============================================================================
