-------------------------- MODULE LargeBlobs_proofs --------------------------
(* Theorems about LargeBlobs, for any clients, arrays and limits.           *)
EXTENDS LargeBlobs, SequenceTheorems, TLAPS

\* A byte: the array it is from and its place.
Bytes == Arrays \X Nat

TypeInv == /\ buffer \in Seq(Bytes)
           /\ expected_length \in Nat
           /\ expected_next_offset \in Nat
           /\ writes \in [Clients -> Arrays \cup {Nothing, Written}]
           /\ sent \in [Clients -> Nat]

\* The first bytes of an array.
Prefix(x, k) == [i \in 1..k |-> <<x, i>>]

\* What the buffer is to the client that sent the last first fragment, once some of
\* its array was accepted: given up, gone on with by another, or its bytes so far.
Holds(c) == \/ expected_next_offset = 0
            \/ expected_next_offset > sent[c] /\ expected_length = writes[c].len
            \/ /\ expected_next_offset = sent[c]
               /\ expected_length = writes[c].len
               /\ buffer = Prefix(writes[c], sent[c])

Progress == \A c \in Clients :
                Writing(c) => /\ sent[c] <= writes[c].len
                              /\ (starter = c /\ sent[c] > 0) => Holds(c)

Counted == expected_next_offset > 0 => Len(buffer) = expected_next_offset

IInv == TypeInv /\ Counted /\ Progress

-----------------------------------------------------------------------------
(* Arrays and their bytes.                                                  *)

\* An array is none of the marks.
LEMMA ArrayIsNoMark ==
    ASSUME NEW x \in Arrays
    PROVE  x # Nothing /\ x # Written /\ x.len \in Nat
<1>1. x \in [name : STRING, len : Nat, sound : BOOLEAN]
      BY ArraysAssumption
<1>2. DOMAIN x = {"name", "len", "sound"}
      BY <1>1
<1>3. DOMAIN Nothing = {"name"} /\ DOMAIN Written = {"name"}
      BY DEF Nothing, Written
<1>4. "len" \notin {"name"}
      OBVIOUS
<1> QED BY <1>1, <1>2, <1>3, <1>4

LEMMA PrefixType ==
    ASSUME NEW x \in Arrays, NEW k \in Nat
    PROVE  /\ Prefix(x, k) \in Seq(Bytes)
           /\ Len(Prefix(x, k)) = k
<1>1. \A i \in 1..k : <<x, i>> \in Bytes
      BY DEF Bytes
<1> QED BY <1>1 DEF Prefix

LEMMA DataIsPrefix ==
    ASSUME NEW x \in Arrays
    PROVE  /\ Data(x) = Prefix(x, x.len)
           /\ Data(x) \in Seq(Bytes)
           /\ Len(Data(x)) = x.len
<1>1. x.len \in Nat
      BY ArrayIsNoMark
<1>2. Data(x) = Prefix(x, x.len)
      BY DEF Data, Prefix
<1> QED BY <1>1, <1>2, PrefixType

\* The bytes of a fragment.
LEMMA FragmentBytes ==
    ASSUME NEW x \in Arrays, NEW s \in Nat, NEW n \in Nat, s + n <= x.len
    PROVE  /\ SubSeq(Data(x), s + 1, s + n) = [i \in 1..n |-> <<x, s + i>>]
           /\ SubSeq(Data(x), s + 1, s + n) \in Seq(Bytes)
           /\ Len(SubSeq(Data(x), s + 1, s + n)) = n
<1> DEFINE D == Data(x)
           F == SubSeq(D, s + 1, s + n)
<1>1. x.len \in Nat /\ D \in Seq(Bytes) /\ Len(D) = x.len
      BY ArrayIsNoMark, DataIsPrefix
<1>2. \A i \in 1..x.len : D[i] = <<x, i>>
      BY <1>1 DEF Data
<1>3. F \in Seq(Bytes) /\ Len(F) = n /\ \A i \in 1..n : F[i] = D[s + i]
      <2> HIDE DEF D
      <2>1. F = [i \in 1..n |-> D[s + i]]
            BY <1>1
      <2>2. \A i \in 1..n : D[s + i] \in Bytes
            BY <1>1
      <2> QED BY <2>1, <2>2
<1>4. \A i \in 1..n : s + i \in 1..x.len
      BY <1>1
<1>5. \A i \in 1..n : F[i] = <<x, s + i>>
      BY <1>2, <1>3, <1>4
<1>6. F = [i \in 1..n |-> F[i]]
      <2> HIDE DEF F
      <2> QED BY <1>3
<1> QED BY <1>3, <1>5, <1>6

\* A prefix and the fragment after it are a longer prefix.
LEMMA PrefixExtended ==
    ASSUME NEW x \in Arrays, NEW s \in Nat, NEW n \in Nat, s + n <= x.len
    PROVE  Prefix(x, s) \o SubSeq(Data(x), s + 1, s + n) = Prefix(x, s + n)
<1> DEFINE P == Prefix(x, s)
           F == SubSeq(Data(x), s + 1, s + n)
<1>1. P \in Seq(Bytes) /\ Len(P) = s /\ \A i \in 1..s : P[i] = <<x, i>>
      <2>1. \A i \in 1..s : P[i] = <<x, i>>
            BY DEF Prefix
      <2> QED BY <2>1, PrefixType
<1>2. F \in Seq(Bytes) /\ Len(F) = n /\ \A i \in 1..n : F[i] = <<x, s + i>>
      <2>1. F = [i \in 1..n |-> <<x, s + i>>]
            BY FragmentBytes
      <2> QED BY <2>1, FragmentBytes
<1> HIDE DEF P, F
<1>3. /\ P \o F \in Seq(Bytes) /\ Len(P \o F) = s + n
      /\ \A i \in 1..(s + n) : (P \o F)[i] = IF i <= s THEN P[i] ELSE F[i - s]
      BY <1>1, <1>2, ConcatProperties
<1>4. \A i \in 1..(s + n) : (P \o F)[i] = <<x, i>>
      BY <1>1, <1>2, <1>3
<1>5. P \o F = Prefix(x, s + n)
      <2>1. /\ Prefix(x, s + n) \in Seq(Bytes) /\ Len(Prefix(x, s + n)) = s + n
            /\ \A i \in 1..(s + n) : Prefix(x, s + n)[i] = <<x, i>>
            BY PrefixType DEF Prefix
      <2> QED BY <1>3, <1>4, <2>1, SeqEqual
<1> QED BY <1>5 DEF P, F

-----------------------------------------------------------------------------
(* A fragment.                                                              *)

LEMMA FragmentType ==
    ASSUME TypeInv, NEW c \in Clients, Writing(c), NEW n \in Nat, NEW authorised \in BOOLEAN,
           sent[c] + n <= writes[c].len
    PROVE  LET f == Fragment(c, n, authorised)
           IN  /\ writes[c] \in Arrays
               /\ f.offset = sent[c] /\ f.offset \in Nat
               /\ f.length = writes[c].len /\ f.length \in Nat
               /\ f.data = SubSeq(Data(writes[c]), sent[c] + 1, sent[c] + n)
               /\ f.data \in Seq(Bytes) /\ Len(f.data) = n
<1> DEFINE f == Fragment(c, n, authorised)
<1>1. writes[c] \in Arrays /\ sent[c] \in Nat
      BY DEF TypeInv, Writing
<1>2. /\ f.offset = sent[c]
      /\ f.length = writes[c].len
      /\ f.data = SubSeq(Data(writes[c]), sent[c] + 1, sent[c] + n)
      BY DEF Fragment
<1>3. writes[c].len \in Nat
      BY <1>1, ArrayIsNoMark
<1>4. /\ SubSeq(Data(writes[c]), sent[c] + 1, sent[c] + n) \in Seq(Bytes)
      /\ Len(SubSeq(Data(writes[c]), sent[c] + 1, sent[c] + n)) = n
      <2> DEFINE x == writes[c]
                 k == sent[c]
      <2>1. x \in Arrays /\ k \in Nat /\ k + n <= x.len
            BY <1>1
      <2> HIDE DEF x, k
      <2> QED BY <2>1, FragmentBytes DEF x, k
<1> QED BY <1>1, <1>2, <1>3, <1>4

\* What the buffer is once a fragment was added.
LEMMA ExtendedType ==
    ASSUME TypeInv, NEW f, f.data \in Seq(Bytes)
    PROVE  /\ Extended(f) \in Seq(Bytes)
           /\ f.offset = 0 => Extended(f) = f.data
           /\ f.offset # 0 => /\ Len(Extended(f)) = Len(buffer) + Len(f.data)
                              /\ Len(f.data) = 0 => Extended(f) = buffer
<1>1. buffer \in Seq(Bytes)
      BY DEF TypeInv
<1>2. CASE f.offset = 0
      <2>1. Extended(f) = <<>> \o f.data
            BY <1>2 DEF Extended
      <2> QED BY <1>2, <2>1, ConcatEmptySeq
<1>3. CASE f.offset # 0
      <2>1. Extended(f) = buffer \o f.data
            BY <1>3 DEF Extended
      <2>2. Len(f.data) = 0 => f.data = <<>>
            BY EmptySeq
      <2> QED BY <1>1, <1>3, <2>1, <2>2, ConcatEmptySeq, ConcatProperties
<1> QED BY <1>2, <1>3

\* A client that started last and whose fragment fits has its own bytes in the
\* buffer, and the length it announced.
LEMMA OwnBytes ==
    ASSUME IInv, NEW c \in Clients, Writing(c), NEW n \in Nat, NEW authorised \in BOOLEAN,
           sent[c] + n <= writes[c].len,
           sent[c] # 0 => starter = c,
           Fits(Fragment(c, n, authorised))
    PROVE  LET f == Fragment(c, n, authorised)
           IN  /\ Extended(f) = Prefix(writes[c], sent[c] + n)
               /\ Expected(f) = writes[c].len
<1> DEFINE f == Fragment(c, n, authorised)
           x == writes[c]
<1>1. /\ x \in Arrays /\ sent[c] \in Nat
      /\ f.offset = sent[c] /\ f.length = x.len
      /\ f.data = SubSeq(Data(x), sent[c] + 1, sent[c] + n)
      /\ f.data \in Seq(Bytes)
      BY FragmentType DEF IInv
<1>2. CASE sent[c] = 0
      <2>1. Extended(f) = f.data /\ Expected(f) = x.len
            BY <1>1, <1>2, ExtendedType DEF IInv, Expected
      <2>2. f.data = [i \in 1..n |-> <<x, sent[c] + i>>]
            <3> HIDE DEF f, x
            <3> QED BY <1>1, FragmentBytes DEF x
      <2>3. f.data = Prefix(x, sent[c] + n)
            BY <1>2, <2>2 DEF Prefix
      <2> QED BY <2>1, <2>3
<1>3. CASE sent[c] # 0
      <2>1. Holds(c)
            BY <1>1, <1>3 DEF IInv, Progress
      <2>2. expected_next_offset = sent[c]
            BY <1>1, <1>3 DEF Fits, InTurn, NextOffset
      <2>3. buffer = Prefix(x, sent[c]) /\ expected_length = x.len
            BY <1>1, <1>3, <2>1, <2>2 DEF Holds
      <2>4. Extended(f) = Prefix(x, sent[c]) \o SubSeq(Data(x), sent[c] + 1, sent[c] + n)
            BY <1>1, <1>3, <2>3 DEF Extended
      <2>5. Expected(f) = x.len
            BY <1>1, <1>3, <2>3 DEF Expected
      <2> QED BY <1>1, <2>4, <2>5, PrefixExtended
<1> QED BY <1>2, <1>3

-----------------------------------------------------------------------------
(* The inductive step.                                                      *)

\* Every way out of a fragment, for the buffer and its counters.
LEMMA FragmentMemory ==
    ASSUME IInv, NEW f,
           f.offset \in Nat, f.length \in Nat, f.data \in Seq(Bytes),
           \/ TooLong(f) \/ OutOfTurn(f) \/ Turned(f) \/ BadDigest(f) \/ CommitFails(f)
           \/ Collect(f) \/ Commit(f) \/ CommitCut(f)
    PROVE  /\ buffer' \in Seq(Bytes)
           /\ expected_length' \in Nat
           /\ expected_next_offset' \in Nat
           /\ Counted'
<1> USE DEF IInv, TypeInv, Counted
<1>1. /\ Extended(f) \in Seq(Bytes) /\ Len(Extended(f)) \in Nat
      /\ Expected(f) \in Nat /\ NextOffset(f) \in Nat
      /\ NextOffset(f) > 0 => NextOffset(f) = expected_next_offset
      BY ExtendedType, LenProperties DEF Expected, NextOffset
<1>2. CASE TooLong(f)
      BY <1>2 DEF TooLong
<1>3. CASE OutOfTurn(f)
      BY <1>3 DEF OutOfTurn, memory
<1>4. CASE Turned(f)
      BY <1>1, <1>4 DEF Turned
<1>5. CASE BadDigest(f) \/ Commit(f) \/ CommitCut(f)
      <2>1. buffer' = <<>> /\ expected_length' = 0 /\ expected_next_offset' = 0
            BY <1>5 DEF BadDigest, Commit, CommitCut, Empty
      <2> QED BY <2>1, EmptySeq
<1>6. CASE CommitFails(f)
      BY <1>1, <1>6 DEF CommitFails
<1>7. CASE Collect(f)
      BY <1>1, <1>7 DEF Collect
<1> QED BY <1>2, <1>3, <1>4, <1>5, <1>6, <1>7

\* A fragment of another client leaves what the buffer holds of the last starter's.
LEMMA OthersFragment ==
    ASSUME IInv, NEW f, f.offset \in Nat, f.offset # 0, f.data \in Seq(Bytes),
           \/ TooLong(f) \/ OutOfTurn(f) \/ Turned(f) \/ BadDigest(f) \/ CommitFails(f)
           \/ Collect(f) \/ Commit(f) \/ CommitCut(f),
           NEW d \in Clients, sent[d] \in Nat, sent[d] > 0, Holds(d),
           writes'[d] = writes[d], sent'[d] = sent[d]
    PROVE  Holds(d)'
<1>1. CASE TooLong(f) \/ OutOfTurn(f)
      BY <1>1 DEF TooLong, OutOfTurn, memory, Holds
<1>2. CASE Turned(f)
      <2>1. UNCHANGED memory
            BY <1>2 DEF Turned, Expected, NextOffset, memory
      <2> QED BY <2>1 DEF memory, Holds
<1>3. CASE BadDigest(f) \/ Commit(f) \/ CommitCut(f) \/ CommitFails(f)
      BY <1>3 DEF BadDigest, Commit, CommitCut, CommitFails, Empty, Holds
<1>4. CASE Collect(f)
      <2>1. /\ buffer' = Extended(f) /\ expected_length' = expected_length
            /\ expected_next_offset' = Len(Extended(f)) /\ f.offset = expected_next_offset
            BY <1>4 DEF Collect, Expected, Fits, InTurn, NextOffset
      <2>2. Len(buffer) = expected_next_offset /\ expected_next_offset \in Nat
            BY <2>1 DEF IInv, TypeInv, Counted
      <2>3. Len(f.data) \in Nat
            BY LenProperties
      <2>4. /\ Len(Extended(f)) = Len(buffer) + Len(f.data)
            /\ Len(f.data) = 0 => Extended(f) = buffer
            BY ExtendedType DEF IInv
      <2>5. expected_next_offset >= sent[d] /\ expected_length = writes[d].len
            BY <2>1 DEF Holds
      <2>6. CASE Len(f.data) = 0
            BY <2>1, <2>2, <2>4, <2>6 DEF Holds
      <2>7. CASE Len(f.data) > 0
            BY <2>1, <2>2, <2>4, <2>5, <2>7 DEF Holds
      <2> QED BY <2>3, <2>6, <2>7
<1> QED BY <1>1, <1>2, <1>3, <1>4

LEMMA InitInv == Init => IInv
<1> SUFFICES ASSUME Init
             PROVE  IInv
    OBVIOUS
<1>1. TypeInv /\ Counted
      BY EmptySeq DEF Init, TypeInv, Counted
<1>2. Progress
      BY DEF Init, Progress, Writing
<1> QED BY <1>1, <1>2 DEF IInv

\* The step that writes a fragment.
LEMMA SetInv ==
    ASSUME IInv, NEW c \in Clients, Set(c)
    PROVE  IInv'
<1>1. PICK n \in 0..MaxFragment, authorised \in BOOLEAN :
          LET f == Fragment(c, n, authorised)
          IN /\ sent[c] + n <= writes[c].len
             /\ starter' = IF f.offset = 0 THEN c ELSE starter
             /\ Refused(c, f) \/ Accepted(c, f) \/ Unanswered(f)
      BY DEF Set
<1> DEFINE f == Fragment(c, n, authorised)
           x == writes[c]
<1>2. Writing(c) /\ n \in Nat
      BY LimitsAssumption DEF Set
<1>3. /\ x \in Arrays /\ x.len \in Nat /\ sent[c] \in Nat
      /\ f.offset = sent[c] /\ f.offset \in Nat /\ f.length \in Nat
      /\ f.data \in Seq(Bytes) /\ Len(f.data) = n
      BY <1>1, <1>2, FragmentType, ArrayIsNoMark DEF IInv, TypeInv
<1>4. /\ sent[c] + n <= x.len
      /\ starter' = IF f.offset = 0 THEN c ELSE starter
      /\ Refused(c, f) \/ Accepted(c, f) \/ Unanswered(f)
      BY <1>1
<1> HIDE DEF f
<1>5. \/ TooLong(f) \/ OutOfTurn(f) \/ Turned(f) \/ BadDigest(f) \/ CommitFails(f)
      \/ Collect(f) \/ Commit(f) \/ CommitCut(f)
      BY <1>4 DEF Refused, Accepted, Unanswered
<1>6. /\ writes' \in [Clients -> Arrays \cup {Nothing, Written}]
      /\ sent' \in [Clients -> Nat]
      /\ \A d \in Clients : d # c => writes'[d] = writes[d] /\ sent'[d] = sent[d]
      <2>1. /\ writes \in [Clients -> Arrays \cup {Nothing, Written}]
            /\ sent \in [Clients -> Nat]
            BY DEF IInv, TypeInv
      <2>2. CASE Refused(c, f)
            BY <2>1, <2>2 DEF Refused
      <2>3. CASE Accepted(c, f)
            <3>1. /\ \E w \in Arrays \cup {Nothing, Written} : writes' = [writes EXCEPT ![c] = w]
                  /\ \E k \in Nat : sent' = [sent EXCEPT ![c] = k]
                  <4>1. /\ writes' = [writes EXCEPT ![c] = IF f.offset + Len(f.data) = x.len
                                                           THEN Written ELSE x]
                        /\ sent' = [sent EXCEPT ![c] = IF f.offset + Len(f.data) = x.len
                                                       THEN 0 ELSE sent[c] + n]
                        BY <1>3, <2>1, <2>3 DEF Accepted
                  <4>2. (IF f.offset + Len(f.data) = x.len THEN Written ELSE x)
                            \in Arrays \cup {Nothing, Written}
                        BY <1>3
                  <4>3. (IF f.offset + Len(f.data) = x.len THEN 0 ELSE sent[c] + n) \in Nat
                        BY <1>2, <1>3
                  <4> QED BY <4>1, <4>2, <4>3
            <3> QED BY <2>1, <3>1
      <2>4. CASE Unanswered(f)
            BY <2>1, <2>4 DEF Unanswered, clients
      <2> QED BY <1>4, <2>2, <2>3, <2>4
<1>7. TypeInv' /\ Counted'
      BY <1>3, <1>5, <1>6, FragmentMemory DEF TypeInv
<1>8. ASSUME NEW d \in Clients, d # c, Writing(d)'
      PROVE  /\ sent'[d] <= writes'[d].len
             /\ (starter' = d /\ sent'[d] > 0) => Holds(d)'
      <2>1. Writing(d) /\ writes'[d] = writes[d] /\ sent'[d] = sent[d]
            BY <1>6, <1>8 DEF Writing
      <2>2. /\ sent[d] <= writes[d].len
            /\ (starter = d /\ sent[d] > 0) => Holds(d)
            BY <2>1 DEF IInv, Progress
      <2>3. ASSUME starter' = d, sent'[d] > 0
            PROVE  Holds(d)'
            <3>1. f.offset # 0 /\ starter = d
                  BY <1>4, <1>8, <2>3
            <3>2. sent[d] \in Nat /\ sent[d] > 0 /\ Holds(d)
                  BY <2>1, <2>2, <2>3, <3>1 DEF IInv, TypeInv
            <3> QED BY <1>3, <1>5, <2>1, <3>1, <3>2, OthersFragment
      <2> QED BY <2>1, <2>2, <2>3
<1>9. ASSUME Writing(c)'
      PROVE  /\ sent'[c] <= writes'[c].len
             /\ (starter' = c /\ sent'[c] > 0) => Holds(c)'
      <2>1. CASE Refused(c, f)
            <3>1. writes'[c] = Nothing
                  BY <2>1 DEF Refused, IInv, TypeInv
            <3> QED BY <1>9, <3>1 DEF Writing
      <2>2. CASE Accepted(c, f)
            <3>1. /\ writes'[c] = x /\ sent'[c] = sent[c] + n
                  /\ Collect(f) \/ Commit(f)
                  BY <1>3, <1>9, <2>2 DEF Accepted, Writing, IInv, TypeInv
            <3>2. CASE Commit(f)
                  BY <1>4, <3>1, <3>2 DEF Commit, Empty, Holds
            <3>3. CASE Collect(f) /\ starter' = c
                  <4>1. sent[c] # 0 => starter = c
                        BY <1>3, <1>4, <3>3
                  <4>2. Fits(f)
                        BY <3>3 DEF Collect
                  <4>3. Extended(f) = Prefix(x, sent[c] + n) /\ Expected(f) = x.len
                        BY <1>2, <1>4, <4>1, <4>2, OwnBytes DEF f
                  <4>4. Len(Prefix(x, sent[c] + n)) = sent[c] + n
                        BY <1>2, <1>3, PrefixType
                  <4>5. /\ buffer' = Prefix(x, sent[c] + n)
                        /\ expected_length' = x.len
                        /\ expected_next_offset' = sent[c] + n
                        BY <3>3, <4>3, <4>4 DEF Collect
                  <4> QED BY <1>4, <3>1, <4>5 DEF Holds
            <3> QED BY <1>4, <3>1, <3>2, <3>3
      <2>3. CASE Unanswered(f)
            <3>1. expected_next_offset' = 0 /\ writes' = writes /\ sent' = sent
                  BY <2>3 DEF Unanswered, CommitCut, Empty, clients
            <3> QED BY <1>2, <3>1 DEF Holds, IInv, Progress
      <2> QED BY <1>4, <2>1, <2>2, <2>3
<1> QED BY <1>7, <1>8, <1>9 DEF IInv, Progress

LEMMA NextInv == IInv /\ [Next]_vars => IInv'
<1> SUFFICES ASSUME IInv, [Next]_vars
             PROVE  IInv'
    OBVIOUS
<1>1. CASE \E c \in Clients : Set(c)
      BY <1>1, SetInv
<1>2. CASE \E c \in Clients : Begin(c)
      <2>1. PICK c \in Clients : Begin(c)
            BY <1>2
      <2>2. PICK x \in Arrays : writes' = [writes EXCEPT ![c] = x]
            BY <2>1 DEF Begin
      <2>3. sent' = [sent EXCEPT ![c] = 0] /\ UNCHANGED <<memory, starter>>
            BY <2>1 DEF Begin
      <2>4. TypeInv' /\ Counted'
            BY <2>2, <2>3 DEF IInv, TypeInv, Counted, memory
      <2>5. ASSUME NEW d \in Clients, Writing(d)'
            PROVE  /\ sent'[d] <= writes'[d].len
                   /\ (starter' = d /\ sent'[d] > 0) => Holds(d)'
            <3>1. CASE d = c
                  BY <2>2, <2>3, <3>1, ArrayIsNoMark DEF IInv, TypeInv
            <3>2. CASE d # c
                  <4>1. writes'[d] = writes[d] /\ sent'[d] = sent[d]
                        BY <2>2, <2>3, <3>2 DEF IInv, TypeInv
                  <4>2. Writing(d)
                        BY <2>5, <4>1 DEF Writing
                  <4> QED BY <2>3, <4>1, <4>2 DEF IInv, Progress, Holds, memory
            <3> QED BY <3>1, <3>2
      <2> QED BY <2>4, <2>5 DEF IInv, Progress
<1>3. CASE Reset \/ UNCHANGED vars
      BY <1>3 DEF Reset, vars, memory, clients, IInv, TypeInv, Counted, Progress, Writing, Holds
<1>4. CASE PowerLoss
      BY <1>4, EmptySeq DEF PowerLoss, Empty, clients, IInv, TypeInv, Counted, Progress, Writing, Holds
<1> QED BY <1>1, <1>2, <1>3, <1>4 DEF Next

LEMMA Invariance == Spec => []IInv
BY InitInv, NextInv, PTL DEF Spec

-----------------------------------------------------------------------------
\* The state keeps its types: no refusal, failure or loss of power leaves a counter
\* or a buffer that the next fragment could not be added to.
THEOREM TypeCorrect == Spec => []TypeInv
<1>1. IInv => TypeInv
      BY DEF IInv
<1> QED BY <1>1, Invariance, PTL

LEMMA StoredWhole ==
    ASSUME IInv, BlobWhole, [Next]_vars
    PROVE  BlobWhole'
<1>1. CASE \E c \in Clients : Set(c)
      <2>1. PICK c \in Clients, n \in 0..MaxFragment, authorised \in BOOLEAN :
                LET f == Fragment(c, n, authorised)
                IN /\ Writing(c) /\ sent[c] + n <= writes[c].len
                   /\ Refused(c, f) \/ Accepted(c, f) \/ Unanswered(f)
            BY <1>1 DEF Set
      <2> DEFINE f == Fragment(c, n, authorised)
      <2>2. \/ UNCHANGED blob
            \/ blob' = NoEntry \/ blob' = Entry(<<>>)
            \/ Commit(f)
            BY <2>1 DEF Refused, Accepted, Unanswered, TooLong, OutOfTurn, Turned, BadDigest,
                        CommitFails, Collect, CommitCut
      <2>3. CASE Commit(f)
            <3> HIDE DEF f
            <3>1. PICK x \in Arrays : x.sound /\ Extended(f) = Data(x)
                  BY <2>3 DEF Commit, DigestOk
            <3>2. x.len = Expected(f) /\ Expected(f) <= MaxLen
                  BY <2>3, <3>1, DataIsPrefix DEF Commit, Complete
            <3>3. blob' = Entry(Data(x))
                  BY <2>3, <3>1 DEF Commit
            <3> QED BY <3>1, <3>2, <3>3 DEF BlobWhole, Entry
      <2> QED BY <2>2, <2>3 DEF BlobWhole, NoEntry, Entry
<1>2. CASE (\E c \in Clients : Begin(c)) \/ PowerLoss \/ UNCHANGED vars
      BY <1>2 DEF Begin, PowerLoss, vars, BlobWhole
<1>3. CASE Reset
      BY <1>3 DEF Reset, BlobWhole, NoEntry
<1> QED BY <1>1, <1>2, <1>3 DEF Next

\* BlobWhole: whatever clients write at the same time, what is stored is one array
\* with its digest, or nothing.
THEOREM StoredArrayIsWhole == Spec => []BlobWhole
<1>1. Init => BlobWhole
      BY DEF Init, BlobWhole, NoEntry
<1>2. IInv /\ BlobWhole /\ [Next]_vars => BlobWhole'
      BY StoredWhole
<1> QED BY <1>1, <1>2, Invariance, PTL DEF Spec

LEMMA UndisturbedStep ==
    ASSUME IInv, [Next]_vars,
           NEW c \in Clients, Writing(c), writes'[c] = Written, starter' = c,
           sent[c] < writes[c].len
    PROVE  blob' = Entry(Data(writes[c]))
<1>1. writes'[c] # writes[c] /\ writes[c] \in Arrays /\ sent[c] \in Nat
      BY DEF Writing, IInv, TypeInv
<1>2. ~Begin(c)
      <2>1. SUFFICES ASSUME NEW y \in Arrays, writes' = [writes EXCEPT ![c] = y]
                     PROVE  FALSE
            BY DEF Begin
      <2>2. writes'[c] = y
            BY <2>1 DEF IInv, TypeInv
      <2> QED BY <2>2, ArrayIsNoMark
<1>3. \A d \in Clients : d # c => ~Begin(d) /\ ~Set(d)
      <2>1. SUFFICES ASSUME NEW d \in Clients, d # c, Begin(d) \/ Set(d)
                     PROVE  writes'[c] = writes[c]
            BY <1>1
      <2>2. PICK w : writes' = [writes EXCEPT ![d] = w] \/ writes' = writes
            BY <2>1 DEF Begin, Set, Refused, Accepted, Unanswered, clients
      <2> QED BY <2>1, <2>2 DEF IInv, TypeInv
<1>4. Set(c)
      BY <1>1, <1>2, <1>3 DEF Next, Reset, PowerLoss, vars, clients
<1>5. PICK n \in 0..MaxFragment, authorised \in BOOLEAN :
          LET f == Fragment(c, n, authorised)
          IN /\ sent[c] + n <= writes[c].len
             /\ starter' = IF f.offset = 0 THEN c ELSE starter
             /\ Refused(c, f) \/ Accepted(c, f) \/ Unanswered(f)
      BY <1>4 DEF Set
<1> DEFINE f == Fragment(c, n, authorised)
           x == writes[c]
<1>6. n \in Nat /\ f.offset = sent[c] /\ Len(f.data) = n
      BY <1>5, LimitsAssumption, FragmentType DEF IInv
<1>7. Accepted(c, f) /\ f.offset + Len(f.data) = x.len
      BY <1>1, <1>5 DEF Refused, Accepted, Unanswered, clients, Nothing, Written, IInv, TypeInv
<1>8. Fits(f) /\ (Collect(f) \/ Commit(f))
      BY <1>7 DEF Accepted, Collect, Commit, Complete
<1>9. sent[c] # 0 => starter = c
      BY <1>5, <1>6
<1>10. Extended(f) = Prefix(x, x.len) /\ Expected(f) = x.len
      BY <1>5, <1>6, <1>7, <1>8, <1>9, OwnBytes
<1>11. Extended(f) = Data(x) /\ Len(Extended(f)) = x.len
      BY <1>1, <1>10, DataIsPrefix
<1>12. Commit(f)
      BY <1>8, <1>10, <1>11 DEF Collect
<1> QED BY <1>11, <1>12 DEF Commit

\* UndisturbedIsStored: a client that is told its array is in, and since whose first
\* fragment nobody else sent one, has it stored.
THEOREM AcceptedIsStored == Spec => UndisturbedIsStored
<1>1. IInv /\ [Next]_vars =>
          [\A c \in Clients :
               (Writing(c) /\ writes'[c] = Written /\ starter' = c /\ sent[c] < writes[c].len)
                   => blob' = Entry(Data(writes[c]))]_vars
      BY UndisturbedStep
<1> QED BY <1>1, Invariance, PTL DEF Spec, UndisturbedIsStored
=============================================================================
