----------------------------- MODULE LargeBlobs -----------------------------
(***************************************************************************)
(* The large blob array of the authenticator (ctap/large_blobs.rs): one    *)
(* array for everybody, written in fragments, checked against the digest   *)
(* at its end and stored whole (libraries/persistent_store/src/fragment.rs;*)
(* an array fits the first of its keys).                                   *)
(*                                                                         *)
(* There is one buffer, which belongs to no channel: clients that write at *)
(* the same time write into it together.  They are the ones of the host,   *)
(* and each is what CTAP asks of it: fragments in order, each after the    *)
(* last was accepted.  Reads change nothing and are left out.              *)
(***************************************************************************)
EXTENDS Integers, Sequences

CONSTANTS Clients,
          Arrays,      \* what clients write: a name, a length, whether its digest is right
          MinLen,      \* MIN_LARGE_BLOB_LEN
          MaxLen,      \* max_large_blob_array_size()
          MaxFragment  \* bytes in a fragment

ASSUME ArraysAssumption == Arrays \subseteq [name : STRING, len : Nat, sound : BOOLEAN]
ASSUME LimitsAssumption == MinLen \in Nat \ {0} /\ MaxLen \in Nat /\ MaxFragment \in Nat

VARIABLES
    buffer, expected_length, expected_next_offset,  \* LargeBlobs
    blob,     \* the first of LARGE_BLOB_SHARDS in the store
    writes,   \* what each client is writing
    sent,     \* how much of it was accepted
    starter   \* history: the client whose first fragment came last

memory  == <<buffer, expected_length, expected_next_offset>>
clients == <<writes, sent>>
vars    == <<memory, blob, clients, starter>>

-----------------------------------------------------------------------------
Nobody  == "nobody"
Nothing == [name |-> "nothing"]   \* no write
Written == [name |-> "written"]   \* the last fragment was accepted

\* A byte is known by the array it comes from and its place there.
Data(x) == [i \in 1..x.len |-> <<x, i>>]

NoEntry == [found |-> FALSE]
Entry(bytes) == [found |-> TRUE, bytes |-> bytes]

\* Mutant: the digest is not looked at.
DigestOk_Unchecked(bytes) == TRUE

\* The digest at the end is that of the bytes before it.
DigestOk(bytes) == \E x \in Arrays : x.sound /\ bytes = Data(x)

\* What remains in memory when the array is complete or the power fails.
Empty == /\ buffer' = <<>>
         /\ expected_length' = 0
         /\ expected_next_offset' = 0

\* A fragment with offset 0 says how long the array is.
Expected(f)   == IF f.offset = 0 THEN f.length ELSE expected_length
NextOffset(f) == IF f.offset = 0 THEN 0 ELSE expected_next_offset

-----------------------------------------------------------------------------
(* The ways out of a write, and what the client is told.                   *)

\* The length is kept although it is refused.
TooLong(f) == /\ f.offset = 0 /\ f.length > MaxLen
              /\ expected_length' = f.length
              /\ UNCHANGED <<buffer, expected_next_offset, blob>>

InTurn(f) == ~(f.offset = 0 /\ f.length > MaxLen) /\ f.offset = NextOffset(f)

OutOfTurn(f) == /\ f.offset # NextOffset(f)
                /\ UNCHANGED <<memory, blob>>

\* No token, or not one that may write; or more bytes than were announced. A first
\* fragment has by then replaced the length and the offset, and not the buffer.
Turned(f) == /\ InTurn(f)
             /\ ~f.authorised \/ f.offset + Len(f.data) > Expected(f)
             /\ expected_length' = Expected(f)
             /\ expected_next_offset' = NextOffset(f)
             /\ UNCHANGED <<buffer, blob>>

Fits(f) == InTurn(f) /\ f.authorised /\ f.offset + Len(f.data) <= Expected(f)

\* Mutant: a first fragment is appended to what is there.
Extended_Appends(f) == buffer \o f.data

Extended(f) == (IF f.offset = 0 THEN <<>> ELSE buffer) \o f.data

Collect(f) == /\ Fits(f)
              /\ buffer' = Extended(f)
              /\ expected_length' = Expected(f)
              /\ expected_next_offset' = Len(buffer')
              /\ Len(buffer') # Expected(f)
              /\ UNCHANGED blob

Complete(f) == Fits(f) /\ Len(Extended(f)) = Expected(f)

BadDigest(f) == /\ Complete(f) /\ ~DigestOk(Extended(f))
                /\ Empty
                /\ UNCHANGED blob

\* An array that is stored already is not written again.
Changes(f) == blob # Entry(Extended(f))

Commit(f) == /\ Complete(f) /\ DigestOk(Extended(f)) /\ Expected(f) <= MaxLen
             /\ Empty
             /\ blob' = Entry(Extended(f))

\* The array is longer than may be, or the PDDB fails after a part of the update:
\* the array stays in the buffer.
CommitFails(f) ==
    /\ Complete(f) /\ DigestOk(Extended(f))
    /\ buffer' = Extended(f)
    /\ expected_length' = 0
    /\ expected_next_offset' = 0
    /\ \/ Expected(f) > MaxLen /\ UNCHANGED blob
       \/ Expected(f) <= MaxLen /\ Changes(f) /\ blob' \in {NoEntry, Entry(<<>>)}

\* The power fails after a part of the update.
CommitCut(f) == /\ Complete(f) /\ DigestOk(Extended(f)) /\ Expected(f) <= MaxLen
                /\ Empty
                /\ Changes(f)
                /\ blob' \in {NoEntry, Entry(<<>>)}

-----------------------------------------------------------------------------
(* Clients.                                                                *)

Writing(c) == writes[c] \notin {Nothing, Written}

\* The next fragment of a write of n bytes, announced as long as it is.
Fragment(c, n, authorised) ==
    [offset     |-> sent[c],
     length     |-> writes[c].len,
     data       |-> SubSeq(Data(writes[c]), sent[c] + 1, sent[c] + n),
     authorised |-> authorised]

Refused(c, f) == /\ TooLong(f) \/ OutOfTurn(f) \/ Turned(f) \/ BadDigest(f) \/ CommitFails(f)
                 /\ writes' = [writes EXCEPT ![c] = Nothing]
                 /\ sent' = [sent EXCEPT ![c] = 0]

Accepted(c, f) ==
    LET all == f.offset + Len(f.data) = writes[c].len
    IN /\ Collect(f) \/ Commit(f)
       /\ writes' = [writes EXCEPT ![c] = IF all THEN Written ELSE @]
       /\ sent' = [sent EXCEPT ![c] = IF all THEN 0 ELSE @ + Len(f.data)]

\* No answer comes, and clients do not know that the buffer is lost.
Unanswered(f) == CommitCut(f) /\ UNCHANGED clients

\* A fragment that is announced as an array too short to be one is refused before.
Set(c) == /\ Writing(c)
          /\ writes[c].len >= MinLen
          /\ \E n \in 0..MaxFragment, authorised \in BOOLEAN :
                 LET f == Fragment(c, n, authorised)
                 IN /\ sent[c] + n <= writes[c].len
                    /\ starter' = IF f.offset = 0 THEN c ELSE starter
                    /\ Refused(c, f) \/ Accepted(c, f) \/ Unanswered(f)

Begin(c) == /\ \E x \in Arrays : writes' = [writes EXCEPT ![c] = x]
            /\ sent' = [sent EXCEPT ![c] = 0]
            /\ UNCHANGED <<memory, blob, starter>>

\* A Reset of the authenticator leaves the buffer as it is.
Reset == /\ blob' = NoEntry
         /\ UNCHANGED <<memory, clients, starter>>

PowerLoss == Empty /\ UNCHANGED <<blob, clients, starter>>

Init == /\ buffer = <<>> /\ expected_length = 0 /\ expected_next_offset = 0
        /\ blob = NoEntry
        /\ writes = [c \in Clients |-> Nothing]
        /\ sent = [c \in Clients |-> 0]
        /\ starter = Nobody

Next == \/ \E c \in Clients : Set(c) \/ Begin(c)
        \/ Reset \/ PowerLoss

Spec == Init /\ [][Next]_vars

-----------------------------------------------------------------------------
(* Properties.                                                             *)

\* What is stored is one array with its right digest, from its first byte to its
\* last, of a length that is allowed; or it is what a failed update left, and then
\* it is nothing or empty: two writes are never stored as one.
BlobWhole == (blob.found /\ blob.bytes # <<>>) =>
                 \E x \in Arrays : x.sound /\ x.len <= MaxLen /\ blob.bytes = Data(x)

\* A client that was told its last fragment is in, and since whose first fragment no
\* other client sent a first one, has its array stored. Whatever was refused, given
\* up or lost before leaves nothing behind that a new write would trip over.
UndisturbedIsStored ==
    [][\A c \in Clients :
           (Writing(c) /\ writes'[c] = Written /\ starter' = c /\ sent[c] < writes[c].len)
               => blob' = Entry(Data(writes[c]))]_vars
=============================================================================
