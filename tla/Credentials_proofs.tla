-------------------------- MODULE Credentials_proofs --------------------------
(* Theorems about Credentials, for any relying parties, users, slots, channels *)
(* and policies.                                                               *)
EXTENDS Credentials, FiniteSetTheorems, FunctionTheorems, SequenceTheorems,
        WellFoundedInduction, TLAPS

\* The store and its list of keys: the types, and that every credential is listed if
\* there is a list, although a failed update leaves the list as it was.
StoreInv == /\ pddb \in [Keys -> Credential \cup {NoEntry, NoBytes}]
            /\ entries \in (SUBSET Keys) \cup {Unlisted}
            /\ made \in 0..MaxMade
            /\ entries # Unlisted => \A k \in Keys : Held(k) => k \in entries

\* Credentials are numbered as they are made, and their orders follow.
Numbered == \A k \in Keys : Held(k) => pddb[k].id <= made /\ pddb[k].order <= made

IInv == StoreInv /\ Numbered /\ OneCredentialPerAccount

-----------------------------------------------------------------------------
(* Numbers.                                                                 *)

LEMMA LeastExists ==
    ASSUME NEW T, T \subseteq Nat, T # {}
    PROVE  \E x \in T : \A y \in T : x <= y
<1>1. PICK x \in T : \A y \in T : ~ (<<y, x>> \in OpToRel(<, Nat))
      BY NatLessThanWellFounded, WFMin
<1>2. \A y \in T : ~(y < x)
      BY <1>1 DEF OpToRel
<1> QED BY <1>2

LEMMA GreatestExists ==
    ASSUME NEW T, T \subseteq Nat, T # {}, NEW m \in Nat, \A y \in T : y <= m
    PROVE  \E x \in T : \A y \in T : y <= x
<1> DEFINE U == {m - y : y \in T}
<1>1. U \subseteq Nat /\ U # {}
      <2>1. \A y \in T : m - y \in Nat
            OBVIOUS
      <2> QED BY <2>1
<1>2. PICK z \in U : \A y \in U : z <= y
      <2> HIDE DEF U
      <2> QED BY <1>1, LeastExists
<1>3. PICK x \in T : z = m - x
      OBVIOUS
<1>4. \A y \in T : m - x <= m - y
      BY <1>2, <1>3
<1> QED BY <1>3, <1>4

-----------------------------------------------------------------------------
(* Keys and what is under them.                                             *)

LEMMA HeldIsCredential ==
    ASSUME StoreInv, NEW k \in Keys
    PROVE  /\ Held(k) => pddb[k] \in Credential
           /\ pddb[k] \in Credential => /\ Held(k)
                                        /\ pddb[k].id \in Nat /\ pddb[k].order \in Nat
           /\ pddb[k] = NoEntry => ~Held(k)
           /\ pddb[k] = NoBytes => ~Held(k)
BY MadeAssumption DEF StoreInv, Held, Credential, NoEntry, NoBytes

\* A list that can be read is of the keys that hold credentials.
LEMMA ReadableIsListed ==
    ASSUME StoreInv, Readable
    PROVE  entries \in SUBSET Keys /\ \A k \in Keys : Held(k) <=> k \in entries
<1>1. entries \in (SUBSET Keys) \cup {Unlisted} /\ entries # Unlisted
      BY DEF StoreInv, Readable
<1>2. entries \in SUBSET Keys
      BY <1>1, Zenon
<1> QED BY <1>1, <1>2 DEF StoreInv, Readable

LEMMA RelistLists ==
    ASSUME Relist
    PROVE  entries' \in (SUBSET Keys) \cup {Unlisted}
<1>1. Listed(pddb') \in SUBSET Keys
      BY DEF Listed
<1> QED BY <1>1, Zenon DEF Relist

\* The order of a new credential is later than all, and no later than its number.
LEMMA NewOrderIsLast ==
    ASSUME IInv, Readable
    PROVE  /\ NewOrder \in 1..(made + 1)
           /\ \A k \in entries : pddb[k].order < NewOrder
<1>1. /\ entries \subseteq Keys /\ made \in Nat
      /\ \A k \in entries : pddb[k].order \in Nat /\ pddb[k].order <= made
      BY ReadableIsListed, HeldIsCredential, MadeAssumption DEF IInv, StoreInv, Numbered
<1>2. CASE entries = {}
      BY <1>1, <1>2 DEF NewOrder
<1>3. CASE entries # {}
      <2> DEFINE T == {pddb[k].order : k \in entries}
                 Greatest(n) == \A k \in entries : pddb[k].order <= n
      <2>1. T \subseteq Nat /\ T # {} /\ \A n \in T : n <= made
            BY <1>1, <1>3
      <2>2. \E n \in T : \A y \in T : y <= n
            <3> HIDE DEF T
            <3> QED BY <1>1, <2>1, GreatestExists
      <2>3. \E n \in T : Greatest(n)
            BY <2>2
      <2>4. (CHOOSE n \in T : Greatest(n)) \in T /\ Greatest(CHOOSE n \in T : Greatest(n))
            <3> HIDE DEF T, Greatest
            <3> QED BY <2>3
      <2>5. NewOrder = 1 + (CHOOSE n \in T : Greatest(n))
            BY <1>3 DEF NewOrder
      <2> DEFINE N == CHOOSE n \in T : Greatest(n)
      <2>6. N \in Nat /\ N <= made
            <3> HIDE DEF T, Greatest
            <3> QED BY <2>1, <2>4
      <2>7. \A k \in entries : pddb[k].order <= N
            BY <2>4
      <2>8. NewOrder = 1 + N
            BY <2>5
      <2> HIDE DEF N
      <2> QED BY <1>1, <2>6, <2>7, <2>8
<1> QED BY <1>2, <1>3

\* A credential is stored over the one of its account or where there is none.
LEMMA KeyForIsSafe ==
    ASSUME StoreInv, Readable, NEW rp \in RPs, NEW user \in Users, NEW k \in KeyFor(rp, user)
    PROVE  /\ k \in Keys
           /\ Held(k) => pddb[k].rp = rp /\ pddb[k].user = user
           /\ \A j \in Keys \ {k} : Held(j) => ~(pddb[j].rp = rp /\ pddb[j].user = user)
<1> DEFINE x == [rp |-> rp, user |-> user]
           old == {j \in entries : SameAccount(pddb[j], x)}
<1>1. \A j \in entries : j \in old <=> pddb[j].rp = rp /\ pddb[j].user = user
      BY DEF SameAccount
<1>2. entries \subseteq Keys /\ \A j \in Keys : Held(j) => j \in entries
      BY ReadableIsListed
<1>3. CASE old = {}
      BY <1>1, <1>2, <1>3 DEF KeyFor
<1>4. CASE old # {}
      <2>1. k \in old /\ Cardinality(old) = 1
            BY <1>4 DEF KeyFor
      <2>2. \A j \in old : j = k
            <3>0. 1 \in Int /\ Slots \in Int
                  BY SlotsAssumption
            <3>a. IsFiniteSet(1..Slots)
                  BY <3>0, FS_Interval, Zenon
            <3>b. old \subseteq Keys
                  BY <1>2
            <3>1. IsFiniteSet(Keys) /\ old \subseteq Keys
                  BY <3>a, <3>b DEF Keys
            <3> HIDE DEF old
            <3>2. IsFiniteSet(old)
                  BY <3>1, FS_Subset
            <3>3. PICK z : old = {z}
                  BY <2>1, <3>2, FS_Singleton
            <3> QED BY <2>1, <3>3
      <2> QED BY <1>1, <1>2, <2>1, <2>2
<1> QED BY <1>3, <1>4

-----------------------------------------------------------------------------
(* The inductive step.                                                      *)

\* The list is made anew, of all that is there.
LEMMA ListedHolds ==
    ASSUME NEW p, p \in [Keys -> Credential \cup {NoEntry, NoBytes}],
           NEW k \in Keys, p[k].id > 0
    PROVE  k \in Listed(p)
BY DEF Listed, NoEntry

\* What an update leaves that only empties keys, with a list of them that misses none.
LEMMA OnlyEmptied ==
    ASSUME IInv,
           pddb' \in [Keys -> Credential \cup {NoEntry, NoBytes}],
           \A k \in Keys : pddb'[k] = pddb[k] \/ pddb'[k] = NoEntry \/ pddb'[k] = NoBytes,
           entries' = entries \/ Relist,
           made' \in 0..MaxMade, made <= made'
    PROVE  /\ IInv'
           /\ \A k \in Keys : Held(k)' => Held(k) /\ pddb'[k] = pddb[k]
<1>1. \A k \in Keys : Held(k)' => Held(k) /\ pddb'[k] = pddb[k]
      BY DEF Held, NoEntry, NoBytes
<1>2. entries # Unlisted => \A k \in Keys : Held(k) => k \in entries
      BY DEF IInv, StoreInv
<1>3. entries' # Unlisted => \A k \in Keys : Held(k)' => k \in entries'
      BY <1>1, <1>2, ListedHolds DEF Held, Relist
<1>4. entries' \in (SUBSET Keys) \cup {Unlisted}
      BY RelistLists DEF IInv, StoreInv
<1>5. StoreInv'
      BY <1>3, <1>4 DEF StoreInv
<1>6. Numbered'
      <2> SUFFICES ASSUME NEW k \in Keys, Held(k)'
                   PROVE  pddb'[k].id <= made' /\ pddb'[k].order <= made'
          BY DEF Numbered
      <2>1. Held(k) /\ pddb'[k] = pddb[k]
            BY <1>1
      <2>2. /\ pddb[k].id \in Nat /\ pddb[k].order \in Nat
            /\ pddb[k].id <= made /\ pddb[k].order <= made
            BY <2>1, HeldIsCredential DEF IInv, Numbered
      <2> QED BY <2>1, <2>2, MadeAssumption DEF IInv, StoreInv
<1>7. OneCredentialPerAccount'
      BY <1>1 DEF IInv, OneCredentialPerAccount
<1> QED BY <1>1, <1>5, <1>6, <1>7 DEF IInv

\* The step of a credential that is stored whole, of one that is updated included.
LEMMA OneStored ==
    ASSUME IInv, NEW k \in Keys, NEW x \in Credential, Stored(k, x),
           made' \in 0..MaxMade, made <= made',
           x.id <= made', x.order <= made',
           Held(k) => SameAccount(pddb[k], x),
           \A j \in Keys \ {k} : Held(j) => /\ ~SameAccount(pddb[j], x)
                                            /\ pddb[j].id # x.id
                                            /\ pddb[j].order # x.order
    PROVE  /\ IInv'
           /\ \A j \in Keys : (Held(j) /\ Held(j)') => SameAccount(pddb[j], pddb[j]')
<1>1. /\ pddb' = [pddb EXCEPT ![k] = x] /\ entries' \in {Listed(pddb'), Unlisted}
      /\ pddb \in [Keys -> Credential \cup {NoEntry, NoBytes}]
      BY DEF Stored, Relist, IInv, StoreInv
<1>2. /\ pddb' \in [Keys -> Credential \cup {NoEntry, NoBytes}]
      /\ pddb'[k] = x
      /\ \A j \in Keys \ {k} : pddb'[j] = pddb[j]
      BY <1>1
<1>3. \A j \in Keys \ {k} : Held(j)' <=> Held(j)
      BY <1>2 DEF Held
<1>4. StoreInv'
      <2>1. entries' \in (SUBSET Keys) \cup {Unlisted}
            BY RelistLists DEF Stored
      <2>2. ASSUME entries' # Unlisted, NEW j \in Keys, Held(j)'
            PROVE  j \in entries'
            <3>1. entries' = Listed(pddb')
                  BY <1>1, <2>2
            <3>2. pddb'[j].id > 0
                  BY <2>2 DEF Held
            <3> QED BY <1>2, <2>2, <3>1, <3>2, ListedHolds
      <2> QED BY <1>2, <2>1, <2>2 DEF StoreInv
<1>5. Numbered'
      <2> SUFFICES ASSUME NEW j \in Keys, Held(j)'
                   PROVE  pddb'[j].id <= made' /\ pddb'[j].order <= made'
          BY DEF Numbered
      <2>1. CASE j = k
            BY <1>2, <2>1
      <2>2. CASE j # k
            <3>1. Held(j) /\ pddb'[j] = pddb[j]
                  BY <1>2, <1>3, <2>2
            <3>2. /\ pddb[j].id \in Nat /\ pddb[j].order \in Nat
                  /\ pddb[j].id <= made /\ pddb[j].order <= made
                  BY <3>1, HeldIsCredential DEF IInv, Numbered
            <3> QED BY <3>1, <3>2, MadeAssumption DEF IInv, StoreInv
      <2> QED BY <2>1, <2>2
<1>6. OneCredentialPerAccount'
      <2> SUFFICES ASSUME NEW i \in Keys, NEW j \in Keys, Held(i)', Held(j)', i # j
                   PROVE  /\ ~SameAccount(pddb'[i], pddb'[j])
                          /\ pddb'[i].id # pddb'[j].id
                          /\ pddb'[i].order # pddb'[j].order
          BY DEF OneCredentialPerAccount
      <2>1. CASE i = k
            BY <1>2, <1>3, <2>1 DEF SameAccount
      <2>2. CASE j = k
            BY <1>2, <1>3, <2>2 DEF SameAccount
      <2>3. CASE i # k /\ j # k
            BY <1>2, <1>3, <2>3 DEF IInv, OneCredentialPerAccount
      <2> QED BY <2>1, <2>2, <2>3
<1>7. \A j \in Keys : (Held(j) /\ Held(j)') => SameAccount(pddb[j], pddb[j]')
      BY <1>2 DEF SameAccount
<1> QED BY <1>4, <1>5, <1>6, <1>7 DEF IInv

-----------------------------------------------------------------------------
(* The steps of the commands.                                               *)

\* What every step does.
StepIsSafe == /\ IInv'
              /\ \A k \in Keys : (Held(k) /\ Held(k)') => SameAccount(pddb[k], pddb[k]')

LEMMA EmptyingIsSafe ==
    ASSUME IInv,
           pddb' \in [Keys -> Credential \cup {NoEntry, NoBytes}],
           \A k \in Keys : pddb'[k] = pddb[k] \/ pddb'[k] = NoEntry \/ pddb'[k] = NoBytes,
           entries' = entries \/ Relist,
           made' \in 0..MaxMade, made <= made'
    PROVE  StepIsSafe
BY OnlyEmptied DEF StepIsSafe, SameAccount

\* Whatever reads the store alone.
LEMMA ReadingIsSafe ==
    ASSUME IInv, UNCHANGED <<pddb, made>>,
           entries' = entries \/ Relist
    PROVE  StepIsSafe
<1>1. pddb' = pddb /\ made' = made /\ made \in 0..MaxMade /\ made <= made'
      BY MadeAssumption DEF IInv, StoreInv
<1>2. pddb' \in [Keys -> Credential \cup {NoEntry, NoBytes}]
      BY <1>1 DEF IInv, StoreInv
<1> QED BY <1>1, <1>2, EmptyingIsSafe

LEMMA BrokenIsSafe ==
    ASSUME IInv, NEW k \in Keys, Broken(k),
           entries' = entries \/ Relist,
           made' \in 0..MaxMade, made <= made'
    PROVE  StepIsSafe
<1>1. PICK v \in {NoEntry, NoBytes} : pddb' = [pddb EXCEPT ![k] = v]
      BY DEF Broken
<1>2. /\ pddb' \in [Keys -> Credential \cup {NoEntry, NoBytes}]
      /\ \A j \in Keys : pddb'[j] = pddb[j] \/ pddb'[j] = NoEntry \/ pddb'[j] = NoBytes
      BY <1>1 DEF IInv, StoreInv
<1> QED BY <1>2, EmptyingIsSafe

LEMMA MakeCredentialIsSafe ==
    ASSUME IInv, NEW c \in Channels, NEW rp \in RPs, NEW user \in Users, NEW policy \in Policies,
           MakeCredential(c, rp, user, policy)
    PROVE  StepIsSafe
<1>1. /\ made' \in 0..MaxMade /\ made' = made + 1 /\ made \in Nat /\ made <= made'
      /\ made' \in 1..MaxMade
      /\ Readable
      BY MadeAssumption DEF MakeCredential, IInv, StoreInv
<1> DEFINE x == [id |-> made', rp |-> rp, user |-> user, order |-> NewOrder, policy |-> policy]
<1>2. PICK k \in KeyFor(rp, user) :
           \/ Stored(k, x)
           \/ Broken(k) /\ UNCHANGED entries
           \/ Broken(k) /\ PowerUp
      BY DEF MakeCredential
<1>3. /\ k \in Keys
      /\ Held(k) => pddb[k].rp = rp /\ pddb[k].user = user
      /\ \A j \in Keys \ {k} : Held(j) => ~(pddb[j].rp = rp /\ pddb[j].user = user)
      BY <1>1, KeyForIsSafe DEF IInv
<1>4. CASE Stored(k, x)
      <2>1. /\ NewOrder \in 1..(made + 1)
            /\ \A j \in entries : pddb[j].order < NewOrder
            BY <1>1, NewOrderIsLast
      <2>2. NewOrder \in 1..MaxMade /\ NewOrder <= made'
            BY <1>1, <2>1, MadeAssumption
      <2>3. /\ x \in Credential
            /\ x.id = made' /\ x.order = NewOrder /\ x.rp = rp /\ x.user = user
            BY <1>1, <2>2 DEF Credential
      <2>4. \A j \in Keys \ {k} : Held(j) => /\ ~SameAccount(pddb[j], x)
                                             /\ pddb[j].id # x.id
                                             /\ pddb[j].order # x.order
            <3> SUFFICES ASSUME NEW j \in Keys \ {k}, Held(j)
                         PROVE  /\ ~SameAccount(pddb[j], x)
                                /\ pddb[j].id # x.id
                                /\ pddb[j].order # x.order
                OBVIOUS
            <3> HIDE DEF x
            <3>1. ~SameAccount(pddb[j], x)
                  BY <1>3, <2>3 DEF SameAccount
            <3>2. pddb[j].id \in Nat /\ pddb[j].order \in Nat /\ pddb[j].id <= made
                  BY HeldIsCredential DEF IInv, Numbered
            <3>3. j \in entries
                  BY <1>1 DEF IInv, StoreInv, Readable
            <3> QED BY <1>1, <2>1, <2>2, <2>3, <3>1, <3>2, <3>3
      <2>5. Held(k) => SameAccount(pddb[k], x)
            BY <1>3, <2>3 DEF SameAccount
      <2> HIDE DEF x
      <2>6. x.id <= made' /\ x.order <= made'
            BY <1>1, <2>2, <2>3
      <2> QED BY <1>1, <1>3, <1>4, <2>3, <2>4, <2>5, <2>6, OneStored DEF StepIsSafe
<1>5. CASE Broken(k) /\ UNCHANGED entries
      BY <1>1, <1>3, <1>5, BrokenIsSafe
<1>6. CASE Broken(k) /\ PowerUp
      BY <1>1, <1>3, <1>6, BrokenIsSafe DEF PowerUp
<1> QED BY <1>2, <1>4, <1>5, <1>6

LEMMA UpdateUserIsSafe ==
    ASSUME IInv, NEW c \in Channels, NEW k \in Keys, UpdateUser(c, k)
    PROVE  StepIsSafe
<1>1. made' = made /\ made \in 0..MaxMade /\ made' \in 0..MaxMade /\ made <= made'
      BY MadeAssumption DEF UpdateUser, IInv, StoreInv
<1>2. Held(k)
      BY DEF UpdateUser, Readable
<1>3. CASE Stored(k, pddb[k])
      <2>1. /\ pddb[k] \in Credential
            /\ pddb[k].id <= made' /\ pddb[k].order <= made'
            BY <1>1, <1>2, HeldIsCredential DEF IInv, Numbered
      <2>2. SameAccount(pddb[k], pddb[k])
            BY DEF SameAccount
      <2>3. \A j \in Keys \ {k} : Held(j) => /\ ~SameAccount(pddb[j], pddb[k])
                                             /\ pddb[j].id # pddb[k].id
                                             /\ pddb[j].order # pddb[k].order
            BY <1>2 DEF IInv, OneCredentialPerAccount
      <2> QED BY <1>1, <1>3, <2>1, <2>2, <2>3, OneStored DEF StepIsSafe
<1>4. CASE Broken(k) /\ UNCHANGED entries
      BY <1>1, <1>4, BrokenIsSafe
<1>5. CASE Broken(k) /\ PowerUp
      BY <1>1, <1>5, BrokenIsSafe DEF PowerUp
<1> QED BY <1>3, <1>4, <1>5 DEF UpdateUser

LEMMA DeleteCredentialIsSafe ==
    ASSUME IInv, NEW c \in Channels, NEW k \in Keys, DeleteCredential(c, k)
    PROVE  StepIsSafe
<1>1. made' \in 0..MaxMade /\ made <= made'
      BY MadeAssumption DEF DeleteCredential, IInv, StoreInv
<1>2. Broken(k) /\ Relist
      BY DEF DeleteCredential, Stored, Broken
<1> QED BY <1>1, <1>2, BrokenIsSafe

LEMMA ResetIsSafe ==
    ASSUME IInv, NEW c \in Channels, Reset(c)
    PROVE  StepIsSafe
<1>1. made' \in 0..MaxMade /\ made <= made'
      BY MadeAssumption DEF Reset, IInv, StoreInv
<1>2. PICK gone \in SUBSET Keys :
           /\ pddb' = [k \in Keys |-> IF k \in gone THEN NoEntry ELSE pddb[k]]
           /\ \/ Relist
              \/ UNCHANGED entries
              \/ PowerUp
      BY DEF Reset
<1>3. /\ pddb' \in [Keys -> Credential \cup {NoEntry, NoBytes}]
      /\ \A k \in Keys : pddb'[k] = pddb[k] \/ pddb'[k] = NoEntry \/ pddb'[k] = NoBytes
      BY <1>2 DEF IInv, StoreInv
<1>4. CASE Relist
      BY <1>1, <1>3, <1>4, EmptyingIsSafe
<1>5. CASE UNCHANGED entries
      BY <1>1, <1>3, <1>5, EmptyingIsSafe
<1>6. CASE PowerUp
      BY <1>1, <1>3, <1>6, EmptyingIsSafe DEF PowerUp
<1> QED BY <1>2, <1>4, <1>5, <1>6

-----------------------------------------------------------------------------
LEMMA InitInv == ASSUME Init PROVE IInv
<1>1. \A k \in Keys : ~Held(k)
      BY DEF Init, Held, NoEntry
<1>2. StoreInv
      BY <1>1, MadeAssumption DEF Init, StoreInv
<1> QED BY <1>1, <1>2 DEF IInv, Numbered, OneCredentialPerAccount

LEMMA NextIsSafe == ASSUME IInv, [Next]_vars PROVE StepIsSafe
<1>1. CASE UNCHANGED vars
      BY <1>1, ReadingIsSafe DEF vars
<1>2. ASSUME NEW c \in Channels, Use(c) PROVE StepIsSafe
      <2>1. ASSUME NEW rp \in RPs, NEW user \in Users, NEW policy \in Policies,
                   MakeCredential(c, rp, user, policy)
            PROVE  StepIsSafe
            BY <2>1, MakeCredentialIsSafe
      <2>2. ASSUME NEW rp \in RPs, NEW uv \in BOOLEAN, NEW up \in BOOLEAN, GetAssertion(c, rp, uv, up)
            PROVE  StepIsSafe
            BY <2>2, ReadingIsSafe DEF GetAssertion
      <2>3. ASSUME GetNext(c, "GetNextAssertion", "GetAssertion") PROVE StepIsSafe
            BY <2>3, ReadingIsSafe DEF GetNext
      <2> QED BY <1>2, <2>1, <2>2, <2>3 DEF Use
<1>3. ASSUME NEW c \in Channels, Manage(c) PROVE StepIsSafe
      <2>1. ASSUME EnumerateRps(c) PROVE StepIsSafe
            BY <2>1, ReadingIsSafe DEF EnumerateRps
      <2>2. ASSUME GetNextRp(c) PROVE StepIsSafe
            BY <2>2, ReadingIsSafe DEF GetNextRp
      <2>3. ASSUME NEW rp \in RPs, EnumerateCredentials(c, rp) PROVE StepIsSafe
            BY <2>3, ReadingIsSafe DEF EnumerateCredentials
      <2>4. ASSUME GetNext(c, "GetNextCredential", "EnumerateCredentials") PROVE StepIsSafe
            BY <2>4, ReadingIsSafe DEF GetNext
      <2>5. ASSUME NEW k \in Keys, DeleteCredential(c, k) PROVE StepIsSafe
            BY <2>5, DeleteCredentialIsSafe
      <2>6. ASSUME NEW k \in Keys, UpdateUser(c, k) PROVE StepIsSafe
            BY <2>6, UpdateUserIsSafe
      <2> QED BY <1>3, <2>1, <2>2, <2>3, <2>4, <2>5, <2>6 DEF Manage
<1>4. ASSUME NEW c \in Channels, Reset(c) PROVE StepIsSafe
      BY <1>4, ResetIsSafe
<1>5. ASSUME NEW c \in Channels, NEW kind \in Kinds, Refuse(c, kind) PROVE StepIsSafe
      BY <1>5, ReadingIsSafe DEF Refuse
<1>6. CASE OtherUpdate
      BY <1>6, ReadingIsSafe DEF OtherUpdate
<1>7. CASE Expire
      BY <1>7, ReadingIsSafe DEF Expire
<1>8. CASE UpdateTimeouts
      BY <1>8, ReadingIsSafe DEF UpdateTimeouts
<1>9. CASE PowerCycle
      BY <1>9, ReadingIsSafe DEF PowerCycle, PowerUp
<1> QED BY <1>1, <1>2, <1>3, <1>4, <1>5, <1>6, <1>7, <1>8, <1>9 DEF Next

-----------------------------------------------------------------------------
\* The store of credentials is well formed, and every credential it holds is on the list
\* of keys if there is one, whatever calls to the PDDB failed or were cut short: no
\* credential is lost from sight (store_credential in ctap/storage.rs, Store.entries).
THEOREM StoreCorrect == Spec => []StoreInv
<1>1. IInv /\ [Next]_vars => IInv'
      BY NextIsSafe DEF StepIsSafe
<1> QED BY InitInv, <1>1, PTL DEF Spec, IInv

\* An account never has two credentials, and no two share an ID or an order of
\* creation, for any number of slots and accounts (store_credential,
\* new_creation_order in ctap/storage.rs).
THEOREM AccountsDistinct == Spec => []OneCredentialPerAccount
<1>1. IInv /\ [Next]_vars => IInv'
      BY NextIsSafe DEF StepIsSafe
<1> QED BY InitInv, <1>1, PTL DEF Spec, IInv

\* No step puts the credential of one account in place of that of another.
THEOREM CredentialsKept == Spec => NeverOverwritten
<1>1. IInv /\ [Next]_vars => IInv'
      BY NextIsSafe DEF StepIsSafe
<1>2. IInv /\ [Next]_vars =>
          [\A k \in Keys : (Held(k) /\ Held(k)') => SameAccount(pddb[k], pddb[k]')]_vars
      BY NextIsSafe DEF StepIsSafe
<1> QED BY InitInv, <1>1, <1>2, PTL DEF Spec, NeverOverwritten

-----------------------------------------------------------------------------
(* Series of answers: what is counted, put in order and given out.          *)

\* The keys that hold credentials, of a store.
HeldKeys(p) == {k \in Keys : p[k].id > 0}

\* Keys are finite in number.
LEMMA KeysFinite == IsFiniteSet(Keys) /\ \A S \in SUBSET Keys : IsFiniteSet(S)
<1>1. 1 \in Int /\ Slots \in Int
      BY SlotsAssumption
<1>2. IsFiniteSet(1..Slots)
      BY <1>1, FS_Interval, Zenon
<1> QED BY <1>2, FS_Subset DEF Keys

\* An order of a finite set is as long as the set and leaves nothing of it out.
LEMMA OrdersAreOnto ==
    ASSUME NEW S, IsFiniteSet(S), NEW s \in Orders(S)
    PROVE  /\ s \in Seq(S) /\ Len(s) = Cardinality(S)
           /\ \A x \in S : \E i \in 1..Len(s) : s[i] = x
           /\ \A i, j \in 1..Len(s) : s[i] = s[j] => i = j
<1> DEFINE n == Cardinality(S)
<1>1. n \in Nat
      BY FS_CardinalityType
<1>2. s \in [1..n -> S] /\ \A i, j \in 1..n : s[i] = s[j] => i = j
      BY DEF Orders
<1> HIDE DEF n
<1>3. s \in Seq(S) /\ Len(s) = n
      BY <1>1, <1>2
<1>4. s \in Injection(1..n, S)
      BY <1>2, Fun_IsInj
<1>5. Cardinality(1..n) = n
      BY <1>1, FS_Interval
<1>6. s \in Surjection(1..n, S)
      BY <1>4, <1>5, FS_Injection DEF n
<1>7. \A x \in S : \E i \in 1..n : s[i] = x
      BY <1>6 DEF Surjection
<1> QED BY <1>2, <1>3, <1>7 DEF n

\* Keys that hold credentials hold as many credentials.
LEMMA AsManyAsKeys ==
    ASSUME OneCredentialPerAccount, NEW S \in SUBSET HeldKeys(pddb)
    PROVE  IsFiniteSet(S) /\ Cardinality({pddb[k] : k \in S}) = Cardinality(S)
<1>1. IsFiniteSet(S) /\ S \subseteq Keys
      BY KeysFinite DEF HeldKeys, Held
<1> DEFINE T == {pddb[k] : k \in S}
           f == [k \in S |-> pddb[k]]
<1>2. \A j, k \in S : pddb[j] = pddb[k] => j = k
      BY DEF OneCredentialPerAccount, HeldKeys, Held
<1>3. f \in Bijection(S, T)
      <2>1. f \in [S -> T] /\ \A j, k \in S : f[j] = f[k] => j = k
            BY <1>2
      <2>2. \A x \in T : \E k \in S : f[k] = x
            OBVIOUS
      <2> HIDE DEF f, T
      <2> QED BY <2>1, <2>2, Fun_IsBij
<1>4. ExistsBijection(S, T)
      BY <1>3 DEF ExistsBijection
<1>5. Cardinality(T) = Cardinality(S)
      <2> HIDE DEF T
      <2> QED BY <1>1, <1>4, FS_Bijection
<1> QED BY <1>1, <1>5

\* How many of R are less than r.
Below(R, r) == Cardinality({q \in R : q < r})

\* Of a finite set of numbers there is one with i below it, for each i there can be.
LEMMA Ranks ==
    ASSUME NEW R \in SUBSET Nat, IsFiniteSet(R)
    PROVE  /\ Cardinality(R) \in Nat
           /\ \A r \in R : Below(R, r) \in 0..(Cardinality(R) - 1)
           /\ \A q, r \in R : q < r => Below(R, q) < Below(R, r)
           /\ \A i \in 0..(Cardinality(R) - 1) : \E r \in R : Below(R, r) = i
<1> DEFINE n == Cardinality(R)
           B(r) == {q \in R : q < r}
<1>1. n \in Nat
      BY FS_CardinalityType
<1>2. \A r \in R : IsFiniteSet(B(r)) /\ Cardinality(B(r)) \in Nat
      BY FS_Subset, FS_CardinalityType
<1>3. ASSUME NEW r \in R PROVE Cardinality(B(r)) \in 0..(n - 1)
      <2>1. IsFiniteSet(R \ {r}) /\ Cardinality(R \ {r}) = n - 1
            BY FS_RemoveElement
      <2>2. B(r) \in SUBSET (R \ {r})
            OBVIOUS
      <2>3. Cardinality(B(r)) <= Cardinality(R \ {r})
            <3> HIDE DEF B
            <3> QED BY <2>1, <2>2, FS_Subset
      <2> HIDE DEF B, n
      <2> QED BY <1>1, <1>2, <2>1, <2>3
<1>4. ASSUME NEW q \in R, NEW r \in R, q < r PROVE Cardinality(B(q)) < Cardinality(B(r))
      <2>1. IsFiniteSet(B(q)) /\ q \notin B(q)
            BY <1>2
      <2>2. IsFiniteSet(B(q) \cup {q}) /\ Cardinality(B(q) \cup {q}) = Cardinality(B(q)) + 1
            <3> HIDE DEF B
            <3> QED BY <2>1, FS_AddElement
      <2>3. B(q) \cup {q} \in SUBSET B(r)
            <3>1. \A x \in R : x < q => x < r
                  BY <1>4
            <3> QED BY <1>4, <3>1
      <2>4. Cardinality(B(q) \cup {q}) <= Cardinality(B(r))
            <3> HIDE DEF B
            <3> QED BY <1>2, <2>3, FS_Subset
      <2> HIDE DEF B
      <2> QED BY <1>2, <2>2, <2>4
<1>5. ASSUME NEW i \in 0..(n - 1) PROVE \E r \in R : Cardinality(B(r)) = i
      <2> DEFINE f == [r \in R |-> Cardinality(B(r))]
      <2>1. f \in [R -> 0..(n - 1)]
            BY <1>3
      <2>2. \A q, r \in R : f[q] = f[r] => q = r
            <3> SUFFICES ASSUME NEW q \in R, NEW r \in R, q # r PROVE f[q] # f[r]
                OBVIOUS
            <3>1. Cardinality(B(q)) # Cardinality(B(r))
                  <4>1. q < r \/ r < q
                        OBVIOUS
                  <4> HIDE DEF B
                  <4> QED BY <1>2, <1>4, <4>1
            <3> HIDE DEF B
            <3> QED BY <3>1
      <2>3. f \in Injection(R, 0..(n - 1))
            <3> HIDE DEF f, n
            <3> QED BY <2>1, <2>2, Fun_IsInj
      <2>4. IsFiniteSet(0..(n - 1)) /\ Cardinality(0..(n - 1)) = n
            <3> HIDE DEF n
            <3>1. n - 1 \in Int /\ 0 \in Int
                  BY <1>1
            <3>2. /\ IsFiniteSet(0..(n - 1))
                  /\ Cardinality(0..(n - 1)) = IF 0 > n - 1 THEN 0 ELSE (n - 1) - 0 + 1
                  BY <3>1, FS_Interval
            <3> QED BY <1>1, <3>2
      <2>5. f \in Surjection(R, 0..(n - 1))
            <3> HIDE DEF f
            <3> QED BY <2>3, <2>4, FS_Injection
      <2>6. \E r \in R : f[r] = i
            BY <2>5 DEF Surjection
      <2> QED BY <2>6
<1> HIDE DEF n, B
<1>6. \A r : Below(R, r) = Cardinality(B(r))
      BY DEF Below, B
<1> QED BY <1>1, <1>3, <1>4, <1>5, <1>6 DEF n

\* The last of a series, and the others.
LEMMA TakeLast ==
    ASSUME NEW S, NEW s \in Seq(S), s # <<>>
    PROVE  /\ Last(s) \in S /\ Len(s) \in Nat /\ Len(s) > 0 /\ Last(s) = s[Len(s)]
           /\ Front(s) \in Seq(S) /\ Len(Front(s)) = Len(s) - 1
           /\ \A i \in 1..(Len(s) - 1) : Front(s)[i] = s[i]
<1>1. Len(s) \in Nat /\ Len(s) > 0
      OBVIOUS
<1>2. Last(s) = s[Len(s)] /\ Last(s) \in S
      BY <1>1 DEF Last
<1>3. /\ Front(s) \in Seq(S) /\ Len(Front(s)) = Len(s) - 1
      /\ \A i \in 1..(Len(s) - 1) : Front(s)[i] = s[i]
      <2>1. 1 \in Int /\ Len(s) - 1 \in Int /\ \A i \in 1..(Len(s) - 1) : s[i] \in S
            BY <1>1
      <2>2. /\ Front(s) \in Seq(S)
            /\ Len(Front(s)) = (IF 1 <= Len(s) - 1 THEN (Len(s) - 1) - 1 + 1 ELSE 0)
            /\ \A i \in 1..((Len(s) - 1) - 1 + 1) : Front(s)[i] = s[1 + i - 1]
            BY <2>1, SubSeqProperties DEF Front
      <2>3. Len(Front(s)) = Len(s) - 1
            <3> DEFINE n == Len(s)
            <3>1. n \in Nat /\ n > 0 /\ Len(Front(s)) = (IF 1 <= n - 1 THEN (n - 1) - 1 + 1 ELSE 0)
                  BY <1>1, <2>2
            <3> HIDE DEF n
            <3>2. Len(Front(s)) = n - 1
                  BY <3>1
            <3> QED BY <3>2 DEF n
      <2>4. ASSUME NEW i \in 1..(Len(s) - 1) PROVE Front(s)[i] = s[i]
            <3>1. i \in 1..((Len(s) - 1) - 1 + 1) /\ 1 + i - 1 = i
                  BY <1>1
            <3> QED BY <2>2, <3>1
      <2> QED BY <2>2, <2>3, <2>4
<1> QED BY <1>1, <1>2, <1>3

\* What was given, and what the keys that are left stand for in the store p, are the
\* credentials of all, in its order.
Told(p, g, ks, all) ==
    /\ Len(g) + Len(ks) = Len(all)
    /\ \A i \in 1..Len(g) : g[i] \in Answers(all[i])
    /\ \A i \in 1..Len(ks) : p[ks[i]] = all[Len(all) + 1 - i]

LEMMA FollowsIs ==
    ASSUME NEW K, command.keys \in Seq(K), NEW G, given \in Seq(G), NEW all,
           Told(pddb, given, command.keys, all)
    PROVE  Follows(all)
<1>1. DOMAIN given = 1..Len(given) /\ DOMAIN command.keys = 1..Len(command.keys)
      OBVIOUS
<1> QED BY <1>1 DEF Follows, Told

\* The last key is taken off, and its credential, or an error, is given.
LEMMA TellNext ==
    ASSUME NEW p, NEW K, NEW ks \in Seq(K), ks # <<>>, NEW G, NEW g \in Seq(G), NEW all,
           Told(p, g, ks, all), NEW x \in Answers(p[Last(ks)])
    PROVE  Told(p, Append(g, x), Front(ks), all)
<1> DEFINE h  == Append(g, x)
           fs == Front(ks)
           n  == Len(ks)
           m  == Len(g)
<1>1. /\ Len(h) = m + 1 /\ m \in Nat /\ h[m + 1] = x
      /\ \A i \in 1..m : h[i] = g[i]
      OBVIOUS
<1>2. /\ n \in Nat /\ n > 0 /\ Last(ks) = ks[n] /\ Len(fs) = n - 1
      /\ \A i \in 1..(n - 1) : fs[i] = ks[i]
      BY TakeLast
<1>3. /\ m + n = Len(all)
      /\ \A i \in 1..m : g[i] \in Answers(all[i])
      /\ \A i \in 1..n : p[ks[i]] = all[Len(all) + 1 - i]
      BY DEF Told
<1> HIDE DEF h, fs, n, m
<1> DEFINE l == Len(all)
           a == Len(h)
           b == Len(fs)
<1>a. l = m + n /\ a = m + 1 /\ b = n - 1
      BY <1>1, <1>2, <1>3
<1> HIDE DEF l, a, b
<1>b. n \in 1..n /\ l + 1 - n = m + 1 /\ a + b = l
      BY <1>1, <1>2, <1>a
<1>4. x \in Answers(all[m + 1])
      <2>1. p[ks[n]] = all[m + 1]
            BY <1>3, <1>b DEF l
      <2> QED BY <1>2, <2>1
<1>5. Len(h) + Len(fs) = Len(all)
      BY <1>b DEF l, a, b
<1>6. ASSUME NEW i \in 1..Len(h) PROVE h[i] \in Answers(all[i])
      <2>1. i \in 1..m \/ i = m + 1
            BY <1>1
      <2> QED BY <1>1, <1>3, <1>4, <2>1
<1>7. ASSUME NEW i \in 1..Len(fs) PROVE p[fs[i]] = all[Len(all) + 1 - i]
      <2>1. i \in 1..(n - 1) /\ i \in 1..n
            BY <1>2
      <2> QED BY <1>2, <1>3, <2>1
<1>8. Told(p, h, fs, all)
      BY <1>5, <1>6, <1>7 DEF Told
<1> QED BY <1>8 DEF h, fs

\* The credentials under the keys of a series that begins, the last key's first.
Backwards(p, ks) == [i \in 1..Len(ks) |-> p[ks[Len(ks) + 1 - i]]]

\* Any order of keys that hold the credentials s begins a series of them.
LEMMA TellBegins ==
    ASSUME OneCredentialPerAccount, NEW S \in SUBSET HeldKeys(pddb), NEW ks \in Orders(S), ks # <<>>,
           NEW x \in Answers(pddb[Last(ks)])
    PROVE  /\ ks \in Seq(S) /\ Last(ks) \in S /\ Front(ks) \in Seq(Keys)
           /\ Backwards(pddb, ks) \in Orders({pddb[k] : k \in S})
           /\ Told(pddb, <<x>>, Front(ks), Backwards(pddb, ks))
<1> DEFINE s   == {pddb[k] : k \in S}
           n   == Len(ks)
           all == Backwards(pddb, ks)
<1>1. IsFiniteSet(S) /\ Cardinality(s) = Cardinality(S)
      BY AsManyAsKeys
<1>2. /\ ks \in Seq(S) /\ n = Cardinality(S) /\ n \in Nat
      /\ \A i, j \in 1..n : ks[i] = ks[j] => i = j
      BY <1>1, OrdersAreOnto, FS_CardinalityType
<1>3. \A i \in 1..n : ks[i] \in S
      BY <1>2
<1>4. S \subseteq Keys /\ \A j, k \in S : pddb[j] = pddb[k] => j = k
      BY DEF OneCredentialPerAccount, HeldKeys, Held
<1>5. Last(ks) \in S /\ Front(ks) \in Seq(S)
      BY <1>2, TakeLast
<1>6. Front(ks) \in Seq(Keys)
      BY <1>4, <1>5
<1>7. all \in [1..n -> s] /\ \A i \in 1..n : all[i] = pddb[ks[n + 1 - i]]
      <2>1. \A i \in 1..n : n + 1 - i \in 1..n
            BY <1>2
      <2> HIDE DEF n
      <2> QED BY <1>3, <2>1 DEF Backwards, n
<1>8. \A i, j \in 1..n : all[i] = all[j] => i = j
      <2> SUFFICES ASSUME NEW i \in 1..n, NEW j \in 1..n, all[i] = all[j] PROVE i = j
          OBVIOUS
      <2>1. n + 1 - i \in 1..n /\ n + 1 - j \in 1..n
            BY <1>2
      <2>a. all[i] = pddb[ks[n + 1 - i]] /\ all[j] = pddb[ks[n + 1 - j]]
            BY <1>7
      <2>b. ks[n + 1 - i] \in S /\ ks[n + 1 - j] \in S
            BY <1>3, <2>1
      <2>2. ks[n + 1 - i] = ks[n + 1 - j]
            BY <1>4, <2>a, <2>b
      <2> HIDE DEF n
      <2>3. n + 1 - i = n + 1 - j
            BY <1>2, <2>1, <2>2
      <2> QED BY <1>2, <2>3
<1>9. all \in Orders(s)
      <2>1. DOMAIN all = 1..n /\ Cardinality(s) = n
            BY <1>1, <1>2, <1>7
      <2> HIDE DEF all, s, n
      <2> QED BY <1>7, <1>8, <2>1 DEF Orders
<1>10. Told(pddb, <<>>, ks, all)
      <2>1. Len(all) = n /\ Len(<<>>) = 0
            BY <1>2, <1>7
      <2>2. ASSUME NEW i \in 1..n PROVE pddb[ks[i]] = all[Len(all) + 1 - i]
            <3>1. n + 1 - i \in 1..n /\ n + 1 - (n + 1 - i) = i
                  BY <1>2
            <3> HIDE DEF all
            <3> QED BY <1>7, <2>1, <3>1
      <2>3. \A i \in 1..Len(<<>>) : FALSE
            BY <2>1
      <2> HIDE DEF all
      <2> QED BY <1>2, <2>1, <2>2, <2>3 DEF Told
<1>11. Append(<<>>, x) = <<x>> /\ <<>> \in Seq(S)
      OBVIOUS
<1> HIDE DEF all, s
<1>12. Told(pddb, <<x>>, Front(ks), all)
      <2>1. Told(pddb, Append(<<>>, x), Front(ks), all)
            BY <1>2, <1>10, <1>11, TellNext
      <2> QED BY <1>11, <2>1
<1> QED BY <1>2, <1>5, <1>6, <1>9, <1>12 DEF all, s

-----------------------------------------------------------------------------
(* The series under way.                                                    *)

HeldRps(p)            == {p[k].rp : k \in HeldKeys(p)}
WantedKeys(p, rp, uv) == {k \in HeldKeys(p) : p[k].rp = rp /\ Visible(p[k], uv)}
Wanted(p, rp, uv)     == {p[k] : k \in WantedKeys(p, rp, uv)}

AssertionSeries  == [kind : {"GetAssertion"}, rp : RPs, uv : BOOLEAN, keys : Seq(Keys)]
CredentialSeries == [kind : {"EnumerateCredentials"}, rp : RPs, keys : Seq(Keys)]
RpSeries         == [kind : {"EnumerateRps"}, index : Nat]

Assertions(p, com, g) ==
    /\ com \in AssertionSeries /\ g \in Seq(Credential \cup {NoAnswer})
    /\ \E all \in NewestFirst(Wanted(p, com.rp, com.uv)) : Told(p, g, com.keys, all)

Enumerated(p, com, g) ==
    /\ com \in CredentialSeries /\ g \in Seq(Credential \cup {NoAnswer})
    /\ \E all \in Orders(Wanted(p, com.rp, TRUE)) : Told(p, g, com.keys, all)

\* Each relying party in its place, or an error.
RpsInOrder(p, com, g) ==
    /\ com \in RpSeries /\ g \in Seq(RPs \cup {NoRp})
    /\ com.index = Len(g)
    /\ \A i \in 1..Len(g) : g[i] # NoRp =>
           g[i] \in HeldRps(p) /\ Below(HeldRps(p), g[i]) = i - 1

NoSeries(com, g) == com \in {Idle, Fresh} /\ g = <<>>

SeriesInv == \/ NoSeries(command, given)
             \/ Assertions(pddb, command, given)
             \/ Enumerated(pddb, command, given)
             \/ RpsInOrder(pddb, command, given)

LEMMA SeriesByKind ==
    ASSUME SeriesInv
    PROVE  /\ command.kind = "GetAssertion" => Assertions(pddb, command, given)
           /\ command.kind = "EnumerateCredentials" => Enumerated(pddb, command, given)
           /\ command.kind = "EnumerateRps" => RpsInOrder(pddb, command, given)
           /\ command.kind = "Reset" => NoSeries(command, given)
<1>1. CASE NoSeries(command, given)
      BY <1>1 DEF NoSeries, Idle, Fresh
<1>2. CASE Assertions(pddb, command, given)
      <2>1. command.kind = "GetAssertion"
            BY <1>2 DEF Assertions, AssertionSeries
      <2> QED BY <1>2, <2>1
<1>3. CASE Enumerated(pddb, command, given)
      <2>1. command.kind = "EnumerateCredentials"
            BY <1>3 DEF Enumerated, CredentialSeries
      <2> QED BY <1>3, <2>1
<1>4. CASE RpsInOrder(pddb, command, given)
      <2>1. command.kind = "EnumerateRps"
            BY <1>4 DEF RpsInOrder, RpSeries
      <2> QED BY <1>4, <2>1
<1> QED BY <1>1, <1>2, <1>3, <1>4 DEF SeriesInv

\* The list misses nothing, so that one that can be read is of the credentials.
LEMMA AllListed ==
    ASSUME StoreInv, Readable
    PROVE  /\ entries = HeldKeys(pddb)
           /\ StoredRps = HeldRps(pddb)
           /\ \A rp, uv : Matching(rp, uv) = WantedKeys(pddb, rp, uv)
<1>1. entries = HeldKeys(pddb)
      BY ReadableIsListed DEF HeldKeys, Held
<1> QED BY <1>1 DEF StoredRps, HeldRps, Matching, WantedKeys

\* What is held is of the types.
LEMMA HeldTypes ==
    ASSUME StoreInv, NEW k \in HeldKeys(pddb)
    PROVE  /\ k \in Keys /\ Held(k) /\ pddb[k] \in Credential
           /\ pddb[k].rp \in RPs /\ pddb[k].rp \in Nat /\ pddb[k].order \in Nat
           /\ k \in Listed(pddb)
<1>1. k \in Keys /\ Held(k)
      BY DEF HeldKeys, Held
<1>2. pddb[k] \in Credential /\ pddb[k].order \in Nat
      BY <1>1, HeldIsCredential
<1>3. pddb[k].rp \in RPs /\ pddb[k].rp \in Nat
      BY <1>2, RPsAssumption DEF Credential
<1>4. k \in Listed(pddb)
      BY <1>1, ListedHolds DEF StoreInv, Held
<1> QED BY <1>1, <1>2, <1>3, <1>4

LEMMA RpsAreNumbers ==
    ASSUME StoreInv
    PROVE  /\ HeldRps(pddb) \subseteq RPs /\ HeldRps(pddb) \in SUBSET Nat
           /\ IsFiniteSet(HeldRps(pddb))
<1>1. HeldRps(pddb) \subseteq RPs
      BY HeldTypes DEF HeldRps
<1>2. IsFiniteSet(HeldRps(pddb))
      BY <1>1, RPsAssumption, FS_Subset
<1> QED BY <1>1, <1>2, RPsAssumption

-----------------------------------------------------------------------------
(* The steps of the series.                                                 *)

LEMMA SeriesStays ==
    ASSUME SeriesInv, UNCHANGED <<pddb, command, given>>
    PROVE  SeriesInv'
<1>1. CASE NoSeries(command, given)
      <2>1. NoSeries(command', given')
            BY <1>1
      <2> QED BY <2>1 DEF SeriesInv
<1>2. CASE Assertions(pddb, command, given)
      <2>1. Assertions(pddb', command', given')
            BY <1>2
      <2> QED BY <2>1 DEF SeriesInv
<1>3. CASE Enumerated(pddb, command, given)
      <2>1. Enumerated(pddb', command', given')
            BY <1>3
      <2> QED BY <2>1 DEF SeriesInv
<1>4. CASE RpsInOrder(pddb, command, given)
      <2>1. RpsInOrder(pddb', command', given')
            BY <1>4
      <2> QED BY <2>1 DEF SeriesInv
<1> QED BY <1>1, <1>2, <1>3, <1>4 DEF SeriesInv

LEMMA SeriesEnds ==
    ASSUME NoSeries(command', given')
    PROVE  SeriesInv'
BY DEF SeriesInv

LEMMA ClearEnds == ASSUME Clear PROVE NoSeries(command', given')
BY DEF Clear, NoSeries

LEMMA PowerUpEnds == ASSUME PowerUp PROVE NoSeries(command', given')
BY DEF PowerUp, NoSeries

\* A command that continues no series ends it.
LEMMA EnterEnds ==
    ASSUME SeriesInv, NEW c, NEW kind, Enter(c, kind),
           kind \notin {"GetNextAssertion", "GetNextRp", "GetNextCredential"}
    PROVE  NoSeries(command', given')
<1>1. CASE Kept(c, kind)
      <2>1. command.kind = "Reset"
            BY <1>1 DEF Kept, Continues
      <2>2. command' = command /\ given' = given
            BY <1>1 DEF Enter, permission
      <2> QED BY <2>1, <2>2, SeriesByKind
<1>2. CASE ~Kept(c, kind)
      BY <1>2, ClearEnds DEF Enter
<1> QED BY <1>1, <1>2

LEMMA EnterStaysOrEnds ==
    ASSUME NEW c, NEW kind, Enter(c, kind)
    PROVE  UNCHANGED <<command, given>> \/ NoSeries(command', given')
BY ClearEnds DEF Enter, permission

\* Keys in order of creation begin a series with the newest first.
LEMMA NewestBegins ==
    ASSUME IInv, NEW S \in SUBSET HeldKeys(pddb), NEW ks \in ByCreation(S), ks # <<>>,
           NEW x \in Answers(pddb[Last(ks)])
    PROVE  /\ ks \in Orders(S)
           /\ Backwards(pddb, ks) \in NewestFirst({pddb[k] : k \in S})
<1> DEFINE n   == Len(ks)
           all == Backwards(pddb, ks)
           s   == {pddb[k] : k \in S}
<1>1. /\ ks \in Orders(S)
      /\ \A i, j \in DOMAIN ks : i < j => pddb[ks[i]].order <= pddb[ks[j]].order
      BY DEF ByCreation
<1>2. ks \in Seq(S) /\ all \in Orders(s)
      BY <1>1, TellBegins DEF IInv
<1>3. \A i, j \in 1..n : ks[i] = ks[j] => i = j
      <2>1. IsFiniteSet(S)
            BY AsManyAsKeys DEF IInv
      <2> QED BY <1>1, <2>1, OrdersAreOnto
<1>4. \A k \in S : k \in Keys /\ Held(k) /\ pddb[k].order \in Nat
      BY HeldTypes DEF IInv
<1>5. n \in Nat /\ DOMAIN ks = 1..n /\ \A i \in 1..n : ks[i] \in S
      BY <1>2
<1>6. DOMAIN all = 1..n /\ \A i \in 1..n : all[i] = pddb[ks[n + 1 - i]]
      BY DEF Backwards
<1> HIDE DEF n, all, s
<1>7. ASSUME NEW i \in 1..n, NEW j \in 1..n, i < j PROVE all[i].order > all[j].order
      <2> DEFINE a == n + 1 - i
                 b == n + 1 - j
      <2>1. a \in 1..n /\ b \in 1..n /\ b < a
            BY <1>5, <1>7
      <2>2. all[i] = pddb[ks[a]] /\ all[j] = pddb[ks[b]]
            BY <1>6
      <2> HIDE DEF a, b
      <2>3. ks[a] # ks[b]
            BY <1>3, <2>1
      <2>4. pddb[ks[b]].order # pddb[ks[a]].order
            BY <1>4, <1>5, <2>1, <2>3 DEF IInv, OneCredentialPerAccount
      <2>5. pddb[ks[b]].order <= pddb[ks[a]].order
            BY <1>1, <1>5, <2>1
      <2>6. pddb[ks[a]].order \in Nat /\ pddb[ks[b]].order \in Nat
            BY <1>4, <1>5, <2>1
      <2> QED BY <2>2, <2>4, <2>5, <2>6
<1>8. all \in NewestFirst(s)
      BY <1>2, <1>6, <1>7 DEF NewestFirst
<1> QED BY <1>1, <1>8 DEF all, s

\* An answer for a key that holds a credential.
LEMMA AnswersTyped ==
    ASSUME StoreInv, NEW k \in HeldKeys(pddb), NEW x \in Answers(pddb[k])
    PROVE  x \in Credential \cup {NoAnswer}
BY HeldTypes DEF Answers

LEMMA GetAssertionKeepsSeries ==
    ASSUME IInv, NEW c, NEW rp \in RPs, NEW uv \in BOOLEAN, NEW up, GetAssertion(c, rp, uv, up)
    PROVE  SeriesInv'
<1> DEFINE S == WantedKeys(pddb, rp, uv)
<1>1. Matching(rp, uv) = S /\ pddb' = pddb
      BY AllListed DEF GetAssertion, IInv
<1>2. PICK ks \in ByCreation(S) :
           /\ ks # <<>>
           /\ IF Len(ks) = 1 THEN Clear
              ELSE \E x \in Answers(pddb[Last(ks)]) :
                      SetCommand([kind |-> "GetAssertion", rp |-> rp, uv |-> uv,
                                  keys |-> Front(ks)], c, x, up)
      BY <1>1 DEF GetAssertion
<1>3. S \in SUBSET HeldKeys(pddb)
      BY DEF WantedKeys
<1>4. CASE Clear
      BY <1>4, ClearEnds, SeriesEnds
<1>5. ASSUME NEW x \in Answers(pddb[Last(ks)]),
             SetCommand([kind |-> "GetAssertion", rp |-> rp, uv |-> uv, keys |-> Front(ks)], c, x, up)
      PROVE  SeriesInv'
      <2> DEFINE com == [kind |-> "GetAssertion", rp |-> rp, uv |-> uv, keys |-> Front(ks)]
                 all == Backwards(pddb, ks)
      <2>1. command' = com /\ given' = <<x>>
            BY <1>5 DEF SetCommand
      <2>2. com.keys = Front(ks) /\ com.rp = rp /\ com.uv = uv
            BY Zenon
      <2>3. /\ ks \in Orders(S)
            /\ all \in NewestFirst({pddb[k] : k \in S})
            <3> HIDE DEF S
            <3> QED BY <1>2, <1>3, NewestBegins
      <2>4. Last(ks) \in S /\ Front(ks) \in Seq(Keys) /\ Told(pddb, <<x>>, Front(ks), all)
            <3> HIDE DEF S, com
            <3> QED BY <1>2, <1>3, <2>3, TellBegins DEF IInv
      <2>5. com \in AssertionSeries
            BY <2>4 DEF AssertionSeries
      <2>6. <<x>> \in Seq(Credential \cup {NoAnswer})
            <3>1. x \in Credential \cup {NoAnswer}
                  <4> HIDE DEF S
                  <4> QED BY <1>3, <2>4, AnswersTyped DEF IInv
            <3> QED BY <3>1
      <2> HIDE DEF com, all
      <2>7. all \in NewestFirst(Wanted(pddb, com.rp, com.uv)) /\ Told(pddb, <<x>>, com.keys, all)
            BY <2>2, <2>3, <2>4 DEF Wanted
      <2>8. Assertions(pddb, com, <<x>>)
            BY <2>5, <2>6, <2>7 DEF Assertions
      <2>9. Assertions(pddb', command', given')
            BY <1>1, <2>1, <2>8
      <2> QED BY <2>9 DEF SeriesInv
<1> QED BY <1>2, <1>4, <1>5

LEMMA EnumerateCredentialsKeepsSeries ==
    ASSUME IInv, NEW c, NEW rp \in RPs, EnumerateCredentials(c, rp)
    PROVE  SeriesInv'
<1> DEFINE S == WantedKeys(pddb, rp, TRUE)
<1>1. Matching(rp, TRUE) = S /\ pddb' = pddb
      BY AllListed DEF EnumerateCredentials, IInv
<1>2. PICK ks \in Orders(S) :
           /\ ks # <<>>
           /\ IF Len(ks) = 1 THEN Clear
              ELSE \E x \in Answers(pddb[Last(ks)]) :
                      SetCommand([kind |-> "EnumerateCredentials", rp |-> rp,
                                  keys |-> Front(ks)], c, x, FALSE)
      BY <1>1 DEF EnumerateCredentials
<1>3. S \in SUBSET HeldKeys(pddb)
      BY DEF WantedKeys
<1>4. CASE Clear
      BY <1>4, ClearEnds, SeriesEnds
<1>5. ASSUME NEW x \in Answers(pddb[Last(ks)]),
             SetCommand([kind |-> "EnumerateCredentials", rp |-> rp, keys |-> Front(ks)], c, x, FALSE)
      PROVE  SeriesInv'
      <2> DEFINE com == [kind |-> "EnumerateCredentials", rp |-> rp, keys |-> Front(ks)]
                 all == Backwards(pddb, ks)
      <2>1. command' = com /\ given' = <<x>>
            BY <1>5 DEF SetCommand
      <2>2. com.keys = Front(ks) /\ com.rp = rp
            BY Zenon
      <2>3. /\ all \in Orders({pddb[k] : k \in S})
            /\ Last(ks) \in S /\ Front(ks) \in Seq(Keys) /\ Told(pddb, <<x>>, Front(ks), all)
            <3> HIDE DEF S, com
            <3> QED BY <1>2, <1>3, TellBegins DEF IInv
      <2>4. com \in CredentialSeries
            BY <2>3 DEF CredentialSeries
      <2>5. <<x>> \in Seq(Credential \cup {NoAnswer})
            <3>1. x \in Credential \cup {NoAnswer}
                  <4> HIDE DEF S
                  <4> QED BY <1>3, <2>3, AnswersTyped DEF IInv
            <3> QED BY <3>1
      <2> HIDE DEF com, all
      <2>6. all \in Orders(Wanted(pddb, com.rp, TRUE)) /\ Told(pddb, <<x>>, com.keys, all)
            BY <2>2, <2>3 DEF Wanted
      <2>7. Enumerated(pddb, com, <<x>>)
            BY <2>4, <2>5, <2>6 DEF Enumerated
      <2>8. Enumerated(pddb', command', given')
            BY <1>1, <2>1, <2>7
      <2> QED BY <2>8 DEF SeriesInv
<1> QED BY <1>2, <1>4, <1>5

\* GetNextAssertion and the next credential: the answer is for the key that is taken.
LEMMA GetNextKeepsSeries ==
    ASSUME IInv, SeriesInv, NEW c, NEW kind,
           \/ GetNext(c, kind, "GetAssertion")
           \/ GetNext(c, kind, "EnumerateCredentials")
    PROVE  SeriesInv'
<1> DEFINE ks   == command.keys
           rest == [command EXCEPT !.keys = Front(command.keys)]
<1>1. /\ pddb' = pddb /\ ks # <<>>
      /\ command.kind = "GetAssertion" \/ command.kind = "EnumerateCredentials"
      BY DEF GetNext
<1>2. PICK x \in IF Held(Last(ks)) THEN Answers(pddb[Last(ks)]) ELSE {NoAnswer} : Answer(rest, x)
      BY DEF GetNext
<1>3. /\ ks \in Seq(Keys) /\ given \in Seq(Credential \cup {NoAnswer})
      /\ \/ Assertions(pddb, command, given)
         \/ Enumerated(pddb, command, given)
      <2>1. CASE Assertions(pddb, command, given)
            BY <2>1 DEF Assertions, AssertionSeries
      <2>2. CASE Enumerated(pddb, command, given)
            BY <2>2 DEF Enumerated, CredentialSeries
      <2> QED BY <1>1, <2>1, <2>2, SeriesByKind
<1>4. Last(ks) \in Keys /\ Front(ks) \in Seq(Keys)
      BY <1>1, <1>3, TakeLast
<1>5. x \in Answers(pddb[Last(ks)]) /\ x \in Credential \cup {NoAnswer}
      BY <1>2, <1>4, HeldIsCredential DEF Answers, IInv
<1> DEFINE g == Append(given, x)
<1>6. command' = rest /\ given' = g /\ g \in Seq(Credential \cup {NoAnswer})
      BY <1>2, <1>3, <1>5 DEF Answer
<1>7. ASSUME NEW all, Told(pddb, given, ks, all)
      PROVE  Told(pddb, g, Front(ks), all)
      BY <1>1, <1>3, <1>5, <1>7, TellNext
<1> HIDE DEF g
<1>8. CASE Assertions(pddb, command, given)
      <2>1. PICK all \in NewestFirst(Wanted(pddb, command.rp, command.uv)) : Told(pddb, given, ks, all)
            BY <1>8 DEF Assertions
      <2>2. /\ rest \in AssertionSeries /\ rest.keys = Front(ks)
            /\ rest.rp = command.rp /\ rest.uv = command.uv
            BY <1>4, <1>8 DEF Assertions, AssertionSeries
      <2> HIDE DEF rest, ks
      <2>3. Assertions(pddb, rest, g)
            BY <1>6, <1>7, <2>1, <2>2 DEF Assertions
      <2>4. Assertions(pddb', command', given')
            BY <1>1, <1>6, <2>3
      <2> QED BY <2>4 DEF SeriesInv
<1>9. CASE Enumerated(pddb, command, given)
      <2>1. PICK all \in Orders(Wanted(pddb, command.rp, TRUE)) : Told(pddb, given, ks, all)
            BY <1>9 DEF Enumerated
      <2>2. rest \in CredentialSeries /\ rest.keys = Front(ks) /\ rest.rp = command.rp
            BY <1>4, <1>9 DEF Enumerated, CredentialSeries
      <2> HIDE DEF rest, ks
      <2>3. Enumerated(pddb, rest, g)
            BY <1>6, <1>7, <2>1, <2>2 DEF Enumerated
      <2>4. Enumerated(pddb', command', given')
            BY <1>1, <1>6, <2>3
      <2> QED BY <2>4 DEF SeriesInv
<1> QED BY <1>3, <1>8, <1>9

\* The relying party a place in the order stands for.
LEMMA NthRpIs ==
    ASSUME StoreInv, Readable, NEW i \in Nat, i < Cardinality(HeldRps(pddb))
    PROVE  NthRp(i) \in HeldRps(pddb) /\ Below(HeldRps(pddb), NthRp(i)) = i
<1> DEFINE R == HeldRps(pddb)
<1>1. R \in SUBSET Nat /\ IsFiniteSet(R) /\ StoredRps = R
      BY RpsAreNumbers, AllListed
<1>2. NthRp(i) = CHOOSE rp \in R : Below(R, rp) = i
      BY <1>1 DEF NthRp, Below
<1> HIDE DEF R
<1>3. Cardinality(R) \in Nat /\ \A j \in 0..(Cardinality(R) - 1) : \E r \in R : Below(R, r) = j
      BY <1>1, Ranks
<1>4. i \in 0..(Cardinality(R) - 1)
      BY <1>3 DEF R
<1>5. \E r \in R : Below(R, r) = i
      BY <1>3, <1>4
<1>6. NthRp(i) \in R /\ Below(R, NthRp(i)) = i
      BY <1>2, <1>5
<1> QED BY <1>6 DEF R

LEMMA EnumerateRpsKeepsSeries ==
    ASSUME IInv, NEW c, EnumerateRps(c)
    PROVE  SeriesInv'
<1> DEFINE R == HeldRps(pddb)
<1>1. Readable /\ pddb' = pddb /\ StoreInv
      BY DEF EnumerateRps, IInv
<1>2. R \subseteq RPs /\ IsFiniteSet(R) /\ StoredRps = R
      BY <1>1, RpsAreNumbers, AllListed
<1>3. R # {} /\ \/ Clear
                \/ /\ Cardinality(R) # 1
                   /\ SetCommand([kind |-> "EnumerateRps", index |-> 1], c, NthRp(0), FALSE)
      BY <1>2 DEF EnumerateRps
<1>4. CASE Clear
      BY <1>4, ClearEnds, SeriesEnds
<1>5. CASE /\ Cardinality(R) # 1
           /\ SetCommand([kind |-> "EnumerateRps", index |-> 1], c, NthRp(0), FALSE)
      <2> DEFINE com == [kind |-> "EnumerateRps", index |-> 1]
                 g   == <<NthRp(0)>>
      <2>1. command' = com /\ given' = g
            BY <1>5 DEF SetCommand
      <2>2. com \in RpSeries /\ com.index = 1
            BY DEF RpSeries
      <2>3. Cardinality(R) \in Nat /\ Cardinality(R) # 0
            <3> HIDE DEF R
            <3> QED BY <1>2, <1>3, FS_CardinalityType, FS_EmptySet
      <2>4. NthRp(0) \in R /\ Below(R, NthRp(0)) = 0
            BY <1>1, <2>3, NthRpIs
      <2>5. g \in Seq(RPs \cup {NoRp}) /\ Len(g) = 1 /\ g[1] = NthRp(0)
            BY <1>2, <2>4
      <2> HIDE DEF com, g
      <2>6. \A i \in 1..Len(g) : g[i] \in R /\ Below(R, g[i]) = i - 1
            BY <2>4, <2>5
      <2>7. RpsInOrder(pddb, com, g)
            BY <2>2, <2>5, <2>6 DEF RpsInOrder
      <2>8. RpsInOrder(pddb', command', given')
            BY <1>1, <2>1, <2>7
      <2> QED BY <2>8 DEF SeriesInv
<1> QED BY <1>3, <1>4, <1>5

LEMMA GetNextRpKeepsSeries ==
    ASSUME IInv, SeriesInv, NEW c, GetNextRp(c)
    PROVE  SeriesInv'
<1> DEFINE R    == HeldRps(pddb)
           next == [command EXCEPT !.index = command.index + 1]
           n    == command.index
<1>1. pddb' = pddb /\ StoreInv /\ command.kind = "EnumerateRps"
      BY DEF GetNextRp, Kept, Continues, IInv
<1>2. PICK rp \in {NoRp} \cup (IF Readable /\ n < Cardinality(StoredRps) THEN {NthRp(n)} ELSE {}) :
           Answer(next, rp)
      BY DEF GetNextRp
<1>3. RpsInOrder(pddb, command, given)
      BY <1>1, SeriesByKind
<1>4. next \in RpSeries /\ next.index = n + 1 /\ n \in Nat
      BY <1>3 DEF RpsInOrder, RpSeries
<1>5. /\ given \in Seq(RPs \cup {NoRp}) /\ n = Len(given)
      /\ \A i \in 1..n : given[i] # NoRp => given[i] \in R /\ Below(R, given[i]) = i - 1
      BY <1>3 DEF RpsInOrder
<1>6. rp # NoRp => rp \in R /\ Below(R, rp) = n
      <2> SUFFICES ASSUME rp # NoRp PROVE rp \in R /\ Below(R, rp) = n
          OBVIOUS
      <2>1. Readable /\ n < Cardinality(StoredRps) /\ rp = NthRp(n)
            BY <1>2
      <2>2. StoredRps = R
            BY <1>1, <2>1, AllListed
      <2> QED BY <1>1, <1>4, <2>1, <2>2, NthRpIs
<1> DEFINE g == Append(given, rp)
<1>7. command' = next /\ given' = g
      BY <1>2 DEF Answer
<1>8. /\ g \in Seq(RPs \cup {NoRp}) /\ Len(g) = n + 1 /\ g[n + 1] = rp
      /\ \A i \in 1..n : g[i] = given[i]
      <2>1. R \subseteq RPs
            BY <1>1, RpsAreNumbers
      <2>2. rp \in RPs \cup {NoRp}
            BY <1>6, <2>1
      <2> HIDE DEF R
      <2> QED BY <1>5, <2>2
<1> HIDE DEF g, next, R
<1>9. ASSUME NEW i \in 1..Len(g), g[i] # NoRp PROVE g[i] \in R /\ Below(R, g[i]) = i - 1
      <2>1. CASE i \in 1..n
            BY <1>5, <1>8, <1>9, <2>1
      <2>2. CASE i = n + 1
            BY <1>4, <1>6, <1>8, <1>9, <2>2
      <2> QED BY <1>4, <1>8, <2>1, <2>2
<1>10. RpsInOrder(pddb, next, g)
      BY <1>4, <1>8, <1>9 DEF RpsInOrder, R
<1>11. RpsInOrder(pddb', command', given')
      BY <1>1, <1>7, <1>10
<1> QED BY <1>11 DEF SeriesInv

LEMMA NextKeepsSeries == ASSUME IInv, SeriesInv, [Next]_vars PROVE SeriesInv'
<1>1. CASE UNCHANGED vars
      BY <1>1, SeriesStays DEF vars, permission
<1>2. ASSUME NEW c \in Channels, Use(c) PROVE SeriesInv'
      <2>1. ASSUME NEW rp \in RPs, NEW user \in Users, NEW policy \in Policies,
                   MakeCredential(c, rp, user, policy)
            PROVE  SeriesInv'
            <3>1. Enter(c, "MakeCredential") \/ PowerUp
                  BY <2>1 DEF MakeCredential
            <3> QED BY <3>1, EnterEnds, PowerUpEnds, SeriesEnds
      <2>2. ASSUME NEW rp \in RPs, NEW uv \in BOOLEAN, NEW up \in BOOLEAN, GetAssertion(c, rp, uv, up)
            PROVE  SeriesInv'
            BY <2>2, GetAssertionKeepsSeries
      <2>3. ASSUME GetNext(c, "GetNextAssertion", "GetAssertion") PROVE SeriesInv'
            BY <2>3, GetNextKeepsSeries
      <2> QED BY <1>2, <2>1, <2>2, <2>3 DEF Use
<1>3. ASSUME NEW c \in Channels, Manage(c) PROVE SeriesInv'
      <2>1. ASSUME EnumerateRps(c) PROVE SeriesInv'
            BY <2>1, EnumerateRpsKeepsSeries
      <2>2. ASSUME GetNextRp(c) PROVE SeriesInv'
            BY <2>2, GetNextRpKeepsSeries
      <2>3. ASSUME NEW rp \in RPs, EnumerateCredentials(c, rp) PROVE SeriesInv'
            BY <2>3, EnumerateCredentialsKeepsSeries
      <2>4. ASSUME GetNext(c, "GetNextCredential", "EnumerateCredentials") PROVE SeriesInv'
            BY <2>4, GetNextKeepsSeries
      <2>5. ASSUME NEW k \in Keys, DeleteCredential(c, k) PROVE SeriesInv'
            BY <2>5, EnterEnds, SeriesEnds DEF DeleteCredential
      <2>6. ASSUME NEW k \in Keys, UpdateUser(c, k) PROVE SeriesInv'
            <3>1. Enter(c, "UpdateUser") \/ PowerUp
                  BY <2>6 DEF UpdateUser
            <3> QED BY <3>1, EnterEnds, PowerUpEnds, SeriesEnds
      <2> QED BY <1>3, <2>1, <2>2, <2>3, <2>4, <2>5, <2>6 DEF Manage
<1>4. ASSUME NEW c \in Channels, Reset(c) PROVE SeriesInv'
      <2>1. NoSeries(command, given)
            BY <1>4, SeriesByKind DEF Reset, Kept, Continues
      <2>2. UNCHANGED permission \/ PowerUp
            BY <1>4 DEF Reset
      <2>3. UNCHANGED permission => NoSeries(command', given')
            BY <2>1 DEF permission
      <2> QED BY <2>2, <2>3, PowerUpEnds, SeriesEnds
<1>5. ASSUME NEW c \in Channels, NEW kind \in Kinds, Refuse(c, kind) PROVE SeriesInv'
      <2>1. Enter(c, kind) /\ UNCHANGED <<pddb, entries>>
            BY <1>5 DEF Refuse
      <2> QED BY <2>1, EnterStaysOrEnds, SeriesEnds, SeriesStays
<1>6. CASE OtherUpdate
      <2>1. UNCHANGED <<pddb, command, given>>
            BY <1>6 DEF OtherUpdate, permission
      <2> QED BY <2>1, SeriesStays
<1>7. CASE Expire
      BY <1>7, SeriesStays DEF Expire
<1>8. CASE UpdateTimeouts
      BY <1>8, ClearEnds, SeriesEnds DEF UpdateTimeouts
<1>9. CASE PowerCycle
      BY <1>9, PowerUpEnds, SeriesEnds DEF PowerCycle
<1> QED BY <1>1, <1>2, <1>3, <1>4, <1>5, <1>6, <1>7, <1>8, <1>9 DEF Next

-----------------------------------------------------------------------------
(* What the series says.                                                    *)

LEMMA SeriesIsExact == ASSUME IInv, SeriesInv PROVE SeriesExact
<1> DEFINE stored == Discoverable
           rps    == {x.rp : x \in stored}
<1>1. stored = {pddb[k] : k \in HeldKeys(pddb)}
      BY DEF Discoverable, HeldKeys, Held
<1> HIDE DEF stored
<1>2. ASSUME command.kind = "GetAssertion"
      PROVE  \E all \in NewestFirst({x \in stored : x.rp = command.rp /\ Visible(x, command.uv)}) :
                 Follows(all)
      <2>1. Assertions(pddb, command, given)
            BY <1>2, SeriesByKind
      <2>2. command.keys \in Seq(Keys) /\ given \in Seq(Credential \cup {NoAnswer})
            BY <2>1 DEF Assertions, AssertionSeries
      <2>3. Wanted(pddb, command.rp, command.uv)
                = {x \in stored : x.rp = command.rp /\ Visible(x, command.uv)}
            BY <1>1, Zenon DEF Wanted, WantedKeys
      <2> QED BY <2>1, <2>2, <2>3, FollowsIs DEF Assertions
<1>3. ASSUME command.kind = "EnumerateCredentials"
      PROVE  \E all \in Orders({x \in stored : x.rp = command.rp}) : Follows(all)
      <2>1. Enumerated(pddb, command, given)
            BY <1>3, SeriesByKind
      <2>2. command.keys \in Seq(Keys) /\ given \in Seq(Credential \cup {NoAnswer})
            BY <2>1 DEF Enumerated, CredentialSeries
      <2>3. Wanted(pddb, command.rp, TRUE) = {x \in stored : x.rp = command.rp}
            BY <1>1, Zenon DEF Wanted, WantedKeys, Visible
      <2> QED BY <2>1, <2>2, <2>3, FollowsIs DEF Enumerated
<1>4. ASSUME command.kind = "EnumerateRps"
      PROVE  /\ command.index = Len(given)
             /\ \A i \in DOMAIN given : given[i] # NoRp =>
                    given[i] \in rps /\ Cardinality({rp \in rps : rp < given[i]}) = i - 1
      <2>1. rps = HeldRps(pddb)
            BY <1>1 DEF HeldRps
      <2>2. RpsInOrder(pddb, command, given)
            BY <1>4, SeriesByKind
      <2>3. DOMAIN given = 1..Len(given)
            BY <2>2 DEF RpsInOrder
      <2> HIDE DEF rps
      <2> QED BY <2>1, <2>2, <2>3 DEF RpsInOrder, Below
<1> QED BY <1>2, <1>3, <1>4 DEF SeriesExact, stored

LEMMA InitSeries == ASSUME Init PROVE SeriesInv
BY DEF Init, SeriesInv, NoSeries

-----------------------------------------------------------------------------
\* Whatever ends, breaks or fails in between, an answer of the series included, each
\* credential a series was begun for was told to the host, or cost it an error, or is
\* still to come: once and in its place (StatefulPermission in ctap/mod.rs,
\* process_get_next_assertion, the enumerations of ctap/credential_management.rs).
THEOREM SeriesAnswered == Spec => []SeriesExact
<1>1. Init => IInv /\ SeriesInv
      BY InitInv, InitSeries
<1>2. IInv /\ SeriesInv /\ [Next]_vars => (IInv /\ SeriesInv)'
      BY NextIsSafe, NextKeepsSeries DEF StepIsSafe
<1>3. IInv /\ SeriesInv => SeriesExact
      BY SeriesIsExact
<1> QED BY <1>1, <1>2, <1>3, PTL DEF Spec

-----------------------------------------------------------------------------
(* Types.                                                                   *)

PermissionTypes == channel \in Channels \cup {NoChannel} /\ expired \in BOOLEAN

LEMMA PermissionStays ==
    ASSUME PermissionTypes, UNCHANGED <<channel, expired>>
    PROVE  PermissionTypes'
BY DEF PermissionTypes

LEMMA EndsTyped == ASSUME Clear \/ PowerUp PROVE PermissionTypes'
BY DEF Clear, PowerUp, PermissionTypes

LEMMA EnterTyped ==
    ASSUME PermissionTypes, NEW c, NEW kind, Enter(c, kind)
    PROVE  PermissionTypes'
BY PermissionStays, EndsTyped DEF Enter, permission

LEMMA SetCommandTyped ==
    ASSUME NEW c \in Channels, NEW new, NEW first, NEW waited, SetCommand(new, c, first, waited)
    PROVE  PermissionTypes'
<1>1. channel' = c /\ expired' \in BOOLEAN
      BY DEF SetCommand
<1> QED BY <1>1 DEF PermissionTypes

LEMMA NextKeepsPermission == ASSUME PermissionTypes, [Next]_vars PROVE PermissionTypes'
<1>1. CASE UNCHANGED vars
      BY <1>1, PermissionStays DEF vars, permission
<1>2. ASSUME NEW c \in Channels, Use(c) PROVE PermissionTypes'
      <2>1. ASSUME NEW rp \in RPs, NEW user \in Users, NEW policy \in Policies,
                   MakeCredential(c, rp, user, policy)
            PROVE  PermissionTypes'
            BY <2>1, EnterTyped, EndsTyped DEF MakeCredential
      <2>2. ASSUME NEW rp \in RPs, NEW uv \in BOOLEAN, NEW up \in BOOLEAN, GetAssertion(c, rp, uv, up)
            PROVE  PermissionTypes'
            BY <2>2, SetCommandTyped, EndsTyped DEF GetAssertion
      <2>3. ASSUME GetNext(c, "GetNextAssertion", "GetAssertion") PROVE PermissionTypes'
            BY <2>3, PermissionStays DEF GetNext, Answer
      <2> QED BY <1>2, <2>1, <2>2, <2>3 DEF Use
<1>3. ASSUME NEW c \in Channels, Manage(c) PROVE PermissionTypes'
      <2>1. ASSUME EnumerateRps(c) PROVE PermissionTypes'
            BY <2>1, SetCommandTyped, EndsTyped DEF EnumerateRps
      <2>2. ASSUME GetNextRp(c) PROVE PermissionTypes'
            BY <2>2, PermissionStays DEF GetNextRp, Answer
      <2>3. ASSUME NEW rp \in RPs, EnumerateCredentials(c, rp) PROVE PermissionTypes'
            BY <2>3, SetCommandTyped, EndsTyped DEF EnumerateCredentials
      <2>4. ASSUME GetNext(c, "GetNextCredential", "EnumerateCredentials") PROVE PermissionTypes'
            BY <2>4, PermissionStays DEF GetNext, Answer
      <2>5. ASSUME NEW k \in Keys, DeleteCredential(c, k) PROVE PermissionTypes'
            BY <2>5, EnterTyped DEF DeleteCredential
      <2>6. ASSUME NEW k \in Keys, UpdateUser(c, k) PROVE PermissionTypes'
            BY <2>6, EnterTyped, EndsTyped DEF UpdateUser
      <2> QED BY <1>3, <2>1, <2>2, <2>3, <2>4, <2>5, <2>6 DEF Manage
<1>4. ASSUME NEW c \in Channels, Reset(c) PROVE PermissionTypes'
      BY <1>4, PermissionStays, EndsTyped DEF Reset, permission
<1>5. ASSUME NEW c \in Channels, NEW kind \in Kinds, Refuse(c, kind) PROVE PermissionTypes'
      BY <1>5, EnterTyped DEF Refuse
<1>6. CASE OtherUpdate
      BY <1>6, PermissionStays DEF OtherUpdate, permission
<1>7. CASE Expire
      BY <1>7 DEF Expire, PermissionTypes
<1>8. CASE UpdateTimeouts
      BY <1>8, EndsTyped DEF UpdateTimeouts
<1>9. CASE PowerCycle
      BY <1>9, EndsTyped DEF PowerCycle
<1> QED BY <1>1, <1>2, <1>3, <1>4, <1>5, <1>6, <1>7, <1>8, <1>9 DEF Next

LEMMA SeriesTyped ==
    ASSUME SeriesInv
    PROVE  /\ command \in Series \cup {Idle, Fresh}
           /\ given \in IF command.kind = "EnumerateRps" THEN Seq(RPs \cup {NoRp})
                    ELSE Seq(Credential \cup {NoAnswer})
<1>1. CASE NoSeries(command, given)
      <2>1. /\ command.kind # "EnumerateRps"
            /\ given \in Seq(Credential \cup {NoAnswer})
            BY <1>1 DEF NoSeries, Idle, Fresh
      <2> QED BY <1>1, <2>1 DEF NoSeries
<1>2. CASE Assertions(pddb, command, given)
      <2>1. /\ command \in AssertionSeries /\ command.kind # "EnumerateRps"
            /\ given \in Seq(Credential \cup {NoAnswer})
            BY <1>2 DEF Assertions, AssertionSeries
      <2> QED BY <2>1 DEF Series, AssertionSeries
<1>3. CASE Enumerated(pddb, command, given)
      <2>1. /\ command \in CredentialSeries /\ command.kind # "EnumerateRps"
            /\ given \in Seq(Credential \cup {NoAnswer})
            BY <1>3 DEF Enumerated, CredentialSeries
      <2> QED BY <2>1 DEF Series, CredentialSeries
<1>4. CASE RpsInOrder(pddb, command, given)
      <2>1. /\ command \in RpSeries /\ command.kind = "EnumerateRps" /\ given \in Seq(RPs \cup {NoRp})
            BY <1>4 DEF RpsInOrder, RpSeries
      <2> QED BY <2>1 DEF Series, RpSeries
<1> QED BY <1>1, <1>2, <1>3, <1>4 DEF SeriesInv

\* Every variable keeps its type: what is held under a key, the command with its
\* state and the answers that go with it.
THEOREM TypeCorrect == Spec => []TypeOK
<1>1. Init => IInv /\ SeriesInv /\ PermissionTypes
      <2>1. ASSUME Init PROVE PermissionTypes
            BY <2>1 DEF Init, PermissionTypes
      <2> QED BY <2>1, InitInv, InitSeries
<1>2. IInv /\ SeriesInv /\ PermissionTypes /\ [Next]_vars => (IInv /\ SeriesInv /\ PermissionTypes)'
      BY NextIsSafe, NextKeepsSeries, NextKeepsPermission DEF StepIsSafe
<1>3. IInv /\ SeriesInv /\ PermissionTypes => TypeOK
      BY SeriesTyped DEF TypeOK, IInv, StoreInv, PermissionTypes
<1> QED BY <1>1, <1>2, <1>3, PTL DEF Spec

-----------------------------------------------------------------------------
(* The store is the set that Passkeys promises.                             *)

\* There is a slot for each credential.
LEMMA RoomForAll ==
    ASSUME NEW p
    PROVE  Cardinality({p[k] : k \in HeldKeys(p)}) <= Slots
<1> DEFINE S == HeldKeys(p)
           T == {p[k] : k \in S}
           f == [k \in S |-> p[k]]
<1>1. IsFiniteSet(S) /\ S \subseteq Keys
      BY KeysFinite DEF HeldKeys
<1>2. f \in Surjection(S, T)
      <2>1. f \in [S -> T] /\ \A x \in T : \E k \in S : f[k] = x
            OBVIOUS
      <2> HIDE DEF f, T
      <2> QED BY <2>1, Fun_IsSurj
<1>3. Cardinality(T) <= Cardinality(S)
      <2> HIDE DEF f, T, S
      <2> QED BY <1>1, <1>2, FS_Surjection
<1>4. Cardinality(S) <= Cardinality(Keys)
      <2> HIDE DEF S
      <2> QED BY <1>1, KeysFinite, FS_Subset
<1>5. Cardinality(Keys) = Slots
      <2>1. 1 \in Int /\ Slots \in Int
            BY SlotsAssumption
      <2>2. Cardinality(1..Slots) = IF 1 > Slots THEN 0 ELSE Slots - 1 + 1
            BY <2>1, FS_Interval, Zenon
      <2> QED BY <2>2, SlotsAssumption DEF Keys
<1>6. IsFiniteSet(T)
      <2> HIDE DEF f, T, S
      <2> QED BY <1>1, <1>2, FS_Surjection
<1>7. Cardinality(T) \in Nat /\ Cardinality(S) \in Nat
      <2> HIDE DEF f, T, S
      <2> QED BY <1>1, <1>6, FS_CardinalityType
<1> HIDE DEF T, S
<1>8. Cardinality(T) <= Slots
      BY <1>3, <1>4, <1>5, <1>7, SlotsAssumption
<1> QED BY <1>8 DEF T, S

LEMMA DiscoverableIs ==
    /\ Discoverable = {pddb[k] : k \in HeldKeys(pddb)}
    /\ Discoverable' = {pddb'[k] : k \in HeldKeys(pddb')}
BY DEF Discoverable, HeldKeys, Held

LEMMA ResettableIs == Resettable' \in BOOLEAN
BY DEF Resettable

LEMMA ReadingIsOther ==
    ASSUME UNCHANGED <<pddb, made>>
    PROVE  Promise!Other
<1>1. Discoverable' = Discoverable
      BY DEF Discoverable, Held
<1> QED BY <1>1, ResettableIs DEF Promise!Other

\* A key that is emptied costs the credential that was under it.
LEMMA BrokenLosesOne ==
    ASSUME IInv, NEW k \in Keys, Broken(k)
    PROVE  UNCHANGED Discoverable \/ Promise!Without
<1>1. PICK v \in {NoEntry, NoBytes} : pddb' = [pddb EXCEPT ![k] = v]
      BY DEF Broken
<1>2. /\ pddb'[k] = v
      /\ \A j \in Keys \ {k} : pddb'[j] = pddb[j]
      BY <1>1 DEF IInv, StoreInv
<1>3. HeldKeys(pddb') = HeldKeys(pddb) \ {k}
      BY <1>2 DEF HeldKeys, NoEntry, NoBytes
<1>4. \A i, j \in HeldKeys(pddb) : pddb[i] = pddb[j] => i = j
      BY DEF IInv, OneCredentialPerAccount, HeldKeys, Held
<1>5. CASE k \in HeldKeys(pddb)
      <2>1. Discoverable' = Discoverable \ {pddb[k]}
            <3>1. \A j \in HeldKeys(pddb') : /\ j \in HeldKeys(pddb) /\ j # k
                                             /\ pddb'[j] = pddb[j]
                  BY <1>2, <1>3 DEF HeldKeys
            <3>2. \A j \in HeldKeys(pddb) : pddb[j] # pddb[k] => j \in HeldKeys(pddb')
                  BY <1>3
            <3> QED BY <1>4, <1>5, <3>1, <3>2, DiscoverableIs
      <2>2. pddb[k] \in Discoverable
            BY <1>5, DiscoverableIs
      <2> QED BY <2>1, <2>2 DEF Promise!Without
<1>6. CASE k \notin HeldKeys(pddb)
      <2>1. \A j \in HeldKeys(pddb) : pddb'[j] = pddb[j]
            BY <1>2, <1>6 DEF HeldKeys
      <2> QED BY <1>3, <1>6, <2>1, DiscoverableIs
<1> QED BY <1>5, <1>6

\* A credential that is stored takes the place of that of its account alone.
LEMMA StoredTakesPlace ==
    ASSUME StoreInv, NEW k \in Keys, NEW x \in Credential, Stored(k, x),
           Held(k) => SameAccount(x, pddb[k]),
           \A j \in Keys \ {k} : Held(j) => ~SameAccount(x, pddb[j])
    PROVE  Discoverable' = {y \in Discoverable : ~Promise!SameAccount(x, y)} \cup {x}
<1>1. /\ pddb'[k] = x
      /\ \A j \in Keys \ {k} : pddb'[j] = pddb[j]
      BY DEF Stored, StoreInv
<1>2. x.id > 0
      BY DEF Credential
<1>3. HeldKeys(pddb') = HeldKeys(pddb) \cup {k}
      BY <1>1, <1>2 DEF HeldKeys
<1>4. \A j \in HeldKeys(pddb) : Promise!SameAccount(x, pddb[j]) <=> j = k
      BY DEF HeldKeys, Held, SameAccount, Promise!SameAccount
<1>5. \A j \in HeldKeys(pddb') : IF j = k THEN pddb'[j] = x
                                 ELSE j \in HeldKeys(pddb) /\ pddb'[j] = pddb[j]
      BY <1>1, <1>3 DEF HeldKeys
<1>6. \A j \in HeldKeys(pddb) : j # k => j \in HeldKeys(pddb') /\ pddb'[j] = pddb[j]
      BY <1>1, <1>3 DEF HeldKeys
<1>7. k \in HeldKeys(pddb')
      BY <1>3
<1> QED BY <1>4, <1>5, <1>6, <1>7, DiscoverableIs

\* A registration leaves the first kind of command alone or forbids a Reset.
LEMMA EnterForbids ==
    ASSUME NEW c, NEW kind, Enter(c, kind)
    PROVE  Resettable' \in {Resettable, FALSE}
<1>1. CASE UNCHANGED permission
      BY <1>1 DEF permission, Resettable
<1>2. CASE Clear
      <2>1. command' # Fresh
            BY <1>2 DEF Clear, Idle, Fresh
      <2> QED BY <2>1 DEF Resettable
<1> QED BY <1>1, <1>2 DEF Enter

LEMMA CountsAlike == ASSUME NEW S PROVE Promise!Cardinality(S) = Cardinality(S)
BY DEF Promise!Cardinality, Cardinality

LEMMA MakeCredentialPromised ==
    ASSUME IInv, NEW c \in Channels, NEW rp \in RPs, NEW user \in Users, NEW policy \in Policies,
           MakeCredential(c, rp, user, policy)
    PROVE  Promise!Register \/ Promise!Fail
<1>1. made' = made + 1 /\ made \in Nat /\ made' \in 1..MaxMade /\ Readable
      BY MadeAssumption DEF MakeCredential, IInv, StoreInv
<1> DEFINE x == [id |-> made', rp |-> rp, user |-> user, order |-> NewOrder, policy |-> policy]
<1>2. PICK k \in KeyFor(rp, user) : (Stored(k, x) /\ Enter(c, "MakeCredential")) \/ Broken(k)
      BY DEF MakeCredential
<1>3. /\ k \in Keys
      /\ Held(k) => pddb[k].rp = rp /\ pddb[k].user = user
      /\ \A j \in Keys \ {k} : Held(j) => ~(pddb[j].rp = rp /\ pddb[j].user = user)
      BY <1>1, KeyForIsSafe DEF IInv
<1>4. CASE Broken(k)
      <2>1. UNCHANGED Discoverable \/ Promise!Without
            BY <1>3, <1>4, BrokenLosesOne
      <2> QED BY <1>1, <2>1, ResettableIs DEF Promise!Fail
<1>5. CASE Stored(k, x) /\ Enter(c, "MakeCredential")
      <2>1. /\ NewOrder \in 1..(made + 1)
            /\ \A j \in entries : pddb[j].order < NewOrder
            BY <1>1, NewOrderIsLast
      <2>2. NewOrder \in 1..MaxMade
            BY <1>1, <2>1, MadeAssumption
      <2>3. /\ x \in Credential
            /\ x.id = made' /\ x.order = NewOrder /\ x.rp = rp /\ x.user = user
            BY <1>1, <2>2 DEF Credential
      <2> HIDE DEF x
      <2>4. /\ Held(k) => SameAccount(x, pddb[k])
            /\ \A j \in Keys \ {k} : Held(j) => ~SameAccount(x, pddb[j])
            BY <1>3, <2>3 DEF SameAccount
      <2>5. Discoverable' = {y \in Discoverable : ~Promise!SameAccount(x, y)} \cup {x}
            BY <1>3, <1>5, <2>3, <2>4, StoredTakesPlace DEF IInv
      <2>6. \A y \in Discoverable : y.order < x.order
            <3>1. \A j \in HeldKeys(pddb) : j \in entries
                  BY <1>1 DEF IInv, StoreInv, Readable, HeldKeys, Held
            <3> QED BY <2>1, <2>3, <3>1, DiscoverableIs
      <2>7. Promise!Cardinality(Discoverable') <= Slots
            BY RoomForAll, CountsAlike, DiscoverableIs
      <2>8. Resettable' \in {Resettable, FALSE}
            BY <1>5, EnterForbids
      <2> QED BY <1>1, <2>3, <2>5, <2>6, <2>7, <2>8 DEF Promise!Register
<1> QED BY <1>2, <1>4, <1>5

LEMMA UpdateUserPromised ==
    ASSUME IInv, NEW c \in Channels, NEW k \in Keys, UpdateUser(c, k)
    PROVE  Promise!Lose \/ Promise!Other
<1>1. made' = made
      BY DEF UpdateUser
<1>2. CASE Stored(k, pddb[k])
      <2>1. pddb' = pddb
            BY <1>2 DEF Stored, IInv, StoreInv
      <2> QED BY <1>1, <2>1, ReadingIsOther
<1>3. CASE Broken(k)
      <2>1. UNCHANGED Discoverable \/ Promise!Without
            BY <1>3, BrokenLosesOne
      <2> QED BY <1>1, <2>1, ResettableIs DEF Promise!Lose, Promise!Other
<1> QED BY <1>2, <1>3 DEF UpdateUser

LEMMA DeleteCredentialPromised ==
    ASSUME IInv, NEW c \in Channels, NEW k \in Keys, DeleteCredential(c, k)
    PROVE  Promise!Lose \/ Promise!Other
<1>1. made' = made /\ Broken(k)
      BY DEF DeleteCredential, Stored, Broken
<1>2. UNCHANGED Discoverable \/ Promise!Without
      BY <1>1, BrokenLosesOne
<1> QED BY <1>1, <1>2, ResettableIs DEF Promise!Lose, Promise!Other

\* Only a Reset may take several, and it was allowed to.
LEMMA ResetPromised ==
    ASSUME IInv, NEW c \in Channels, Reset(c), SeriesInv
    PROVE  Promise!Reset
<1>1. PICK gone \in SUBSET Keys :
           pddb' = [k \in Keys |-> IF k \in gone THEN NoEntry ELSE pddb[k]]
      BY DEF Reset
<1>2. \A k \in HeldKeys(pddb') : k \in HeldKeys(pddb) /\ pddb'[k] = pddb[k]
      BY <1>1 DEF HeldKeys, NoEntry
<1>3. Discoverable' \subseteq Discoverable
      BY <1>2, DiscoverableIs
<1>4. command = Fresh
      <2>1. command.kind = "Reset"
            BY DEF Reset, Kept, Continues
      <2> QED BY <2>1, SeriesByKind DEF NoSeries, Idle
<1>5. command' = Fresh
      BY <1>4 DEF Reset, PowerUp, permission
<1>6. Resettable /\ Resettable' = Resettable
      BY <1>4, <1>5 DEF Resettable
<1> QED BY <1>3, <1>6 DEF Promise!Reset, Reset

LEMMA InitPromised == ASSUME Init PROVE Promise!Init
<1>1. Discoverable = {}
      BY DEF Init, Discoverable, Held, NoEntry
<1>2. Resettable = TRUE
      BY DEF Init, Resettable
<1> QED BY <1>1, <1>2 DEF Init, Promise!Init

\* Each command is one step of the set, or it reads.
LEMMA NextPromised == ASSUME IInv, SeriesInv, [Next]_vars PROVE [Promise!Next]_(Promise!vars)
<1> SUFFICES Promise!Next
    OBVIOUS
<1>1. CASE UNCHANGED vars
      BY <1>1, ReadingIsOther DEF vars, Promise!Next
<1>2. ASSUME NEW c \in Channels, Use(c) PROVE Promise!Next
      <2>1. ASSUME NEW rp \in RPs, NEW user \in Users, NEW policy \in Policies,
                   MakeCredential(c, rp, user, policy)
            PROVE  Promise!Next
            BY <2>1, MakeCredentialPromised DEF Promise!Next
      <2>2. ASSUME NEW rp \in RPs, NEW uv \in BOOLEAN, NEW up \in BOOLEAN, GetAssertion(c, rp, uv, up)
            PROVE  Promise!Next
            BY <2>2, ReadingIsOther DEF GetAssertion, Promise!Next
      <2>3. ASSUME GetNext(c, "GetNextAssertion", "GetAssertion") PROVE Promise!Next
            BY <2>3, ReadingIsOther DEF GetNext, Promise!Next
      <2> QED BY <1>2, <2>1, <2>2, <2>3 DEF Use
<1>3. ASSUME NEW c \in Channels, Manage(c) PROVE Promise!Next
      <2>1. ASSUME EnumerateRps(c) PROVE Promise!Next
            BY <2>1, ReadingIsOther DEF EnumerateRps, Promise!Next
      <2>2. ASSUME GetNextRp(c) PROVE Promise!Next
            BY <2>2, ReadingIsOther DEF GetNextRp, Promise!Next
      <2>3. ASSUME NEW rp \in RPs, EnumerateCredentials(c, rp) PROVE Promise!Next
            BY <2>3, ReadingIsOther DEF EnumerateCredentials, Promise!Next
      <2>4. ASSUME GetNext(c, "GetNextCredential", "EnumerateCredentials") PROVE Promise!Next
            BY <2>4, ReadingIsOther DEF GetNext, Promise!Next
      <2>5. ASSUME NEW k \in Keys, DeleteCredential(c, k) PROVE Promise!Next
            BY <2>5, DeleteCredentialPromised DEF Promise!Next
      <2>6. ASSUME NEW k \in Keys, UpdateUser(c, k) PROVE Promise!Next
            BY <2>6, UpdateUserPromised DEF Promise!Next
      <2> QED BY <1>3, <2>1, <2>2, <2>3, <2>4, <2>5, <2>6 DEF Manage
<1>4. ASSUME NEW c \in Channels, Reset(c) PROVE Promise!Next
      BY <1>4, ResetPromised DEF Promise!Next
<1>5. ASSUME NEW c \in Channels, NEW kind \in Kinds, Refuse(c, kind) PROVE Promise!Next
      BY <1>5, ReadingIsOther DEF Refuse, Promise!Next
<1>6. CASE OtherUpdate
      BY <1>6, ReadingIsOther DEF OtherUpdate, Promise!Next
<1>7. CASE Expire
      BY <1>7, ReadingIsOther DEF Expire, Promise!Next
<1>8. CASE UpdateTimeouts
      BY <1>8, ReadingIsOther DEF UpdateTimeouts, Promise!Next
<1>9. CASE PowerCycle
      BY <1>9, ReadingIsOther DEF PowerCycle, Promise!Next
<1> QED BY <1>1, <1>2, <1>3, <1>4, <1>5, <1>6, <1>7, <1>8, <1>9 DEF Next

\* To those who have credentials, the store is a set with one for an account: a
\* registration replaces that of its account at most, what fails costs one, and only
\* a Reset that is still allowed takes several (store_credential, Store::transaction,
\* Store::clear, StatefulPermission).
THEOREM StoreIsASet == Spec => ImplementsPasskeys
<1>1. Init => IInv /\ SeriesInv /\ Promise!Init
      BY InitInv, InitSeries, InitPromised
<1>2. IInv /\ SeriesInv /\ [Next]_vars => (IInv /\ SeriesInv)'
      BY NextIsSafe, NextKeepsSeries DEF StepIsSafe
<1>3. IInv /\ SeriesInv /\ [Next]_vars => [Promise!Next]_(Promise!vars)
      BY NextPromised
<1> QED BY <1>1, <1>2, <1>3, PTL DEF Spec, ImplementsPasskeys, Promise!Spec

\* That set has one credential for an account, and no more than there are slots.
THEOREM SetWellStored == Spec => []Promise!WellStored
<1>1. IInv /\ [Next]_vars => IInv'
      BY NextIsSafe DEF StepIsSafe
<1>2. IInv => Promise!WellStored
      <2> SUFFICES ASSUME IInv PROVE Promise!WellStored
          OBVIOUS
      <2>1. \A x, y \in Discoverable : Promise!SameAccount(x, y) => x = y
            BY DiscoverableIs
               DEF IInv, OneCredentialPerAccount, SameAccount, Promise!SameAccount, HeldKeys, Held
      <2>2. Promise!Cardinality(Discoverable) <= Slots
            BY RoomForAll, CountsAlike, DiscoverableIs
      <2> QED BY <2>1, <2>2 DEF Promise!WellStored
<1> QED BY InitInv, <1>1, <1>2, PTL DEF Spec
==============================================================================
