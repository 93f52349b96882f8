---------------------------- MODULE VaultDb_proofs ----------------------------
(* Theorems about VaultDb, for any descriptions, users, passwords, names and   *)
(* hashes.                                                                     *)
EXTENDS VaultDb, TLAPS

Disks == [Guids -> Record \cup {NoRecord}]

\* RecordKeyed, of any dictionary.
Keyed(d) == \A g \in Guids : d[g] # NoRecord => g = PwHash[Account(d[g])]

\* The items of passwords in p are those of records in d.
Listing(p, d) == \A i \in p : IsPw(i) => /\ i.guid \in Guids
                                         /\ d[i.guid] # NoRecord
                                         /\ i = PwItem(i.guid, d[i.guid])

\* What an update under way has left, and the mode it will find.
WriteInv ==
    /\ writing.by \in {"autotype", "scan"} =>
           /\ disk[writing.guid] = NoRecord
           /\ writing.guid = PwHash[Account(writing.rec)]
           /\ PwItem(writing.guid, writing.rec) \in pw
           /\ \A i \in pw : i.guid = writing.guid => i = PwItem(writing.guid, writing.rec)
           /\ Listing({i \in pw : i.guid # writing.guid}, disk)
    /\ writing.by = "edit" => disk[writing.guid] = NoRecord /\ mode_cache = "Password"
    /\ writing.by = "totp" => mode_cache = "Totp"
    /\ writing.by \notin {"autotype", "scan"} => Listing(pw, disk)

IInv == TypeOK /\ Keyed(disk) /\ WriteInv

-----------------------------------------------------------------------------
(* Records, items and dictionaries.                                          *)

LEMMA RecordIsRecord ==
    ASSUME NEW r \in Record
    PROVE  r # NoRecord /\ Account(r) \in Accounts /\ PwHash[Account(r)] \in Guids
<1>1. r # NoRecord
      <2>1. DOMAIN r = {"desc", "user", "pw"} /\ DOMAIN NoRecord = {"none"}
            BY DEF Record, NoRecord
      <2> QED BY <2>1
<1>2. Account(r) \in Accounts
      BY DEF Record, Account, Accounts
<1> QED BY <1>1, <1>2, PwHashAssumption

LEMMA WriteKinds ==
    ASSUME NEW w \in Writes \cup {NoWrite}
    PROVE  /\ w.by \in {"none", "autotype", "scan", "edit", "totp"}
           /\ w = NoWrite <=> w.by = "none"
           /\ w.by \in {"autotype", "scan", "edit"} => w.guid \in Guids /\ w.rec \in Record
           /\ w.by = "totp" => w.guid \in Guids /\ w.name \in TotpNames
BY DEF Writes, NoWrite

LEMMA PwItemIsItem ==
    ASSUME NEW g \in Guids, NEW r \in Record
    PROVE  PwItem(g, r) \in Items /\ PwItem(g, r).guid = g /\ PwItem(g, r).name = r.desc
BY DEF PwItem, Item, Items, Record

LEMMA TotpItemIsItem ==
    ASSUME NEW n \in TotpNames, NEW g \in Guids
    PROVE  Item(n, g) \in Items /\ Item(n, g).guid = g
BY DEF Item, Items

\* A TOTP item is not a password's.
LEMMA TotpIsNotPw ==
    ASSUME NEW n \in TotpNames
    PROVE  TotpHash[n] \in Guids /\ ~IsPw(Item(n, TotpHash[n]))
BY TotpHashAssumption DEF Item, IsPw

\* A record is a password's, and its item lists it.
LEMMA KeyedIsPw ==
    ASSUME NEW d \in Disks, Keyed(d), NEW g \in Guids, d[g] # NoRecord
    PROVE  /\ d[g] \in Record
           /\ IsPw(PwItem(g, d[g]))
           /\ \A i : i.guid = g => IsPw(i)
<1>1. d[g] \in Record /\ g = PwHash[Account(d[g])]
      BY DEF Disks, Keyed
<1> QED BY <1>1, RecordIsRecord DEF IsPw, PwItem, Item

LEMMA LoadLists ==
    ASSUME NEW p \in SUBSET Items, NEW d \in Disks, Keyed(d)
    PROVE  /\ Load(p, d) \in SUBSET Items
           /\ p \subseteq Load(p, d)
           /\ Listing(p, d) => Listing(Load(p, d), d)
           /\ \A g \in Guids : d[g] # NoRecord => PwItem(g, d[g]) \in Load(p, d)
           /\ \A i \in Load(p, d) \ p : /\ i.guid \in Guids /\ d[i.guid] # NoRecord
                                        /\ i = PwItem(i.guid, d[i.guid])
<1>1. \A g \in Guids : d[g] # NoRecord =>
          /\ d[g] \in Record /\ PwItem(g, d[g]) \in Items /\ PwItem(g, d[g]).guid = g
      BY KeyedIsPw, PwItemIsItem
<1>2. \A i \in Load(p, d) \ p : \E g \in Guids : d[g] # NoRecord /\ i = PwItem(g, d[g])
      BY DEF Load
<1>3. \A i \in Load(p, d) \ p : /\ i \in Items /\ i.guid \in Guids /\ d[i.guid] # NoRecord
                                /\ i = PwItem(i.guid, d[i.guid])
      BY <1>1, <1>2
<1>4. Listing(p, d) => Listing(Load(p, d), d)
      BY <1>3 DEF Listing
<1>5. p \subseteq Load(p, d) /\ \A g \in Guids : d[g] # NoRecord => PwItem(g, d[g]) \in Load(p, d)
      BY DEF Load
<1> QED BY <1>3, <1>4, <1>5

\* A record that is put where its account belongs is listed as what was there.
LEMMA PutLists ==
    ASSUME NEW d \in Disks, Keyed(d), NEW r \in Record, NEW p, Listing(p, d),
           NEW g, g = PwHash[Account(r)], NEW e, e = [d EXCEPT ![g] = r]
    PROVE  e \in Disks /\ Keyed(e) /\ e[g] = r /\ Listing(p, e)
<1>1. g \in Guids /\ Account(r) \in Accounts /\ r # NoRecord
      BY RecordIsRecord
<1>2. /\ e \in Disks /\ e[g] = r
      /\ \A h \in Guids \ {g} : e[h] = d[h]
      BY <1>1 DEF Disks
<1>3. Keyed(e)
      BY <1>2 DEF Keyed
<1>4. Listing(p, e)
      <2> SUFFICES ASSUME NEW i \in p, IsPw(i)
                   PROVE  i.guid \in Guids /\ e[i.guid] # NoRecord /\ i = PwItem(i.guid, e[i.guid])
          BY DEF Listing
      <2>1. i.guid \in Guids /\ d[i.guid] # NoRecord /\ i = PwItem(i.guid, d[i.guid])
            BY DEF Listing
      <2>2. CASE i.guid = g
            <3>1. d[g] \in Record /\ g = PwHash[Account(d[g])]
                  BY <1>1, <2>1, <2>2 DEF Keyed, Disks
            <3>2. Account(d[g]) \in Accounts
                  BY <3>1, RecordIsRecord
            <3>3. Account(d[g]) = Account(r)
                  BY <1>1, <3>1, <3>2, PwHashAssumption
            <3>4. d[g].desc = r.desc
                  BY <3>3 DEF Account
            <3>5. PwItem(g, d[g]) = PwItem(g, r)
                  BY <3>4 DEF PwItem
            <3> QED BY <1>1, <1>2, <2>1, <2>2, <3>5
      <2>3. CASE i.guid # g
            BY <1>2, <2>1, <2>3
      <2> QED BY <2>2, <2>3
<1> QED BY <1>2, <1>3, <1>4

\* A record that is deleted leaves the other items right.
LEMMA DeleteLists ==
    ASSUME NEW d \in Disks, Keyed(d), NEW g \in Guids, NEW p, Listing(p, d),
           NEW q \in SUBSET p, \A i \in q : i.guid # g,
           NEW e, e = [d EXCEPT ![g] = NoRecord]
    PROVE  /\ e \in Disks /\ Keyed(e)
           /\ e[g] = NoRecord
           /\ \A h \in Guids \ {g} : e[h] = d[h]
           /\ Listing(q, e)
<1>1. /\ e \in Disks /\ e[g] = NoRecord
      /\ \A h \in Guids \ {g} : e[h] = d[h]
      BY DEF Disks
<1>2. Keyed(e)
      BY <1>1 DEF Keyed
<1>3. Listing(q, e)
      BY <1>1 DEF Listing
<1> QED BY <1>1, <1>2, <1>3

-----------------------------------------------------------------------------
(* The inductive step.                                                       *)

\* An assertion of the manager's fails in this step.
Asserts == panicked' = "assert" /\ panicked # "assert"

\* What every step does.
StepIsSafe == /\ IInv'
              /\ Complete /\ ~Reboot => Complete'
              /\ Asserts => EditFails

LEMMA ReadyFacts ==
    ASSUME IInv, Ready
    PROVE  /\ writing = NoWrite /\ writing.by = "none" /\ Listing(pw, disk)
           /\ disk \in Disks /\ Keyed(disk) /\ pw \in SUBSET Items /\ totp \in SUBSET Items
BY DEF IInv, Ready, WriteInv, NoWrite, TypeOK, Disks

\* The invariant where no update is under way.
LEMMA RestingIInv ==
    ASSUME TypeOK', Keyed(disk'), Listing(pw', disk'), writing' = NoWrite
    PROVE  IInv'
BY DEF IInv, WriteInv, NoWrite

LEMMA Reload ==
    ASSUME NEW m \in Modes, NEW p \in SUBSET Items, disk' \in Disks, Keyed(disk'),
           Listing(p, disk'), totps' \subseteq TotpNames, totp \in SUBSET Items, retrieve_db(m, p)
    PROVE  /\ mode_cache' \in Modes
           /\ pw' \in SUBSET Items /\ totp' \in SUBSET Items
           /\ Listing(pw', disk')
           /\ m = "Password" => Complete'
           /\ p \subseteq pw'
<1>1. /\ mode_cache' \in Modes
      /\ pw' = p \/ pw' = Load(p, disk')
      /\ m = "Password" => pw' = Load(p, disk')
      BY DEF retrieve_db
<1>2. totp' \in SUBSET Items
      BY TotpIsNotPw, TotpItemIsItem DEF retrieve_db
<1>3. m = "Password" => Complete'
      BY <1>1, LoadLists DEF Complete, Stored
<1> QED BY <1>1, <1>2, <1>3, LoadLists

\* A step that neither changes the disk nor takes an item away.
LEMMA SameDiskIsSafe ==
    ASSUME IInv, Ready, TypeOK', UNCHANGED <<disk, writing>>, Asserts => EditFails,
           Listing(pw', disk'), pw \subseteq pw'
    PROVE  StepIsSafe
<1>1. writing' = NoWrite /\ Keyed(disk')
      BY ReadyFacts
<1>2. Complete => Complete'
      BY DEF Complete, Stored
<1> QED BY <1>1, <1>2, RestingIInv DEF StepIsSafe

LEMMA RebootIsSafe == ASSUME IInv, Reboot PROVE StepIsSafe
<1>1. /\ disk' = disk /\ totps' = totps /\ toured' = toured
      /\ disk \in Disks /\ Keyed(disk)
      BY DEF IInv, TypeOK, Disks, Reboot, onDisk
<1>2. Listing({}, disk) /\ {} \in SUBSET Items
      BY DEF Listing
<1>3. pw' \in SUBSET Items /\ Listing(pw', disk')
      BY <1>1, <1>2, LoadLists DEF Reboot
<1>4. mode' \in Modes /\ mode_cache' = mode' /\ attached' \in BOOLEAN
      BY DEF Reboot, FirstModes, Modes
<1>5. TypeOK'
      BY <1>1, <1>3, <1>4 DEF Reboot, TypeOK, IInv
<1> QED BY <1>1, <1>3, <1>5, RestingIInv DEF StepIsSafe, Asserts, Reboot

LEMMA ScreensAreSafe == ASSUME IInv, Screens PROVE StepIsSafe
<1>0. Ready
      BY DEF Screens, EndTour, EndHelp, OpenScreen, ShowList, MenuOther
<1>1. CASE EndTour
      <2>1. TypeOK'
            BY <1>1 DEF EndTour, IInv, TypeOK, Modes, lists
      <2> QED BY <1>0, <1>1, <2>1, ReadyFacts, SameDiskIsSafe DEF EndTour, Asserts, lists
<1>2. CASE EndHelp
      <2>1. TypeOK'
            BY <1>2 DEF EndHelp, IInv, TypeOK, Modes, lists, onDisk
      <2> QED BY <1>0, <1>2, <2>1, ReadyFacts, SameDiskIsSafe DEF EndHelp, Asserts, lists, onDisk
<1>3. CASE OpenScreen
      <2>1. TypeOK'
            BY <1>3 DEF OpenScreen, IInv, TypeOK, Modes, lists, onDisk
      <2> QED BY <1>0, <1>3, <2>1, ReadyFacts, SameDiskIsSafe DEF OpenScreen, Asserts, lists, onDisk
<1>4. CASE ShowList
      <2>1. /\ mode' \in Modes /\ retrieve_db(mode', pw)
            /\ disk' = disk /\ totps' = totps /\ totps' \subseteq TotpNames
            BY <1>4 DEF ShowList, Modes, onDisk, IInv, TypeOK
      <2>2. /\ mode_cache' \in Modes /\ pw' \in SUBSET Items /\ totp' \in SUBSET Items
            /\ Listing(pw', disk') /\ pw \subseteq pw'
            BY <1>0, <2>1, ReadyFacts, Reload
      <2>3. TypeOK'
            BY <1>4, <2>1, <2>2 DEF ShowList, IInv, TypeOK, onDisk
      <2> QED BY <1>0, <1>4, <2>1, <2>2, <2>3, SameDiskIsSafe DEF ShowList, Asserts
<1>5. CASE MenuOther
      <2>1. /\ mode \in Modes /\ disk' = disk /\ totps' = totps /\ totps' \subseteq TotpNames
            /\ UNCHANGED <<writing, panicked, mode, attached, toured>>
            BY <1>5 DEF MenuOther, Modes, onDisk, screen, IInv, TypeOK
      <2>2. /\ mode_cache' \in Modes /\ pw' \in SUBSET Items /\ totp' \in SUBSET Items
            /\ Listing(pw', disk') /\ pw \subseteq pw'
            <3>1. CASE retrieve_db(mode, pw)
                  BY <1>0, <2>1, <3>1, ReadyFacts, Reload
            <3>2. CASE activate /\ UNCHANGED lists
                  BY <1>0, <2>1, <3>2, ReadyFacts DEF activate, lists
            <3> QED BY <1>5, <3>1, <3>2 DEF MenuOther
      <2>3. TypeOK'
            BY <2>1, <2>2 DEF IInv, TypeOK
      <2> QED BY <1>0, <2>1, <2>2, <2>3, SameDiskIsSafe DEF Asserts
<1> QED BY <1>1, <1>2, <1>3, <1>4, <1>5 DEF Screens

\* Autotype and a scan that is known delete the record of an item, to write it again.
LEMMA BeginIsSafe ==
    ASSUME IInv, Ready, NEW by \in {"autotype", "scan"}, NEW i \in pw, disk[i.guid] # NoRecord,
           BeginUpdate(by, i.guid, disk[i.guid]),
           UNCHANGED <<totps, toured, lists, mode_cache, screen>>
    PROVE  StepIsSafe
<1> DEFINE g == i.guid
           r == disk[g]
<1>1. g \in Guids
      BY ReadyFacts DEF Items
<1>2. r \in Record /\ g = PwHash[Account(r)] /\ i = PwItem(g, r)
      <2>1. r \in Record /\ g = PwHash[Account(r)]
            BY <1>1, ReadyFacts DEF Disks, Keyed
      <2>2. IsPw(i)
            BY <1>1, ReadyFacts, KeyedIsPw
      <2> QED BY <2>1, <2>2, ReadyFacts DEF Listing
<1>3. \A j \in pw : j.guid = g => j = PwItem(g, r)
      BY <1>1, ReadyFacts, KeyedIsPw DEF Listing
<1>4. /\ disk' = [disk EXCEPT ![g] = NoRecord]
      /\ writing' = [by |-> by, guid |-> g, rec |-> r]
      /\ UNCHANGED <<panicked, totps, toured, pw, totp, mode_cache, mode, attached>>
      BY DEF BeginUpdate, Delete, lists, screen
<1> HIDE DEF g, r
<1>5. /\ disk' \in Disks /\ Keyed(disk') /\ disk'[g] = NoRecord
      /\ \A h \in Guids \ {g} : disk'[h] = disk[h]
      /\ Listing({j \in pw : j.guid # g}, disk')
      <2> DEFINE q == {j \in pw : j.guid # g}
      <2>1. q \in SUBSET pw /\ \A j \in q : j.guid # g
            OBVIOUS
      <2> HIDE DEF q
      <2>a. disk \in Disks /\ Keyed(disk) /\ Listing(pw, disk)
            BY ReadyFacts
      <2>b. disk' = [disk EXCEPT ![g] = NoRecord]
            BY <1>4
      <2>2. /\ disk' \in Disks /\ disk'[g] = NoRecord
            /\ \A h \in Guids \ {g} : disk'[h] = disk[h]
            BY <1>1, <2>a, <2>b DEF Disks
      <2>3. Keyed(disk') /\ Listing(q, disk')
            BY <1>1, <2>1, <2>a, <2>b, DeleteLists
      <2> QED BY <2>2, <2>3 DEF q
<1>6. TypeOK'
      BY <1>1, <1>2, <1>4, <1>5 DEF IInv, TypeOK, Disks, Writes
<1>7. i \in pw
      OBVIOUS
<1>8. WriteInv'
      <2>1. writing'.by = by /\ writing'.guid = g /\ writing'.rec = r
            BY <1>4
      <2> QED BY <1>2, <1>3, <1>4, <1>5, <1>7, <2>1 DEF WriteInv
<1>9. Complete => Complete'
      BY <1>4, <1>5 DEF Complete, Stored
<1> QED BY <1>4, <1>5, <1>6, <1>8, <1>9 DEF StepIsSafe, Asserts, IInv

LEMMA TypingIsSafe == ASSUME IInv, Autotype \/ ScanKnown PROVE StepIsSafe
<1>1. Ready /\ UNCHANGED <<totps, toured, lists, mode_cache, screen>>
      BY DEF Autotype, ScanKnown
<1>2. PICK i \in pw, by \in {"autotype", "scan"}, why \in {"unwrap", "expect"} :
          \/ Panic(why)
          \/ disk[i.guid] # NoRecord /\ BeginUpdate(by, i.guid, disk[i.guid])
      BY Zenon DEF Autotype, ScanKnown, Matches, Named
<1>3. CASE Panic(why)
      <2>1. TypeOK' /\ UNCHANGED <<disk, writing, pw>> /\ ~Asserts
            BY <1>1, <1>3 DEF Panic, IInv, TypeOK, Asserts, lists, screen
      <2> QED BY <1>1, <2>1, ReadyFacts, SameDiskIsSafe
<1>4. CASE disk[i.guid] # NoRecord /\ BeginUpdate(by, i.guid, disk[i.guid])
      BY <1>1, <1>4, BeginIsSafe
<1> QED BY <1>2, <1>3, <1>4

\* Where a record is deleted and cannot be written back, the panic leaves all as it is.
LEMMA WriteFailsIsSafe == ASSUME IInv, WriteFails PROVE StepIsSafe
<1>1. /\ panicked' = "unwrap"
      /\ UNCHANGED <<disk, writing, totps, toured, pw, totp, mode_cache, mode, attached>>
      BY DEF WriteFails, Panic, lists, screen
<1>2. TypeOK'
      BY <1>1 DEF IInv, TypeOK
<1>3. Keyed(disk') /\ WriteInv'
      BY <1>1 DEF IInv, WriteInv, Listing
<1>4. Complete => Complete'
      BY <1>1 DEF Complete, Stored
<1> QED BY <1>1, <1>2, <1>3, <1>4 DEF StepIsSafe, Asserts, IInv

\* The record comes back to the key that its item names.
LEMMA PutBack ==
    ASSUME IInv, writing.by \in {"autotype", "scan"}, Put(Target(writing), writing.rec)
    PROVE  /\ disk' \in Disks /\ Keyed(disk') /\ Listing(pw, disk')
           /\ Complete => \A g \in Guids : disk'[g] # NoRecord => PwItem(g, disk'[g]) \in pw
<1> DEFINE g == writing.guid
           r == writing.rec
           q == {i \in pw : i.guid # g}
<1>1. g \in Guids /\ r \in Record
      BY WriteKinds DEF IInv, TypeOK
<1>2. /\ disk[g] = NoRecord /\ g = PwHash[Account(r)] /\ PwItem(g, r) \in pw
      /\ \A i \in pw : i.guid = g => i = PwItem(g, r)
      /\ Listing(q, disk)
      BY DEF IInv, WriteInv
<1>3. disk \in Disks /\ Keyed(disk)
      BY DEF IInv, TypeOK, Disks
<1>4. disk' = [disk EXCEPT ![g] = r]
      BY <1>2 DEF Put, Target
<1>5. \A i \in pw : i \notin q => i = PwItem(g, r)
      BY <1>2
<1>6. \A h \in Guids \ {g} : disk'[h] = disk[h]
      BY <1>1, <1>3, <1>4 DEF Disks
<1> HIDE DEF g, r, q
<1>7. disk' \in Disks /\ Keyed(disk') /\ disk'[g] = r /\ Listing(q, disk')
      <2>1. disk' \in Disks /\ disk'[g] = r
            BY <1>1, <1>3, <1>4 DEF Disks
      <2>2. Keyed(disk') /\ Listing(q, disk')
            BY <1>1, <1>2, <1>3, <1>4, PutLists
      <2> QED BY <2>1, <2>2
<1>8. PwItem(g, r).guid = g /\ r # NoRecord
      BY <1>1, PwItemIsItem, RecordIsRecord
<1>9. Listing(pw, disk')
      BY <1>1, <1>5, <1>7, <1>8 DEF Listing
<1>10. Complete => \A h \in Guids : disk'[h] # NoRecord => PwItem(h, disk'[h]) \in pw
      BY <1>2, <1>6, <1>7 DEF Complete, Stored
<1> QED BY <1>7, <1>9, <1>10

LEMMA PutBackIsSafe == ASSUME IInv, FinishAutotype \/ FinishScan PROVE StepIsSafe
<1>1. writing.by \in {"autotype", "scan"} /\ Put(Target(writing), writing.rec) /\ writing' = NoWrite
      BY DEF FinishAutotype, FinishScan, Finishing
<1>2. /\ disk' \in Disks /\ Keyed(disk') /\ Listing(pw, disk')
      /\ Complete => \A g \in Guids : disk'[g] # NoRecord => PwItem(g, disk'[g]) \in pw
      BY <1>1, PutBack
<1>3. UNCHANGED <<totps, toured, mode, attached, panicked>>
      BY DEF FinishAutotype, FinishScan, screen
<1>4. /\ mode_cache' \in Modes /\ pw' \in SUBSET Items /\ totp' \in SUBSET Items
      /\ Listing(pw', disk') /\ pw \subseteq pw'
      <2>1. CASE FinishAutotype
            BY <1>2, <2>1 DEF FinishAutotype, lists, IInv, TypeOK
      <2>2. CASE FinishScan
            <3>1. /\ mode \in Modes /\ pw \in SUBSET Items /\ totp \in SUBSET Items
                  /\ totps' \subseteq TotpNames /\ retrieve_db(mode, pw)
                  BY <1>3, <2>2 DEF FinishScan, IInv, TypeOK
            <3> QED BY <1>2, <3>1, Reload
      <2> QED BY <2>1, <2>2
<1>5. TypeOK'
      BY <1>1, <1>2, <1>3, <1>4 DEF IInv, TypeOK, Disks
<1>6. Complete => Complete'
      BY <1>2, <1>4 DEF Complete, Stored
<1> QED BY <1>1, <1>2, <1>3, <1>4, <1>5, <1>6, RestingIInv DEF StepIsSafe, Asserts, IInv

LEMMA ScanNewIsSafe ==
    ASSUME IInv, ScanNew
    PROVE  /\ StepIsSafe
           /\ Complete => \E g \in Guids : g \notin Stored /\ (g \in Stored)'
<1>1. PICK u \in Descs, n \in Users, pass \in Passwords :
          LET r == [desc |-> u, user |-> n, pw |-> pass]
              g == PwHash[Account(r)]
          IN  /\ Matches(u) = {}
              /\ Put(g, r)
              /\ UNCHANGED <<totps, toured, writing, screen, panicked>>
              /\ retrieve_db(mode, InsertPw(mode_cache, PwItem(g, r)))
      BY DEF ScanNew
<1> DEFINE r == [desc |-> u, user |-> n, pw |-> pass]
           g == PwHash[Account(r)]
           p == InsertPw(mode_cache, PwItem(g, r))
<1>2. /\ Ready /\ mode = "Password" /\ r \in Record /\ r.desc = u /\ g = PwHash[Account(r)]
      BY DEF ScanNew, Record
<1>3. /\ Matches(u) = {} /\ disk' = [disk EXCEPT ![g] = r] /\ retrieve_db(mode, p)
      /\ UNCHANGED <<totps, toured, writing, mode, attached, panicked>>
      /\ p = pw \/ p = pw \cup {PwItem(g, r)}
      BY <1>1 DEF Put, screen, InsertPw
<1> HIDE DEF r, g, p
<1>4. /\ disk \in Disks /\ Keyed(disk) /\ Listing(pw, disk) /\ writing = NoWrite
      /\ pw \in SUBSET Items /\ totp \in SUBSET Items
      BY <1>2, ReadyFacts
<1>5. g \in Guids /\ r # NoRecord /\ PwItem(g, r) \in Items /\ PwItem(g, r).guid = g
      BY <1>2, RecordIsRecord, PwItemIsItem
<1>6. disk' \in Disks /\ Keyed(disk') /\ disk'[g] = r /\ Listing(pw, disk')
      <2>1. disk' \in Disks /\ disk'[g] = r
            BY <1>2, <1>3, <1>4, <1>5 DEF Disks
      <2>2. Keyed(disk') /\ Listing(pw, disk')
            BY <1>2, <1>3, <1>4, PutLists
      <2> QED BY <2>1, <2>2
<1>7. Listing(p, disk') /\ p \in SUBSET Items
      BY <1>3, <1>4, <1>6, <1>5 DEF Listing
<1>8. mode \in Modes /\ totps' \subseteq TotpNames
      BY <1>3 DEF IInv, TypeOK
<1>9. /\ mode_cache' \in Modes /\ pw' \in SUBSET Items /\ totp' \in SUBSET Items
      /\ Listing(pw', disk') /\ Complete'
      BY <1>2, <1>3, <1>4, <1>6, <1>7, <1>8, Reload
<1>10. TypeOK'
      BY <1>3, <1>6, <1>9 DEF IInv, TypeOK, Disks
<1>11. StepIsSafe
      BY <1>3, <1>4, <1>6, <1>9, <1>10, RestingIInv DEF StepIsSafe, Asserts, IInv
<1>12. ASSUME Complete PROVE g \notin Stored
      <2> SUFFICES ASSUME g \in Stored PROVE FALSE
          OBVIOUS
      <2>1. /\ disk[g] # NoRecord /\ PwItem(g, disk[g]) \in pw
            /\ disk[g] \in Record /\ g = PwHash[Account(disk[g])]
            BY <1>4, <1>12 DEF Complete, Stored, Keyed, Disks
      <2>2. Account(disk[g]) = Account(r)
            BY <1>2, <2>1, RecordIsRecord, PwHashAssumption
      <2>3. disk[g].desc = u
            BY <1>2, <2>2 DEF Account
      <2>4. PwItem(g, disk[g]) \in Named(u)
            BY <1>5, <2>1, <2>3, PwItemIsItem DEF Named
      <2> QED BY <1>3, <2>4 DEF Matches
<1>13. (g \in Stored)'
      BY <1>6, <1>5 DEF Stored
<1> QED BY <1>5, <1>11, <1>12, <1>13

\* A reload that leaves the passwords on disk as they are.
LEMMA ReloadIsSafe ==
    ASSUME IInv, Ready, UNCHANGED <<disk, toured, writing, screen, panicked>>,
           totps' \subseteq TotpNames, NEW p \in SUBSET Items, pw \subseteq p, Listing(p, disk),
           retrieve_db(mode, p)
    PROVE  StepIsSafe
<1>1. /\ disk' = disk /\ disk' \in Disks /\ Keyed(disk') /\ Listing(p, disk')
      /\ totp \in SUBSET Items /\ mode \in Modes
      BY ReadyFacts DEF IInv, TypeOK
<1>2. /\ mode_cache' \in Modes /\ pw' \in SUBSET Items /\ totp' \in SUBSET Items
      /\ Listing(pw', disk') /\ p \subseteq pw'
      BY <1>1, Reload
<1>3. TypeOK'
      BY <1>2 DEF IInv, TypeOK, screen
<1> QED BY <1>2, <1>3, SameDiskIsSafe DEF Asserts

LEMMA OtherScansAreSafe == ASSUME IInv, ScanTotp \/ ScanOther PROVE StepIsSafe
<1>1. Ready /\ Listing(pw, disk) /\ pw \in SUBSET Items
      BY ReadyFacts DEF ScanTotp, ScanOther
<1>2. CASE ScanTotp
      <2>1. PICK n \in TotpNames :
                /\ totps' \in {totps, totps \cup {n}}
                /\ UNCHANGED <<disk, toured, writing, screen, panicked>>
                /\ retrieve_db(mode, InsertPw(mode_cache, Item(n, TotpHash[n])))
            BY <1>2 DEF ScanTotp
      <2> DEFINE p == InsertPw(mode_cache, Item(n, TotpHash[n]))
      <2>2. p = pw \/ p = pw \cup {Item(n, TotpHash[n])}
            BY DEF InsertPw
      <2>3. retrieve_db(mode, p)
            BY <2>1
      <2> HIDE DEF p
      <2>4. p \in SUBSET Items /\ pw \subseteq p
            BY <1>1, <2>2, TotpIsNotPw, TotpItemIsItem
      <2>5. Listing(p, disk)
            BY <1>1, <2>2, TotpIsNotPw DEF Listing
      <2>6. totps' \subseteq TotpNames
            BY <2>1 DEF IInv, TypeOK
      <2> QED BY <1>1, <2>1, <2>3, <2>4, <2>5, <2>6, ReloadIsSafe
<1>3. CASE ScanOther
      BY <1>1, <1>3, ReloadIsSafe DEF ScanOther, onDisk, IInv, TypeOK
<1> QED BY <1>2, <1>3

LEMMA EditIsSafe == ASSUME IInv, EditPassword PROVE StepIsSafe
<1>1. /\ Ready /\ Listing(pw, disk) /\ pw \in SUBSET Items /\ disk \in Disks /\ Keyed(disk)
      /\ mode = "Password" /\ mode_cache' = "Password" /\ writing = NoWrite
      /\ UNCHANGED <<totps, toured, totp, mode, attached>>
      BY ReadyFacts DEF EditPassword, activate, screen
<1>2. PICK i \in pw, r \in Record :
          LET old == PwItem(i.guid, disk[i.guid]) IN
          IF disk[i.guid] = NoRecord
          THEN UNCHANGED <<disk, pw, writing, panicked>>
          ELSE IF old \notin pw
          THEN Panic("assert") /\ UNCHANGED pw
          ELSE BeginUpdate("edit", i.guid, r) /\ pw' = pw \ {old}
      BY DEF EditPassword
<1>3. CASE disk[i.guid] = NoRecord
      <2>1. UNCHANGED <<disk, pw, writing, panicked>>
            BY <1>2, <1>3
      <2>2. TypeOK'
            BY <1>1, <2>1 DEF IInv, TypeOK, Modes
      <2> QED BY <1>1, <2>1, <2>2, SameDiskIsSafe DEF Asserts
<1>4. CASE disk[i.guid] # NoRecord
      <2> DEFINE g == i.guid
                 old == PwItem(g, disk[g])
      <2>1. g \in Guids
            BY <1>1 DEF Items
      <2>2. \A j \in pw : j.guid = g => j = old
            BY <1>1, <1>4, <2>1, KeyedIsPw DEF Listing
      <2>3. old \in pw
            BY <2>2
      <2>4. /\ disk' = [disk EXCEPT ![g] = NoRecord] /\ pw' = pw \ {old}
            /\ writing' = [by |-> "edit", guid |-> g, rec |-> r] /\ panicked' = panicked
            BY <1>2, <1>4, <2>3 DEF BeginUpdate, Delete
      <2> HIDE DEF g, old
      <2>5. pw' \in SUBSET pw /\ \A j \in pw' : j.guid # g
            BY <2>2, <2>4
      <2>6. /\ disk' \in Disks /\ disk'[g] = NoRecord
            /\ \A h \in Guids \ {g} : disk'[h] = disk[h]
            BY <1>1, <2>1, <2>4 DEF Disks
      <2>7. Keyed(disk') /\ Listing(pw', disk')
            BY <1>1, <2>1, <2>4, <2>5, DeleteLists
      <2>8. TypeOK'
            BY <1>1, <2>1, <2>4, <2>6 DEF IInv, TypeOK, Disks, Modes, Writes
      <2>9. WriteInv'
            BY <1>1, <2>4, <2>6, <2>7 DEF WriteInv
      <2>10. Complete => Complete'
            <3> SUFFICES ASSUME Complete, NEW h \in Guids, disk'[h] # NoRecord
                         PROVE  PwItem(h, disk'[h]) \in pw'
                BY DEF Complete, Stored
            <3>1. h # g /\ disk'[h] = disk[h] /\ PwItem(h, disk[h]) \in pw
                  BY <2>6 DEF Complete, Stored
            <3>2. PwItem(h, disk[h]).guid = h /\ old.guid = g
                  BY DEF PwItem, Item, old
            <3> QED BY <2>4, <3>1, <3>2
      <2> QED BY <2>4, <2>7, <2>8, <2>9, <2>10 DEF StepIsSafe, Asserts, IInv
<1> QED BY <1>3, <1>4

\* An edit that comes to nothing ends in the failed assertion, and changes no more.
LEMMA EditFailsIsSafe == ASSUME IInv, EditFails PROVE StepIsSafe
<1>1. /\ Ready /\ panicked' = "assert" /\ mode = "Password" /\ mode_cache' = mode
      /\ UNCHANGED <<disk, writing, totps, toured, pw, totp, mode, attached>>
      BY DEF EditFails, Panic, activate, lists, screen
<1>2. TypeOK'
      BY <1>1 DEF IInv, TypeOK
<1> QED BY <1>1, <1>2, ReadyFacts, SameDiskIsSafe

\* An edit that loses its record leaves the list without its item.
LEMMA LoseEditIsSafe == ASSUME IInv, LoseEdit PROVE StepIsSafe
<1>1. /\ writing.by = "edit" /\ writing' = NoWrite
      /\ UNCHANGED <<disk, totps, toured, pw, totp, mode_cache, mode, attached, panicked>>
      BY DEF LoseEdit, Finishing, onDisk, lists, screen
<1>2. TypeOK' /\ Keyed(disk')
      BY <1>1 DEF IInv, TypeOK
<1>3. Listing(pw', disk')
      BY <1>1 DEF IInv, WriteInv
<1>4. Complete => Complete'
      BY <1>1 DEF Complete, Stored
<1> QED BY <1>1, <1>2, <1>3, <1>4, RestingIInv DEF StepIsSafe, Asserts

\* The edit ends under the mode it began in, so that the new item is listed and the
\* assertion of update_db_entry holds.
LEMMA FinishEditIsSafe == ASSUME IInv, FinishEdit PROVE StepIsSafe
<1> DEFINE w == writing.guid
           r == writing.rec
           g == PwHash[Account(r)]
           again == PwItem(w, disk'[w])
           listed == pw \cup {PwItem(g, r)}
<1>1. writing.by = "edit" /\ mode_cache = "Password" /\ disk[w] = NoRecord /\ Listing(pw, disk)
      BY DEF FinishEdit, Finishing, IInv, WriteInv
<1>2. w \in Guids /\ r \in Record
      BY <1>1, WriteKinds DEF IInv, TypeOK
<1>3. disk \in Disks /\ Keyed(disk) /\ pw \in SUBSET Items
      BY DEF IInv, TypeOK, Disks
<1>4. /\ disk' = [disk EXCEPT ![g] = r]
      /\ totp' = totp /\ writing' = NoWrite
      /\ IF disk'[w] = NoRecord
         THEN pw' = listed /\ UNCHANGED panicked
         ELSE /\ pw' = listed \cup {again}
              /\ panicked' = IF again \in listed THEN panicked ELSE "assert"
      /\ UNCHANGED <<totps, toured, mode_cache, mode, attached>>
      BY <1>1 DEF FinishEdit, Put, Target, InsertPw, InsertTotp, screen
<1>5. g = PwHash[Account(r)] /\ g \in Guids /\ r # NoRecord
      BY <1>2, RecordIsRecord
<1>6. PwItem(g, r) \in Items /\ PwItem(g, r).guid = g
      BY <1>2, <1>5, PwItemIsItem
<1>7. /\ disk' \in Disks /\ disk'[g] = r
      /\ \A h \in Guids \ {g} : disk'[h] = disk[h]
      BY <1>2, <1>3, <1>4, <1>5 DEF Disks
<1>8. disk'[w] # NoRecord => w = g
      BY <1>1, <1>2, <1>7
<1>9. pw' = listed /\ panicked' = panicked
      BY <1>4, <1>7, <1>8
<1> HIDE DEF w, g, r
<1>10. Keyed(disk') /\ Listing(pw, disk')
      BY <1>1, <1>2, <1>3, <1>4, <1>5, PutLists
<1>11. Listing(pw', disk') /\ pw' \in SUBSET Items
      BY <1>3, <1>5, <1>6, <1>7, <1>9, <1>10 DEF Listing
<1>12. TypeOK'
      BY <1>4, <1>7, <1>9, <1>11 DEF IInv, TypeOK, Disks
<1>13. Complete => Complete'
      BY <1>7, <1>9 DEF Complete, Stored
<1> QED BY <1>3, <1>4, <1>9, <1>10, <1>11, <1>12, <1>13, RestingIInv DEF StepIsSafe, Asserts

LEMMA DeleteIsSafe == ASSUME IInv, DeletePassword PROVE StepIsSafe
<1>1. /\ Ready /\ Listing(pw, disk) /\ pw \in SUBSET Items /\ disk \in Disks /\ Keyed(disk)
      /\ mode = "Password" /\ writing = NoWrite /\ totp \in SUBSET Items
      BY ReadyFacts DEF DeletePassword
<1>2. PICK i \in pw :
          LET old == PwItem(i.guid, disk[i.guid]) IN
          /\ UNCHANGED <<totps, toured, writing, screen>>
          /\ IF disk[i.guid] = NoRecord
             THEN UNCHANGED <<disk, panicked>> /\ retrieve_db(mode, pw)
             ELSE IF old \notin pw
             THEN /\ panicked' = "assert"
                  /\ activate
                  /\ UNCHANGED <<disk, lists>>
             ELSE /\ Delete(i.guid) \/ UNCHANGED disk
                  /\ UNCHANGED panicked
                  /\ retrieve_db(mode, pw \ {old})
      BY DEF DeletePassword
<1>3. CASE disk[i.guid] = NoRecord
      BY <1>1, <1>2, <1>3, ReloadIsSafe DEF IInv, TypeOK
<1>4. CASE disk[i.guid] # NoRecord
      <2> DEFINE g == i.guid
                 old == PwItem(g, disk[g])
                 p == pw \ {old}
      <2>1. g \in Guids
            BY <1>1 DEF Items
      <2>2. \A j \in pw : j.guid = g => j = old
            BY <1>1, <1>4, <2>1, KeyedIsPw DEF Listing
      <2>3. old \in pw
            BY <2>2
      <2>4. /\ disk' = [disk EXCEPT ![g] = NoRecord] \/ UNCHANGED disk
            /\ retrieve_db(mode, p)
            /\ UNCHANGED <<totps, toured, writing, mode, attached, panicked>>
            BY <1>2, <1>4, <2>3 DEF Delete, screen
      <2>5. p \in SUBSET pw /\ \A j \in p : j.guid # g
            BY <2>2
      <2> HIDE DEF g, old, p
      <2>6. disk' \in Disks
            BY <1>1, <2>1, <2>4 DEF Disks
      <2>7. Keyed(disk') /\ Listing(p, disk')
            <3>1. CASE disk' = [disk EXCEPT ![g] = NoRecord]
                  BY <1>1, <2>1, <2>5, <3>1, DeleteLists
            <3>2. CASE UNCHANGED disk
                  BY <1>1, <2>5, <3>2 DEF Listing
            <3> QED BY <2>4, <3>1, <3>2
      <2>8. p \in SUBSET Items /\ mode \in Modes /\ totps' \subseteq TotpNames
            BY <1>1, <2>4, <2>5 DEF IInv, TypeOK
      <2>9. /\ mode_cache' \in Modes /\ pw' \in SUBSET Items /\ totp' \in SUBSET Items
            /\ Listing(pw', disk') /\ Complete'
            BY <1>1, <2>4, <2>6, <2>7, <2>8, Reload
      <2>10. TypeOK'
            BY <2>4, <2>6, <2>9 DEF IInv, TypeOK, Disks
      <2> QED BY <1>1, <2>4, <2>7, <2>9, <2>10, RestingIInv DEF StepIsSafe, Asserts, IInv
<1> QED BY <1>3, <1>4

LEMMA TotpEditsAreSafe ==
    ASSUME IInv, EditTotp \/ FinishEditTotp \/ DeleteTotp
    PROVE  StepIsSafe
<1>1. CASE EditTotp
      <2>1. /\ Ready /\ Listing(pw, disk) /\ writing = NoWrite /\ Keyed(disk)
            /\ mode_cache' = "Totp"
            /\ UNCHANGED <<disk, toured, pw, totp, mode, attached, panicked>>
            BY <1>1, ReadyFacts DEF EditTotp, activate, lists, screen
      <2>2. PICK i \in totp, n \in TotpNames :
                \/ /\ totps' = {m \in totps : TotpHash[m] # i.guid}
                   /\ writing' = [by |-> "totp", guid |-> i.guid, name |-> n]
                \/ UNCHANGED <<totps, writing>>
            BY <1>1 DEF EditTotp
      <2>3. i.guid \in Guids
            BY DEF IInv, TypeOK, Items
      <2>4. \/ writing' = [by |-> "totp", guid |-> i.guid, name |-> n]
            \/ writing' = NoWrite
            BY <2>1, <2>2
      <2>5. writing' \in Writes \cup {NoWrite} /\ totps' \subseteq TotpNames
            BY <2>2, <2>3, <2>4 DEF Writes, IInv, TypeOK
      <2>6. TypeOK'
            BY <2>1, <2>5 DEF IInv, TypeOK, Modes
      <2>7. writing'.by \in {"totp", "none"}
            BY <2>4 DEF NoWrite
      <2>8. WriteInv'
            BY <2>1, <2>7 DEF WriteInv
      <2>9. Complete => Complete'
            BY <2>1 DEF Complete, Stored
      <2> QED BY <2>1, <2>6, <2>8, <2>9 DEF StepIsSafe, Asserts, IInv
<1>2. CASE FinishEditTotp
      <2>1. /\ writing.by = "totp" /\ mode_cache = "Totp" /\ Listing(pw, disk)
            /\ writing.guid \in Guids /\ writing.name \in TotpNames
            BY <1>2, WriteKinds DEF FinishEditTotp, Finishing, IInv, WriteInv, TypeOK
      <2>2. /\ pw' = pw /\ totp' \in {totp, totp \cup {Item(writing.name, writing.guid)}}
            /\ totps' \in {totps, totps \cup {writing.name}} /\ writing' = NoWrite
            /\ UNCHANGED <<disk, toured, mode_cache, mode, attached, panicked>>
            BY <1>2, <2>1 DEF FinishEditTotp, InsertPw, InsertTotp, screen, lists
      <2>3. TypeOK'
            BY <2>1, <2>2, TotpItemIsItem DEF IInv, TypeOK
      <2>4. Complete => Complete'
            BY <2>2 DEF Complete, Stored
      <2> QED BY <2>1, <2>2, <2>3, <2>4, RestingIInv DEF StepIsSafe, Asserts, IInv
<1>3. CASE DeleteTotp
      <2>1. /\ totps' \subseteq TotpNames
            /\ UNCHANGED <<disk, toured, writing, screen, panicked>>
            /\ retrieve_db(mode, pw)
            BY <1>3 DEF DeleteTotp, IInv, TypeOK
      <2>2. Ready /\ pw \in SUBSET Items /\ Listing(pw, disk)
            BY <1>3, ReadyFacts DEF DeleteTotp
      <2> QED BY <2>1, <2>2, ReloadIsSafe
<1> QED BY <1>1, <1>2, <1>3

-----------------------------------------------------------------------------
LEMMA InitInv == ASSUME Init PROVE IInv
<1>1. TypeOK
      BY DEF Init, TypeOK, FirstModes, Modes
<1>2. Keyed(disk) /\ Listing(pw, disk)
      BY DEF Init, Keyed, Listing
<1> QED BY <1>1, <1>2 DEF Init, IInv, WriteInv, NoWrite

LEMMA NextIsSafe == ASSUME IInv, [Next]_vars PROVE StepIsSafe
<1>1. CASE UNCHANGED vars
      BY <1>1 DEF vars, onDisk, lists, screen, StepIsSafe, Asserts, IInv, TypeOK, Keyed, WriteInv,
                  Complete, Stored
<1>2. CASE Next
      <2>1. CASE Scans
            BY <2>1, TypingIsSafe, PutBackIsSafe, ScanNewIsSafe, OtherScansAreSafe DEF Scans
      <2>2. CASE Edits
            BY <2>2, EditIsSafe, EditFailsIsSafe, FinishEditIsSafe, LoseEditIsSafe, DeleteIsSafe,
               TotpEditsAreSafe DEF Edits
      <2>3. CASE Typing
            BY <2>3, TypingIsSafe, PutBackIsSafe, WriteFailsIsSafe DEF Typing
      <2> QED BY <1>2, <2>1, <2>2, <2>3, RebootIsSafe, ScreensAreSafe DEF Next
<1> QED BY <1>1, <1>2

\* The parts of IInv are the invariants the runs check.
LEMMA Invariants == IInv => RecordKeyed /\ ListedHasRecord /\ TypeOK
<1> SUFFICES ASSUME IInv PROVE RecordKeyed /\ ListedHasRecord
    BY DEF IInv
<1>1. RecordKeyed
      BY DEF IInv, Keyed, RecordKeyed, Stored
<1>2. ListedHasRecord
      <2>1. CASE writing.by \in {"autotype", "scan"}
            BY <2>1 DEF IInv, WriteInv, Listing, ListedHasRecord, Stored
      <2>2. CASE writing.by \notin {"autotype", "scan"}
            BY <2>2 DEF IInv, WriteInv, Listing, ListedHasRecord, Stored
      <2> QED BY <2>1, <2>2
<1> QED BY <1>1, <1>2

LEMMA Invariant == Spec => []IInv
<1>1. IInv /\ [Next]_vars => IInv'
      BY NextIsSafe DEF StepIsSafe
<1> QED BY InitInv, <1>1, PTL DEF Spec

-----------------------------------------------------------------------------
\* The dictionaries, the lists and the update under way keep their types.
THEOREM TypeCorrect == Spec => []TypeOK
BY Invariant, Invariants, PTL

\* Every record stays under the key of its account, for any accounts and any hash
\* that tells them apart (storage.update, handle_autotype, add_password).
THEOREM RecordsKeyed == Spec => []RecordKeyed
BY Invariant, Invariants, PTL

\* No item of the password list is stale, although a reload only adds items.
THEOREM ItemsHaveRecords == Spec => []ListedHasRecord
BY Invariant, Invariants, PTL

\* The assertions of menu_edit and menu_delete cannot fail, and that of update_db_entry
\* only where an edit came to nothing: its new record is always found listed.
THEOREM NoAssertFails == Spec => AssertsHold
<1>1. IInv /\ [Next]_vars => [panicked' = "assert" /\ panicked # "assert" => EditFails]_vars
      BY NextIsSafe DEF StepIsSafe, Asserts
<1> QED BY Invariant, <1>1, PTL DEF Spec, AssertsHold

\* A list that is complete stays so until the next boot.
THEOREM ListStaysComplete == Spec => StaysComplete
<1>1. IInv /\ [Next]_vars => [Complete /\ ~Reboot => Complete']_vars
      BY NextIsSafe DEF StepIsSafe
<1> QED BY Invariant, <1>1, PTL DEF Spec, StaysComplete

\* A scan with no match in a complete list replaces no password.
THEOREM ScansReplaceNothing == Spec => ScanKeepsPasswords
<1>1. IInv => [ScanNew /\ Complete => \E g \in Guids : g \notin Stored /\ g \in Stored']_vars
      BY ScanNewIsSafe
<1> QED BY Invariant, <1>1, PTL DEF Spec, ScanKeepsPasswords

-----------------------------------------------------------------------------
(* The records are the set that PasswordBook promises.                      *)

LEMMA KeptIs ==
    /\ Kept = {disk[g] : g \in {h \in Guids : disk[h] # NoRecord}}
    /\ Kept' = {disk'[g] : g \in {h \in Guids : disk'[h] # NoRecord}}
BY DEF Kept, Stored

\* A record that is put under its key takes the place of that of its account.
LEMMA PutWrites ==
    ASSUME disk \in Disks, Keyed(disk), NEW r \in Record, Put(PwHash[Account(r)], r)
    PROVE  Book!Write(r)
<1> DEFINE g == PwHash[Account(r)]
<1>1. g \in Guids /\ r # NoRecord
      BY RecordIsRecord
<1>2. /\ disk'[g] = r
      /\ \A h \in Guids \ {g} : disk'[h] = disk[h]
      BY <1>1 DEF Put, Disks
<1>3. \A h \in Guids : disk[h] # NoRecord => (Book!SameAccount(disk[h], r) <=> h = g)
      <2> SUFFICES ASSUME NEW h \in Guids, disk[h] # NoRecord
                   PROVE  Book!SameAccount(disk[h], r) <=> h = g
          OBVIOUS
      <2>1. /\ disk[h] \in Record /\ h = PwHash[Account(disk[h])]
            BY DEF Keyed, Disks
      <2>2. Account(disk[h]) \in Accounts /\ Account(r) \in Accounts
            BY <2>1, RecordIsRecord
      <2>3. Account(disk[h]) = Account(r) <=> h = g
            BY <2>1, <2>2, PwHashAssumption
      <2> QED BY <2>3 DEF Account, Book!SameAccount
<1> HIDE DEF g
<1>4. \A h \in Guids : disk[h] # NoRecord /\ h # g => disk'[h] # NoRecord /\ disk'[h] = disk[h]
      BY <1>2
<1>5. \A h \in Guids : disk'[h] # NoRecord /\ h # g => disk[h] # NoRecord /\ disk'[h] = disk[h]
      BY <1>2
<1>6. Kept' = {x \in Kept : ~Book!SameAccount(x, r)} \cup {r}
      <2>1. \A x \in Kept' : x = r \/ (x \in Kept /\ ~Book!SameAccount(x, r))
            BY <1>2, <1>3, <1>5, KeptIs
      <2>2. \A x \in Kept : ~Book!SameAccount(x, r) => x \in Kept'
            BY <1>3, <1>4, KeptIs
      <2>3. r \in Kept'
            BY <1>1, <1>2, KeptIs
      <2> QED BY <2>1, <2>2, <2>3
<1> QED BY <1>6 DEF Book!Write

\* A record that is deleted is one less.
LEMMA DeleteRemoves ==
    ASSUME disk \in Disks, Keyed(disk), NEW g \in Guids, disk[g] # NoRecord, Delete(g)
    PROVE  /\ disk[g] \in Kept
           /\ Kept' = Kept \ {disk[g]}
<1>1. /\ disk'[g] = NoRecord
      /\ \A h \in Guids \ {g} : disk'[h] = disk[h]
      BY DEF Delete, Disks
<1>2. \A h \in Guids : disk[h] # NoRecord /\ disk[h] = disk[g] => h = g
      BY DEF Keyed
<1>3. \A x \in Kept' : x \in Kept /\ x # disk[g]
      BY <1>1, <1>2, KeptIs
<1>4. \A x \in Kept : x # disk[g] => x \in Kept'
      BY <1>1, KeptIs
<1> QED BY <1>3, <1>4, KeptIs

LEMMA ReadyTakesNone == ASSUME Ready PROVE Taken = NoRecord
BY DEF Ready, Taken, NoWrite

\* A step that touches neither the disk nor an update under way.
LEMMA AsideIsNone ==
    ASSUME UNCHANGED <<disk, writing>>
    PROVE  UNCHANGED Book!vars
BY DEF Book!vars, Kept, Stored, Taken

LEMMA BeginTakes ==
    ASSUME IInv, Ready, NEW by \in {"autotype", "scan", "edit"}, NEW g \in Guids,
           disk[g] # NoRecord, NEW r \in Record, BeginUpdate(by, g, r)
    PROVE  Book!Take
<1>1. disk[g] \in Kept /\ Kept' = Kept \ {disk[g]}
      BY ReadyFacts, DeleteRemoves DEF BeginUpdate
<1>2. Taken' = r
      <2>1. writing' = [by |-> by, guid |-> g, rec |-> r]
            BY DEF BeginUpdate
      <2>2. writing'.by = by /\ writing'.rec = r
            BY <2>1
      <2> QED BY <2>2 DEF Taken
<1> QED BY <1>1, <1>2, ReadyTakesNone DEF Book!Take

\* Every update that is finished puts back what it took.
LEMMA FinishPutsBack ==
    ASSUME IInv, writing.by \in {"autotype", "scan", "edit"}, Put(Target(writing), writing.rec),
           writing' = NoWrite
    PROVE  Book!PutBack
<1> DEFINE r == writing.rec
<1>1. r \in Record /\ Taken = r
      BY WriteKinds DEF IInv, TypeOK, Taken
<1>2. Target(writing) = PwHash[Account(r)]
      BY DEF Target, IInv, WriteInv
<1>3. Taken' = NoRecord
      BY DEF Taken, NoWrite
<1>4. Book!Write(r)
      <2> HIDE DEF r
      <2>1. Put(PwHash[Account(r)], r)
            BY <1>2 DEF r
      <2> QED BY <1>1, <2>1, PutWrites DEF IInv, TypeOK, Disks
<1>5. r # NoRecord
      BY <1>1, RecordIsRecord
<1> HIDE DEF r
<1> QED BY <1>1, <1>3, <1>4, <1>5 DEF Book!PutBack

StepKeepsBook == [Book!Next]_(Book!vars)

LEMMA TypingKeepsBook == ASSUME IInv, Autotype \/ ScanKnown PROVE StepKeepsBook
<1>1. Ready
      BY DEF Autotype, ScanKnown
<1>2. PICK i \in pw, by \in {"autotype", "scan"}, why \in {"unwrap", "expect"} :
          \/ Panic(why)
          \/ disk[i.guid] # NoRecord /\ BeginUpdate(by, i.guid, disk[i.guid])
      BY Zenon DEF Autotype, ScanKnown, Matches, Named
<1>3. CASE Panic(why)
      BY <1>3, AsideIsNone DEF Panic, StepKeepsBook
<1>4. CASE disk[i.guid] # NoRecord /\ BeginUpdate(by, i.guid, disk[i.guid])
      <2>1. i.guid \in Guids
            BY <1>1, ReadyFacts DEF Items
      <2>2. disk[i.guid] \in Record
            BY <1>1, <1>4, <2>1, ReadyFacts DEF Disks
      <2> QED BY <1>1, <1>4, <2>1, <2>2, BeginTakes DEF StepKeepsBook, Book!Next
<1> QED BY <1>2, <1>3, <1>4

LEMMA FinishKeepsBook ==
    ASSUME IInv, FinishAutotype \/ FinishScan \/ FinishEdit
    PROVE  StepKeepsBook
<1>1. /\ writing.by \in {"autotype", "scan", "edit"} /\ writing' = NoWrite
      /\ Put(Target(writing), writing.rec)
      <2>1. CASE FinishAutotype
            BY <2>1 DEF FinishAutotype, Finishing
      <2>2. CASE FinishScan
            BY <2>2 DEF FinishScan, Finishing
      <2>3. CASE FinishEdit
            <3>1. writing.by = "edit" /\ writing' = NoWrite
                  BY <2>3 DEF FinishEdit, Finishing
            <3>2. Put(Target(writing), writing.rec)
                  BY <2>3, Zenon DEF FinishEdit
            <3> QED BY <3>1, <3>2
      <2> QED BY <2>1, <2>2, <2>3
<1> QED BY <1>1, FinishPutsBack DEF StepKeepsBook, Book!Next

LEMMA ScanNewKeepsBook == ASSUME IInv, ScanNew PROVE StepKeepsBook
<1>1. PICK u \in Descs, n \in Users, pass \in Passwords :
          LET r == [desc |-> u, user |-> n, pw |-> pass]
              g == PwHash[Account(r)]
          IN  Put(g, r) /\ UNCHANGED writing
      BY DEF ScanNew
<1> DEFINE r == [desc |-> u, user |-> n, pw |-> pass]
<1>2. Ready /\ r \in Record
      BY DEF ScanNew, Record
<1>3. Put(PwHash[Account(r)], r) /\ Taken' = Taken
      BY <1>1 DEF Taken
<1> HIDE DEF r
<1>4. Book!Write(r)
      BY <1>2, <1>3, ReadyFacts, PutWrites
<1> QED BY <1>2, <1>3, <1>4, ReadyTakesNone DEF Book!Add, StepKeepsBook, Book!Next

LEMMA EditKeepsBook == ASSUME IInv, EditPassword PROVE StepKeepsBook
<1>1. Ready
      BY DEF EditPassword
<1>2. PICK i \in pw, r \in Record :
          LET old == PwItem(i.guid, disk[i.guid]) IN
          IF disk[i.guid] = NoRecord
          THEN UNCHANGED <<disk, pw, writing, panicked>>
          ELSE IF old \notin pw
          THEN Panic("assert") /\ UNCHANGED pw
          ELSE BeginUpdate("edit", i.guid, r) /\ pw' = pw \ {old}
      BY DEF EditPassword
<1>3. \/ UNCHANGED <<disk, writing>>
      \/ disk[i.guid] # NoRecord /\ BeginUpdate("edit", i.guid, r)
      BY <1>2 DEF Panic
<1>4. i.guid \in Guids
      BY <1>1, ReadyFacts DEF Items
<1> QED BY <1>1, <1>3, <1>4, AsideIsNone, BeginTakes DEF StepKeepsBook, Book!Next

LEMMA DeleteKeepsBook == ASSUME IInv, DeletePassword PROVE StepKeepsBook
<1>1. Ready
      BY DEF DeletePassword
<1>2. PICK i \in pw : /\ UNCHANGED writing
                      /\ UNCHANGED disk \/ (disk[i.guid] # NoRecord /\ Delete(i.guid))
      <2>1. PICK i \in pw :
                LET old == PwItem(i.guid, disk[i.guid]) IN
                /\ UNCHANGED <<totps, toured, writing, screen>>
                /\ IF disk[i.guid] = NoRecord
                   THEN UNCHANGED <<disk, panicked>> /\ retrieve_db(mode, pw)
                   ELSE IF old \notin pw
                   THEN /\ panicked' = "assert"
                        /\ activate
                        /\ UNCHANGED <<disk, lists>>
                   ELSE /\ Delete(i.guid) \/ UNCHANGED disk
                        /\ UNCHANGED panicked
                        /\ retrieve_db(mode, pw \ {old})
            BY DEF DeletePassword
      <2> QED BY <2>1
<1>3. i.guid \in Guids
      BY <1>1, ReadyFacts DEF Items
<1>4. CASE UNCHANGED disk
      BY <1>2, <1>4, AsideIsNone DEF StepKeepsBook
<1>5. CASE disk[i.guid] # NoRecord /\ Delete(i.guid)
      <2>1. disk[i.guid] \in Kept /\ Kept' = Kept \ {disk[i.guid]}
            BY <1>1, <1>3, <1>5, ReadyFacts, DeleteRemoves
      <2>2. Taken' = Taken
            BY <1>2 DEF Taken
      <2> QED BY <1>1, <2>1, <2>2, ReadyTakesNone DEF Book!Remove, StepKeepsBook, Book!Next
<1> QED BY <1>2, <1>4, <1>5

LEMMA TotpsKeepBook ==
    ASSUME IInv, EditTotp \/ FinishEditTotp \/ DeleteTotp
    PROVE  StepKeepsBook
<1>1. UNCHANGED disk
      BY DEF EditTotp, FinishEditTotp, DeleteTotp
<1>2. Kept' = Kept
      BY <1>1 DEF Kept, Stored
<1>3. writing.by \notin {"autotype", "scan", "edit"} /\ writing'.by \notin {"autotype", "scan", "edit"}
      BY DEF EditTotp, FinishEditTotp, DeleteTotp, Finishing, Ready, NoWrite
<1>4. Taken' = Taken
      BY <1>3 DEF Taken
<1> QED BY <1>2, <1>4 DEF StepKeepsBook, Book!vars

\* An update that is cut off, or whose record cannot be written, gives up what it took.
LEMMA GivingUpKeepsBook == ASSUME Reboot \/ LoseEdit PROVE StepKeepsBook
<1>1. Kept' = Kept
      BY DEF Reboot, LoseEdit, onDisk, Kept, Stored
<1>2. Taken' = NoRecord
      BY DEF Reboot, LoseEdit, Taken, NoWrite
<1> QED BY <1>1, <1>2 DEF Book!GiveUp, StepKeepsBook, Book!Next

\* Where an update fails before it deletes, or panics after it, nothing is put back.
LEMMA FailingKeepsBook == ASSUME WriteFails \/ EditFails PROVE StepKeepsBook
BY AsideIsNone DEF WriteFails, EditFails, Panic, StepKeepsBook

LEMMA NextKeepsBook == ASSUME IInv, [Next]_vars PROVE StepKeepsBook
<1>1. CASE UNCHANGED vars
      BY <1>1, AsideIsNone DEF vars, onDisk, StepKeepsBook
<1>2. CASE Screens
      BY <1>2, AsideIsNone
         DEF Screens, EndTour, EndHelp, OpenScreen, ShowList, MenuOther, onDisk, StepKeepsBook
<1>3. CASE ScanTotp \/ ScanOther
      BY <1>3, AsideIsNone DEF ScanTotp, ScanOther, onDisk, StepKeepsBook
<1> QED BY <1>1, <1>2, <1>3, GivingUpKeepsBook, FailingKeepsBook, TypingKeepsBook, FinishKeepsBook,
           ScanNewKeepsBook, EditKeepsBook, DeleteKeepsBook, TotpsKeepBook
        DEF Next, Scans, Edits, Typing

\* Whatever is scanned, typed, renamed, deleted or cut off, the passwords are a set
\* with one record for an account: a step takes, adds or replaces the one it is about,
\* and a power loss or a failed write costs the one under update alone (storage.update, add_password,
\* handle_autotype, menu_edit, menu_delete).
THEOREM StoreIsABook == Spec => ImplementsBook
<1>1. ASSUME Init PROVE Book!Init
      BY <1>1 DEF Init, Book!Init, Kept, Stored, Taken, NoWrite
<1>2. IInv /\ [Next]_vars => [Book!Next]_(Book!vars)
      BY NextKeepsBook DEF StepKeepsBook
<1> QED BY <1>1, <1>2, Invariant, PTL DEF Spec, ImplementsBook, Book!Spec

\* No account ever has two records.
THEOREM OneRecordEach == Spec => []Book!OneRecordPerAccount
<1>1. IInv => Book!OneRecordPerAccount
      <2> SUFFICES ASSUME IInv, NEW x \in Kept, NEW y \in Kept, Book!SameAccount(x, y)
                   PROVE  x = y
          BY DEF Book!OneRecordPerAccount
      <2>1. PICK g \in Guids : disk[g] # NoRecord /\ x = disk[g]
            BY KeptIs
      <2>2. PICK h \in Guids : disk[h] # NoRecord /\ y = disk[h]
            BY KeptIs
      <2>3. Account(x) = Account(y)
            BY DEF Account, Book!SameAccount
      <2> QED BY <2>1, <2>2, <2>3 DEF IInv, Keyed
<1> QED BY <1>1, Invariant, PTL
=============================================================================
