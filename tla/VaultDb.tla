------------------------------- MODULE VaultDb -------------------------------
(***************************************************************************)
(* The token's password store: the records in the PDDB (storage.rs), the   *)
(* item lists the screen is drawn from (itemcache.rs), and the operations  *)
(* of the main loop and the actions thread that must keep the two in step  *)
(* (actions.rs, action_handler.rs, ux.rs).                                 *)
(*                                                                         *)
(* The main loop lends every request to the actions thread and waits for   *)
(* it, so operations do not interleave with each other.  They do with a    *)
(* power loss: an update deletes the old record before it writes the new   *)
(* one, and writing is the record in between.  Any call that changes the   *)
(* PDDB may fail, and then it has changed nothing that can be read: a key  *)
(* that was made and not written holds no record.  Reads do not fail for a *)
(* moment, and the PDDB is taken to write through.                         *)
(***************************************************************************)
EXTENDS Naturals, FiniteSets

CONSTANTS Descs,      \* descriptions of password records, the URLs
          Users,      \* usernames
          Passwords,
          TotpNames,  \* names of TOTP records
          Guids,      \* key names in the PDDB
          PwHash,     \* PasswordRecord.hash, in hex
          TotpHash,   \* TotpRecord.hash, in hex
          Base        \* a URL without its "www."

Accounts == Descs \X Users

\* sha256(description || username) tells accounts apart.  The concatenation has
\* no separator: "ab" || "c" and "a" || "bc" are taken not to be both in use.
ASSUME PwHashAssumption ==
    /\ PwHash \in [Accounts -> Guids]
    /\ \A a, b \in Accounts : PwHash[a] = PwHash[b] => a = b
ASSUME TotpHashAssumption ==
    /\ TotpHash \in [TotpNames -> Guids]
    /\ \A m \in TotpNames : \A a \in Accounts : TotpHash[m] # PwHash[a]
    /\ \A m, n \in TotpNames : TotpHash[m] = TotpHash[n] => m = n
ASSUME BaseAssumption == Base \in [Descs -> Descs]

VARIABLES
    disk,      \* VAULT_PASSWORD_DICT
    totps,     \* VAULT_TOTP_DICT, by name: a TOTP record is stored under its name's hash
    pw,        \* ItemLists.pw
    totp,      \* ItemLists.totp
    mode,      \* VaultMode; "Badge" is every mode outside the token
    mode_cache,\* ActionManager.mode_cache
    writing,   \* an update that has deleted the old record and not written the new
    attached,  \* attach_state, settled at boot, is not Unattached
    toured,    \* skip_token_tour
    panicked   \* the assertion that failed, or "no"

onDisk == <<disk, totps, toured>>
lists  == <<pw, totp>>
screen == <<mode, attached>>
vars   == <<onDisk, lists, mode_cache, writing, screen, panicked>>

-----------------------------------------------------------------------------
Record == [desc : Descs, user : Users, pw : Passwords]
NoRecord == [none |-> TRUE]
Account(r) == <<r.desc, r.user>>

NoWrite == [by |-> "none"]
Writes  == [by : {"autotype", "scan", "edit"}, guid : Guids, rec : Record]
           \cup [by : {"totp"}, guid : Guids, name : TotpNames]

Modes == {"TokenTour", "Password", "Totp", "TokenHelp", "Badge"}

Item(n, g) == [name |-> n, guid |-> g]
Items      == [name : Descs \cup TotpNames, guid : Guids]

\* make_pw_name leaves the username out.
PwItem(g, r) == Item(r.desc, g)
Stored       == {g \in Guids : disk[g] # NoRecord}

Ready == panicked = "no" /\ writing = NoWrite

\* Mutant: the manager keeps the mode of the last reload.
activate_Stale == UNCHANGED mode_cache

activate == mode_cache' = mode

\* retrieve_db, once the disk is d and t: the TOTP list is rebuilt; the password
\* list only gains items.  p is the password list before it.
Load(p, d) == p \cup {PwItem(g, d[g]) : g \in {h \in Guids : d[h] # NoRecord}}
retrieve_db(m, p) ==
    /\ mode_cache' = m
    /\ pw' = IF m = "Password" THEN Load(p, disk') ELSE p
    /\ totp' = IF m = "Totp" THEN {Item(n, TotpHash[n]) : n \in totps'} ELSE totp

\* insert_unique into the list of mode m
InsertPw(m, i)   == IF m = "Password" THEN pw \cup {i} ELSE pw
InsertTotp(m, i) == IF m = "Totp" THEN totp \cup {i} ELSE totp

-----------------------------------------------------------------------------
(* Boot, and the screens of the token.                                     *)

\* GlobalConfig::init picks the first screen, the tour only from a cold boot and
\* until it was seen; main reloads the lists for the screen.
FirstModes(a) == CASE a      -> {"Badge"}
                   [] toured -> {"Password"}
                   [] OTHER  -> {"Password", "TokenTour"}

Init == /\ disk = [g \in Guids |-> NoRecord]
        /\ totps = {}
        /\ pw = {}
        /\ totp = {}
        /\ attached \in BOOLEAN
        /\ toured = FALSE
        /\ mode \in FirstModes(attached)
        /\ mode_cache = mode
        /\ writing = NoWrite
        /\ panicked = "no"

\* A power loss, at any moment, or a reset after a panic.
Reboot == /\ attached' \in BOOLEAN
          /\ mode' \in FirstModes(attached')
          /\ writing' = NoWrite
          /\ panicked' = "no"
          /\ mode_cache' = mode'
          /\ pw' = IF mode' = "Password" THEN Load({}, disk) ELSE {}
          /\ totp' = {}
          /\ UNCHANGED onDisk

\* The last screen of the token tour sets skip_token_tour and shows the
\* passwords, without a reload.
EndTour == /\ Ready
           /\ mode = "TokenTour"
           /\ mode' = "Password"
           /\ toured' = TRUE
           /\ UNCHANGED <<disk, totps, lists, mode_cache, writing, attached, panicked>>

\* So does the last help screen, on a badge that is not attached.
EndHelp == /\ Ready
           /\ mode = "TokenHelp"
           /\ mode' = IF attached THEN "Badge" ELSE "Password"
           /\ UNCHANGED <<onDisk, lists, mode_cache, writing, attached, panicked>>

\* The menu's Help and Badge mode.
OpenScreen == /\ Ready
              /\ mode' \in {"TokenHelp", "Badge"}
              /\ UNCHANGED <<onDisk, lists, mode_cache, writing, attached, panicked>>

\* TokenMode in the badge's menu, and the right key that goes from passwords to
\* TOTPs and back: these reload.
ShowList == /\ Ready
            /\ mode' = IF mode = "Password" THEN "Totp" ELSE "Password"
            /\ mode \in {"Badge", "Password", "Totp"}
            /\ UNCHANGED <<onDisk, writing, attached, panicked>>
            /\ retrieve_db(mode', pw)

\* Manage Usernames reloads in any mode; Close Menu only reads the mode.
MenuOther == /\ Ready
             /\ UNCHANGED <<onDisk, writing, screen, panicked>>
             /\ \/ retrieve_db(mode, pw)
                \/ activate /\ UNCHANGED lists

-----------------------------------------------------------------------------
(* Updates: delete, then write.                                            *)

Delete(g)  == disk' = [disk EXCEPT ![g] = NoRecord]
Put(g, r)  == disk' = [disk EXCEPT ![g] = r]
Panic(why) == panicked' = why /\ UNCHANGED <<disk, writing>>

\* Mutant: the old record is left for the new one to replace.
BeginUpdate_Keeps(by, g, r) == /\ UNCHANGED <<disk, panicked>>
                               /\ writing' = [by |-> by, guid |-> g, rec |-> r]

\* storage.update and handle_autotype: the old record goes first.
BeginUpdate(by, g, r) == /\ Delete(g)
                         /\ writing' = [by |-> by, guid |-> g, rec |-> r]
                         /\ UNCHANGED panicked

\* Mutant: the record is written back under the name it was read from.
Target_Old(w) == w.guid

\* new_record derives the key from the record; handle_autotype uses the one it
\* has, of a record whose account did not change.
Target(w) == IF w.by = "autotype" THEN w.guid ELSE PwHash[Account(w.rec)]

\* The left key types the selected password and counts the use.  An item without
\* a record, or a key that cannot be deleted, is an Err that the caller unwraps.
Autotype == /\ Ready
            /\ mode = "Password"
            /\ \E i \in pw :
                  \/ Panic("unwrap")
                  \/ disk[i.guid] # NoRecord /\ BeginUpdate("autotype", i.guid, disk[i.guid])
            /\ UNCHANGED <<totps, toured, lists, mode_cache, screen>>

Finishing(by) == panicked = "no" /\ writing.by = by

FinishAutotype == /\ Finishing("autotype")
                  /\ Put(Target(writing), writing.rec)
                  /\ writing' = NoWrite
                  /\ UNCHANGED <<totps, toured, lists, mode_cache, screen, panicked>>

\* pwauth://pass/<url> looks the url up in the list, not in the PDDB.
Named(u)   == {i \in pw : i.name = u}

\* Mutant: only the URL without its "www." is looked up.
Matches_Base(u) == Named(Base[u])

Matches(u) == IF Named(u) # {} THEN Named(u) ELSE Named(Base[u])

\* One match: type it when the user agrees.  More: type the one whose extra text
\* is the name that was answered; whether there is one is left open.  The count of the
\* use is an update that must not fail.
ScanKnown == /\ Ready
             /\ mode = "Password"
             /\ \E u \in Descs : \E i \in Matches(u) :
                    IF disk[i.guid] = NoRecord
                    THEN Panic("expect")
                    ELSE BeginUpdate("scan", i.guid, disk[i.guid]) \/ Panic("unwrap")
             /\ UNCHANGED <<totps, toured, lists, mode_cache, screen>>

\* The record is written and acquire_qr's caller reloads the list.
FinishScan == /\ Finishing("scan")
              /\ Put(Target(writing), writing.rec)
              /\ writing' = NoWrite
              /\ UNCHANGED <<totps, toured, screen, panicked>>
              /\ retrieve_db(mode, pw)

\* The record was deleted and cannot be written back: increment_pw_usage unwraps the
\* Err, and so does the caller of handle_autotype.
WriteFails == /\ Finishing("autotype") \/ Finishing("scan")
              /\ Panic("unwrap")
              /\ UNCHANGED <<totps, toured, lists, mode_cache, screen>>

\* No match: add_password makes a record for the url and a username, in place of
\* any that is there, and puts it in the list of the mode it knows.  If it cannot be
\* written, ScanOther.
ScanNew == /\ Ready
           /\ mode = "Password"
           /\ \E u \in Descs, n \in Users, p \in Passwords :
                 LET r == [desc |-> u, user |-> n, pw |-> p]
                     g == PwHash[Account(r)]
                 IN  /\ Matches(u) = {}
                     /\ Put(g, r)
                     /\ UNCHANGED <<totps, toured, writing, screen, panicked>>
                     /\ retrieve_db(mode, InsertPw(mode_cache, PwItem(g, r)))

\* otpauth:// adds a TOTP record and, even if that failed, its item to the list of the
\* mode the manager knows, then reloads, which makes the list of TOTPs anew.  In the
\* badge modes only ConfirmGene gets here, after a scan in a badge mode.
ScanTotp == /\ Ready
            /\ \/ mode \in {"Password", "Totp"}
               \/ mode = "Badge" /\ mode_cache = "Badge"
            /\ \E n \in TotpNames :
                  /\ totps' \in {totps, totps \cup {n}}
                  /\ UNCHANGED <<disk, toured, writing, screen, panicked>>
                  /\ retrieve_db(mode, InsertPw(mode_cache, Item(n, TotpHash[n])))

\* Any other scan: the reload after it.
ScanOther == /\ Ready
             /\ mode \in {"Password", "Totp", "Badge"}
             /\ UNCHANGED <<onDisk, writing, screen, panicked>>
             /\ retrieve_db(mode, pw)

-----------------------------------------------------------------------------
(* The menu's Edit and Delete, on the selected item.                       *)

\* menu_edit takes the old item out of the list before the user is asked.
EditPassword ==
    /\ Ready
    /\ mode = "Password"
    /\ activate
    /\ \E i \in pw, r \in Record :
          LET old == PwItem(i.guid, disk[i.guid]) IN
          IF disk[i.guid] = NoRecord
          THEN UNCHANGED <<disk, pw, writing, panicked>>
          ELSE IF old \notin pw
          THEN Panic("assert") /\ UNCHANGED pw
          ELSE BeginUpdate("edit", i.guid, r) /\ pw' = pw \ {old}
    /\ UNCHANGED <<totps, toured, totp, screen>>

\* The update fails before it deletes, or the user leaves one of the dialogues for a
\* new password: the record is still there but its item is not, so that update_db_entry
\* lists it again and then asserts that it was listed.
EditFails ==
    /\ Ready
    /\ mode = "Password"
    /\ activate
    /\ \E i \in pw : disk[i.guid] # NoRecord /\ PwItem(i.guid, disk[i.guid]) \in pw
    /\ Panic("assert")
    /\ UNCHANGED <<totps, toured, lists, screen>>

\* Mutant: the item goes back under the key it was found by.
FinishEdit_OldItem ==
    /\ Finishing("edit")
    /\ Put(Target(writing), writing.rec)
    /\ pw' = pw \cup {PwItem(writing.guid, writing.rec)}
    /\ UNCHANGED <<totps, toured, totp, mode_cache, screen, panicked>>
    /\ writing' = NoWrite

\* The new record goes to the disk and to the list; then update_db_entry reads
\* the old name back and asserts that what it finds there is listed.
FinishEdit ==
    /\ Finishing("edit")
    /\ LET r == writing.rec
           g == Target(writing)
           listed == InsertPw(mode_cache, PwItem(g, r))
           again  == PwItem(writing.guid, disk'[writing.guid])
       IN  /\ Put(g, r)
           /\ totp' = InsertTotp(mode_cache, PwItem(g, r))
           /\ IF disk'[writing.guid] = NoRecord
              THEN pw' = listed /\ UNCHANGED panicked
              ELSE /\ pw' = listed \cup {again}
                   /\ panicked' = IF again \in listed THEN panicked ELSE "assert"
    /\ writing' = NoWrite
    /\ UNCHANGED <<totps, toured, mode_cache, screen>>

\* The old record is deleted and the new one cannot be written: the error is reported,
\* and update_db_entry finds no record under the old name.
LoseEdit ==
    /\ Finishing("edit")
    /\ writing' = NoWrite
    /\ UNCHANGED <<onDisk, lists, mode_cache, screen, panicked>>

\* menu_delete, when the user agrees; then the reload, which lists a record again that
\* could not be deleted.
DeletePassword ==
    /\ Ready
    /\ mode = "Password"
    /\ \E i \in pw :
          LET old == PwItem(i.guid, disk[i.guid]) IN
          /\ UNCHANGED <<totps, toured, writing, screen>>
          /\ IF disk[i.guid] = NoRecord
             THEN UNCHANGED <<disk, panicked>> /\ retrieve_db(mode, pw)
             ELSE IF old \notin pw
             THEN /\ panicked' = "assert"
                  /\ activate
                  /\ UNCHANGED <<disk, lists>>
             ELSE /\ Delete(i.guid) \/ UNCHANGED disk
                  /\ UNCHANGED panicked
                  /\ retrieve_db(mode, pw \ {old})

HasTotp(i) == \E n \in totps : TotpHash[n] = i.guid

EditTotp ==
    /\ Ready
    /\ mode = "Totp"
    /\ activate
    /\ \E i \in totp, n \in TotpNames :
          \/ /\ HasTotp(i)
             /\ totps' = {m \in totps : TotpHash[m] # i.guid}
             /\ writing' = [by |-> "totp", guid |-> i.guid, name |-> n]
          \/ UNCHANGED <<totps, writing>> \* no record, or the update fails
    /\ UNCHANGED <<disk, toured, lists, screen, panicked>>

\* The new name is listed under the old key, and the old item stays.  Nothing is listed
\* if it cannot be written.
FinishEditTotp ==
    /\ Finishing("totp")
    /\ \/ /\ totps' = totps \cup {writing.name}
          /\ pw' = InsertPw(mode_cache, Item(writing.name, writing.guid))
          /\ totp' = InsertTotp(mode_cache, Item(writing.name, writing.guid))
       \/ UNCHANGED <<totps, lists>>
    /\ writing' = NoWrite
    /\ UNCHANGED <<disk, toured, mode_cache, screen, panicked>>

DeleteTotp ==
    /\ Ready
    /\ mode = "Totp"
    /\ \E i \in totp : totps' \in {totps, {m \in totps : TotpHash[m] # i.guid}}
    /\ UNCHANGED <<disk, toured, writing, screen, panicked>>
    /\ retrieve_db(mode, pw)

-----------------------------------------------------------------------------
Screens == EndTour \/ EndHelp \/ OpenScreen \/ ShowList \/ MenuOther
Scans   == ScanKnown \/ FinishScan \/ ScanNew \/ ScanTotp \/ ScanOther
Edits   == EditPassword \/ EditFails \/ FinishEdit \/ LoseEdit \/ DeletePassword
           \/ EditTotp \/ FinishEditTotp \/ DeleteTotp
Typing  == Autotype \/ FinishAutotype \/ WriteFails

Next == Reboot \/ Screens \/ Scans \/ Edits \/ Typing

Spec == Init /\ [][Next]_vars
-----------------------------------------------------------------------------
(* Properties.                                                             *)

TypeOK ==
    /\ disk \in [Guids -> Record \cup {NoRecord}]
    /\ totps \subseteq TotpNames
    /\ pw \subseteq Items
    /\ totp \subseteq Items
    /\ mode \in Modes /\ mode_cache \in Modes
    /\ writing \in Writes \cup {NoWrite}
    /\ attached \in BOOLEAN /\ toured \in BOOLEAN
    /\ panicked \in {"no", "assert", "expect", "unwrap"}

\* Every record is where a scan, an edit or a deletion of its account will look
\* for it, however often it was renamed, overwritten or cut off by a power loss.
RecordKeyed == \A g \in Stored : g = PwHash[Account(disk[g])]

IsPw(i) == i.guid \in {PwHash[a] : a \in Accounts}

\* A password item in the list always names a record that is there (or is being
\* rewritten), under the description it has on disk, although a reload never
\* removes an item: no rename, overwrite or deletion leaves a stale one behind.
ListedHasRecord ==
    \A i \in pw : IsPw(i) =>
        \/ i.guid \in Stored /\ i = PwItem(i.guid, disk[i.guid])
        \/ writing.by \in {"autotype", "scan"} /\ i = PwItem(writing.guid, writing.rec)

Complete == \A g \in Stored : PwItem(g, disk[g]) \in pw

\* Once the list shows every record it does so until the next boot: whatever a
\* screen, a scan or an edit does to the disk, the list that the manager updates
\* is the one the records belong to.
StaysComplete == [][Complete /\ ~Reboot => Complete']_vars

\* The assertions of menu_delete, menu_edit and update_db_entry ("isn't in the UX
\* list for updating!") hold whatever screens, scans and updates led to them, with one
\* exception: update_db_entry's fails after an edit that came to nothing, and the record
\* that was to be edited is then still on disk.
AssertsHold == [][panicked' = "assert" /\ panicked # "assert" => EditFails]_vars

\* As long as the list shows every record, a pwauth://pass scan that finds no match
\* makes a record where there was none: it replaces no password. After the token
\* tour the list may not show them, and a scan then may.
ScanKeepsPasswords ==
    [][ScanNew /\ Complete => \E g \in Guids : g \notin Stored /\ g \in Stored']_vars

Kept  == {disk[g] : g \in Stored}
Taken == IF writing.by \in {"autotype", "scan", "edit"} THEN writing.rec ELSE NoRecord

\* Keys, lists, screens and what the manager remembers come to no more than a set of
\* records by account: what is typed, edited, deleted or scanned is found under its
\* key, an update that is cut off costs its own record, and a rename that meets
\* another's takes the place of that one alone.
Book == INSTANCE PasswordBook WITH records <- Kept, taken <- Taken
ImplementsBook == Book!Spec
=============================================================================
