# dc34-vault, modelled

TLA+ models of the badge and token firmware in `src/` (crate `dc34-vault`), the
TLC runs that check them on small instances, and proofs that TLAPS checks for
all values of the constants. `PROJECT.json` ties every definition to the lines
it models, every property to a mutant that breaks it, and every hazard of the
code to the properties about it.

    tlc -workers 2 -config GeneExchange_pair.cfg MCGeneExchange.tla
    tlc -workers 2 -config VaultDb_store.cfg MCVaultDb.tla
    tlc -workers 2 -config ClientPin_token.cfg MCClientPin.tla
    tlapm GeneExchange_proofs.tla
    tlc -workers 2 -config Ctap1Permission_prompt.cfg Ctap1Permission.tla
    tlc -workers 2 -config CtapHid_hid.cfg MCCtapHid.tla
    tlc -workers 2 -config Credentials_fido.cfg MCCredentials.tla
    tlapm Credentials_proofs.tla
    tlc -workers 2 -config LargeBlobs_blobs.cfg MCLargeBlobs.tla
    tlc -workers 2 -config ListView_lists.cfg MCListView.tla
    tlapm ListView_proofs.tla
    tlapm ClientPin_proofs.tla

## 1. The system

The firmware is one Xous process of several threads that talk by messages. A
message is a scalar that is queued, a scalar that blocks its sender until it is
answered, or a buffer that is lent (blocking) or sent.

| Part | State it keeps | Operations | Talks to |
|---|---|---|---|
| main loop (`main.rs`) | `mode`, `menu_active`, `skip_one_key`, `mutation_param`, the user's image | one arm of the `match` per `VaultOp`; keys go to the menu that is up or to `VaultUi::handle_key` | lends or blocks on the actions thread; the menus and the camera post to it |
| light-gene exchange (`config.rs`, `main.rs` `HandleQr`) | `nonce_mine`, `gene_cache`, `prior_gene`, the rates, the gene in the PDDB | show a key, scan, answer, decrypt and mix, keep, revert | other badges, by QR codes; the LED server |
| actions thread (`actions.rs`, `action_handler.rs`) | `mode_cache`, `action_active`, the usernames and generator files | scan a QR code, add, edit, delete, reload | PDDB, modals, USB, posts to the main loop |
| store (`storage.rs`) | the password and TOTP dictionaries of the PDDB | new, get, update (delete, then write), delete | PDDB |
| item lists (`itemcache.rs`) | sorted lists with a filter range | insert, remove, get, filter | shared under a mutex by the main loop and the actions thread |
| boot configuration (`config.rs`) | badge type, attach state, tours | `init`, `set_skip_tour`, power state | keystore flags, PDDB, badge pins |
| menus (`*menu.rs`) | a copy of the items | draw, key press; an item posts one operation, then `MenuDone` | the main loop |
| TOTP pump (`totp.rs`) | none | a `Redraw` every 250 ms while animation is on | the main loop |
| FIDO service (`fido2.rs`) | the core under its mutex | a packet in, every packet of its reply out, then the next | USB, the parts below |
| HID transport (`ctap/hid/`) | the message under way and its channel, allocated channels | a packet of any channel; a timeout noticed by the next packet | the service, CTAP1 and CTAP2 |
| CTAP2 commands (`ctap/mod.rs`, `credential_management.rs`, `config_command.rs`) | the stateful command, its channel and timer; the credentials | make, assert, the next assertion, both enumerations, delete, update, reset | the PIN state, the store, the user |
| PIN and token (`client_pin.rs`, `token_state.rs`) | per protocol a key and a token; retries, mismatches, flags | the ClientPIN subcommands | the store |
| large blobs (`large_blobs.rs`) | one buffer, the length and the next offset for all channels; the array | write a fragment, read | the PIN state, the store |
| permission server (`env/xous/mod.rs`) | the prompt that is up, the denied application, `kbhit`; a watchdog thread with its own state | poll, note an access, forced timeout | modals, listener threads, the FIDO service |
| persistent store (`libraries/persistent_store`) | a dictionary of the PDDB, keys are numbers | insert (delete, create, write), remove, clear, recover (nothing) | PDDB |
| vendor commands (`vendor_commands.rs`, `libraries/backup`) | one session for all channels | backup and restore in chunks | HID, the store |
| pure code | none | cryptography, CBOR, data formats, password generator, drawing | |

What is hard here:

- **Messages out of order.** A scan posts its code and returns; by the time the
  main loop takes it, menu items that were queued before it have changed the
  mode that decides what the code means.
- **Photos.** A QR code is a message that anyone can deliver to anyone, later,
  twice, or to its own sender.
- **Power.** An update of a record is a deletion and a write, one of the persistent
  store a deletion, a creation and a write. A new gene is in RAM and on the lights
  before it is in the PDDB. What an absent entry means is up to its reader: no PIN,
  all retries left, no change forced.
- **State of two lives.** The lock after three wrong PINs and the token are in
  memory, the retries and the policy are not; two PIN protocols share all of them.
- **Caches.** The item lists are not the store, and `mode_cache` is not `mode`.
- **One of each for many.** One assembler puts the messages of all channels together,
  one buffer collects the large blobs of all, one stateful command is under way, and
  packets and commands of several applications interleave and break off anywhere.
- **Keys held across commands.** A series of answers names records by their keys while
  other commands delete, replace and reset them.
- **Shared flags and timers.** The listeners of two prompts share one `kbhit`;
  a watchdog's message can be older than the prompt it closes.

## 2. The modules

| Module | Models | Refines |
|---|---|---|
| `GeneExchange` | the exchange on any number of badges | `ExchangeLedger` |
| `ExchangeLedger` | what the exchange promises | |
| `MCGeneExchange` | instances for TLC | |
| `GeneExchange_proofs` | theorems about the two | |
| `VaultDb` | the password and TOTP store, its lists, and the screens and scans that use them | `PasswordBook` |
| `PasswordBook` | what the store promises for its passwords | |
| `MCVaultDb` | instances for TLC | |
| `VaultDb_proofs` | theorems about the two | |
| `ListView` | how the password list is kept in order, filtered and drawn | `ItemSet` |
| `ItemSet` | what the list promises: a set of items beside the records | |
| `MCListView` | an instance for TLC | |
| `ListView_proofs` | theorems about the two | |
| `ClientPin` | the PIN, its retries and policy, the token and the commands that spend it, and the store's updates under a power loss | |
| `MCClientPin` | instances for TLC | |
| `ClientPin_proofs` | theorems about it | |
| `Ctap1Permission` | the user's permission for a U2F command: polls, the server, the listeners and the watchdog | |
| `Ctap1Permission_proofs` | theorems about it | |
| `CtapHid` | packets, the assembler, channels and replies, with the applications of a host | `MessageTransport` |
| `MessageTransport` | what the transport promises to an application | |
| `MCCtapHid` | an instance for TLC | |
| `CtapHid_proofs` | theorems about the two | |
| `Credentials` | discoverable credentials and the series of answers of the stateful commands | `Passkeys` |
| `Passkeys` | what the store promises to those who have a credential in it | |
| `MCCredentials` | an instance for TLC | |
| `Credentials_proofs` | theorems about the two | |
| `LargeBlobs` | the large blob array, written in fragments by several clients | |
| `MCLargeBlobs` | an instance for TLC | |
| `LargeBlobs_proofs` | theorems about it | |

### GeneExchange

A badge is its main loop: `mode`, `menu`, `nonce_mine`, `gene_cache`,
`prior_gene`, the gene in the PDDB (`light_gene`) and the queue of messages that
are not keys (`inbox`). `shown` is every exchange code ever displayed: a scan
finds any of them, whoever showed it and whenever, as a photo would. An action is
one key (`ShowKey`, `FireToScan`, `LeaveCode`, `RaiseMenu`, `ChooseItem`, ...) or
one message (`AnswerKey`, `AcceptGene`, `RefuseCode`, `KeepGene`, ...), and
`PowerCycle` is a loss of power at any moment.

What is abstract, and why it does not hide anything:

- Keys are not queued. The user may press any key at any moment, so a key that
  was queued before other messages is one that is pressed before they are taken.
  For the same reason `skip_one_key`, which drops a key, and the menu key posted
  500 ms after a mix need no state.
- A gene is a model value, and mixing gives any gene. Rates and the gene
  arithmetic are left out, with them a gamete that fails to deserialize.
- AES-GCM-SIV opens a code exactly under the secret and the nonce it was made
  with. Two draws of 96 random bits are taken to differ. `own` in a gene code, the
  nonce its donor drew in the same step, is in no ciphertext: it is a history
  variable for the proofs, as `spent` and `lastNonce` are.
- The menus are a library. `menu` is "closing" from the choice of an item until
  `MenuDone`, which is how the code in `src/` uses it.
- Developer mode, the factory test and the jig are left out; the power menu's
  "off" is `BadgeMode` followed by `PowerCycle`.

### ExchangeLedger

Requests, answers, and three patterns per badge: on display, to go back to, and
saved. Its `Take` is what matters: a pattern changes by an answer of *another*
badge to the request that is *still open*. The refinement maps a nonce nobody was
shown to no request.

### VaultDb

`disk` and `totps` are the two dictionaries, `pw` and `totp` the lists. The main
loop waits for the actions thread in every operation, so operations are atomic to
each other; they are not to a power loss, and `writing` is the update that has
deleted and not yet written. `mode_cache` is kept apart from `mode` because the
scan is the one operation that uses it without setting it first.

What is abstract:

- A hash of description and username is an injective key (`PwHashAssumption`): the
  concatenation has no separator, so this is an assumption, not a fact.
- A write replaces the whole key and the PDDB writes through. A call that changes the
  PDDB may fail, and then it has changed nothing that can be read: an update before it
  deletes, an update that has deleted, a new record, a deletion. Each handler does with
  the `Err` what its code does: it reports it (`EditTotp`, `LoseEdit`, `ScanOther`),
  reloads (`DeletePassword`) or unwraps it (`Autotype`, `ScanKnown`, `WriteFails`). A
  read does not fail for a moment.
- `EditFails` is an edit that comes to nothing: an update that fails before it deletes,
  or a dialogue for a new password that fails. The other modals do not fail.
- The selection is any listed item. Usage counts and times are left out, and so
  are the usernames file and PDDB bases. The filter is in `ListView`.
- Which of several matches is typed is left open.

`ScanKeepsPasswords` is about a scan that finds no match while the list shows every
record. After the end of the token tour the list may show none, and section 3 says
what a scan does then.

`PasswordBook` is the store without keys, lists and screens: a set of records. An update
takes one out (`Take`) and puts another in (`PutBack`), in the place of that of its
account only; a power loss or a write that fails gives up what was taken out and touches no
other (`GiveUp`).
`ImplementsBook` says that `disk` is such a set, with `writing` what was taken.

### ListView

`list`, `sorted` and `filter_range` are the fields of `FilteredListView`, `display`
the names on the screen, by `disk` the keys a reload reads, in any order the PDDB
may list them. `filter` is the binary search, which may start at any of several equal
names, and both of its walks, with their limits. Operations do not interleave: the main
loop waits for the actions thread in each. An edit leaves the rows as they were until a
refresh, that of `MenuDone` at the latest; one that comes to nothing ends in an assertion,
as `VaultDb` has it, and is not an action here.

What is abstract: a name is a number, its place in the order of lower-case names, a
criterion the interval of the names that start with it; a criterion with a capital
letter stands for none, as the code compares it with lower-case names. The message
that a change of the PDDB basis sends, pages of the screen and the selection are left
out.

The code does some things one would not expect, and the model does them too: the walk
back never moves to the first row, so that row is left out when two or more records at
the head of the list have just the criterion as their name; a filter without a match
leaves the list whole and says there are no passwords; an insertion or a deletion drops
the range, and the screen says the same until the next reload; the record that a reload
reads last stays at the end when it was pushed after the sort; a filter text outlives a
reload that no longer applies it. `FilterKeepsMatches` says what is left: nothing but
matches, and all of them but the first row.

`ItemSet` is the same list as a set, which is how `VaultDb` takes it: a reload adds what
is missing and takes nothing away, an edit moves an item or loses it with its record, a
deletion drops one. `ImplementsItemSet` says that sorting, searching by halving, inserting at a place,
shifting and filtering come to no more than that.

### ClientPin

The commands of `client_pin.rs` and `config_command.rs`, and of `mod.rs` the ones
that spend the token or reset it. `store` holds the five entries of the persistent
store that matter here, `NoEntry` for an absent one and `NoBytes` for an empty one.
A command runs to its next update (`op` is where it is), `todo` is what it has yet
to write, and `PddbDelete`, `PddbCreate` and `PddbWrite` are the calls an update
makes. `PowerLoss` may come between any two of them: it drops `todo` and all of
memory, and keeps the store as it is. Nothing else may: the FIDO thread is the only
one that takes the mutex around the core, so one command runs at a time, and a wait
for the user (`op = "presence"`, `"reset"`) is a step of its own because time passes
in it.

`verify_pin_hash_enc` is cut where the code can be cut: the counter is written,
the hashes are compared, the counter is removed. `agreed` and `live` are the
protocols whose key agreement key and token the platform knows; drawing new ones
takes a protocol out of them. `guesses`, `allowance`, `issued`, `spent`, `bound_to`
and `damaged` are history variables for the properties and no guard of the code
reads them; the bound `MaxAllowance` is a guard on how often TLC may lose a counter.

What is abstract:

- A PIN is a number with a length, and its hash is itself; a hash under a stale
  key agreement is a wrong one. Random keys and tokens never repeat.
- A PDDB call is durable when it returns, and does not fail. The deletion of all
  keys by a Reset is one call (`delete_key_list`), and so one step.
- Credential management and large blob writes only read the token: `Accepts` says
  when they would be let through. What they do then is in `Credentials` and `LargeBlobs`,
  where the permission is left open.
- A consent stands for the whole of making or asserting a credential after it.

### Ctap1Permission

Four kinds of threads. The FIDO thread (`fido`) lends a poll to the server, waits
for the reply, and sends a note after an approval. The server (`current_id`,
`denied_id`, `elapsed`) takes the messages of `inbox` one at a time; the handler of
a poll is one action for each of its ways out: `OtherApp`, `Approve`, `Deny`, `Wait`,
`TimeOut`, `Repeat`, `Raise`. A listener per prompt waits for a key (`listening`) and,
once it has one or the box was closed, is in `late` until it stores it in `kbhit`,
which may be after the next prompt was raised. The watchdog (`run`, `nap`, `age`)
takes the messages of `timeouts`, and none while it sleeps in the handler of Pump:
`Wake` is the rest of that handler. `pressed`, `approved` and `rejected` are history.

What is abstract:

- Time is a tick of a second, the sleep of a pump. A tick may come between any two
  steps of the threads, so that each of them may be late by any number of ticks;
  the two clocks stop where no guard tells later times apart.
- Keys are none, the one that denies and any other. A listener that gets an error
  of the modals server instead stores nothing, and is left out.
- Queues do not overflow: `try_send_message` ignores a full one.
- What the record of an application says, and the name the user gives it.
  `UpdateAppInfo` takes as long as it takes.

### CtapHid

The device handles a packet to its end, replies included, before it takes the next, so
a packet is one step: `ProcessHidPacket`, with an action for each way out of
`parse_packet`. `idle`, `cid`, `cmd`, `seq`, `remaining` and `payload` are the
assembler, and `stale` says that its timeout has passed, which only the next packet
notices. A message that is complete goes through `PreprocessMessage` in the same step:
`Initialize`, `Execute` or `Discard`, and `Post` puts the packets of the reply before
every application, of which those on its channel read it.

The applications are not in this repository. They do what CTAP HID asks of a host:
open a channel with a nonce, one request at a time, and after an error or an answer they
stopped waiting for a CTAPHID_INIT with a new nonce. `Lose` is a packet that never
arrives, `Sync` gives a request up in the middle or while it runs, `Quit` ends the
application at any moment, and a reply to another CTAPHID_INIT is known by its nonce.

What is abstract:

- A byte is the request it comes from and its place in it. A nonce is the bytes of its
  request. Packets hold few bytes; sizes are constants.
- Wink, Msg and the vendor commands are run and answered as Cbor is. The wink
  permission is set and read by nothing in this build.
- No packet is read while a command waits for the user, so a CTAPHID_CANCEL comes
  before or after it; the device then drops it. Keepalives are not modelled.
- `MaxRequests`, `MaxCids` and `MaxInbox` are bounds on the applications; the device
  has none of them but the width of its channel counter.

### MessageTransport

For each application the request it waits for (`inHand`), the one it was last told the
success of (`told`), and what the device has run (`run`). A request is run only while
it is in hand and only once, and success is told of requests that were run. That a
request is run whole is in the mapping: what was run is known by its first byte, and
`WholeMessages` says that the others belong to it.

### Credentials

`pddb` holds what is under the keys of credentials and `entries` the list of keys the
store keeps in memory. `command`, `channel` and `expired` are `StatefulPermission`; the
actions are the commands that make, find, enumerate, delete and update credentials, the
ones that continue a series, `Reset`, and `PowerCycle`. A write that the power cuts
leaves no entry or an empty one. A call to the PDDB that fails leaves `entries` as it
was, although the entry may be gone; a listing that fails, at the end of an update that is
done or at power-up, leaves none (`Unlisted`), and every command on credentials then fails
until a later update lists them.

A command sets or advances its series before it makes the answer, and the answer may fail:
`get_credential`, the hmac-secret extension, the signature, the public key, or the names of
the relying parties. `given` has the errors too, as `NoAnswer` and `NoRp`, so that a series
may be under way with nothing answered. `SeriesExact` says what is left to promise: each
credential was told, or cost the host one error, or is still held, each in its place. An
answer of a command that leaves no series under way is not kept.

What is abstract: whether a command is authorised and whether the user consents is left
open (`Refuse`); of a credential there is its account, its policy, the order of its
creation and an ID; exclude and allow lists are left out, extensions and signatures but
for their errors. The
series of an enumeration is in any order of the keys.

Facts the model shows: `now` is read when a packet arrives, so that a series can be
expired when the wait for the user ends and it begins; a series may be under way whose
newest credential was never answered, and no command gives it again but one that starts
anew; a relying party is skipped when the list of them cannot be made at its turn; an entry that is torn makes every
command on credentials fail until a Reset; a Reset stays allowed within its window.

`Passkeys` is the same without keys, lists or series: a set of credentials. A
registration adds one, the newest, in the place of that of its account and no other; a
command that fails, is cut off or deletes takes one at most; a Reset takes any part of
them, and only as long as no other command has been in the way since the power-up.
`ImplementsPasskeys` says that the store is such a set, `Discoverable` being what is held
under its keys and `Resettable` that `StatefulPermission` still is as it was made.

### LargeBlobs

`buffer`, `expected_length` and `expected_next_offset` belong to all channels, `blob` is
the array in the store. A client sends its fragments in order, each after the last was
accepted, and any other client between them. Every way out of `process_command` is an
action: `TooLong`, `OutOfTurn`, `Turned`, a fragment kept, a bad digest, a commit,
one that fails. The digest is right for the arrays that are `sound`.

What is abstract: a read changes nothing; the array fits the first of its keys; whether
the token allows a write is left open. `MIN_LARGE_BLOB_LEN` is checked where the command
is parsed, and without it the length less the digest would be below zero.

Facts the model shows: a first fragment that is refused has replaced the length and the
next offset, and one that is too long the length; a Reset leaves the buffer; a client
whose last fragment ends the array that *another's* first fragment announced is told
that its own was accepted. `UndisturbedIsStored` says that this takes another client.

## 3. The runs

| Run | Instance | Shows |
|---|---|---|
| `pair` | 2 badges, 1 gene, 4 nonces, queues of 1, a badge may have no gene, every stray code; symmetric | `NoBreedingCycle`, `OneRecipient`, `DonorCannotReceive` |
| `confirm` | 2 badges, 2 genes, 2 nonces, queues of 2, factory codes | `UndoAvailable`, `DeadStaysDead`, `ImplementsLedger` |
| `onetime` | 2 badges, 2 nonces | `OneTimeUse` is violated |
| `store` | 2 descriptions, 2 usernames, 2 passwords, 2 TOTP names; symmetric | `RecordKeyed`, `ListedHasRecord`, `AssertsHold`, `StaysComplete`, `ScanKeepsPasswords`, `ImplementsBook` |
| `guess` | 2 PINs, 1 protocol, 4 retries, one lost counter | `TypeOK`, `GuessesBounded`, `ThreePerBoot` |
| `token` | 2 PINs, 2 protocols, 2 relying parties, 1 retry, one longer minimum | `TokenUnderCurrentPin`, `OneToken`, `SpentTokenOnlyWritesBlobs`, `OneRpPerToken`, `ShortPinForced`, `TokenForLongPin` |
| `torn` | as `guess` | `InterruptedIsRecovered` is violated |
| `prompt` | 2 applications, a prompt of 1 tick and a margin of 1, 2 late listeners, 2 keys that approve | `OnePressOneApproval`, `PromptGuarded`, `DenialHolds`, `PromptCloses` |
| `hid` | 2 applications, 4 requests of one and 2 of the other, 2 channels, 2 replies unread; packets of 1 and 2 bytes | `WholeMessages`, `AnswersOwn`, `ChannelsDistinct`, `ImplementsTransport`, `LockExpires` |
| `fido` | 2 relying parties, 3 users, 3 slots, 2 channels, 4 credentials made; symmetric | `OneCredentialPerAccount`, `SeriesExact`, `NeverOverwritten`, `ImplementsPasskeys` |
| `blobs` | 2 clients, 6 arrays of 1 to 4 bytes, fragments of up to 2 | `BlobWhole`, `UndisturbedIsStored` |
| `lists` | 5 records of 3 names, 5 criteria, every order of a reload | `RangeInList`, `ListInOrder`, `FilterKeepsMatches`, `ImplementsItemSet` |

Why the bounds are enough. Four nonces are two keys and two answers: each badge
asks and each answers, in every order, with one left over for a stale answer;
two nonces are one whole exchange, and the queue of two holds a menu item and its
`MenuDone` or the code of a scan behind them. Two genes tell the saved one from
the new one. Two descriptions and two usernames give four accounts, so that an
edit can rename a record onto a free key, onto another account and onto itself;
one description is the other without its "www.", and one TOTP name is also a
description. Two passwords tell the record that is put back from the one it replaces.

Four retries are one more than the three mismatches, so that each limit is reached
without the other; an allowance of eight is one lost counter on top of the first.
The run about the token needs no retries and takes one, and no lost counter. Of the
PINs one is shorter than the minimum that can be set and one is not; two relying
parties are the first and another. The limit of use is a tick: a token is fresh, or
old and used before a packet notices.

One application is the one whose prompt is up or that was denied, and one another.
A prompt of one tick and a margin of one reach both limits and the times before
them. Two listeners that have yet to store are the one of the last prompt and
the one of this; the queue of four for the watchdog holds a Stop, a Run and a Pump of
one prompt and the Stop of the next. No poll is sent while that queue is full, nor a
prompt raised while as many listeners are late: these two guards are bounds.

In `hid` a message of four bytes is three packets, the last of them padded, one of a
byte just fills its packet, and one of five is too long; a reply of five is replaced by
a status byte. Four requests are a channel, a request given up, the CTAPHID_INIT after
it, and one more request, which is where an answer to the first would do harm; the other
application only has to be in the way. In `fido` three slots and four credentials reach
the full store, a hole after a deletion and the reuse of a slot; three accounts of one
relying party are a series with a first, a next and a last, and two relying parties one
with a first, a last and the place past the end.
In `blobs` arrays of one length may be mixed up without the digest noticing the length,
and the shorter one ends inside a longer. In `lists` two names occur twice, at the head
and in the middle, and the criteria are names, a prefix, and places before and after all
of them.

Deadlock is checked in all runs but `hid`: its applications may all have made their
requests and be done, and then nothing is left to happen.

### What the violated properties show

- **OneTimeUse.** An answer that was accepted can be scanned again and is mixed in
  again: only the donor's screen clears its nonce. `defcon-scheme.md` says an
  honest user cannot.
- **InterruptedIsRecovered.** The store promises transactions and recovery. In this
  build an update is three calls and recovery does nothing, so a power loss leaves
  an entry absent or empty. `GuessesBounded` says what that costs the retries.

Other disagreements of code and documents, met while modelling. The models do what
the code does, and the properties are stated so as to hold with it:

- The confirmation of a new gene can be left by a scan that finds nothing: it stays on
  the lights and no menu offers the old one, which `config.rs:56` keeps for that.
- A base45 code shorter than its header is sliced before its length is looked at
  (`main.rs:624`), which stops the main loop.
- A TOTP that is scanned on the password screen is listed as a password
  (`actions.rs:1358`); looking it up there panics.
- The end of the token tour shows the password screen without a reload
  (`ux.rs:1528`); a scan then finds no match and writes over the stored record.
- `update_db_entry` asserts that the record it finds is "in the UX list for updating". An
  edit has taken it out (`actions.rs:874`), and if the update fails before it deletes
  (`storage.rs:268`), or a dialogue for a new password fails (`actions.rs:972`, `986`,
  `1025`), nothing puts it back before that assertion (`EditFails`). `AssertsHold` says
  that no other way leads to one of the assertions.
- The filter and the list, as told under `ListView`.

## 4. Fairness

`Ctap1Permission` assumes weak fairness of the server's handlers, of the watchdog's
and of time: both threads loop on a blocking receive and Xous schedules every thread
that is ready. It assumes none of the host, which may never poll again, of the user,
of a listener, or of `UpdateAppInfo`, in which the server waits for the user to type
a name. `PromptCloses` holds for all that.

`CtapHid` assumes that time passes: a message under way becomes stale. It assumes
neither that a packet arrives nor that an application goes on, so `LockExpires` is
about behaviours in which packets keep arriving, which is when the lock matters.

The other specifications assume none: every action of theirs is a user's, a camera's,
a platform's or a power failure's, or the handling of a message that one of them
caused, and nothing in the code promises that anyone comes back. Their properties are
safety properties; every command of theirs that blocks may be refused or cut at once.

## 5. The proofs

For any badges, genes, nonce bound, queue bound and set of stray codes
(`GeneExchange_proofs`): `TypeCorrect`, `SelfBreedingExcluded`, `AnswerHasOneRecipient`,
`DonorIsNotWaiting`, `BreedingIsAcyclic`, `DeadAnswersStayDead`, `UndoStaysAvailable`
and `ExchangeImplementsLedger`. (`SelfBreedingExcluded` has no run of its own: an answer
is accepted when it `Feeds`, and a badge that feeds itself is a circle of one.)

The argument is one about age. The nonces of a behaviour are numbered as they are
drawn. The inductive invariant `IInv` says that every answer was made for an older
nonce than its donor drew in the same step, that a badge's nonce is never older
than any it drew before, that nonces of different badges differ, and that what is
queued was shown. The safety properties are not inductive without it: that nobody
accepts its own answer needs the donor's nonce to be newer than the one it
answered, and that no group feeds itself in a circle follows by taking the badge of
the group with the oldest nonce. The refinement adds that every answer was made to
a request that had been shown. Assumptions: those named in the module, on the
constants.

For any PINs and lengths, protocols, relying parties, permissions, retries and limits
(`ClientPin_proofs`): `TypeCorrect`, `GuessesAlwaysBounded` and `ThreeGuessesPerBoot`;
`OneTokenVerifies`, `SpentStaysSpent`, `BoundToOneRp` and `TokenEndsWithPin`;
`ShortPinIsForced` and `TokenMeetsPolicy`. The bound on wrong guesses is over any number
of power-ups: one full counter between two right ones, and one more for each counter
that a power loss took. It is not inductive, for while a decrement is under way the
counter is absent and reads as full. `Budget` adds what the updates under way will
write: a guess that is to be compared is paid for first, the deletion of the counter is
followed by a new value of one less, and all other updates of the counter remove it when
no guess is left to count. It holds because the counter is written *before* the
comparison; the type invariant is needed to know that it is read as a number. The bound
of one boot is simpler, but for the guess that uses up the retries: it is not counted as
a mismatch, and `Counted` says that no PIN is compared after it. `Scope` is about what a
token may be used for: the timer and consent only take from it, and a token that is
given out starts afresh under a single protocol. `PinKept` is about whose it is: while
it verifies, no update of the PIN is under way but that of changePin, which ends it;
`Verifying` is needed to know that a PIN that is compared stays. `Policy` follows the
keys of a PIN, of its mark and of the minimum length through the updates that write two
of them, before and after each call to the PDDB: a PIN is written before its mark is
removed, and a mark before the minimum that calls for it. That no relying party is
`NoRp` is an assumption of the module, for a token that is bound to none would match it.

For any applications, limits and bounds (`Ctap1Permission_proofs`): `TypeCorrect`,
`ApprovalsPressed`, `DenialStands` and `PromptsGuarded`. Each adds what its property
leaves out. `KeysCounted` counts a key where it is: with a listener, stored for the
prompt that is up, or spent; that a new prompt clears `kbhit` is what makes it
inductive. `DenialKept` says that the server remembers the denial that happened.
`RunPumps` says that the watchdog does not run without a pump, in its sleep or in its
queue; with it a prompt stays guarded when the watchdog reads the Run that guarded it.
The lemmas about `Has` and `Starts` follow a message through the queue.

For any descriptions, users, passwords, hashes that tell accounts apart and screens
(`VaultDb_proofs`): `TypeCorrect`, `RecordsKeyed`, `ItemsHaveRecords`, `NoAssertFails`,
`ListStaysComplete`, `ScansReplaceNothing`, `StoreIsABook` (which is the refinement of
`PasswordBook`) and `OneRecordEach`. `Keyed` and `Listing` relate records and
items; a power loss inside an update is why they are not inductive. `WriteInv` adds
what the deletion left behind and the mode that the write will find, from which the list
that the item goes to follows. `NoAssertFails` is about steps: an assertion fails in none
but `EditFails`, because `Listing` gives every item the record it names and `WriteInv`
knows what is under the old key when an edit is finished; what fails on the way to it
leaves both as they were or gives up one record. The refinement is `Keyed` at work: a record is found
where its account says, so a write replaces that of its account and no other
(`PutWrites`), a deletion takes one (`DeleteRemoves`), and an update that is finished
writes to the key of what it holds (`FinishPutsBack`).

For any applications, requests, packet sizes and bounds (`CtapHid_proofs`):
`ChannelsAreDistinct`, `MessagesAreWhole`, `AnswersAreOwn`, `OneRequestUnderWay`,
`TypeCorrect` and `ImplementsPromise`, which is the refinement of `MessageTransport`. `AssemblerInv` says what the message
under way is: on an allocated channel, and if the application of that channel waits for
an answer, then what was collected is a prefix of the very request it waits for, up to
the packet that is expected next. It is kept because a host re-synchronises: the
CTAPHID_INIT takes the old message out before the next request begins. `ClaimInv` is
about replies that will give an application its channel. Such a reply names no channel
that somebody has or is going to be told of, none on which a message is under way, and
no answer comes after it; that requests differ, and so nonces do, makes it inductive.
`RunInv` says that the answer to a request in hand comes once and after the request was
run. `RestInv` is what the types need beside these: a message whose application is
gone is still the beginning of one request, so that its payload is bounded as well.
`SplitJoins` is the lemma about packets: what `HidPacketIterator` cuts a host joins
again, for all sizes.

For any relying parties, users and slots (`Credentials_proofs`): `TypeCorrect`,
`StoreCorrect`, `AccountsDistinct`, `CredentialsKept`, `SeriesAnswered`, `StoreIsASet`
(which is the refinement of `Passkeys`) and `SetWellStored`. What is held
is always listed, though what is listed may not be held; so a key that is not listed is
free, and the list tells the slot of an account. IDs and orders are numbered as they are
drawn. `SeriesInv` says of a series what it was begun for, as it is stored now, in an order
`all` that is chosen when it begins. `Told` ties that order to the answers from its front
and to the keys that are left from its end, and an answer, an error or not, moves one from
the second to the first (`TellBegins`, `TellNext`); an order of the keys is as long as there
are credentials and leaves none out (`OrdersAreOnto`), and that of an assertion is the
newest first because it is the keys backwards (`NewestBegins`). For relying parties
(`RpsInOrder`) a name has its place by how many come before it (`Below`), whatever was
skipped. While a series lasts nothing writes to a credential, which ends it first
(`EnterEnds`), so that the order is of what is stored. For the refinement, an emptied key takes one credential
from the set because no two keys hold the same one (`BrokenLosesOne`), and a credential
that is stored removes just that of its account because `KeyFor` finds the key of it if
there is one (`StoredTakesPlace`); that the order is later than all others needs every
credential to be listed, which a failed update could have spoilt; and a Reset is of a
command that is `Fresh`, for `SeriesInv` knows no other state of that kind.

For any channels, arrays and lengths (`LargeBlobs_proofs`): `TypeCorrect`,
`StoredArrayIsWhole` and `AcceptedIsStored`. The invariant says what the buffer is to the
client whose first fragment came last (`Holds`): its bytes as far as they were accepted,
or given up, or gone on with by another client, and then the next offset is beyond what
this one was told, so that its own next fragment is refused.

For any finite set of records, names, criteria and order of the PDDB
(`ListView_proofs`): `TypeCorrect`, `RangesFit`, `ListsOrdered`, `FiltersAreExact`,
`ImplementsSet` and `ItemsAreOfRecords`. The invariant is the conjunction of the first
four; what it takes is to know what each operation makes of a list that is kept as it
says (`WellKept`). The places that the rows have in the order are a bijection with the
indices (`PlacesAreOnto`), so sorting orders the list and changes no row
(`InOrderSorts`); a search finds the place that divides a sorted list
(`PlaceInOrder`), so an insertion there, or a removal, keeps it sorted (`InsertRow`,
`RemoveRow`); the fold over the keys of a reload is the fold one would expect
(`LoadsExists`, `LoadsKeeps`, by the least counterexample). For the filter, `FoundIs`
says what the binary search tells of the rows on either side of its answer, whichever
of several equal names it hits; the walks then stop at both ends of the matches, and
the one row that can be lost is the first.

Checked by TLC alone: `PromptCloses` and `LockExpires`, which are liveness.

## 6. The plan

1. `GeneExchange` and its ledger, with proofs: done.
2. `VaultDb` with `PasswordBook`, `ListView` with `ItemSet`, with proofs: done.
3. `ClientPin`, with the bounds on guesses and the properties of the token proved: done.
4. `Ctap1Permission`, with its safety properties proved: done.
5. `CtapHid` and its promise, with proofs: done.
6. `Credentials`, `Passkeys` and `LargeBlobs`, with proofs: done.
7. Left: the wait for the user in a CTAP2 command and its keepalives; mutation rates;
   the states of attachment at boot.

## 7. Not modelled

See `components` in `PROJECT.json` for each part and the reason. In short:

- pixels, wording, fonts, bytes of formats and ciphers, CBOR, the password and TOTP code
  generators: pure functions, or none that a property would be about;
- mutation rates: they change how a gene is mixed, which the exchange leaves open;
- the attachment of the badge at boot, its orientation and power state: they choose
  what is drawn;
- the vendor session with its backup: `allow_host` is never set in this build and
  `vendor_hid.rs` is not built;
- `wait_with_timeout`, the wait for the user in a CTAP2 command: the one thread that
  handles packets blocks in it, so in the models of the commands it is a step;
- what runs in other builds (`env/tock`, `env/test`), and the flash format of the
  persistent store with its own model, which this build does not reach: the two make up
  most of the lines that no definition stands for, with data formats and drawing.
