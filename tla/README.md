# A TLA+ model of the chat system

The repository is a messenger: a NestJS back end (`src/apps/backend`) with PostgreSQL
(Prisma), Redis, Socket.IO and BullMQ, and a React Native app (`src/apps/mobile`). This
directory holds TLA+ modules of the parts that carry its own logic, the TLC configurations
that check them on small instances, and TLAPS proofs about each of them. `PROJECT.json`
lists the components, the runs, which definition models which lines, the mutants that each
property is known to catch, the theorems, and the hazards that the properties are for.

Run everything from this directory, for example:

    tlc -workers 2 -config relay_retries.cfg MCMessageRelay
    tlapm MessageRelay_proofs.tla

## 1. Inventory

### 1.1 What is modelled

**Message relay** - `modules/messages/message.gateway.ts`, `message.repository.ts`.
State: `Message`, `Receipt`, `BlockedUser` and ciphertext rows in PostgreSQL; the
`onlineSockets` map of the process; the active conversation of a user in Redis.
Operations: `handleConnection` with `_deliverMissedMessages` (the gap fill),
`handleDisconnect`, `handleSendMessage` (insert, block check, emit, ack, and a `nextTick`
callback that records the delivery, ticks the sender and perhaps marks the message READ),
`handleReceipt`, `chat:open`, `chat:close`, `block:update`; the receiver leaving the
conversation (`deleteUserConversation`) from another device.
Hard: each `await` lets other handlers run; the delivery callback runs after the ack; the
same message is sent again by a timer, an outbox and a flush; presence is stale between the
death of a transport and `handleDisconnect`; each call to the database or to Redis may fail
on its own, some inside a `try` that swallows the error; the process may die between two
writes.
Correct means: an ack is a durable row; a tick is backed by the row; delivery is never taken
back; content is wiped only on evidence; gap fill and live emit together leave no gap; read
receipts are mutual.

**Cleanup** - `message-cleanup.service.ts`. Wipes ciphertexts after delivery (called from
both handlers above, check and write in two statements), or when nobody else is left in the
conversation, and after 30 days (cron). Correct means: it never wipes without evidence, and a wiped row
is never handed to a device as if it were the message.

**Receiver's client** - `services/socket.ts`, `context/ChatContext.tsx`. State: the messages
it has, the open conversation, receipts sent, the cursor `@chat_last_message_id` and the
copy of it in the socket's `auth`. It sends receipts, deduplicates, and reconnects for ever.

**Sender's client** - the same files and `store/chatSlice.ts`, `store/index.ts`. State: the
bubbles in their lists, the debounced copy of these in AsyncStorage, the id under which the
phone knows the conversation, the outbox, running send functions, timers.
Operations: `sendMessage`, `resendMessage`, `flushPendingMessages`, acks, receipts, the 15 s
timer, the resolution of a local conversation id, restart. Hard: one message is emitted several
times and answered several times, the bubble is found by one of two ids, and resolving the
conversation moves it to another list. Correct means: a tick on the screen is never ahead
of the server, a confirmed bubble is never pending again, and what reached the storage of
the phone is sent in the end.

**Call signalling** - `services/callService.ts` (session, timers, handlers that await sounds
and media) and the call handlers of the gateway (`activeCalls`, `cancelledCallIds`).
Hard: `call:initiate` awaits two lookups that a cancellation can overtake; events of an
earlier call reach a later one; both sides call at once; timers race with the network.
Correct means: the phone does not ring for a call that is over, stops ringing, keeps a live
session, and the gateway forgets calls that are over.

**Call media** - `services/webrtcService.ts` and the parts of `callService.ts` that drive
it. State: the peer connection, its descriptions, the queue of candidates, the lock
`_isRenegotiating`, microphone and camera. Operations: the background part of `startCall`,
`acceptCall`, offers, answers, candidates, `toggleVideoSwitch` with its request, agreement
and refusal, `_renegotiate`, the teardown. Hard: the phone rings before the offer is made;
every handler awaits the native layer and goes on with whatever connection there is by then;
both sides may ask for video. Correct means: an accepted call agrees on an offer, the lock
and the queue do not stay behind, and a call that is over holds no microphone.

**Devices and refresh tokens** - `modules/auth/auth.service.ts`, `auth.repository.ts`, and
`refreshAuthToken` of the app. State: `User.isActive`, `Device` and `RefreshToken` rows, the
token in the phone's storage. Operations: login (`verifyOtp`), rotation (`refreshToken`),
`revokeDevice`, `deactivateAccount`, logout. Hard: none of them is a transaction, tokens
signed within one second are equal, and answers get lost. Correct means: a token is rotated
once, a revoked device is not refreshed, and a phone holds the token that the server has.

**Expenses and settlements** - `modules/expenses/expense.service.ts` and
`expense-cleanup.service.ts`. State: `ExpenseSplit` rows with their participants,
`ExpenseSettlement` rows, the group conversation of a split. Operations: creating a split
(with the division of the total), `markParticipantPaid`, `settleUpDirect`, `getNetBalances`,
the cron job that deletes the groups of settled splits. Hard: requests decide by rows read
before; a settlement clears several splits one statement after another; division and
rounding are in floating point; the process may stop between unlinking a group and deleting
it. Correct means: shares add up to the total, a split is settled when everyone has paid,
and a group is deleted after its split, neither earlier nor never.

**Backup and restore** - `services/googleDriveBackupService.ts`, `backupScheduler.ts`, the
bulk operations of `db/localDb.ts`, its healing of duplicate conversations and its deletion of
one. State: the SQLite tables, the files in Drive's
`appDataFolder`, the key in SecureStore, the account, the time of the last backup.
Operations: a backup of the user and one of the background task, cancellation, restore,
deletion. Hard: data and metadata go up in two calls; an export goes from one
conversation to the next while messages are saved, moved and deleted; a restore wipes before it
imports; any call to Drive or to the key store may fail, and a failed read of the key counts as no key;
the app may be killed anywhere. Correct means: what is on Drive can be opened, metadata has its data, and what
was backed up once and not deleted is not lost.

**First contact: conversations, keys and encryption** - `conversations/*`, `keys/*`,
`createMessage` of the message repository, `e2eCryptoService.ts` and the parts of
`ChatContext.tsx` that use it. State: `Conversation` members, `MessageDeletion`,
`IdentityKey` and `SignedPreKey` rows; on the phone the key pair in memory and in the secure
store, the cache of the peer's key, the id of the conversation. Operations:
`getOrCreateDirect`, deleting the chat, registering keys, fetching a bundle, encrypting,
opening. Hard: all of it is find-then-create in separate statements; three paths initialise
the pair with awaits between check and assignment; when the lookup fails, the gateway goes on
with whatever id the phone has sent. Correct means: one conversation per pair
of users, messages are stored where their receiver is, and a message that cannot be opened
has a known cause.

The parts interact as follows. The app's socket events reach the gateway; the gateway's
handlers call the repository, Redis and the cleanup service directly; server-side events
return through Socket.IO rooms, without acknowledgement. A refreshed access token is what
the socket's handshake carries. The first message of a user runs through first contact, the
relay and the ticks one after the other: `FirstContact` decides where it is stored and
whether it can be opened, `MessageRelay` whether it arrives, `SenderTicks` what the sender
is told. Calls share the gateway's socket with messages and nothing else; signalling and
media of a call share the session, which each of the two modules keeps in its own
abstraction. Expenses post system messages into conversations, and delete them. A backup
reads the phone's message store and knows nothing of the server.

### 1.2 What is not modelled, and why

| component | reason |
|---|---|
| One-time passwords (`otp-redis.service.ts`) | one counter and one lock per number; `DeviceSessions` starts after the code was accepted |
| Message cache and history (`message-redis.service.ts`, `message.service.ts`) | the first request that misses fills a page for a day, no new message is added to it, and it goes to whoever asks next: what it promises (message.controller.ts:24 "with soft delete filters applied") is what it does not do, and a model would say no more than that; its non-atomic update (:115) is reached only from `MessageService.updateReceipt`, which nothing calls |
| Media upload, attachments and their retention | presigned URLs and an object store, see the notes in section 4 |
| Presence, typing, reactions | `onlineSockets` of one user is part of `MessageRelay`; the rest are stateless relays |
| Local message database of the app | single statements; its tables are part of `DriveBackup` as far as backup and restore touch them |
| Call audio, sounds, call history | platform calls that no other state depends on |
| Push, reports, contacts, permissions, device storage | wrappers of external services, one call or one row per operation |
| Guards, headers, interceptors, filters, metrics, health, observability | stateless, or no behaviour depends on them |
| Screens, shared packages, infrastructure, scripts | presentation, types and deployment; what a user can do through a screen is a user action of a module |

All modelled components are listed as "partly" in `PROJECT.json`, because each has
operations that only read, or overwrite one row, and are left out.

## 2. Plan

The order was by importance: what a user loses when it goes wrong. Done:

1. `MessageRelay` with `Mailbox` (abstract specification), invariants, refinement, proofs.
2. `SenderTicks`, the other end of the relay, with proofs.
3. `CallSignalling`, with proofs.
4. `DeviceSessions`, with proofs.
5. `ExpenseSplit`, with proofs.
6. `DriveBackup`, with proofs.
7. `FirstContact`, with proofs.
8. `CallMedia`, with proofs.

Left: `OtpLogin`, which composes with `DeviceSessions` where `verifyOtp` goes on; media
messages in `SenderTicks`; the cached history; several sockets of one user.

No module declares a RECURSIVE operator, so that each can be proved about. `MessageRelay`
and `SenderTicks` are two views of the same handlers from the two ends: a composition of
both is out of TLC's reach, and each leaves the other end nondeterministic instead (the
relay takes any number of repeated frames, the sender any answer of the server). The same
holds for `CallSignalling` and `CallMedia`.

## 3. Modules

| module | contents |
|---|---|
| `MessageRelay`, `MCMessageRelay` | the gateway's message handlers, cleanup and the receiver's client; symmetry |
| `Mailbox` | abstract: a message is stored, then confirmed, notified, and wiped or expired |
| `MessageRelay_proofs` | the inductive invariants and the safety theorems; the refinement proof |
| `SenderTicks`, `MCSenderTicks`, `SenderTicks_proofs` | the sender's client and the answers it can get |
| `CallSignalling`, `MCCallSignalling`, `CallSignalling_proofs` | the phones' call sessions and the gateway's call handlers |
| `CallMedia`, `MCCallMedia`, `CallMedia_proofs` | offers, answers, candidates and media of one call |
| `DeviceSessions`, `MCDeviceSessions`, `DeviceSessions_proofs` | logins, rotations, revocations of one user |
| `ExpenseSplit`, `MCExpenseSplit`, `ExpenseSplit_proofs` | splits, payments, settlements, the cleanup job |
| `DriveBackup`, `MCDriveBackup`, `DriveBackup_proofs` | backup, restore and deletion on Drive |
| `FirstContact`, `MCFirstContact`, `FirstContact_proofs` | direct conversation, key directory, encryption |

Conventions: a handler with awaits is a task with a program counter and one action per
await; a lookup that reads shared state is a step of its own; operators keep the names of
the functions. `Fail` is one failing call, counted against a bound. An operator called
"Mutant of X" is X with a plausible bug; it is not part of the specification. A variable
called "history" records what has happened, is read by no action, and lets a property say
under which circumstances it holds.

### 3.1 MessageRelay

| model | code |
|---|---|
| `row`, `content`, `receipt`, `blocked` | `Message.status`, ciphertexts, `Receipt`, `BlockedUser` |
| `left`, `hidden`, `quit` | receiver's `ConversationMember`, its `MessageDeletion`, its `deleteUserConversation` |
| `born`, `clock` | `createdAt`, as ranks |
| `send[m][i]` | the i-th `handleSendMessage` of message m |
| `wipe` | running `clearCiphertextsAfterDelivery` calls |
| `fill` | running `_deliverMissedMessages` calls |
| `rcpt` | receipts in flight and their `handleReceipt` calls |
| `link`, `inbox`, `chatq` | receiver's connections and the frames on them |
| `active`, `memory` | active conversation: the key in Redis, the map of the process |
| `have`, `looking`, `sent`, `cursor`, `auth` | receiver's store, open screen, `sentReceiptsRef`, stored cursor, handshake cursor |
| `told` | what the sender's room was sent |

The steps of `handleSendMessage` are `SaveMessage` or `SaveFails` (insert, or P2002 and the
row of the earlier attempt), the block query, publishing and the ack, the status update, the
receipt upsert, the active conversation query, the settings query, and the auto-READ with its
own upsert. `SetActive` is `setUserActiveConversation`: a `set` or `del` that fails, or a Redis
that is not ready, is swallowed (message-redis.service.ts:147-165), so the key stays as it was
and the map of the process has the new value; `CheckActive` reads the key, or the map when that
fails. `GapTake` stands for the `take: 200` of the gap fill, and `fill[k].past` remembers what a
connection's cursor or this limit passed over. `WipeCheck` asks for no evidence once the receiver
has left the conversation (message-cleanup.service.ts:88-92), which `content` tells apart as
"dropped". A connection is `open`, `dead` (the transport is gone and the server does not know),
`closing` (`handleDisconnect` is running) or `closed`.

`Mailbox` says what all of that amounts to: five monotone sets, `expired` being what was given
up without a delivery, by the cron or because nobody was left. `ImplementsMailbox` is its
specification under the mapping at the end of `MessageRelay`.

### 3.2 SenderTicks

`bubble[m]` is the set of the message's bubbles: each is in the list of the conversation the
user wrote in ("home") or in that of the id this one was resolved to ("real"), and is found by
the client's id until a frame with both ids promotes it. `Apply` is the part of
`updateMessageStatus` that decides whether a frame finds a bubble, `Mark` the client's own use
of it. `room` tells how the phone knows the conversation. `_resolveConvId` moves the messages of
a local id to the list of the server's (`Resolved`, `Resolves`) and takes the local one off the
list; then `sendMessage` appends its message there once more (`Again`,
ChatContext.tsx:1769-1776), although a flush may have had it confirmed meanwhile:
`ComposeResolves` is the step that does both, and the only one that `ConfirmedIsFinal` excepts.
The message that was moved is in no listed conversation until the server's list is loaded, so a
flush passes it by: `PersistedIsSent` excuses it. `ResolveElsewhere` is a resolution by another
message of the conversation or by the loading of its history.

`jobs` are the async functions that will emit the message (`sendMessage` before and after it has
resolved the conversation, `resendMessage`, the flush of a connection), `timer` the armed
timers, `outbox` the queue of `socket.ts`. A server task replies on the connection that carried
the message; receipts go to whatever connection is there. `ticked` and `answered` are what the
server has recorded. The debounced write (`Persist`) may come at any time or never, and takes
messages and conversations together; a restart reads what it wrote.

### 3.3 CallSignalling

`session` is `currentSession`. `Wake` is the handler of an accepted call after its await of
`stopCallSounds`; `FinishAccept` and `AcceptFails` are `acceptCall` after its media; `Reset`
is the 350 ms timer that clears an ended session. `Arrive` is the part of a gateway handler
before its first await: for the events that end a call it forgets the call and remembers
its id, so that an `Initiate` still in a lookup is dropped. One frame stands for the six
events that announce an end, to all of which one handler listens. `strays` is history: the
outgoing calls that were rejected because the acceptance of another call failed. The catch of
`acceptCall` names the call to reject by `this.currentSession` (callService.ts:586), which by
then may be a call that the user placed meanwhile; the rejection then goes to himself as the
caller, and the other side rings on. `NoGhostRing` is about the other calls.

### 3.4 CallMedia

| model | code |
|---|---|
| `rtc[p]` | the fields of `webrtcService`: connection, signalling state, `isRemoteDescriptionSet`, `pendingIceCandidates` (counted), `_isRenegotiating`, tracks |
| `sdp` | the offer kept in the callee's session until it accepts |
| `start`, `handling`, `applying`, `upgrading`, `reneg` | runs that wait for the native layer: `startCall`, an offer, an answer, the camera, `_renegotiate` |
| `video`, `asked` | `isVideoEnabled`, `videoSwitchPending` |
| `dialled`, `link`, `online` | the gateway's lookups for the ring, frames, the sockets |
| `missed`, `early` | history: an offer was dropped; a video offer was made before the first one was answered |

Offers are numbered; an answer carries the number of its offer. The native layer is external:
it works through its calls in order, refuses a description in the wrong signalling state, and
an answer to an older offer may or may not fail (it fails if the media sections differ). The
module follows one audio call that may become a video call; `handledEndedCallIds` is taken
never to forget, as its 30 s outlast the call's frames.

### 3.5 DeviceSessions

A refresh token is the device it names and the second it was signed in: two tokens signed in
one second for one device are the same string, which the unique column refuses.
`ChooseDevice` includes the fallback to the user's most recently active device. `SaveToken`
enforces the foreign key and the unique index, `DropDevice` the cascade to the tokens and the
`onDelete: Restrict` of `Message.senderDevice` (schema.prisma:285): while a message of the
device is stored its deletion fails, after its tokens were deleted. `Slot` gives the number that
each phone sends. The app always sends 1 (apiService.ts:346), and so do both phones of the run: a
second phone's login takes the first one's place, after which the old phone's stale token is
answered with the deletion of the new one's. `HeldIsStored` therefore speaks of phones of which no
two have logged in with one number (`joined`): overlapping requests of a single phone.
`revoked` is history: the token rows that a revocation has deleted.

### 3.6 ExpenseSplit

`Share` is the division of a total in cents (`EqualShare`, `Parts`, `Rounded`; `Accepted`
is the check of an exact split); `slip` is the cent by which the floating-point quotient of
an equal split may fall below the exact one. A request is a worker of `work`: it reads
the rows it decides by at its start (`Snapshot`) and writes one statement per step. A
settlement goes through the debtor's unpaid shares in order of `createdAt` (`ClearDebt`, or
`SkipDebt` when its snapshot says so), with five cents of tolerance. The cron job picks the
settled splits that are due, unlinks each from its group and deletes the group. Time is
`deleteAt`: none, set, or due. A direct conversation always exists.

### 3.7 DriveBackup

A backup runs `StartBackup`, `OpenBackup`, one `ExportChat` per conversation, the key
(`ReadKey`, `NewKey`), `ListFiles`, `UploadData`, `UploadMeta`, `BackupEnds`. A restore finds
a file, downloads and decrypts it, wipes the tables, creates them, and imports
conversations and messages. Files carry their id, the key they are encrypted with, the
messages in them and, for metadata, the backup they describe. `place` is the conversation a
message is in. `Limit` stands for the `LIMIT 10000` of an export, which takes the oldest messages
of a conversation. `Heal` is the part of `getConversations` that finds two rows with one contact:
the stale one loses its messages to the canonical one (localDb.ts:455-467) and is deleted in a
later step; `Twins` says which rows these are, in groups of two, and reading and moving are one
step. `DeleteMessages` and `DeleteChat` are `deleteLocalConversation`, when the server announces
`conversation:deleted`. `SaveMessage` makes its two upserts in one step. No code sets
`is_deleted`, and `deleteAllData` is called only before a restore.

`kept` is what a finished backup found on the phone, and `BackedUpIsKept` that it stays on Drive
and on the phone. Taken out of `kept` is what the code does not promise: messages that were
deleted; those beyond the limit of a later export; those whose conversation row is gone when a
later backup lists the conversations; and those that the healing moves, behind the back of a
running export, from a conversation it has not read yet to one it has. `mishaps` names what went
wrong: two backups at once, a restore that overtook something, two files of one name after a failed
listing, a deletion that met a backup, a key that was not read.

### 3.8 FirstContact

A key stands for its pair; number 0 is the identity key that `getBundle` makes up for a user
who has not registered. `job` holds registrations, sends, openings and deletions, each with
a program counter; `init` to `savePub` are `e2eCryptoService.init`, which three of them run.
`box[m]` records for which key the text was encrypted, by which, and which key the receiver
is told. A live message carries its text; the gap fill brings the box. The two writes of a new
pair go through `safeSecureStore` (safeSecureStore.ts:113-131), which swallows their errors:
the second follows a first that failed.

`job[Send(m)].sent` is the id of the conversation in the frame, fixed when it is prepared: always
an id of the server's (ChatContext.tsx:675, 1761, 2005), so that the error ack for other ids
(message.gateway.ts:308-311) is never met. `Route` and `CreateForMessage` are the lookup and the
creation by which the gateway replaces it; `KeepSent` is their failure, which leaves the message the
id that was sent (:307-312). `createMessage` then puts back the sender (`JoinSender`), the receiver
(`JoinReceiver`), and inserts. A phone's own request for the conversation that fails leaves the
message to the next flush, which asks again; the request of a flush after a restart is taken to
be the gateway's. An id is fresh (`Unused`) when nothing refers to it. `trouble`, `raced` and
`swept` are history: `raced` is set when two requests find no conversation at once, when a member
leaves one that a message is about to put him back into, and when a message keeps the id of a
conversation that is not that of both.

## 4. Runs

Twelve runs: eleven that pass, and one in which the code does not do what its comment says.
State counts and times are for 2 workers.

| run | asks | bounds | states |
|---|---|---|---|
| `relay_retries` | ack durable, wipes and ticks backed, delivery not revoked, READ mutual, active conversation tracked | 1 message, 2 attempts, 1 connection that may die, 1 opening, 1 failed call | 7.9 M, 2.4 min |
| `relay_reconnect` | no empty copy, implements `Mailbox` | 1 message, 2 connections, stale or missing cursor, block, leaving the conversation, expiry, crash, 1 failed call | 4.1 M, 2 min |
| `relay_gapfill` | stored messages are delivered, or passed over by cursor or limit (liveness) | 2 messages, 1 own message, 1 stable connection, a gap fill of 1 message | 0.5 M, 1.5 min |
| `ticks` | a tick is earned, client id kept while pending, confirmed is final, persisted is sent (liveness) | 1 message, its conversation known by the server's id, a local one, or one resolved before; 2 connections, READ answers; one trouble per behaviour: a fault, a Retry, a receipt, or a saved copy and a restart | 1.0 M, 2 min |
| `calls_one` | types, no leaked call, ringing stops (liveness) | 1 call, 1 lost connection, 1 media failure, 1 hang-up | 0.5 M, 1.5 min |
| `calls_two` | no ghost ring, live session kept | 2 calls: redial by one side, or one from each side; 1 failed acceptance that rejects another call | 6.7 M, 2.8 min |
| `call_media` | lock held for a reason, microphone released, accepted is negotiated, queue flushed (both liveness) | 1 candidate per phone; two events out of taps on the video button, ends, failed captures, lost connections | 0.2 M, 30 s |
| `sessions_devices` | rotation once, revoked refused, no orphans, a phone alone with its number holds the server's token | 2 phones that both send the number 1, 2 concurrent requests, 4 stored tokens, 1 lost answer, 1 user action | 2.7 M, 35 s |
| `expenses` | settled exactly when paid, groups deleted in order and not forgotten, shares add up, balances agree | 3 users, 2 splits out of four orders (EQUAL with an inexact quotient, PERCENT of 99.6 %, ongoing SHARES, refused EXACT), 2 requests and the cron, 1 settlement of 38 cents, 1 crash | 1.0 M, 1.2 min |
| `backup` | backups can be opened, metadata has its data, nothing backed up is lost | 2 messages in 2 chats of one contact, an export of 1 message per chat, 3 backups, 1 restore, 1 user action or deletion, 1 fault, followed up to the second trouble | 3.2 M, 1.6 min |
| `first_contact` | directory consistent, locked messages have a cause, one conversation, stored is reachable | 2 users, 1 text and 1 photo, 2 pairs of keys, 3 conversations, 1 deletion, 1 mishap, any number of failed lookups | 4.4 M, 2.6 min |
| `contact_production` | an upload is accepted (violated) | as above, in production, no mishap | violated after about 100 |

Why these bounds are enough for the questions asked. The relay's properties are about one
message, and messages interact only through the connection and the cursor, which
`relay_gapfill` has two messages for. Two attempts are the least number that overwrite each
other; a third repeats the second. Two connections give the overlap of an old and a new one.
One failing call is placed in turn at each call to the database and to Redis that the modelled
handlers make, so each swallowed error is met: the insert, the block query, status and receipt
writes, the active conversation when it is set, deleted and read, the settings, the gap fill, check
and write of a wipe, the two statements after a member has left. Where a property needs that none
fails it says `faults = 0`. Where there are proofs, they cover any number.
Every confusion of one call with another needs two calls, and every race between the statements
of two requests two requests. Two splits let a settlement go past one it has cleared;
`TakeLimit` stands for the `take: 100` of the settlements that a balance reads, and is not
reached. `GapTake` and `Limit` are 1 where the code has 200 and 10000: two messages exceed them.
Three backups are two that meet and one that is there before. Two messages in two
chats are the least that a partial export or import can part. `MaxSaves`, `MaxRows`, `MaxPairs` and `MaxConvs` bound what is stored, not
the interleaving; `MaxBusy` lets a user place a call only while at most one frame or lookup of
earlier calls is in progress.

Some instances follow a part of the behaviours. `OneTrouble` (ticks) and `TwoEvents` (call
media) are conjuncts of the instance's next-state relation: behaviours that would need more
are not considered, for the liveness properties either; nor are those in which a fair action
could only go on by such a step, for example a reconnection after a Retry. `FewTroubles` (backup), `Apart`
(first contact) and `FailsAstray` (two calls) are constraints, and these three runs check
safety only. `FailsAstray` follows, of the failed acceptances, those that reject another call;
the others are in `calls_one`. `Apart` keeps
deletions of a chat away from mishaps with keys: a deletion touches no key, and a mishap no
conversation; a failed lookup of the gateway is no mishap in this sense and happens in both.
`FewTroubles` follows two of: user actions, failures, kills, mishaps, moved messages and
conversations being removed, or one of them when three backups are started.

Symmetry is used for the connections of `relay_reconnect`, the requests and phones of the
sessions, and the requests of the expenses; never with liveness.
Deadlock is not checked: a bounded instance in which everything was sent, answered, settled
and hung up really stops.

Each property of a passing run has a mutant in `PROJECT.json`: a bug in one definition (a
missing return in a catch block, a status taken from the wire, a timer not armed, an index
dropped, a lock not released, an upload in the wrong order) that the run finds.

### Fairness

All of it is weak fairness of single actions: none assumes that a race is won.

- `MessageRelay`: the server's tasks and the handlers of frames run to completion (the
  event loop runs every callback), and the client's connection steps happen
  (`reconnectionAttempts: Infinity`). Nothing makes a user send, open or close, and
  transports die without fairness.
- `SenderTicks`: timers fire, started functions return, the client reconnects, frames are
  handled, a dead transport is noticed. The debounced write has no fairness: it may never
  happen before the app is killed.
- `CallSignalling`: timers fire, frames and lookups are handled; users do nothing, media may
  never arrive, a phone may stay offline.
- `CallMedia`: frames are handled and the native layer answers; users do nothing, and a phone
  may stay offline.

### What the code does not do

| run | statement | behaviour |
|---|---|---|
| `contact_production` | apiService.ts:1326 "64 zero-bytes encoded as base64 = exactly 86 base64 chars + '==' padding" | the literal at 1329 has 85 characters before its padding and decodes to 63 bytes, and with `NODE_ENV=production` key.service.ts:180-193 answers 422: no phone ever registers its keys |

The models have the following behaviours too, and no property here claims otherwise.

Messages and ticks

- message.gateway.ts:64 "retried sends are idempotent": the nextTick callback of a second
  attempt writes DELIVERED over READ, and the second ack takes the sender's READ tick back to
  SENT (chatSlice.ts:161-167 overwrites without comparing). A retried message with an
  attachment would also get its attachment rows twice (message.gateway.ts:374).
- message.gateway.ts:592 "It will be delivered via _deliverMissedMessages when they
  reconnect": only if the handshake carries a cursor older than the message, and only the oldest
  200 of those missed (message.gateway.ts:949). The cursor then moves on to the newest message that
  arrives, live or not, so what a connection has passed over need not come with the next.
- message-cleanup.service.ts:15 "the server only holds content long enough to guarantee
  delivery": the callback records DELIVERED because `onlineSockets` has the socket, so a
  frame that dies with its transport is wiped and no device has it.
- message.gateway.ts:439: a message that met a block reaches the receiver by the gap fill.
- message.gateway.ts:649: when the settings query fails a READ is stored with read receipts
  off; `ReadReceiptsAreMutual` is about behaviours without failures.
- message-redis.service.ts:147-165 swallows a `set` or `del` that fails or meets a Redis that is
  not ready: after `chat:close` or a disconnect the conversation may stay active, and messages are
  marked READ that nobody sees, until the key expires after two hours.
- ChatContext.tsx:1815: a FAILED bubble that the flush marks SENDING has no timer.
- ChatContext.tsx:1769-1776: the second append of `sendMessage` puts a message back as SENDING that
  a flush has had confirmed meanwhile. The moved messages are in no listed conversation, so a flush
  passes them by until the server's list has been loaded.

Calls

- callService.ts:128-143, :222, :573, :586: events and awaits of a call that is over are
  applied to the session of the next one, or revive the old one. A late `call:status` makes
  an ended session ring again without the timer of :516 "45s outgoing call timeout".
- callService.ts:546 "Capture the SDP offer NOW before any async work so we don't lose it":
  an offer that arrives while the callee captures its media finds it CONNECTED and without a
  connection, and is dropped (webrtcService.ts:580): the call stays silent (history
  `missed`).
- The video button does not ask for the state of the call: an upgrade while it still rings
  crosses the first offer, the answer fails and the lock stays (history `early`).
- Candidates that reach a phone before its peer connection are dropped (webrtcService.ts:76).
  The callee does not stop its microphone when the call ends during its capture, and an
  upgrade keeps a camera after the end; `CallerReleasesMicrophone` is about the caller.
- message.gateway.ts:1107: when both connections are lost the record stays in `activeCalls`.

Accounts, keys and conversations

- auth.service.ts:204, 305, 342, 373: the device limit is counted before the device is
  created; a revoked device's refresh deletes another device's tokens; a replay detected
  between the delete and the insert of a rotation deletes nothing.
- schema.prisma:285 (`onDelete: Restrict`): a device that has sent a message which is still stored
  cannot be revoked: its tokens are deleted, the request fails, and the device stays in the list
  (auth.repository.ts:143-150).
- apiService.ts:167, 255: a refresh in flight survives a logout; its lost answer ends the
  session.
- README.md:22 "Multi-Device Architecture": apiService.ts:346 always sends device 1, so a second
  phone's login takes the first one's device and deletes its tokens. The first phone's next refresh
  is then answered as a replay, with the deletion of the second one's tokens, and so on.
- e2eCryptoService.ts:6 "Private key is generated once on-device": overlapping
  initialisations or a failed read of the secure store make a second pair.
- A bundle that is fetched before its user has registered has a random key, which the asker
  keeps for as long as the app runs; a registration that failed or was refused is not repeated.
- Two simultaneous `getOrCreateDirect` make two conversations. So does one that fails in the
  gateway, which goes on with the id that the phone has sent (message.gateway.ts:307-312): if it is
  that of a conversation deleted since, `createMessage` puts both members back into it.

Expenses

- Two overlapping payments, or a crash between a payment and the closing of the split, leave
  a fully paid split ACTIVE for ever; a crash between unlinking a group and deleting it
  orphans the group.
- `settleUpDirect` clears shares, and `getNetBalances` subtracts the settlement again
  (expense.service.ts:844-846). The comment at :844 says "ALL time", the query `take: 100`.
- What rounding leaves of PERCENT and SHARES is not corrected.

Backup

- Nothing keeps backups, restores and deletions apart: a new backup clears the cancellation
  of the one still running (googleDriveBackupService.ts:868), and a restore may meet either.
- A failed listing makes a second file of each name. A restore whose import fails falls back and
  reports success (1022-1042, 1118-1168); a half-restored store overwrites the backup later.
- An export takes the oldest 10000 messages of a conversation (googleDriveBackupService.ts:473,
  localDb.ts:506-513): a restore deletes the newer ones. It takes none of a conversation without a
  row, and none that the healing of duplicates moves from a conversation it has still to read to one
  that it has read.
- A kill between dropping the tables and creating them leaves them missing, as
  `user_version` says they exist (localDb.ts:525).

Read in code that is not modelled

- Media: a flush during an upload sends the local URI under the same client id, and the
  frame with the uploaded one meets P2002, so that the row keeps the local path;
  `resendMessage` encrypts again and sends no file key; a download URL lives 7 days,
  an attachment 14.
- History: the cached first page ignores what the asker deleted (message.controller.ts:24
  "with soft delete filters applied") and gets no new messages; on a forced reload "server wins on ID
  collision" (ChatContext.tsx:1477), so that own messages come back without text.

## 5. Proofs

All theorems are for every set of users, messages, connections and requests and all values
of the bounds, from the one named ASSUME of each module (`RelayAssumption`,
`TicksAssumption`, `SessionAssumption`, `ExpenseAssumption` with `SharesAssumption`,
`BackupAssumption`, `ContactAssumption`, `MediaAssumption`), which says which sets the
constants come from. TLC evaluates them in the runs.

| module | theorems |
|---|---|
| `MessageRelay_proofs` | `TypeCorrect`; `RelayInvariant`; `AckDurable`: an ack or a tick is only sent for a stored message; `WipeJustified`: wiped content has its evidence in the database; `TicksBacked`: without failed writes a tick is backed by the row; `ReadReceiptsMutual`: with a side off and no failed query, no READ anywhere; `DeliveryNeverRevoked`: no step takes a row or its delivery back; `NoEmptyCopies`: no device gets a wiped row before the expiry, unless a query failed; `ActiveTracked`: while no call fails and the server does not crash, no conversation stays active behind the receiver's back; `RelayImplementsMailbox` |
| `SenderTicks_proofs` | `TypeCorrect`; `TicksAreEarned`: no tick is ahead of the server; `RetriesAreRecognised`: a pending bubble has its client id; `ConfirmationIsFinal`: nothing but the second append of its own `sendMessage` makes a confirmed message pending again |
| `DeviceSessions_proofs` | `TypeCorrect`; `TokensHaveDevices`; `SessionNeverForks`: a token row is rotated once; `RevocationHolds`: a token that a revocation has deleted is not rotated, even if the device cannot be deleted; `UndisturbedSessionsLast`: a phone holds the token that the server has until an answer is lost, somebody logs out, revokes or deactivates, or another phone logs in with its number |
| `CallSignalling_proofs` | `TypeCorrect`; `LiveSessionsStay`; `CallsAreTracked`; `NoCallLeaks`: the gateway forgets calls that are over; `NoRingOutlivesItsCall` (both while no connection is lost) |
| `ExpenseSplit_proofs` | `TypeCorrect`; `SettledOnlyWhenPaid`; `ToleranceIsGrantedOnce`; `LastPaymentIsNoticed`; `GroupsGoAfterSettlement`; `GroupsAreReached`; `SharesMakeUpTheTotal`: for any total, weights and members, to the cent in an equal split; `BalancesMirror`: both sides see one balance |
| `DriveBackup_proofs` | `TypeCorrect`; `BackupsCanBeRead`; `MetadataHasData`; `NothingBackedUpIsLost`: while backups, restores and deletions do not meet, what a finished backup found stays on Drive and on the phone, but for what was deleted or left out by a later export |
| `FirstContact_proofs` | `TypeCorrect`; `DirectoryIsConsistent`; `LocksHaveCauses`; `OneConversationEach`: one direct conversation unless requests or a deletion overlapped, or a failed lookup left a message a stale id; `StoredStaysReachable` |
| `CallMedia_proofs` | `TypeCorrect`; `MicrophoneIsReleased`; `LockHasReason`: the lock of `_renegotiate` is held only by a negotiation on its way |

The argument is the same everywhere. A safety property says what is true after a write,
and the write is one step of a handler that began long before, so the property is not
inductive: the invariant adds what the handlers in progress know, and why what they read
is still true when they use it. Each conjunct is then preserved by every action, with one
lemma or step per action.

- **MessageRelay**, `RelayInv`. `RowFirst`: before the row exists no frame, task or receipt
  about the message exists, and every frame in flight is of a stored message; hence acks,
  which come after the insert, are durable. `EvidenceFirst`: a wipe that passed its check and
  has not committed still has its evidence, because statuses and receipts only move between
  DELIVERED and READ (`SetStatusKeeps`, `ReceiptKeeps`). `StatusFirst`: without failures a task
  past its status write, or a tick already sent, has its status in the row. `NoReadWhenOff`:
  with read receipts off no task carries a READ, so none can store one. `NoEmptyCopies` needs
  that the evidence of a wipe, which may be a receipt, shows in the status that the gap fill
  reads (`ReceiptsBacked`), and that what is empty is wiped or expired (`NothingEmpty`).
  `ActiveTracked` rests on `ChatTracked`: the last chat frame on a live connection says what is
  on the screen, and a conversation is active only while a connection is left whose end will
  clear it. It assumes that no call fails, as a `del` may, and that the server does not crash, for
  the Redis key survives what the process knew of its sockets.
  The refinement
  maps each action: inserting is `Store`, a status or receipt write is `Confirm`, an ack or
  tick is `Notify`, the commit of a wipe is `Wipe`, the cron is `Expire`, the rest stutters.
- **SenderTicks**. `BubblesRight`: bubble, saved copy and what the server did agree;
  `FramesSound` and `TasksSound`: a frame or a server task tells only what has been recorded.
- **DeviceSessions**. `NoOrphanTokens` and `FreshRows` (ids of rows are not used again) make
  the delete of a rotation a test-and-set; `Knows` is what a request has found. `Calm` is for
  `HeldIsStored`: as long as nothing has gone wrong, a phone is in a login, in a refresh or at
  rest, has one request at most, and its device has one row of one token. It speaks of the phones
  that have logged in (`joined`), of which no two may have the same number (`OwnNumbers`, a part of
  the property's condition and no assumption on the constants); the others have no token and no
  request (`Strangers`). As the app always sends 1, that is one phone of a user.
- **ExpenseSplit**. `Core` is the types, what each worker knows from its snapshot that stays
  true (`Held`), and that settled means paid; on it rest `Money` (what is left of a
  settlement in progress, which works alone on its row), `Noticed` (who pays last
  closes the split), and `Grouped` (where the cron job stands with a group). The sums need a
  theory of their own, since a fold says nothing until its recursive function is known to
  exist: `PartialSumsExist` builds it for the sets of n + 1 elements from that for n,
  `SumUnfolds` is the equation that follows, and `SumOfEqualParts`, `SumBound` and
  `SumCongruence` go by induction over the subsets of a finite set (`FiniteInduction`). With
  them every accepted order adds up (`AcceptedAddsUp`: `RoundedIsNear` bounds each share),
  and `Agreed` says that only accepted orders are inserted. `BalancesMirror` needs that who
  has no more settlements than are read sees all of them (`RecentIsAll`).
- **DriveBackup**. `Placed`: files and jobs name each other by ids that are not used again;
  `Single`: without an overlap there is one backup at a time; `KeyRight`: who holds a key holds
  the phone's; `MetaRight`: the data of a backup that goes on to its metadata is on Drive;
  `KeptRight`: what was kept is in the one data file, in what a backup has found (`had`), and in
  what a restore has imported or has still to; each message that a backup has found is exported
  already or in a conversation that it has still to read (`JobKept`), which a healing, a deletion or
  the limit keeps true by taking the messages it breaks it for out of `had` and `kept`.
- **FirstContact**. `Keyring` relates the pair in memory, in the secure store and in the
  directory (`BundleRight`, `BoxReal`, `JobReal` follow a key through cache, message
  and task), `Meeting` the conversations (`Single`, `Placed`, `Sweeping`).
  Part of `Single` is `Found`: while nothing has raced, a message on its way is in a conversation
  that has the members it would put back, so it makes no second one.
- **CallSignalling**. No variable says who placed a call and who receives it: the lookups, the
  frames and the sessions each name the peer. The invariant says that there are functions
  `by` and `to` from calls to users with which all of them agree (`Good(by, to)`): request,
  lookup, frame and session of a ring exclude each other (`RingsOnce`), the caller of a call
  that is not over is in it or has said that he left (`CallerLives`), and who rings for a call
  that is over will be told, not before the ring (`EndReaches`). Placing a call extends `by`
  and `to`.
- **CallMedia**. `MicRight`: the caller's microphone is off until its capture returns, and
  off without a connection. `Good` is for the lock: while nothing has gone wrong the negotiation
  is at one place at a time (`OnePlace`): an offer is being made, under way, stored, handled,
  or its answer is under way or being applied. So the callee's connection is always in the
  state that its one run expects (`CalleeRight`), no run of it fails, and the answer comes back
  to release the lock (`LockRight`); an upgrade that finds no lock either finds nothing under way
  or comes before the first answer, which `early` records. The phone rings once (`RingRight`),
  and rings and answers go their own ways (`Sided`).

Only model-checked: every liveness property, as fairness and ENABLED are out of the prover's
reach. Every safety invariant of a passing run is a theorem. No definition is declared
RECURSIVE.

## 6. Limits of the models

- `MessageRelay` and `SenderTicks` have one sender, one receiver, one conversation and one
  receiver device; groups and several receiver sockets at once are not modelled.
  Ciphertext per device is one value per message.
- The history request of an empty chat room is left out of the relay: the conversation
  already has messages on the receiver's device, so only the socket brings new ones.
- Real time appears only as order: 15 s, 45 s and 60 s timers may fire at any moment after
  they are armed, and the 60 s memory of a cancelled call is taken to outlast any lookup.
  The two hours after which Redis forgets an active conversation are left out, so that it may
  stay longer than it would.
- `SenderTicks` puts each message in a conversation of its own. A restart restores the lists at once
  and before the first connection; refs follow the store at once; the cap of 100 messages per list
  (chatSlice.ts:119-122) and the loading of the server's list (`syncServerConversations`,
  ChatContext.tsx:1151) are left out, and a history that loads has been merged before anything is
  written into an empty conversation.
- `CallMedia` follows one call; mute, camera switch, noise suppression and bitrate are left
  out, and so is the event `webrtc:answer`, which the gateway relays and the app hears but never emits.
- `DeviceSessions` starts a login after the one-time password was accepted.
- `ExpenseSplit` leaves out the system messages, broadcasts, reminders and the endpoint that
  forces a cleanup; one sweep runs at a time.
- `DriveBackup` takes duplicates in pairs, and the read and the UPDATE of a healing as one step. It
  leaves out the settings, the OAuth flow, cached metadata, reinstalling the
  app (which loses the key, googleDriveBackupService.ts:218-226), `cancelRestore` and
  `triggerBackupIfDue`, which nothing calls.
- `FirstContact` has two users with one device each, whose device rows exist and whose pool
  of one-time prekeys is empty, as the app never fills it; uploads that arrive after a
  restart, blocked users, `clearHistory` and groups are left out. The request for the conversation
  that a flush makes after a restart is taken to be the gateway's.
