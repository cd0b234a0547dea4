----------------------------- MODULE DriveBackup -----------------------------
(***************************************************************************)
(* Backup of the local message database to Google Drive and its restore:   *)
(* GoogleDriveBackupService, the background task of backupScheduler.ts and *)
(* the bulk operations of localDb.ts.                                      *)
(*                                                                         *)
(* A backup of the user and one of the background task, a restore and a    *)
(* deletion are async functions of one process that interleave at each     *)
(* await; nothing keeps them apart.  Drive allows files of equal names and *)
(* lists them in any order.  The app may be killed at any point, and any   *)
(* call to Drive or to the key store may fail.  Meanwhile messages are     *)
(* saved, the conversation list moves them from one row of a contact to    *)
(* another, and the server has a conversation removed.  Progress           *)
(* callbacks, sizes, the metadata cached for display and the simulated     *)
(* restore, which changes nothing, are left out.                           *)
(***************************************************************************)
EXTENDS Naturals, FiniteSets

CONSTANTS
  Msgs, Chats,
  ChatOf,         \* the conversation that a message is saved in
  Twins,          \* pairs of conversations with one contact: a stale one, the canonical one
  Age,            \* created_at_ms
  Limit,          \* messages of a conversation that an export takes
  Backups,        \* callers of startBackup: the user and the background task
  Background,     \* the background task
  MaxBackups,     \* bound: backups started
  MaxRestores,    \* bound: restores started
  MaxActs,        \* bound: times the user cancels, disconnects or deletes, or the server does
  MaxFaults       \* bound: failed calls, and times the app is killed

None == "none"

ASSUME BackupAssumption ==
  /\ None \notin Chats
  /\ ChatOf \in [Msgs -> Chats] /\ Twins \subseteq Chats \X Chats
  /\ Age \in [Msgs -> Nat] /\ Limit \in Nat
  /\ Background \in Backups
  /\ {MaxBackups, MaxRestores, MaxActs, MaxFaults} \subseteq Nat

VARIABLES
  rows,       \* messages in SQLite
  chats,      \* conversations in SQLite
  place,      \* conversation_server_id of a message that is there
  closing,    \* conversations of which the messages have been moved or deleted, not yet the row
  tables,     \* the tables exist
  drive,      \* files in the appDataFolder
  key,        \* the encryption key in SecureStore; 0: none
  token,      \* a Google account is connected
  due,        \* the interval since the recorded backup is over
  cancelled,  \* activeBackupCancellation
  job,        \* the backups in progress
  restore,    \* the restore in progress
  deleting,   \* ids of the files that deleteBackup is deleting
  partial,    \* history: the rows are those of a restore that has not come to its end
  kept,       \* history: messages that were in SQLite when a completed backup began, that no
              \* export has left out and nobody deleted since, nor the backup
  mishaps,    \* history: what went wrong so far
  ids, keys, begun, restores, acts, faults

phone == <<rows, chats, place, closing, tables, partial>>
cloud == <<drive, ids>>
keyring == <<key, keys>>
account == <<token, due>>
counters == <<begun, restores, acts>>
vars == <<phone, cloud, keyring, account, cancelled, job, restore, deleting, kept, mishaps,
          counters, faults>>

Names == {"data", "meta"}

\* An export: its conversations, and the one in which it has a message first.
Exports == [chats : SUBSET Chats, at : [Msgs -> Chats \cup {None}]]
NoExport == [chats |-> {}, at |-> [m \in Msgs |-> None]]
In(e) == {m \in Msgs : e.at[m] # None}

\* Of a data file: what was exported, and the key; of a metadata file: which backup it describes.
Files == [id : Nat \ {0}, name : Names, backup : 1..MaxBackups, key : Nat, msgs : Exports]

\* left: conversations to export; got: the export so far; had: history, what it ought to take.
Jobs ==
  [pc : {"idle", "open", "export", "key", "newkey", "list", "data", "meta", "record"},
   n : 0..MaxBackups, left : SUBSET Chats, got : Exports, had : SUBSET Msgs, key : Nat,
   data : Nat, meta : Nat]
NoJob == [pc |-> "idle", n |-> 0, left |-> {}, got |-> NoExport, had |-> {}, key |-> 0,
          data |-> 0, meta |-> 0]

\* file: the chosen file; got: the export in it; todo: those not yet imported.
Restores ==
  [pc : {"idle", "find", "download", "key", "newkey", "wipe", "create", "chats",
         "import"},
   file : Nat, key : Nat, got : Exports, todo : SUBSET Msgs]
NoRestore == [pc |-> "idle", file |-> 0, key |-> 0, got |-> NoExport, todo |-> {}]

Mishaps == {"two backups", "restore overtaken", "two files", "deleted", "key unread"}

TypeOK ==
  /\ rows \subseteq Msgs /\ chats \subseteq Chats /\ {tables, partial} \subseteq BOOLEAN
  /\ place \in [Msgs -> Chats] /\ closing \subseteq Chats
  /\ drive \subseteq Files /\ \A f, g \in drive : f.id = g.id => f = g
  /\ key \in 0..keys /\ {token, due, cancelled} \subseteq BOOLEAN
  /\ job \in [Backups -> Jobs]
  /\ restore \in Restores
  /\ deleting \subseteq 1..ids
  /\ kept \subseteq Msgs /\ mishaps \subseteq Mishaps
  /\ {ids, keys, begun, restores, acts, faults} \subseteq Nat

Init ==
  /\ rows = {} /\ chats = {} /\ place = ChatOf /\ closing = {} /\ tables = TRUE /\ partial = FALSE
  /\ drive = {} /\ ids = 0 /\ key = 0 /\ keys = 0
  /\ token = TRUE /\ due = TRUE /\ cancelled = FALSE
  /\ job = [j \in Backups |-> NoJob] /\ restore = NoRestore /\ deleting = {}
  /\ kept = {} /\ mishaps = {}
  /\ begun = 0 /\ restores = 0 /\ acts = 0 /\ faults = 0

-----------------------------------------------------------------------------
Act == acts < MaxActs /\ acts' = acts + 1
Fail == faults < MaxFaults /\ faults' = faults + 1

Named(name) == {f \in drive : f.name = name}
Chosen(name) == IF Named(name) = {} THEN {0} ELSE {f.id : f \in Named(name)}
WithId(id) == {f \in drive : f.id = id}

Busy(j) == job[j].pc # "idle"
End(j) == job' = [job EXCEPT ![j] = NoJob]

\* A check of the flag before the job goes on.
GoOn(j, new) == IF cancelled THEN End(j) ELSE job' = [job EXCEPT ![j] = new]

Note(what, happens) == mishaps' = IF happens THEN mishaps \cup {what} ELSE mishaps

-----------------------------------------------------------------------------
(* The account and the messages.                                           *)

Connect ==
  /\ ~token /\ token' = TRUE
  /\ UNCHANGED <<phone, cloud, keyring, due, cancelled, job, restore, deleting, kept, mishaps,
                 counters, faults>>

Disconnect ==
  /\ token /\ token' = FALSE /\ Act
  /\ UNCHANGED <<phone, cloud, keyring, due, cancelled, job, restore, deleting, kept, mishaps,
                 begun, restores, faults>>

IntervalElapses ==
  /\ ~due /\ due' = TRUE
  /\ UNCHANGED <<phone, cloud, keyring, token, cancelled, job, restore, deleting, kept, mishaps,
                 counters, faults>>

InChat(c) == {m \in rows : place[m] = c}

\* upsertConversation and upsertMessage; without the tables they fail, which nobody notices.
\* A message that is there stays where it is.
SaveMessage(m) ==
  /\ tables
  /\ rows' = rows \cup {m} /\ chats' = chats \cup {ChatOf[m]}
  /\ UNCHANGED <<place, closing, tables, partial, cloud, keyring, account, cancelled, job,
                 restore, deleting, kept, mishaps, counters, faults>>

\* A backup that is past the canonical conversation and has not come to the stale one.
Overlooks(j, c, d) == job[j].pc = "export" /\ c \in job[j].left /\ d \notin job[j].left

\* getConversations: of two rows with one contact the stale one loses its messages to the
\* canonical one, and then it is deleted.
Heal(c, d) ==
  LET lost == IF \E j \in Backups : Overlooks(j, c, d) THEN InChat(c) ELSE {}
  IN  /\ tables /\ <<c, d>> \in Twins /\ {c, d} \subseteq chats
      /\ place' = [m \in Msgs |-> IF m \in InChat(c) THEN d ELSE place[m]]
      /\ closing' = closing \cup {c}
      /\ kept' = kept \ lost
      /\ job' = [j \in Backups |-> [job[j] EXCEPT !.had = @ \ lost]]
      /\ UNCHANGED <<rows, chats, tables, partial, cloud, keyring, account, cancelled, restore,
                     deleting, mishaps, counters, faults>>

\* conversation:deleted: deleteLocalConversation, the messages first.
DeleteMessages(c) ==
  /\ tables /\ Act
  /\ rows' = rows \ InChat(c)
  /\ place' = [m \in Msgs |-> IF m \in InChat(c) THEN ChatOf[m] ELSE place[m]]
  /\ closing' = closing \cup {c}
  /\ kept' = kept \ InChat(c)
  /\ job' = [j \in Backups |-> [job[j] EXCEPT !.had = @ \ InChat(c)]]
  /\ UNCHANGED <<chats, tables, partial, cloud, keyring, account, cancelled, restore, deleting,
                 mishaps, begun, restores, faults>>

\* What was saved in it meanwhile stays without a conversation.
DeleteChat(c) ==
  /\ c \in closing /\ closing' = closing \ {c}
  /\ chats' = chats \ {c}
  /\ UNCHANGED <<rows, place, tables, partial, cloud, keyring, account, cancelled, job, restore,
                 deleting, kept, mishaps, counters, faults>>

-----------------------------------------------------------------------------
(* startBackup.                                                            *)

\* A new backup takes back the cancellation of one that is still running.
StartBackup(j) ==
  /\ ~Busy(j) /\ begun < MaxBackups
  /\ j = Background => token /\ due
  /\ begun' = begun + 1 /\ cancelled' = FALSE
  /\ job' = [job EXCEPT ![j] = [NoJob EXCEPT !.pc = "open", !.n = begun + 1]]
  /\ Note("two backups", \E i \in Backups : Busy(i))
  /\ UNCHANGED <<phone, cloud, keyring, account, restore, deleting, kept, restores, acts, faults>>

\* cancelBackup: the screen offers a new backup at once.
CancelBackup ==
  /\ ~cancelled /\ \E j \in Backups \ {Background} : Busy(j)
  /\ cancelled' = TRUE /\ Act
  /\ UNCHANGED <<phone, cloud, keyring, account, job, restore, deleting, kept, mishaps, begun,
                 restores, faults>>

\* The token, and the list of conversations.
OpenBackup(j) ==
  LET listed == {m \in rows : place[m] \in chats}
  IN  /\ job[j].pc = "open"
      /\ \/ /\ token /\ tables
            /\ GoOn(j, [job[j] EXCEPT !.pc = "export", !.left = chats, !.had = listed,
                                      !.got = [NoExport EXCEPT !.chats = chats]])
            /\ kept' = kept \ (rows \ listed)
            /\ Note("restore overtaken", partial)
            /\ UNCHANGED faults
         \/ ~(token /\ tables) /\ End(j) /\ UNCHANGED <<kept, mishaps, faults>>
         \/ Fail /\ End(j) /\ UNCHANGED <<kept, mishaps>>
      /\ UNCHANGED <<phone, cloud, keyring, account, cancelled, restore, deleting, counters>>

\* The oldest messages of a conversation, as many as an export takes.
Oldest(c) ==
  {m \in InChat(c) : Cardinality({n \in InChat(c) : Age[n] < Age[m]}) < Limit}

Add(e, S, c) ==
  [e EXCEPT !.at = [m \in Msgs |-> IF m \in S /\ e.at[m] = None THEN c ELSE e.at[m]]]

\* Mutant of ExportChat: a conversation that has been exported ends the loop.
ExportFirstChat(j, c) ==
  /\ job[j].pc = "export" /\ c \in job[j].left
  /\ IF tables
       THEN /\ job' = [job EXCEPT ![j].left = {}, ![j].got = Add(@, Oldest(c), c),
                                  ![j].had = @ \ (InChat(c) \ Oldest(c))]
            /\ kept' = kept \ (InChat(c) \ Oldest(c))
       ELSE End(j) /\ UNCHANGED kept
  /\ UNCHANGED <<phone, cloud, keyring, account, cancelled, restore, deleting, mishaps,
                 counters, faults>>

\* The oldest messages of one conversation after the other: what is beyond the limit is left out.
ExportChat(j, c) ==
  /\ job[j].pc = "export" /\ c \in job[j].left
  /\ IF tables
       THEN /\ job' = [job EXCEPT ![j].left = @ \ {c}, ![j].got = Add(@, Oldest(c), c),
                                  ![j].had = @ \ (InChat(c) \ Oldest(c))]
            /\ kept' = kept \ (InChat(c) \ Oldest(c))
       ELSE End(j) /\ UNCHANGED kept
  /\ UNCHANGED <<phone, cloud, keyring, account, cancelled, restore, deleting, mishaps,
                 counters, faults>>

ExportEnds(j) ==
  /\ job[j].pc = "export" /\ job[j].left = {}
  /\ GoOn(j, [job[j] EXCEPT !.pc = "key"])
  /\ UNCHANGED <<phone, cloud, keyring, account, cancelled, restore, deleting, kept, mishaps,
                 counters, faults>>

\* Mutant of ReadKey: each backup has a key of its own.
ReadNoKey(j) ==
  /\ job[j].pc = "key"
  /\ job' = [job EXCEPT ![j].pc = "newkey"]
  /\ UNCHANGED <<phone, cloud, keyring, account, cancelled, restore, deleting, kept, mishaps,
                 counters, faults>>

\* getOrCreateBackupKey: an error on reading counts as no key.
ReadKey(j) ==
  /\ job[j].pc = "key"
  /\ \/ /\ key # 0 /\ GoOn(j, [job[j] EXCEPT !.pc = "list", !.key = key])
        /\ UNCHANGED <<mishaps, faults>>
     \/ /\ key = 0 /\ job' = [job EXCEPT ![j].pc = "newkey"]
        /\ UNCHANGED <<mishaps, faults>>
     \/ /\ Fail /\ job' = [job EXCEPT ![j].pc = "newkey"]
        /\ Note("key unread", TRUE)
  /\ UNCHANGED <<phone, cloud, keyring, account, cancelled, restore, deleting, kept, counters>>

\* Two that found no key both store one.
NewKey(j) ==
  /\ job[j].pc = "newkey"
  /\ keys' = keys + 1 /\ key' = keys'
  /\ GoOn(j, [job[j] EXCEPT !.pc = "list", !.key = keys'])
  /\ Note("restore overtaken", restore.pc = "newkey")
  /\ UNCHANGED <<phone, cloud, account, cancelled, restore, deleting, kept, counters, faults>>

\* An error on listing is swallowed: new files are made.
ListFiles(j) ==
  /\ job[j].pc = "list"
  /\ \/ \E d \in Chosen("data"), e \in Chosen("meta") :
          job' = [job EXCEPT ![j].pc = "data", ![j].data = d, ![j].meta = e]
        /\ UNCHANGED faults
     \/ Fail /\ job' = [job EXCEPT ![j].pc = "data"]
  /\ UNCHANGED <<phone, cloud, keyring, account, cancelled, restore, deleting, kept, mishaps,
                 counters>>

\* A new file, or a new content of the file with that id, which must still be there.
Upload(j, name, id) ==
  LET new == IF id = 0 THEN ids + 1 ELSE id
      f == [id |-> new, name |-> name, backup |-> job[j].n,
            key |-> IF name = "data" THEN job[j].key ELSE 0,
            msgs |-> IF name = "data" THEN job[j].got ELSE NoExport]
  IN /\ id # 0 => WithId(id) # {}
     /\ drive' = (drive \ WithId(id)) \cup {f}
     /\ ids' = IF id = 0 THEN new ELSE ids

NoteUpload ==
  mishaps' = mishaps \cup (IF ids' # ids /\ Named("data") # {} THEN {"two files"} ELSE {})
                     \cup (IF deleting # {} THEN {"deleted"} ELSE {})

\* Mutant of UploadData: an error is swallowed.
UploadDataLenient(j) ==
  /\ job[j].pc = "data"
  /\ \/ Upload(j, "data", job[j].data) /\ UNCHANGED faults
     \/ Fail /\ UNCHANGED cloud
  /\ GoOn(j, [job[j] EXCEPT !.pc = "meta"])
  /\ NoteUpload
  /\ UNCHANGED <<phone, keyring, account, cancelled, restore, deleting, kept, counters>>

\* The answer may be lost after the upload.
UploadData(j) ==
  /\ job[j].pc = "data"
  /\ \/ /\ Upload(j, "data", job[j].data)
        /\ \/ GoOn(j, [job[j] EXCEPT !.pc = "meta"]) /\ UNCHANGED faults
           \/ Fail /\ End(j)
     \/ /\ job[j].data # 0 /\ WithId(job[j].data) = {}
        /\ End(j) /\ UNCHANGED <<cloud, faults>>
     \/ Fail /\ End(j) /\ UNCHANGED cloud
  /\ NoteUpload
  /\ UNCHANGED <<phone, keyring, account, cancelled, restore, deleting, kept, counters>>

UploadMeta(j) ==
  /\ job[j].pc = "meta"
  /\ \/ /\ Upload(j, "meta", job[j].meta)
        /\ \/ job' = [job EXCEPT ![j].pc = "record"] /\ UNCHANGED faults
           \/ Fail /\ End(j)
     \/ /\ job[j].meta # 0 /\ WithId(job[j].meta) = {}
        /\ End(j) /\ UNCHANGED <<cloud, faults>>
     \/ Fail /\ End(j) /\ UNCHANGED cloud
  /\ UNCHANGED <<phone, keyring, account, cancelled, restore, deleting, kept, mishaps, counters>>

\* Only the background task records the time of a backup.
BackupEnds(j) ==
  /\ job[j].pc = "record"
  /\ due' = (due /\ j # Background)
  /\ kept' = kept \cup job[j].had
  /\ End(j)
  /\ UNCHANGED <<phone, cloud, keyring, token, cancelled, restore, deleting, mishaps, counters,
                 faults>>

-----------------------------------------------------------------------------
(* checkBackupExists and restoreBackup.                                    *)

GoTo(new) == restore' = [restore EXCEPT !.pc = new]

\* After a login: the restore is offered when checkBackupExists finds metadata.
StartRestore ==
  /\ restore.pc = "idle" /\ restores < MaxRestores
  /\ token /\ Named("meta") # {}
  /\ restores' = restores + 1
  /\ restore' = [NoRestore EXCEPT !.pc = "find"]
  /\ UNCHANGED <<phone, cloud, keyring, account, cancelled, job, deleting, kept, mishaps, begun,
                 acts, faults>>

\* Without a token or a file, or when the list fails, the restore is simulated.
FindBackup ==
  /\ restore.pc = "find"
  /\ \/ /\ \E id \in Chosen("data") :
             restore' = IF id = 0 \/ ~token THEN NoRestore
                        ELSE [restore EXCEPT !.pc = "download", !.file = id]
        /\ UNCHANGED faults
     \/ Fail /\ restore' = NoRestore
  /\ UNCHANGED <<phone, cloud, keyring, account, cancelled, job, deleting, kept, mishaps, counters>>

Download ==
  /\ restore.pc = "download"
  /\ \/ /\ \E f \in WithId(restore.file) :
             restore' = [restore EXCEPT !.pc = "key", !.key = f.key, !.got = f.msgs]
        /\ UNCHANGED faults
     \/ WithId(restore.file) = {} /\ restore' = NoRestore /\ UNCHANGED faults
     \/ Fail /\ restore' = NoRestore
  /\ UNCHANGED <<phone, cloud, keyring, account, cancelled, job, deleting, kept, mishaps, counters>>

\* The backup is opened before anything is wiped.
Decrypt ==
  /\ restore.pc = "key"
  /\ \/ /\ key # 0
        /\ restore' = IF key = restore.key THEN [restore EXCEPT !.pc = "wipe"] ELSE NoRestore
        /\ UNCHANGED <<mishaps, faults>>
     \/ key = 0 /\ GoTo("newkey") /\ UNCHANGED <<mishaps, faults>>
     \/ Fail /\ GoTo("newkey") /\ Note("key unread", TRUE)
  /\ UNCHANGED <<phone, cloud, keyring, account, cancelled, job, deleting, kept, counters>>

\* A new key is stored, and opens nothing.
NewRestoreKey ==
  /\ restore.pc = "newkey"
  /\ keys' = keys + 1 /\ key' = keys'
  /\ restore' = NoRestore
  /\ Note("restore overtaken", \E j \in Backups : Busy(j))
  /\ UNCHANGED <<phone, cloud, account, cancelled, job, deleting, kept, counters, faults>>

\* deleteAllData: the tables are dropped,
Wipe ==
  /\ restore.pc = "wipe"
  /\ rows' = {} /\ chats' = {} /\ place' = ChatOf /\ tables' = FALSE /\ partial' = TRUE
  /\ GoTo("create")
  /\ Note("restore overtaken",
          (\E j \in Backups : Busy(j)) \/ \A f \in WithId(restore.file) : f.msgs # restore.got)
  /\ UNCHANGED <<closing, cloud, keyring, account, cancelled, job, deleting, kept, counters,
                 faults>>

\* and created again in another call.
CreateTables ==
  /\ restore.pc = "create"
  /\ tables' = TRUE /\ GoTo("chats")
  /\ UNCHANGED <<rows, chats, place, closing, partial, cloud, keyring, account, cancelled, job,
                 deleting, kept, mishaps, counters, faults>>

ImportChats ==
  /\ restore.pc = "chats"
  /\ chats' = chats \cup restore.got.chats
  /\ restore' = [restore EXCEPT !.pc = "import", !.todo = In(restore.got)]
  /\ UNCHANGED <<rows, place, closing, tables, partial, cloud, keyring, account, cancelled, job,
                 deleting, kept, mishaps, counters, faults>>

\* One transaction inserts a batch of what is left; a row that is there already stays.
ImportBatch(B) ==
  /\ restore.pc = "import" /\ B # {} /\ B \subseteq restore.todo
  /\ rows' = rows \cup B
  /\ place' = [m \in Msgs |-> IF m \in B \ rows THEN restore.got.at[m] ELSE place[m]]
  /\ restore' = [restore EXCEPT !.todo = @ \ B]
  /\ UNCHANGED <<chats, closing, tables, partial, cloud, keyring, account, cancelled, job, deleting,
                 kept, mishaps, counters, faults>>

RestoreEnds ==
  /\ restore.pc = "import" /\ restore.todo = {}
  /\ restore' = NoRestore /\ partial' = FALSE
  /\ UNCHANGED <<rows, chats, place, closing, tables, cloud, keyring, account, cancelled, job,
                 deleting, kept, mishaps, counters, faults>>

\* SQLite refuses a statement in the middle of the import.
RestoreBreaks ==
  /\ restore.pc \in {"create", "chats", "import"} /\ Fail
  /\ restore' = NoRestore
  /\ UNCHANGED <<phone, cloud, keyring, account, cancelled, job, deleting, kept, mishaps, counters>>

-----------------------------------------------------------------------------
(* deleteBackup, and the end of the process.                               *)

StartDelete ==
  /\ deleting = {} /\ token /\ Act
  /\ deleting' = {f.id : f \in drive} /\ kept' = {}
  /\ Note("deleted", \E j \in Backups : Busy(j))
  /\ UNCHANGED <<phone, cloud, keyring, account, cancelled, job, restore, begun, restores,
                 faults>>

\* All files at once; a refusal is not noticed.
DeleteFile(id) ==
  /\ id \in deleting /\ deleting' = deleting \ {id}
  /\ \/ drive' = drive \ WithId(id) /\ UNCHANGED <<mishaps, faults>>
     \/ Fail /\ UNCHANGED drive /\ Note("deleted", TRUE)
  /\ UNCHANGED <<phone, ids, keyring, account, cancelled, job, restore, kept, counters>>

Kill ==
  /\ Fail
  /\ (\E j \in Backups : Busy(j)) \/ restore # NoRestore \/ deleting # {} \/ closing # {}
  /\ job' = [j \in Backups |-> NoJob] /\ restore' = NoRestore /\ deleting' = {}
  /\ cancelled' = FALSE /\ closing' = {}
  /\ Note("deleted", deleting # {})
  /\ UNCHANGED <<rows, chats, place, tables, partial, cloud, keyring, account, kept, counters>>

-----------------------------------------------------------------------------
BackupStep(j) ==
  \/ StartBackup(j) \/ OpenBackup(j)
  \/ \E c \in Chats : ExportChat(j, c)
  \/ ExportEnds(j) \/ ReadKey(j) \/ NewKey(j)
  \/ ListFiles(j) \/ UploadData(j) \/ UploadMeta(j) \/ BackupEnds(j)

RestoreStep ==
  \/ StartRestore \/ FindBackup \/ Download
  \/ Decrypt \/ NewRestoreKey \/ Wipe \/ CreateTables \/ ImportChats
  \/ \E B \in SUBSET Msgs : ImportBatch(B)
  \/ RestoreEnds \/ RestoreBreaks

Next ==
  \/ Connect \/ Disconnect \/ IntervalElapses
  \/ \E m \in Msgs : SaveMessage(m)
  \/ \E c, d \in Chats : Heal(c, d)
  \/ \E c \in Chats : DeleteMessages(c) \/ DeleteChat(c)
  \/ \E j \in Backups : BackupStep(j)
  \/ CancelBackup
  \/ RestoreStep
  \/ StartDelete \/ (\E id \in deleting : DeleteFile(id))
  \/ Kill

Spec == Init /\ [][Next]_vars

-----------------------------------------------------------------------------
(* Properties.                                                             *)

Never(S) == mishaps \cap S = {}

\* What is on Drive can be opened with the key of the phone, however backups, cancellations and
\* kills interleave, unless the key store failed to return the key or two creations of it met.
BackupIsReadable ==
  Never({"key unread", "two backups", "restore overtaken"})
  => \A f \in Named("data") : f.key = key

\* A restore that is offered, because there is metadata, finds data that is not older than the
\* metadata says: the data goes up first.  Two backups at once, or a deletion that meets a backup
\* or is cut short, break this.
MetadataIsBacked ==
  Never({"two backups", "deleted"}) /\ deleting = {}
  => \A f \in Named("meta") : \E g \in Named("data") : g.backup >= f.backup

Saved == UNION {In(f.msgs) : f \in {g \in Named("data") : g.key = key}}

\* A message that was on the phone when a completed backup began stays on Drive, in a form the
\* phone can open, and on the phone as well unless a restore was cut short: no later backup,
\* cancelled or failed or not, no restore and no kill loses it, as long as the backups, the
\* restores and the deletions of one phone do not meet and Drive lists its files.  Exempt are
\* messages that were deleted, and those that the last export has left out: beyond the limit
\* of a conversation, in a conversation without a row, or moved from a conversation that the
\* export had still to read to one that it had read.
BackedUpIsKept ==
  mishaps = {} => /\ kept \subseteq Saved
                  /\ partial \/ kept \subseteq rows

=============================================================================
