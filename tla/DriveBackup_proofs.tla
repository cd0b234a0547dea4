-------------------------- MODULE DriveBackup_proofs --------------------------
(***************************************************************************)
(* Proofs about DriveBackup, for any messages, conversations, callers and  *)
(* bounds: what is on Drive can be opened, metadata has its data, and what *)
(* was backed up is kept.                                                  *)
(***************************************************************************)
EXTENDS DriveBackup, TLAPS

-----------------------------------------------------------------------------
(* The inductive invariant.                                                *)

\* Files and jobs name each other by ids that are not used again.
Placed ==
  /\ begun \in 0..MaxBackups
  /\ \A f \in drive : f.id \in 1..ids /\ f.backup <= begun
  /\ \A j \in Backups :
       /\ Busy(j) => job[j].n \in 1..begun
       /\ job[j].data \in 0..ids /\ job[j].meta \in 0..ids
       /\ \A f \in drive : /\ f.id = job[j].data => f.name = "data"
                           /\ f.id = job[j].meta => f.name = "meta"
  /\ restore.file \in 0..ids /\ \A f \in drive : f.id = restore.file => f.name = "data"
  /\ restore.pc # "import" => restore.todo = {}
  /\ restore.todo \subseteq In(restore.got)

\* Without an overlap there is one backup at a time, the last one begun.
Single ==
  Never({"two backups"}) =>
    \A j \in Backups : Busy(j) => /\ job[j].n = begun
                                  /\ \A i \in Backups : Busy(i) => i = j

KeyTrouble == {"key unread", "two backups", "restore overtaken"}

\* Who holds a key holds the one of the phone; who is about to store one found none.
KeyRight ==
  Never(KeyTrouble) =>
    /\ \A f \in drive : f.name = "data" => f.key = key /\ key # 0
    /\ \A j \in Backups : /\ job[j].pc \in {"list", "data"} => job[j].key = key /\ key # 0
                          /\ job[j].pc = "newkey" => key = 0
    /\ restore.pc = "newkey" => key = 0

MetaTrouble == {"two backups", "deleted"}

Newest(n) == \E g \in drive : g.name = "data" /\ g.backup >= n

\* The data of a backup that goes on to its metadata is on Drive, and no deletion is in progress.
MetaRight ==
  Never(MetaTrouble) =>
    /\ deleting = {} => \A f \in drive : f.name = "meta" => Newest(f.backup)
    /\ deleting # {} => /\ \A f \in drive : f.id \in deleting
                        /\ \A j \in Backups : job[j].pc # "meta"
    /\ \A j \in Backups : job[j].pc = "meta" => Newest(job[j].n)

Stored(m) == \E f \in drive : f.name = "data" /\ m \in In(f.msgs)
Gathered == {"key", "newkey", "list", "data", "meta", "record"}
Importing == {"create", "chats", "import"}

\* What the job r has to export, has exported and has uploaded includes what was kept.
JobKept(r) ==
  /\ r.pc \in Gathered \cup {"export"} =>
       /\ ~partial /\ r.had \subseteq rows /\ kept \subseteq r.had
       /\ \A m \in r.had : place[m] \in r.left \/ m \in In(r.got)
  /\ r.pc \in Gathered => r.had \subseteq In(r.got)
  /\ r.pc \in {"meta", "record"} => deleting = {} /\ \A m \in r.had : Stored(m)

\* There is one data file, what was kept is in it, and a restore brings it back.
KeptRight ==
  mishaps = {} =>
    /\ \A f, g \in drive : f.name = "data" /\ g.name = "data" => f = g
    /\ \A m \in kept : Stored(m)
    /\ partial \/ kept \subseteq rows
    /\ deleting # {} => kept = {}
    /\ \A j \in Backups : JobKept(job[j])
    /\ restore.pc \in Importing => partial /\ kept \subseteq In(restore.got)
    /\ restore.pc = "import" => kept \subseteq rows \cup restore.todo

Inv == TypeOK /\ Placed /\ Single /\ KeyRight /\ MetaRight /\ KeptRight

-----------------------------------------------------------------------------
(* Types.                                                                  *)

\* One job takes a step.
LEMMA JobSteps ==
  ASSUME TypeOK, NEW j \in Backups, NEW t \in Jobs, job' = [job EXCEPT ![j] = t]
  PROVE  /\ job' \in [Backups -> Jobs] /\ job'[j] = t
         /\ \A i \in Backups \ {j} : job'[i] = job[i]
BY DEF TypeOK

\* The constant records are of their types.
LEMMA NothingRuns == NoJob \in Jobs /\ NoRestore \in Restores /\ NoExport \in Exports
<1>3. NoExport \in Exports
  BY DEF NoExport, Exports
<1>1. MaxBackups \in Nat
  BY BackupAssumption
<1>2. 0 \in 0..MaxBackups
  BY <1>1
<1> QED
  BY <1>2, <1>3 DEF NoJob, Jobs, NoRestore, Restores

\* One job goes on with the record t, or ends.
Goes(j, t) == t \in Jobs /\ (job' = [job EXCEPT ![j] = t] \/ job' = [job EXCEPT ![j] = NoJob])

\* What each step makes of its job, and that the result is of its type.
LEMMA StartGoes ==
  ASSUME TypeOK, NEW j \in Backups, StartBackup(j)
  PROVE  Goes(j, [NoJob EXCEPT !.pc = "open", !.n = begun + 1])
<1>0. begun \in Nat /\ MaxBackups \in Nat
  BY BackupAssumption DEF TypeOK
<1>a. begun < MaxBackups
  BY DEF StartBackup
<1>1. begun + 1 \in 0..MaxBackups
  BY <1>0, <1>a
<1>2. [NoJob EXCEPT !.pc = "open", !.n = begun + 1] \in Jobs
  BY <1>1, NothingRuns DEF Jobs, NoJob
<1> QED
  BY <1>2 DEF StartBackup, Goes

\* What an export starts with, and what a conversation adds to it.
Listed == {m \in rows : place[m] \in chats}
Opened == [NoExport EXCEPT !.chats = chats]
Opening(j) == [job[j] EXCEPT !.pc = "export", !.left = chats, !.had = Listed, !.got = Opened]
Exporting(j, c) == [job[j] EXCEPT !.left = @ \ {c}, !.got = Add(@, Oldest(c), c),
                                  !.had = @ \ (InChat(c) \ Oldest(c))]

LEMMA Opens ==
  ASSUME TypeOK, NEW j \in Backups
  PROVE  /\ Opening(j) \in Jobs /\ Opening(j).pc = "export" /\ Opening(j).left = chats
         /\ Opening(j).had = Listed
         /\ Opening(j).n = job[j].n /\ Opening(j).data = job[j].data
         /\ Opening(j).meta = job[j].meta
<1>1. job[j] \in Jobs /\ chats \subseteq Chats /\ Listed \subseteq Msgs
  BY DEF TypeOK, Listed
<1>2. Opened \in Exports
  BY <1>1, NothingRuns DEF Opened, Exports
<1> QED
  BY <1>1, <1>2 DEF Opening, Jobs

LEMMA OpenGoes ==
  ASSUME TypeOK, NEW j \in Backups, OpenBackup(j)
  PROVE  Goes(j, Opening(j))
<1>1. \/ GoOn(j, Opening(j)) \/ End(j)
  BY DEF OpenBackup, Opening, Opened, Listed
<1> QED
  BY <1>1, Opens DEF GoOn, End, Goes

\* An export keeps what it has.
LEMMA Adds ==
  ASSUME NEW e \in Exports, NEW S \in SUBSET Msgs, NEW c \in Chats
  PROVE  /\ Add(e, S, c) \in Exports
         /\ c # None => In(Add(e, S, c)) = In(e) \cup S
<1> DEFINE at == [m \in Msgs |-> IF m \in S /\ e.at[m] = None THEN c ELSE e.at[m]]
<1>1. at \in [Msgs -> Chats \cup {None}]
  BY DEF Exports
<1>2. Add(e, S, c) = [e EXCEPT !.at = at]
  BY DEF Add
<1> HIDE DEF at
<1>3. Add(e, S, c) \in Exports /\ Add(e, S, c).at = at
  BY <1>1, <1>2 DEF Exports
<1>4. \A m \in Msgs : at[m] = IF m \in S /\ e.at[m] = None THEN c ELSE e.at[m]
  BY DEF at
<1>5. c # None => In(Add(e, S, c)) = In(e) \cup S
  BY <1>3, <1>4 DEF In
<1> QED
  BY <1>3, <1>5

LEMMA Exported ==
  ASSUME TypeOK, NEW j \in Backups, NEW c \in Chats
  PROVE  /\ Exporting(j, c) \in Jobs /\ Exporting(j, c).pc = job[j].pc
         /\ Exporting(j, c).left = job[j].left \ {c}
         /\ Exporting(j, c).got = Add(job[j].got, Oldest(c), c)
         /\ Exporting(j, c).had = job[j].had \ (InChat(c) \ Oldest(c))
         /\ Exporting(j, c).n = job[j].n /\ Exporting(j, c).data = job[j].data
         /\ Exporting(j, c).meta = job[j].meta
<1>1. job[j] \in Jobs /\ rows \subseteq Msgs
  BY DEF TypeOK
<1>2. job[j].got \in Exports /\ Oldest(c) \in SUBSET Msgs
  BY <1>1 DEF Jobs, Oldest, InChat
<1>3. Add(job[j].got, Oldest(c), c) \in Exports
  BY <1>2, Adds
<1> QED
  BY <1>1, <1>3 DEF Exporting, Jobs

LEMMA ExportGoes ==
  ASSUME TypeOK, NEW j \in Backups, NEW c \in Chats, ExportChat(j, c)
  PROVE  Goes(j, Exporting(j, c))
<1>1. tables => job' = [job EXCEPT ![j] = Exporting(j, c)]
  BY DEF ExportChat, TypeOK, Exporting
<1> QED
  BY <1>1, Exported DEF ExportChat, End, Goes

LEMMA KeyGoes ==
  ASSUME TypeOK, NEW j \in Backups, ExportEnds(j)
  PROVE  Goes(j, [job[j] EXCEPT !.pc = "key"])
<1>1. [job[j] EXCEPT !.pc = "key"] \in Jobs
  BY DEF TypeOK, Jobs
<1> QED
  BY <1>1 DEF ExportEnds, GoOn, End, Goes

LEMMA ReadGoes ==
  ASSUME TypeOK, NEW j \in Backups, ReadKey(j)
  PROVE  \/ Goes(j, [job[j] EXCEPT !.pc = "list", !.key = key]) /\ key # 0
         \/ /\ Goes(j, [job[j] EXCEPT !.pc = "newkey"]) /\ job' # [job EXCEPT ![j] = NoJob]
            /\ key = 0 \/ mishaps' = mishaps \cup {"key unread"}
<1>1. job[j] \in Jobs /\ key \in Nat
  BY DEF TypeOK
<1>2. /\ [job[j] EXCEPT !.pc = "newkey"] \in Jobs
      /\ [job[j] EXCEPT !.pc = "list", !.key = key] \in Jobs
  BY <1>1 DEF Jobs
<1>3. job' = [job EXCEPT ![j].pc = "newkey"]
      => job' = [job EXCEPT ![j] = [job[j] EXCEPT !.pc = "newkey"]] /\ job'[j].pc = "newkey"
  BY <1>1 DEF TypeOK, Jobs
<1>4. [job EXCEPT ![j] = NoJob][j].pc = "idle"
  BY DEF NoJob, TypeOK
<1> QED
  BY <1>2, <1>3, <1>4 DEF ReadKey, GoOn, End, Goes, Note

LEMMA NewKeyGoes ==
  ASSUME TypeOK, NEW j \in Backups, NewKey(j)
  PROVE  Goes(j, [job[j] EXCEPT !.pc = "list", !.key = keys + 1])
<1>1. job[j] \in Jobs /\ keys + 1 \in Nat
  BY DEF TypeOK
<1>2. [job[j] EXCEPT !.pc = "list", !.key = keys + 1] \in Jobs
  BY <1>1 DEF Jobs
<1> QED
  BY <1>2 DEF NewKey, GoOn, End, Goes

LEMMA ListGoes ==
  ASSUME TypeOK, Placed, NEW j \in Backups, ListFiles(j)
  PROVE  \E d \in Chosen("data") \cup {job[j].data}, e \in Chosen("meta") \cup {job[j].meta} :
           /\ d \in 0..ids /\ e \in 0..ids
           /\ Goes(j, [job[j] EXCEPT !.pc = "data", !.data = d, !.meta = e])
<1>1. job[j] \in Jobs /\ ids \in Nat /\ job[j].data \in 0..ids /\ job[j].meta \in 0..ids
  BY DEF TypeOK, Placed
<1>2. ASSUME NEW d \in Chosen("data") \cup {job[j].data},
             NEW e \in Chosen("meta") \cup {job[j].meta},
             job' = [job EXCEPT ![j] = [job[j] EXCEPT !.pc = "data", !.data = d, !.meta = e]]
      PROVE  /\ d \in 0..ids /\ e \in 0..ids
             /\ Goes(j, [job[j] EXCEPT !.pc = "data", !.data = d, !.meta = e])
  <2>1. d \in 0..ids /\ e \in 0..ids
    BY <1>1 DEF Chosen, Named, Placed
  <2>2. d \in Nat /\ e \in Nat
    BY <2>1, <1>1
  <2>3. [job[j] EXCEPT !.pc = "data", !.data = d, !.meta = e] \in Jobs
    BY <2>2, <1>1 DEF Jobs
  <2> QED
    BY <2>1, <2>3, <1>2 DEF Goes
<1>3. ASSUME NEW d \in Chosen("data"), NEW e \in Chosen("meta"),
             job' = [job EXCEPT ![j].pc = "data", ![j].data = d, ![j].meta = e]
      PROVE  job' = [job EXCEPT ![j] = [job[j] EXCEPT !.pc = "data", !.data = d, !.meta = e]]
  BY <1>3, <1>1 DEF TypeOK
<1>4. ASSUME job' = [job EXCEPT ![j].pc = "data"]
      PROVE  job' = [job EXCEPT ![j] = [job[j] EXCEPT !.pc = "data", !.data = job[j].data,
                                                      !.meta = job[j].meta]]
  BY <1>4, <1>1 DEF TypeOK, Jobs
<1> QED
  BY <1>2, <1>3, <1>4 DEF ListFiles

LEMMA DataGoes ==
  ASSUME TypeOK, NEW j \in Backups, UploadData(j)
  PROVE  Goes(j, [job[j] EXCEPT !.pc = "meta"])
<1>1. [job[j] EXCEPT !.pc = "meta"] \in Jobs
  BY DEF TypeOK, Jobs
<1> QED
  BY <1>1 DEF UploadData, GoOn, End, Goes

LEMMA MetaGoes ==
  ASSUME TypeOK, NEW j \in Backups, UploadMeta(j)
  PROVE  Goes(j, [job[j] EXCEPT !.pc = "record"])
<1>1. [job[j] EXCEPT !.pc = "record"] \in Jobs
  BY DEF TypeOK, Jobs
<1>2. job' = [job EXCEPT ![j].pc = "record"]
      => job' = [job EXCEPT ![j] = [job[j] EXCEPT !.pc = "record"]]
  BY DEF TypeOK
<1> QED
  BY <1>1, <1>2 DEF UploadMeta, End, Goes

\* An upload makes one file, in the place of the one with its id.
LEMMA Uploads ==
  ASSUME TypeOK, Placed, NEW j \in Backups, Busy(j), NEW name \in Names, NEW id \in 0..ids,
         Upload(j, name, id), \A f \in drive : f.id = id => f.name = name
  PROVE  \E f \in Files :
           /\ f.name = name /\ f.backup = job[j].n /\ f.id \in 1..ids' /\ ids' \in {ids, ids + 1}
           /\ f.id = id \/ (f.id = ids + 1 /\ ids' = ids + 1 /\ id = 0)
           /\ f.id = id => id # 0 /\ ids' = ids /\ WithId(id) # {}
           /\ name = "data" => f.key = job[j].key /\ f.msgs = job[j].got
           /\ drive' = {g \in drive : g.id # f.id} \cup {f}
<1> DEFINE new == IF id = 0 THEN ids + 1 ELSE id
           f == [id |-> new, name |-> name, backup |-> job[j].n,
                 key |-> IF name = "data" THEN job[j].key ELSE 0,
                 msgs |-> IF name = "data" THEN job[j].got ELSE NoExport]
<1>1. ids \in Nat /\ job[j] \in Jobs /\ begun \in 0..MaxBackups /\ job[j].n \in 1..begun
  BY DEF TypeOK, Placed
<1>2. MaxBackups \in Nat
  BY BackupAssumption
<1>3. job[j].n \in 1..MaxBackups
  BY <1>1, <1>2
<1>4. new \in Nat \ {0}
  BY <1>1
<1>5. f \in Files
  BY <1>1, <1>3, <1>4, NothingRuns DEF Files, Jobs
<1>6. drive' = (drive \ WithId(id)) \cup {f} /\ ids' = (IF id = 0 THEN new ELSE ids)
      /\ (id # 0 => WithId(id) # {})
  BY DEF Upload
<1>7. \A g \in drive : g.id \in 1..ids
  BY DEF Placed
<1>8. drive \ WithId(id) = {g \in drive : g.id # new}
  BY <1>7, <1>1 DEF WithId
<1>9. f.id = new /\ f.name = name /\ f.backup = job[j].n
      /\ (name = "data" => f.key = job[j].key /\ f.msgs = job[j].got)
  OBVIOUS
<1>10. /\ new \in 1..ids' /\ ids' \in {ids, ids + 1}
       /\ new = id \/ (new = ids + 1 /\ ids' = ids + 1 /\ id = 0)
       /\ new = id => id # 0 /\ ids' = ids /\ WithId(id) # {}
  BY <1>1, <1>6
<1> HIDE DEF f, new
<1> QED
  BY <1>5, <1>6, <1>8, <1>9, <1>10

LEMMA GoesTyped ==
  ASSUME TypeOK, NEW j \in Backups, NEW t, Goes(j, t)
  PROVE  /\ job' \in [Backups -> Jobs]
         /\ \A i \in Backups \ {j} : job'[i] = job[i]
         /\ job'[j] = t \/ job'[j] = NoJob
BY NothingRuns DEF TypeOK, Goes

\* A step of a job that leaves Drive alone.
LEMMA PlacedByJob ==
  ASSUME TypeOK, Placed, NEW j \in Backups, NEW t, Goes(j, t), Busy(j),
         t.n = job[j].n, t.data = job[j].data, t.meta = job[j].meta,
         UNCHANGED <<drive, ids, begun, restore, chats>>
  PROVE  Placed'
<1>1. /\ job' \in [Backups -> Jobs]
      /\ \A i \in Backups \ {j} : job'[i] = job[i]
      /\ job'[j] = t \/ job'[j] = NoJob
  BY GoesTyped
<1>2. ids \in Nat
  BY DEF TypeOK
<1>3. \A i \in Backups :
        /\ job'[i].pc # "idle" => job'[i].n \in 1..begun
        /\ job'[i].data \in 0..ids /\ job'[i].meta \in 0..ids
        /\ \A f \in drive : /\ f.id = job'[i].data => f.name = "data"
                            /\ f.id = job'[i].meta => f.name = "meta"
  <2> SUFFICES ASSUME NEW i \in Backups
               PROVE  /\ job'[i].pc # "idle" => job'[i].n \in 1..begun
                      /\ job'[i].data \in 0..ids /\ job'[i].meta \in 0..ids
                      /\ \A f \in drive : /\ f.id = job'[i].data => f.name = "data"
                                          /\ f.id = job'[i].meta => f.name = "meta"
    OBVIOUS
  <2>1. CASE i # j
    BY <2>1, <1>1 DEF Placed, Busy
  <2>2. CASE i = j /\ job'[j] = t
    BY <2>2 DEF Placed, Busy
  <2>3. CASE i = j /\ job'[j] = NoJob
    BY <2>3, <1>2 DEF Placed, NoJob
  <2> QED
    BY <2>1, <2>2, <2>3, <1>1
<1> QED
  BY <1>3 DEF Placed, Busy

\* An upload of a job keeps the files placed.
LEMMA PlacedByUpload ==
  ASSUME TypeOK, Placed, NEW j \in Backups, NEW t, Goes(j, t), Busy(j),
         t.n = job[j].n, t.data = job[j].data, t.meta = job[j].meta,
         NEW name \in Names, NEW id \in 0..ids, Upload(j, name, id),
         \A f \in drive : f.id = id => f.name = name,
         UNCHANGED <<begun, restore, chats>>
  PROVE  /\ Placed' /\ drive' \subseteq Files /\ ids' \in Nat /\ ids <= ids'
         /\ \A f, g \in drive' : f.id = g.id => f = g
<1>1. PICK f \in Files :
           /\ f.name = name /\ f.backup = job[j].n /\ f.id \in 1..ids' /\ ids' \in {ids, ids + 1}
           /\ f.id = id \/ (f.id = ids + 1 /\ ids' = ids + 1 /\ id = 0)
           /\ f.id = id => id # 0 /\ ids' = ids /\ WithId(id) # {}
           /\ drive' = {g \in drive : g.id # f.id} \cup {f}
  BY Uploads
<1>2. ids \in Nat /\ ids' \in Nat /\ ids <= ids' /\ begun \in Nat
  BY <1>1 DEF TypeOK
<1>3. /\ job' \in [Backups -> Jobs]
      /\ \A i \in Backups \ {j} : job'[i] = job[i]
      /\ job'[j] = t \/ job'[j] = NoJob
  BY GoesTyped
<1>4. drive' \subseteq Files /\ \A g, h \in drive' : g.id = h.id => g = h
  BY <1>1 DEF TypeOK
<1>5. \A g \in drive' : g.id \in 1..ids' /\ g.backup <= begun
  <2>1. job[j].n \in 1..begun
    BY DEF Placed
  <2>2. \A g \in drive : g.id \in 1..ids' /\ g.backup <= begun
    BY <1>2 DEF Placed
  <2> QED
    BY <2>1, <2>2, <1>1, <1>2
\* An id that someone holds and that is uploaded to is that of a file there is.
<1>6. \A x \in 0..ids : f.id = x => \E g \in drive : g.id = x /\ g.name = f.name
  BY <1>1, <1>2 DEF WithId
<1>7. \A i \in Backups :
        /\ job'[i].pc # "idle" => job'[i].n \in 1..begun
        /\ job'[i].data \in 0..ids' /\ job'[i].meta \in 0..ids'
        /\ \A g \in drive' : /\ g.id = job'[i].data => g.name = "data"
                             /\ g.id = job'[i].meta => g.name = "meta"
  <2> SUFFICES ASSUME NEW i \in Backups
               PROVE  /\ job'[i].pc # "idle" => job'[i].n \in 1..begun
                      /\ job'[i].data \in 0..ids' /\ job'[i].meta \in 0..ids'
                      /\ \A g \in drive' : /\ g.id = job'[i].data => g.name = "data"
                                           /\ g.id = job'[i].meta => g.name = "meta"
    OBVIOUS
  <2>0. /\ job[i].data \in 0..ids /\ job[i].meta \in 0..ids
        /\ job[i].data \in 0..ids' /\ job[i].meta \in 0..ids'
    BY <1>2 DEF Placed
  <2>5. \A g \in drive' : /\ g.id = job[i].data => g.name = "data"
                          /\ g.id = job[i].meta => g.name = "meta"
    BY <1>1, <1>6, <2>0 DEF Placed
  <2>4. job[i].pc # "idle" => job[i].n \in 1..begun
    BY DEF Placed, Busy
  <2>1. CASE i # j
    <3>1. job'[i] = job[i]
      BY <2>1, <1>3
    <3>2. job'[i].pc # "idle" => job'[i].n \in 1..begun
      BY <3>1, <2>4
    <3>3. job'[i].data \in 0..ids' /\ job'[i].meta \in 0..ids'
      BY <3>1, <2>0
    <3>4. \A g \in drive' : /\ g.id = job'[i].data => g.name = "data"
                            /\ g.id = job'[i].meta => g.name = "meta"
      BY <3>1, <2>5
    <3> QED
      BY <3>2, <3>3, <3>4
  <2>2. CASE i = j /\ job'[j] = t
    <3>1. job[i].pc # "idle"
      BY <2>2 DEF Busy
    <3>2. job'[i].n = job[i].n /\ job'[i].data = job[i].data /\ job'[i].meta = job[i].meta
      BY <2>2
    <3>3. job'[i].pc # "idle" => job'[i].n \in 1..begun
      BY <3>1, <3>2, <2>4
    <3>4. job'[i].data \in 0..ids' /\ job'[i].meta \in 0..ids'
      BY <3>2, <2>0
    <3>5. \A g \in drive' : /\ g.id = job'[i].data => g.name = "data"
                            /\ g.id = job'[i].meta => g.name = "meta"
      BY <3>2, <2>5
    <3> QED
      BY <3>3, <3>4, <3>5
  <2>3. CASE i = j /\ job'[j] = NoJob
    BY <2>3, <1>2, <1>5 DEF NoJob
  <2> QED
    BY <2>1, <2>2, <2>3, <1>3
<1>8. restore.file \in 0..ids' /\ \A g \in drive' : g.id = restore.file => g.name = "data"
  BY <1>1, <1>2, <1>6 DEF Placed
<1> QED
  BY <1>2, <1>4, <1>5, <1>7, <1>8 DEF Placed, Busy

\* The count of faults stays a number.
LEMMA FaultsCounted ==
  ASSUME TypeOK, UNCHANGED faults \/ Fail
  PROVE  faults' \in Nat
<1>1. faults \in Nat
  BY DEF TypeOK
<1> QED
  BY <1>1 DEF Fail

\* What a step may note.
LEMMA Notes ==
  ASSUME TypeOK, NEW what \in Mishaps, NEW happens, Note(what, happens)
  PROVE  mishaps' \subseteq Mishaps
BY DEF TypeOK, Note

\* A step of a job keeps the types, if what else it changes has its type.
LEMMA TypedByJob ==
  ASSUME TypeOK, NEW j \in Backups, NEW t, Goes(j, t),
         UNCHANGED <<phone, token, restore, deleting, restores, acts>>,
         drive' \subseteq Files, \A f, g \in drive' : f.id = g.id => f = g,
         ids' \in Nat, ids <= ids', keys' \in Nat, key' \in 0..keys',
         due' \in BOOLEAN, cancelled' \in BOOLEAN, kept' \subseteq Msgs,
         mishaps' \subseteq Mishaps, begun' \in Nat, faults' \in Nat
  PROVE  TypeOK'
<1>1. job' \in [Backups -> Jobs]
  BY GoesTyped
<1>2. {tables, partial}' \subseteq BOOLEAN /\ {token, due, cancelled}' \subseteq BOOLEAN
  BY DEF TypeOK, phone
<1>3. deleting' \subseteq 1..ids'
  <2>1. ids \in Nat
    BY DEF TypeOK
  <2>2. 1..ids \subseteq 1..ids'
    BY <2>1
  <2> QED
    BY <2>2 DEF TypeOK
<1>4. {ids, keys, begun, restores, acts, faults}' \subseteq Nat
  BY DEF TypeOK
<1>5. /\ rows' \subseteq Msgs /\ chats' \subseteq Chats /\ place' \in [Msgs -> Chats]
      /\ closing' \subseteq Chats /\ restore' \in Restores
  BY DEF TypeOK, phone
<1> QED
  BY <1>1, <1>2, <1>3, <1>4, <1>5 DEF TypeOK

\* The same for a step that leaves Drive and most of the rest alone.
LEMMA TypedByQuietJob ==
  ASSUME TypeOK, NEW j \in Backups, NEW t, Goes(j, t),
         UNCHANGED <<phone, cloud, keyring, account, restore, deleting, restores, acts>>,
         kept' \subseteq kept, cancelled' \in BOOLEAN,
         mishaps' \subseteq Mishaps, begun' \in Nat, faults' \in Nat
  PROVE  TypeOK'
<1>1. /\ UNCHANGED <<phone, token, restore, deleting, restores, acts>>
      /\ UNCHANGED <<drive, ids, key, keys, due>>
  BY DEF cloud, keyring, account
<1>2. /\ drive \subseteq Files /\ \A f, g \in drive : f.id = g.id => f = g
      /\ ids \in Nat /\ keys \in Nat /\ key \in 0..keys /\ kept' \subseteq Msgs
  BY DEF TypeOK
<1>3. due \in BOOLEAN
  BY DEF TypeOK
<1>4. ids <= ids
  BY <1>2
<1> QED
  BY <1>1, <1>2, <1>3, <1>4, TypedByJob

\* A step that only moves a busy job on keeps the types and the places.
LEMMA JobKeepsTypes ==
  ASSUME TypeOK, Placed, NEW j \in Backups, NEW t, Goes(j, t), Busy(j),
         t.n = job[j].n, t.data = job[j].data, t.meta = job[j].meta,
         UNCHANGED <<phone, cloud, keyring, account, cancelled, restore, deleting, counters>>,
         kept' \subseteq kept, mishaps' \subseteq Mishaps, faults' \in Nat
  PROVE  TypeOK' /\ Placed'
<1>1. cancelled' \in BOOLEAN /\ begun' \in Nat
  BY DEF TypeOK, counters
<1>2. UNCHANGED <<restores, acts, drive, ids, begun, restore, chats>>
  BY DEF counters, cloud, phone
<1>3. TypeOK'
  BY <1>1, <1>2, TypedByQuietJob
<1>4. Placed'
  BY <1>2, PlacedByJob
<1> QED
  BY <1>3, <1>4

\* An upload, made or not.
LEMMA UploadKeepsTypes ==
  ASSUME TypeOK, Placed, NEW j \in Backups, NEW t, Goes(j, t), Busy(j),
         t.n = job[j].n, t.data = job[j].data, t.meta = job[j].meta,
         NEW name \in Names, NEW id \in 0..ids, UNCHANGED cloud \/ Upload(j, name, id),
         \A f \in drive : f.id = id => f.name = name,
         UNCHANGED <<phone, keyring, account, cancelled, restore, deleting, kept, counters>>,
         mishaps' \subseteq Mishaps, faults' \in Nat
  PROVE  TypeOK' /\ Placed'
<1>1. CASE UNCHANGED cloud
  BY <1>1, JobKeepsTypes
<1>2. CASE Upload(j, name, id)
  <2>1. UNCHANGED <<begun, restore, chats>>
    BY DEF counters, phone
  <2>2. /\ Placed' /\ drive' \subseteq Files /\ ids' \in Nat /\ ids <= ids'
        /\ \A f, g \in drive' : f.id = g.id => f = g
    BY <1>2, <2>1, PlacedByUpload
  <2>3. UNCHANGED <<phone, token, due, cancelled, key, keys, kept, begun, restore, deleting,
                    restores, acts>>
    BY DEF counters, account, keyring
  <2>4. keys' \in Nat /\ key' \in 0..keys' /\ begun' \in Nat /\ kept' \subseteq Msgs
    BY <2>3 DEF TypeOK
  <2>5. due' \in BOOLEAN /\ cancelled' \in BOOLEAN
    BY <2>3 DEF TypeOK
  <2> QED
    BY <2>2, <2>3, <2>4, <2>5, TypedByJob
<1> QED
  BY <1>1, <1>2

\* Types and places are kept by every step.
LEMMA BackupKeepsTypes ==
  ASSUME TypeOK, Placed, NEW j \in Backups, BackupStep(j)
  PROVE  TypeOK' /\ Placed'
<1>0. /\ NoJob \in Jobs /\ job \in [Backups -> Jobs] /\ ids \in Nat /\ keys \in Nat
      /\ key \in 0..keys /\ begun \in 0..MaxBackups /\ MaxBackups \in Nat /\ rows \subseteq Msgs
      /\ faults \in Nat /\ cancelled \in BOOLEAN /\ mishaps \subseteq Mishaps
  BY NothingRuns, BackupAssumption DEF TypeOK, Placed
<1>1. CASE StartBackup(j)
  <2> DEFINE t == [NoJob EXCEPT !.pc = "open", !.n = begun + 1]
  <2>1. Goes(j, t) /\ t.n = begun + 1 /\ t.data = 0 /\ t.meta = 0
    BY <1>1, StartGoes DEF NoJob
  <2> HIDE DEF t
  <2>2. /\ job' \in [Backups -> Jobs]
        /\ \A i \in Backups \ {j} : job'[i] = job[i]
        /\ job'[j] = t \/ job'[j] = NoJob
    BY <2>1, GoesTyped
  <2>3. begun' = begun + 1 /\ begun < MaxBackups /\ cancelled' = FALSE
    BY <1>1 DEF StartBackup
  <2>9. mishaps' \subseteq Mishaps
    BY <1>1, Notes DEF StartBackup, Mishaps
  <2>4. UNCHANGED <<phone, cloud, keyring, account, restore, deleting, kept, restores, acts,
                    faults>>
    BY <1>1 DEF StartBackup
  <2>5. TypeOK'
    <3>1. begun' \in Nat
      BY <2>3, <1>0
    <3>2. cancelled' \in BOOLEAN
      BY <2>3
    <3>3. faults' \in Nat
      BY <2>4, <1>0
    <3> QED
      BY <2>1, <2>9, <2>4, <3>1, <3>2, <3>3, TypedByQuietJob
  <2>6. \A i \in Backups :
          /\ job'[i].pc # "idle" => job'[i].n \in 1..begun'
          /\ job'[i].data \in 0..ids /\ job'[i].meta \in 0..ids
          /\ \A f \in drive : /\ f.id = job'[i].data => f.name = "data"
                              /\ f.id = job'[i].meta => f.name = "meta"
    <3> SUFFICES ASSUME NEW i \in Backups
                 PROVE  /\ job'[i].pc # "idle" => job'[i].n \in 1..begun'
                        /\ job'[i].data \in 0..ids /\ job'[i].meta \in 0..ids
                        /\ \A f \in drive : /\ f.id = job'[i].data => f.name = "data"
                                            /\ f.id = job'[i].meta => f.name = "meta"
      OBVIOUS
    <3>1. CASE i # j
      <4>1. job'[i] = job[i]
        BY <3>1, <2>2
      <4> QED
        BY <4>1, <2>3, <1>0 DEF Placed, Busy
    <3>2. CASE i = j
      <4>1. job'[i].data = 0 /\ job'[i].meta = 0 /\ (job'[i].pc = "idle" \/ job'[i].n = begun + 1)
        BY <3>2, <2>1, <2>2 DEF NoJob
      <4>2. \A f \in drive : f.id # 0
        BY <1>0 DEF Placed
      <4> QED
        BY <4>1, <4>2, <2>3, <1>0
    <3> QED
      BY <3>1, <3>2
  <2>7. begun' \in 0..MaxBackups /\ \A f \in drive : f.id \in 1..ids /\ f.backup <= begun'
    <3>1. \A f \in drive : f.backup \in Nat
      BY <1>0 DEF TypeOK, Files
    <3> QED
      BY <3>1, <2>3, <1>0 DEF Placed
  <2>8. Placed'
    BY <2>4, <2>6, <2>7 DEF Placed, Busy, cloud, phone
  <2> QED
    BY <2>5, <2>8
<1>2. CASE OpenBackup(j)
  <2> DEFINE t == Opening(j)
  <2>1. Goes(j, t) /\ t.n = job[j].n /\ t.data = job[j].data /\ t.meta = job[j].meta
    BY <1>2, OpenGoes, Opens
  <2>2. Busy(j) /\ faults' \in Nat
    BY <1>2, FaultsCounted DEF OpenBackup, Busy
  <2>3. /\ UNCHANGED <<phone, cloud, keyring, account, cancelled, restore, deleting, counters>>
        /\ kept' \subseteq kept
    BY <1>2 DEF OpenBackup
  <2>4. mishaps' \subseteq Mishaps
    BY <1>2, Notes DEF OpenBackup, Mishaps, TypeOK
  <2> QED
    BY <2>1, <2>2, <2>3, <2>4, JobKeepsTypes
<1>3. ASSUME NEW c \in Chats, ExportChat(j, c)
      PROVE  TypeOK' /\ Placed'
  <2> DEFINE t == Exporting(j, c)
  <2>1. Goes(j, t) /\ t.n = job[j].n /\ t.data = job[j].data /\ t.meta = job[j].meta
    BY <1>3, ExportGoes, Exported
  <2>2. Busy(j) /\ UNCHANGED <<mishaps, faults>>
    BY <1>3 DEF ExportChat, Busy
  <2>3. /\ UNCHANGED <<phone, cloud, keyring, account, cancelled, restore, deleting, counters>>
        /\ kept' \subseteq kept
    BY <1>3 DEF ExportChat
  <2> HIDE DEF t
  <2> QED
    BY <1>0, <2>1, <2>2, <2>3, JobKeepsTypes
<1>4. CASE ExportEnds(j)
  <2> DEFINE t == [job[j] EXCEPT !.pc = "key"]
  <2>1. Goes(j, t) /\ t.n = job[j].n /\ t.data = job[j].data /\ t.meta = job[j].meta
    BY <1>0, <1>4, KeyGoes DEF Jobs
  <2>2. Busy(j) /\ UNCHANGED <<mishaps, faults>>
    BY <1>4 DEF ExportEnds, Busy
  <2>3. UNCHANGED <<phone, cloud, keyring, account, cancelled, restore, deleting, kept, counters>>
    BY <1>4 DEF ExportEnds
  <2> HIDE DEF t
  <2> QED
    BY <1>0, <2>1, <2>2, <2>3, JobKeepsTypes
<1>5. CASE ReadKey(j)
  <2> DEFINE t == [job[j] EXCEPT !.pc = "list", !.key = key]
             u == [job[j] EXCEPT !.pc = "newkey"]
  <2>1. /\ t.n = job[j].n /\ t.data = job[j].data /\ t.meta = job[j].meta
        /\ u.n = job[j].n /\ u.data = job[j].data /\ u.meta = job[j].meta
    BY <1>0 DEF Jobs
  <2>2. Busy(j) /\ faults' \in Nat
    BY <1>5, FaultsCounted DEF ReadKey, Busy
  <2>3. UNCHANGED <<phone, cloud, keyring, account, cancelled, restore, deleting, kept, counters>>
    BY <1>5 DEF ReadKey
  <2>4. mishaps' \subseteq Mishaps
    <3>1. UNCHANGED mishaps \/ Note("key unread", TRUE)
      BY <1>5 DEF ReadKey
    <3> QED
      BY <3>1, <1>0, Notes DEF Mishaps
  <2>5. Goes(j, t) \/ Goes(j, u)
    BY <1>5, ReadGoes
  <2> HIDE DEF t, u
  <2> QED
    BY <2>1, <2>2, <2>3, <2>4, <2>5, JobKeepsTypes
<1>6. CASE NewKey(j)
  <2> DEFINE t == [job[j] EXCEPT !.pc = "list", !.key = keys + 1]
  <2>1. Goes(j, t) /\ t.n = job[j].n /\ t.data = job[j].data /\ t.meta = job[j].meta
    BY <1>0, <1>6, NewKeyGoes DEF Jobs
  <2>2. Busy(j) /\ mishaps' \subseteq Mishaps
    BY <1>6, Notes DEF NewKey, Busy, Mishaps
  <2>3. /\ UNCHANGED <<phone, cloud, account, cancelled, restore, deleting, kept, counters, faults>>
        /\ keys' = keys + 1 /\ key' = keys'
    BY <1>6 DEF NewKey
  <2> HIDE DEF t
  <2>4. Placed'
    BY <2>1, <2>2, <2>3, PlacedByJob DEF cloud, counters, phone
  <2>5. keys' \in Nat /\ key' \in 0..keys'
    BY <1>0, <2>3
  <2>6. /\ drive' \subseteq Files /\ \A f, g \in drive' : f.id = g.id => f = g
        /\ ids' \in Nat /\ ids <= ids' /\ kept' \subseteq Msgs /\ begun' \in Nat /\ faults' \in Nat
    BY <1>0, <2>3 DEF TypeOK, cloud, counters
  <2>7. due' \in BOOLEAN /\ cancelled' \in BOOLEAN
    BY <1>0, <2>3 DEF TypeOK, account
  <2>8. UNCHANGED <<phone, token, restore, deleting, restores, acts>>
    BY <2>3 DEF account, counters
  <2> QED
    BY <2>1, <2>2, <2>4, <2>5, <2>6, <2>7, <2>8, TypedByJob
<1>7. CASE ListFiles(j)
  <2>1. PICK d \in Chosen("data") \cup {job[j].data}, e \in Chosen("meta") \cup {job[j].meta} :
          /\ d \in 0..ids /\ e \in 0..ids
          /\ Goes(j, [job[j] EXCEPT !.pc = "data", !.data = d, !.meta = e])
    BY <1>7, ListGoes
  <2> DEFINE t == [job[j] EXCEPT !.pc = "data", !.data = d, !.meta = e]
  <2>2. Goes(j, t) /\ t.n = job[j].n /\ t.data = d /\ t.meta = e
    BY <2>1, <1>0 DEF Jobs
  <2> HIDE DEF t
  <2>3. Busy(j) /\ faults' \in Nat
    BY <1>7, FaultsCounted DEF ListFiles, Busy
  <2>4. UNCHANGED <<phone, cloud, keyring, account, cancelled, restore, deleting, kept, mishaps,
                    counters>>
    BY <1>7 DEF ListFiles
  <2>5. TypeOK'
    BY <1>0, <2>2, <2>3, <2>4, TypedByQuietJob DEF counters
  <2>6. \A f \in drive : /\ f.id = d => f.name = "data"
                         /\ f.id = e => f.name = "meta"
    <3>1. \A f \in drive : f.id # 0
      BY <1>0 DEF Placed
    <3>2. \A f, g \in drive : f.id = g.id => f = g
      BY DEF TypeOK
    <3>3. ASSUME NEW f \in drive, f.id = d
          PROVE  f.name = "data"
      <4>1. CASE d = job[j].data
        BY <4>1, <3>3 DEF Placed
      <4>2. CASE d \in Chosen("data")
        BY <4>2, <3>1, <3>2, <3>3 DEF Chosen, Named
      <4> QED
        BY <4>1, <4>2
    <3>4. ASSUME NEW f \in drive, f.id = e
          PROVE  f.name = "meta"
      <4>1. CASE e = job[j].meta
        BY <4>1, <3>4 DEF Placed
      <4>2. CASE e \in Chosen("meta")
        BY <4>2, <3>1, <3>2, <3>4 DEF Chosen, Named
      <4> QED
        BY <4>1, <4>2
    <3> QED
      BY <3>3, <3>4
  <2>7. /\ job' \in [Backups -> Jobs]
        /\ \A i \in Backups \ {j} : job'[i] = job[i]
        /\ job'[j] = t \/ job'[j] = NoJob
    BY <2>2, GoesTyped
  <2>8. \A i \in Backups :
          /\ job'[i].pc # "idle" => job'[i].n \in 1..begun
          /\ job'[i].data \in 0..ids /\ job'[i].meta \in 0..ids
          /\ \A f \in drive : /\ f.id = job'[i].data => f.name = "data"
                              /\ f.id = job'[i].meta => f.name = "meta"
    <3> SUFFICES ASSUME NEW i \in Backups
                 PROVE  /\ job'[i].pc # "idle" => job'[i].n \in 1..begun
                        /\ job'[i].data \in 0..ids /\ job'[i].meta \in 0..ids
                        /\ \A f \in drive : /\ f.id = job'[i].data => f.name = "data"
                                            /\ f.id = job'[i].meta => f.name = "meta"
      OBVIOUS
    <3>1. CASE i # j
      <4>1. job'[i] = job[i]
        BY <3>1, <2>7
      <4> QED
        BY <4>1 DEF Placed, Busy
    <3>2. CASE i = j /\ job'[j] = t
      <4>1. job[j].n \in 1..begun
        BY <2>3 DEF Placed
      <4>2. job'[i].n = job[j].n /\ job'[i].data = d /\ job'[i].meta = e
        BY <3>2, <2>2
      <4> QED
        BY <4>1, <4>2, <2>1, <2>6
    <3>3. CASE i = j /\ job'[j] = NoJob
      <4>1. job'[i].pc = "idle" /\ job'[i].data = 0 /\ job'[i].meta = 0
        BY <3>3 DEF NoJob
      <4>2. \A f \in drive : f.id # 0
        BY <1>0 DEF Placed
      <4> QED
        BY <4>1, <4>2, <1>0
    <3> QED
      BY <3>1, <3>2, <3>3, <2>7
  <2>9. Placed'
    BY <2>4, <2>8 DEF Placed, Busy, cloud, phone, counters
  <2> QED
    BY <2>5, <2>9
<1>8. CASE UploadData(j)
  <2> DEFINE t == [job[j] EXCEPT !.pc = "meta"]
  <2>1. Goes(j, t) /\ t.n = job[j].n /\ t.data = job[j].data /\ t.meta = job[j].meta
    BY <1>0, <1>8, DataGoes DEF Jobs
  <2> HIDE DEF t
  <2>2. Busy(j) /\ faults' \in Nat
    BY <1>8, FaultsCounted DEF UploadData, Busy
  <2>3. UNCHANGED <<phone, keyring, account, cancelled, restore, deleting, kept, counters>>
    BY <1>8 DEF UploadData
  <2>4. mishaps' \subseteq Mishaps
    BY <1>8, <1>0 DEF UploadData, NoteUpload, Mishaps
  <2>5. UNCHANGED cloud \/ Upload(j, "data", job[j].data)
    BY <1>8 DEF UploadData
  <2> QED
    BY <1>0, <2>1, <2>2, <2>3, <2>4, <2>5, UploadKeepsTypes DEF Placed, Names
<1>9. CASE UploadMeta(j)
  <2> DEFINE t == [job[j] EXCEPT !.pc = "record"]
  <2>1. Goes(j, t) /\ t.n = job[j].n /\ t.data = job[j].data /\ t.meta = job[j].meta
    BY <1>0, <1>9, MetaGoes DEF Jobs
  <2> HIDE DEF t
  <2>2. Busy(j) /\ faults' \in Nat
    BY <1>9, FaultsCounted DEF UploadMeta, Busy
  <2>3. UNCHANGED <<phone, keyring, account, cancelled, restore, deleting, kept, mishaps, counters>>
    BY <1>9 DEF UploadMeta
  <2>5. UNCHANGED cloud \/ Upload(j, "meta", job[j].meta)
    BY <1>9 DEF UploadMeta
  <2> QED
    BY <1>0, <2>1, <2>2, <2>3, <2>5, UploadKeepsTypes DEF Placed, Names
<1>10. CASE BackupEnds(j)
  <2>1. Goes(j, job[j]) /\ job[j] \in Jobs /\ job[j].had \subseteq Msgs
    BY <1>0, <1>10 DEF BackupEnds, End, Goes, Jobs
  <2>2. Busy(j)
    BY <1>10 DEF BackupEnds, Busy
  <2>3. /\ UNCHANGED <<phone, cloud, keyring, token, cancelled, restore, deleting, mishaps,
                       counters, faults>>
        /\ kept' = kept \cup job[j].had
    BY <1>10 DEF BackupEnds
  <2>4. due' \in BOOLEAN
    BY <1>10, Zenon DEF BackupEnds
  <2>5. Placed'
    BY <2>1, <2>2, <2>3, PlacedByJob DEF cloud, counters, phone
  <2>6. /\ drive' \subseteq Files /\ \A f, g \in drive' : f.id = g.id => f = g
        /\ ids' \in Nat /\ ids <= ids' /\ kept' \subseteq Msgs /\ begun' \in Nat /\ faults' \in Nat
        /\ keys' \in Nat /\ key' \in 0..keys' /\ mishaps' \subseteq Mishaps
    BY <1>0, <2>1, <2>3 DEF TypeOK, cloud, counters, keyring
  <2>7. cancelled' \in BOOLEAN
    BY <1>0, <2>3
  <2>8. UNCHANGED <<phone, token, restore, deleting, restores, acts>>
    BY <2>3 DEF counters
  <2> QED
    BY <2>1, <2>4, <2>5, <2>6, <2>7, <2>8, TypedByJob
<1> QED
  BY <1>1, <1>2, <1>3, <1>4, <1>5, <1>6, <1>7, <1>8, <1>9, <1>10 DEF BackupStep

\* At most what a job ought to take changes.
HadOnly ==
  /\ job' \in [Backups -> Jobs]
  /\ \A j \in Backups :
       /\ job'[j].pc = job[j].pc /\ job'[j].n = job[j].n /\ job'[j].key = job[j].key
       /\ job'[j].left = job[j].left /\ job'[j].got = job[j].got
       /\ job'[j].data = job[j].data /\ job'[j].meta = job[j].meta

\* The database is tidied up.
Tidy == (\E c, d \in Chats : Heal(c, d)) \/ (\E c \in Chats : DeleteMessages(c) \/ DeleteChat(c))

LEMMA JobsForget ==
  ASSUME TypeOK, NEW S, job' = [j \in Backups |-> [job[j] EXCEPT !.had = @ \ S]]
  PROVE  HadOnly /\ \A j \in Backups : job'[j].had = job[j].had \ S
<1>1. \A j \in Backups : job[j] \in Jobs
  BY DEF TypeOK
<1>2. \A j \in Backups : [job[j] EXCEPT !.had = @ \ S] \in Jobs
  BY <1>1 DEF Jobs
<1> QED
  BY <1>1, <1>2 DEF HadOnly, Jobs

LEMMA NoJobMoves ==
  ASSUME TypeOK, UNCHANGED job
  PROVE  HadOnly
BY DEF TypeOK, HadOnly

LEMMA TidyForgets ==
  ASSUME TypeOK, Tidy
  PROVE  /\ HadOnly /\ kept' \subseteq kept
         /\ UNCHANGED <<tables, partial, cloud, keyring, account, cancelled, restore, deleting,
                        mishaps, begun, restores, faults>>
         /\ acts' \in {acts, acts + 1}
<1>1. ASSUME NEW c \in Chats, NEW d \in Chats, Heal(c, d)
      PROVE  HadOnly
  <2>1. PICK S : job' = [j \in Backups |-> [job[j] EXCEPT !.had = @ \ S]]
    BY <1>1 DEF Heal
  <2> QED
    BY <2>1, JobsForget
<1>2. ASSUME NEW c \in Chats, DeleteMessages(c)
      PROVE  HadOnly
  BY <1>2, JobsForget DEF DeleteMessages
<1>3. ASSUME NEW c \in Chats, DeleteChat(c)
      PROVE  HadOnly
  BY <1>3, NoJobMoves DEF DeleteChat
<1>4. HadOnly
  BY <1>1, <1>2, <1>3 DEF Tidy
<1> QED
  BY <1>4 DEF Tidy, Heal, DeleteMessages, DeleteChat, Act, counters

\* A step that no job takes keeps the types.
LEMMA QuietTypes ==
  ASSUME TypeOK, Placed, HadOnly, UNCHANGED <<drive, ids, begun>>,
         rows' \subseteq Msgs, chats' \subseteq Chats, place' \in [Msgs -> Chats],
         closing' \subseteq Chats,
         tables' \in BOOLEAN, partial' \in BOOLEAN, keys' \in Nat, key' \in 0..keys',
         token' \in BOOLEAN, due' \in BOOLEAN, cancelled' \in BOOLEAN, restore' \in Restores,
         deleting' \subseteq 1..ids, kept' \subseteq Msgs, mishaps' \subseteq Mishaps,
         restores' \in Nat, acts' \in Nat, faults' \in Nat,
         restore'.file \in 0..ids, \A f \in drive : f.id = restore'.file => f.name = "data",
         restore'.pc # "import" => restore'.todo = {},
         restore'.todo \subseteq In(restore'.got)
  PROVE  TypeOK' /\ Placed'
<1>1. {tables, partial}' \subseteq BOOLEAN /\ {token, due, cancelled}' \subseteq BOOLEAN
  OBVIOUS
<1>2. {ids, keys, begun, restores, acts, faults}' \subseteq Nat
  BY DEF TypeOK
<1>3. job' \in [Backups -> Jobs] /\ drive' \subseteq Files
      /\ \A f, g \in drive' : f.id = g.id => f = g
  BY DEF TypeOK, HadOnly
<1>4. TypeOK'
  BY <1>1, <1>2, <1>3 DEF TypeOK
<1>5. Placed'
  BY DEF Placed, Busy, HadOnly
<1> QED
  BY <1>4, <1>5

\* A step of the restore that leaves the messages alone.
LEMMA RestoreTypes ==
  ASSUME TypeOK, Placed, NEW r \in Restores, restore' = r,
         UNCHANGED <<phone, cloud, account, cancelled, job, deleting, kept, begun, acts>>,
         keys' \in Nat, key' \in 0..keys', mishaps' \subseteq Mishaps,
         restores' \in Nat, faults' \in Nat,
         r.file \in 0..ids, \A f \in drive : f.id = r.file => f.name = "data",
         r.pc # "import", r.todo = {}
  PROVE  TypeOK' /\ Placed'
<1>1. /\ UNCHANGED <<rows, chats, place, closing, tables, partial, drive, ids, token, due, begun>>
      /\ UNCHANGED <<cancelled, deleting, kept, acts>>
  BY DEF phone, cloud, account
<1>2. /\ rows' \subseteq Msgs /\ chats' \subseteq Chats /\ place' \in [Msgs -> Chats]
      /\ closing' \subseteq Chats
      /\ tables' \in BOOLEAN /\ partial' \in BOOLEAN
      /\ token' \in BOOLEAN /\ due' \in BOOLEAN /\ cancelled' \in BOOLEAN
      /\ deleting' \subseteq 1..ids /\ kept' \subseteq Msgs /\ acts' \in Nat
  BY <1>1 DEF TypeOK
<1> QED
  BY <1>1, <1>2, NoJobMoves, QuietTypes

\* A step of the restore that imports.
LEMMA RestoreImports ==
  ASSUME TypeOK, Placed, restore' \in Restores,
         UNCHANGED <<cloud, key, keys, account, cancelled, job, deleting, kept, counters, faults>>,
         mishaps' \subseteq Mishaps, rows' \subseteq Msgs, chats' \subseteq Chats,
         place' \in [Msgs -> Chats], UNCHANGED closing,
         tables' \in BOOLEAN, partial' \in BOOLEAN,
         restore'.file \in 0..ids, \A f \in drive : f.id = restore'.file => f.name = "data",
         restore'.pc # "import" => restore'.todo = {},
         restore'.todo \subseteq In(restore'.got)
  PROVE  TypeOK' /\ Placed'
<1>1. UNCHANGED <<drive, ids, begun>> /\ HadOnly
  BY NoJobMoves DEF cloud, counters
<1>2. /\ token' \in BOOLEAN /\ due' \in BOOLEAN /\ cancelled' \in BOOLEAN
  BY DEF TypeOK, account
<1>3. /\ keys' \in Nat /\ key' \in 0..keys' /\ deleting' \subseteq 1..ids /\ kept' \subseteq Msgs
      /\ restores' \in Nat /\ acts' \in Nat /\ faults' \in Nat /\ closing' \subseteq Chats
  BY DEF TypeOK, counters
<1> QED
  BY <1>1, <1>2, <1>3, QuietTypes

\* The steps of a restore keep the types and the places.
LEMMA RestoreKeepsTypes ==
  ASSUME TypeOK, Placed, RestoreStep
  PROVE  TypeOK' /\ Placed'
<1>0. /\ NoRestore \in Restores /\ restore \in Restores /\ ids \in Nat /\ keys \in Nat
      /\ key \in 0..keys /\ restores \in Nat /\ faults \in Nat /\ mishaps \subseteq Mishaps
      /\ chats \subseteq Chats /\ rows \subseteq Msgs /\ place \in [Msgs -> Chats]
      /\ closing \subseteq Chats
      /\ restore.file \in 0..ids /\ \A f \in drive : f.id = restore.file => f.name = "data"
      /\ \A f \in drive : f.id \in 1..ids
      /\ NoRestore.file = 0 /\ NoRestore.todo = {} /\ NoRestore.pc = "idle"
  BY NothingRuns DEF TypeOK, Placed, NoRestore
<1>a. /\ NoRestore.file \in 0..ids /\ \A f \in drive : f.id # 0
  BY <1>0
<1>1. CASE StartRestore
  <2> DEFINE r == [NoRestore EXCEPT !.pc = "find"]
  <2>1. r \in Restores /\ r.file = 0 /\ r.todo = {} /\ r.pc = "find"
    BY <1>0 DEF Restores, NoRestore
  <2> HIDE DEF r
  <2>2. /\ restore' = r /\ restores' = restores + 1
        /\ UNCHANGED <<phone, cloud, keyring, account, cancelled, job, deleting, kept, mishaps,
                       begun, acts, faults>>
    BY <1>1 DEF StartRestore, r
  <2> QED
    BY <1>0, <1>a, <2>1, <2>2, RestoreTypes DEF keyring
<1>2. CASE FindBackup
  <2>1. \/ restore' = NoRestore
        \/ \E id \in Chosen("data") : id # 0 /\
             restore' = [restore EXCEPT !.pc = "download", !.file = id]
    BY <1>2 DEF FindBackup
  <2>2. faults' \in Nat /\ restore.todo = {}
    BY <1>2, FaultsCounted DEF FindBackup, Placed
  <2>3. UNCHANGED <<phone, cloud, keyring, account, cancelled, job, deleting, kept, mishaps,
                    counters>>
    BY <1>2 DEF FindBackup
  <2>4. ASSUME NEW id \in Chosen("data"), id # 0,
               restore' = [restore EXCEPT !.pc = "download", !.file = id]
        PROVE  /\ restore' \in Restores /\ restore'.file \in 0..ids /\ restore'.todo = {}
               /\ restore'.pc # "import" /\ \A f \in drive : f.id = restore'.file => f.name = "data"
    <3>1. PICK g \in drive : g.name = "data" /\ g.id = id
      BY <2>4 DEF Chosen, Named
    <3>2. id \in 1..ids /\ \A f \in drive : f.id = id => f.name = "data"
      BY <1>0, <3>1 DEF TypeOK
    <3>3. id \in Nat
      BY <3>2, <1>0
    <3>4. restore' \in Restores
      BY <3>3, <2>4, <1>0 DEF Restores
    <3>5. restore'.file = id /\ restore'.todo = {} /\ restore'.pc = "download"
      BY <2>2, <2>4, <1>0 DEF Restores
    <3> QED
      BY <3>2, <3>4, <3>5, <1>0
  <2>5. /\ restore' \in Restores /\ restore'.file \in 0..ids /\ restore'.todo = {}
        /\ restore'.pc # "import" /\ \A f \in drive : f.id = restore'.file => f.name = "data"
    BY <1>0, <1>a, <2>1, <2>4
  <2>6. UNCHANGED <<begun, acts, restores, key, keys>>
    BY <2>3 DEF counters, keyring
  <2> QED
    BY <1>0, <2>2, <2>3, <2>5, <2>6, RestoreTypes
<1>3. CASE Download
  <2>1. \/ restore' = NoRestore
        \/ \E f \in WithId(restore.file) :
              restore' = [restore EXCEPT !.pc = "key", !.key = f.key, !.got = f.msgs]
    BY <1>3 DEF Download
  <2>2. faults' \in Nat /\ restore.todo = {}
    BY <1>3, FaultsCounted DEF Download, Placed
  <2>3. UNCHANGED <<phone, cloud, keyring, account, cancelled, job, deleting, kept, mishaps,
                    counters>>
    BY <1>3 DEF Download
  <2>4. ASSUME NEW f \in WithId(restore.file),
               restore' = [restore EXCEPT !.pc = "key", !.key = f.key, !.got = f.msgs]
        PROVE  /\ restore' \in Restores /\ restore'.file = restore.file /\ restore'.todo = {}
               /\ restore'.pc # "import"
    <3>1. f.key \in Nat /\ f.msgs \in Exports
      BY DEF WithId, TypeOK, Files
    <3> QED
      BY <1>0, <2>2, <2>4, <3>1 DEF Restores
  <2>5. /\ restore' \in Restores /\ restore'.file \in 0..ids /\ restore'.todo = {}
        /\ restore'.pc # "import" /\ \A f \in drive : f.id = restore'.file => f.name = "data"
    BY <1>0, <1>a, <2>1, <2>4
  <2>6. UNCHANGED <<begun, acts, restores, key, keys>>
    BY <2>3 DEF counters, keyring
  <2> QED
    BY <1>0, <2>2, <2>3, <2>5, <2>6, RestoreTypes
<1>4. CASE Decrypt
  <2>1. restore' \in {NoRestore, [restore EXCEPT !.pc = "wipe"], [restore EXCEPT !.pc = "newkey"]}
    BY <1>4 DEF Decrypt, GoTo
  <2>2. faults' \in Nat /\ restore.todo = {}
    BY <1>4, FaultsCounted DEF Decrypt, Placed
  <2>3. UNCHANGED <<phone, cloud, keyring, account, cancelled, job, deleting, kept, counters>>
    BY <1>4 DEF Decrypt
  <2>4. mishaps' \subseteq Mishaps
    <3>1. UNCHANGED mishaps \/ Note("key unread", TRUE)
      BY <1>4 DEF Decrypt
    <3> QED
      BY <3>1, <1>0, Notes DEF Mishaps
  <2>5. /\ restore' \in Restores /\ restore'.file \in 0..ids /\ restore'.todo = {}
        /\ restore'.pc # "import" /\ \A f \in drive : f.id = restore'.file => f.name = "data"
    BY <1>0, <1>a, <2>1, <2>2 DEF Restores
  <2>6. UNCHANGED <<begun, acts, restores, key, keys>>
    BY <2>3 DEF counters, keyring
  <2> QED
    BY <1>0, <2>2, <2>3, <2>4, <2>5, <2>6, RestoreTypes
<1>5. CASE NewRestoreKey
  <2>1. /\ restore' = NoRestore /\ keys' = keys + 1 /\ key' = keys'
        /\ UNCHANGED <<phone, cloud, account, cancelled, job, deleting, kept, counters, faults>>
    BY <1>5 DEF NewRestoreKey
  <2>2. mishaps' \subseteq Mishaps
    BY <1>5, Notes DEF NewRestoreKey, Mishaps
  <2>3. UNCHANGED <<begun, acts, restores>>
    BY <2>1 DEF counters
  <2>4. keys' \in Nat /\ key' \in 0..keys'
    BY <1>0, <2>1
  <2> QED
    BY <1>0, <1>a, <2>1, <2>2, <2>3, <2>4, RestoreTypes
<1>6. CASE Wipe
  <2>1. /\ restore' = [restore EXCEPT !.pc = "create"] /\ rows' = {} /\ chats' = {}
        /\ tables' = FALSE /\ partial' = TRUE /\ place' = ChatOf
        /\ UNCHANGED <<closing, cloud, keyring, account, cancelled, job, deleting, kept, counters, faults>>
    BY <1>6 DEF Wipe, GoTo
  <2>2. mishaps' \subseteq Mishaps /\ restore.todo = {}
    BY <1>6, Notes DEF Wipe, Mishaps, Placed
  <2>3. restore' \in Restores /\ restore'.file = restore.file /\ restore'.todo = {}
        /\ restore'.pc # "import"
    BY <1>0, <2>1, <2>2 DEF Restores
  <2> QED
    BY <1>0, <2>1, <2>2, <2>3, RestoreImports, BackupAssumption DEF keyring
<1>7. CASE CreateTables
  <2>1. /\ restore' = [restore EXCEPT !.pc = "chats"] /\ tables' = TRUE
        /\ UNCHANGED <<rows, chats, place, closing, partial, cloud, keyring, account, cancelled, job, deleting,
                       kept,
                       mishaps, counters, faults>>
    BY <1>7 DEF CreateTables, GoTo
  <2>2. restore.todo = {}
    BY <1>7 DEF CreateTables, Placed
  <2>3. restore' \in Restores /\ restore'.file = restore.file /\ restore'.todo = {}
        /\ restore'.pc # "import"
    BY <1>0, <2>1, <2>2 DEF Restores
  <2>4. partial' \in BOOLEAN
    BY <2>1 DEF TypeOK
  <2> QED
    BY <1>0, <2>1, <2>3, <2>4, RestoreImports DEF keyring
<1>8. CASE ImportChats
  <2>1. /\ restore' = [restore EXCEPT !.pc = "import", !.todo = In(restore.got)]
        /\ chats' = chats \cup restore.got.chats
        /\ UNCHANGED <<rows, place, closing, tables, partial, cloud, keyring, account, cancelled,
                       job, deleting, kept, mishaps, counters, faults>>
    BY <1>8 DEF ImportChats
  <2>2. restore.got \in Exports /\ In(restore.got) \subseteq Msgs
    BY <1>0 DEF Restores, In
  <2>3. /\ restore' \in Restores /\ restore'.file = restore.file /\ restore'.got = restore.got
        /\ restore'.todo = In(restore.got) /\ restore'.pc = "import"
    BY <1>0, <2>1, <2>2 DEF Restores
  <2>4. chats' \subseteq Chats
    BY <1>0, <2>1, <2>2 DEF Exports
  <2>5. partial' \in BOOLEAN /\ tables' \in BOOLEAN
    BY <2>1 DEF TypeOK
  <2> QED
    BY <1>0, <2>1, <2>3, <2>4, <2>5, RestoreImports DEF keyring
<1>9. ASSUME NEW B \in SUBSET Msgs, ImportBatch(B)
      PROVE  TypeOK' /\ Placed'
  <2>1. /\ restore' = [restore EXCEPT !.todo = @ \ B] /\ rows' = rows \cup B
        /\ place' = [m \in Msgs |-> IF m \in B \ rows THEN restore.got.at[m] ELSE place[m]]
        /\ B \subseteq restore.todo /\ restore.pc = "import"
        /\ UNCHANGED <<chats, closing, tables, partial, cloud, keyring, account, cancelled, job,
                       deleting, kept, mishaps, counters, faults>>
    BY <1>9 DEF ImportBatch
  <2>2. /\ restore' \in Restores /\ restore'.file = restore.file /\ restore'.got = restore.got
        /\ restore'.todo = restore.todo \ B /\ restore'.pc = "import"
    BY <1>0, <2>1 DEF Restores
  <2>3. restore.todo \subseteq In(restore.got) /\ restore.got \in Exports
    BY <1>0 DEF Placed, Restores
  <2>4. \A m \in B : restore.got.at[m] \in Chats
    BY <2>1, <2>3 DEF In, Exports
  <2>5. place' \in [Msgs -> Chats]
    BY <1>0, <2>1, <2>4
  <2>6. partial' \in BOOLEAN /\ tables' \in BOOLEAN /\ rows' \subseteq Msgs
    BY <1>0, <2>1 DEF TypeOK
  <2>7. restore'.todo \subseteq In(restore'.got)
    BY <2>2, <2>3
  <2> QED
    BY <1>0, <2>1, <2>2, <2>5, <2>6, <2>7, RestoreImports DEF keyring
<1>10. CASE RestoreEnds
  <2>1. /\ restore' = NoRestore /\ partial' = FALSE
        /\ UNCHANGED <<rows, chats, place, closing, tables, cloud, keyring, account, cancelled, job,
                       deleting, kept, mishaps, counters, faults>>
    BY <1>10 DEF RestoreEnds
  <2>2. tables' \in BOOLEAN
    BY <2>1 DEF TypeOK
  <2> QED
    BY <1>0, <1>a, <2>1, <2>2, RestoreImports DEF keyring
<1>11. CASE RestoreBreaks
  <2>1. /\ restore' = NoRestore
        /\ UNCHANGED <<phone, cloud, keyring, account, cancelled, job, deleting, kept, mishaps,
                       counters>>
    BY <1>11 DEF RestoreBreaks
  <2>2. faults' \in Nat
    BY <1>11, FaultsCounted DEF RestoreBreaks
  <2>3. UNCHANGED <<begun, acts, restores, key, keys>>
    BY <2>1 DEF counters, keyring
  <2> QED
    BY <1>0, <1>a, <2>1, <2>2, <2>3, RestoreTypes
<1> QED
  BY <1>1, <1>2, <1>3, <1>4, <1>5, <1>6, <1>7, <1>8, <1>9, <1>10, <1>11 DEF RestoreStep

\* So do the account, the messages and the deletion.
LEMMA OthersKeepTypes ==
  ASSUME TypeOK, Placed,
         Connect \/ Disconnect \/ IntervalElapses \/ (\E m \in Msgs : SaveMessage(m)) \/ Tidy
           \/ CancelBackup \/ StartDelete \/ (\E id \in deleting : DeleteFile(id)) \/ Kill
  PROVE  TypeOK' /\ Placed'
<1>0. /\ ids \in Nat /\ keys \in Nat /\ key \in 0..keys /\ acts \in Nat /\ restores \in Nat
      /\ faults \in Nat /\ mishaps \subseteq Mishaps
      /\ chats \subseteq Chats /\ rows \subseteq Msgs /\ place \in [Msgs -> Chats]
      /\ closing \subseteq Chats
      /\ deleting \subseteq 1..ids /\ kept \subseteq Msgs /\ restore \in Restores
      /\ restore.file \in 0..ids /\ \A f \in drive : f.id = restore.file => f.name = "data"
      /\ restore.pc # "import" => restore.todo = {}
      /\ restore.todo \subseteq In(restore.got)
  BY DEF TypeOK, Placed
<1>a. /\ tables \in BOOLEAN /\ partial \in BOOLEAN /\ token \in BOOLEAN /\ due \in BOOLEAN
      /\ cancelled \in BOOLEAN
  BY DEF TypeOK
<1>1. CASE Connect
  <2>1. /\ token' = TRUE
        /\ UNCHANGED <<phone, cloud, keyring, due, cancelled, job, restore, deleting, kept, mishaps,
                       counters, faults>>
    BY <1>1 DEF Connect
  <2> QED
    BY <1>0, <1>a, <2>1, NoJobMoves, QuietTypes DEF phone, cloud, keyring, counters
<1>2. CASE Disconnect
  <2>1. /\ token' = FALSE /\ acts' = acts + 1
        /\ UNCHANGED <<phone, cloud, keyring, due, cancelled, job, restore, deleting, kept, mishaps,
                       begun, restores, faults>>
    BY <1>2 DEF Disconnect, Act
  <2>2. acts' \in Nat
    BY <1>0, <2>1
  <2>4. token' \in BOOLEAN
    BY <2>1
  <2>3. /\ UNCHANGED <<job, drive, ids, begun, rows, chats, place, closing, tables, partial, keys, key>>
        /\ UNCHANGED <<due, cancelled, restore, deleting, kept, mishaps, restores, faults>>
    BY <2>1 DEF phone, cloud, keyring
  <2> QED
    BY <1>0, <1>a, <2>2, <2>3, <2>4, NoJobMoves, QuietTypes
<1>3. CASE IntervalElapses
  <2>1. /\ due' = TRUE
        /\ UNCHANGED <<phone, cloud, keyring, token, cancelled, job, restore, deleting, kept,
                       mishaps,
                       counters, faults>>
    BY <1>3 DEF IntervalElapses
  <2> QED
    BY <1>0, <1>a, <2>1, NoJobMoves, QuietTypes DEF phone, cloud, keyring, counters
<1>4. ASSUME NEW m \in Msgs, SaveMessage(m)
      PROVE  TypeOK' /\ Placed'
  <2>1. /\ rows' = rows \cup {m} /\ chats' = chats \cup {ChatOf[m]}
        /\ UNCHANGED <<place, closing, tables, partial, cloud, keyring, account, cancelled, job, restore, deleting,
                       kept, mishaps, counters, faults>>
    BY <1>4 DEF SaveMessage
  <2>2. rows' \subseteq Msgs /\ chats' \subseteq Chats
    BY <1>0, <2>1, BackupAssumption
  <2> QED
    BY <1>0, <1>a, <2>1, <2>2, NoJobMoves, QuietTypes DEF cloud, keyring, counters, account
<1>5. CASE CancelBackup
  <2>1. /\ cancelled' = TRUE /\ acts' = acts + 1
        /\ UNCHANGED <<phone, cloud, keyring, account, job, restore, deleting, kept, mishaps, begun,
                       restores, faults>>
    BY <1>5 DEF CancelBackup, Act
  <2> QED
    BY <1>0, <1>a, <2>1, NoJobMoves, QuietTypes DEF phone, cloud, keyring, account
<1>6. CASE StartDelete
  <2>1. /\ deleting' = {f.id : f \in drive} /\ kept' = {} /\ acts' = acts + 1
        /\ UNCHANGED <<phone, cloud, keyring, account, cancelled, job, restore, begun, restores,
                       faults>>
    BY <1>6 DEF StartDelete, Act
  <2>2. mishaps' \subseteq Mishaps
    BY <1>6, Notes DEF StartDelete, Mishaps
  <2>3. deleting' \subseteq 1..ids
    BY <2>1 DEF Placed
  <2> QED
    BY <1>0, <1>a, <2>1, <2>2, <2>3, NoJobMoves, QuietTypes DEF phone, cloud, keyring, account
<1>9. CASE Tidy
  <2>1. /\ HadOnly /\ kept' \subseteq kept
        /\ UNCHANGED <<tables, partial, cloud, keyring, account, cancelled, restore, deleting,
                       mishaps, begun, restores, faults>>
        /\ acts' \in {acts, acts + 1}
    BY <1>9, TidyForgets
  <2>2. acts' \in Nat /\ kept' \subseteq Msgs
    BY <1>0, <2>1
  <2>3. rows' \subseteq Msgs /\ chats' \subseteq Chats /\ closing' \subseteq Chats
    BY <1>0, <1>9 DEF Tidy, Heal, DeleteMessages, DeleteChat
  <2>4. place' \in [Msgs -> Chats]
    BY <1>0, <1>9, BackupAssumption DEF Tidy, Heal, DeleteMessages, DeleteChat
  <2> QED
    BY <1>0, <1>a, <2>1, <2>2, <2>3, <2>4, QuietTypes DEF cloud, keyring, account
<1>7. ASSUME NEW id \in deleting, DeleteFile(id)
      PROVE  TypeOK' /\ Placed'
  <2>1. /\ deleting' = deleting \ {id} /\ drive' \subseteq drive
        /\ UNCHANGED <<phone, ids, keyring, account, cancelled, job, restore, kept, counters>>
    BY <1>7 DEF DeleteFile
  <2>2. mishaps' \subseteq Mishaps
    <3>1. UNCHANGED mishaps \/ Note("deleted", TRUE)
      BY <1>7 DEF DeleteFile
    <3> QED
      BY <3>1, <1>0, Notes DEF Mishaps
  <2>3. faults' \in Nat
    BY <1>7, FaultsCounted DEF DeleteFile
  <2>4. {tables, partial}' \subseteq BOOLEAN /\ {token, due, cancelled}' \subseteq BOOLEAN
    BY <2>1 DEF TypeOK, phone, account
  <2>5. {ids, keys, begun, restores, acts, faults}' \subseteq Nat
    BY <2>1, <2>3 DEF TypeOK, keyring, counters
  <2>6. job' \in [Backups -> Jobs] /\ drive' \subseteq Files
        /\ \A f, g \in drive' : f.id = g.id => f = g
    BY <2>1 DEF TypeOK
  <2>7. /\ rows' \subseteq Msgs /\ chats' \subseteq Chats /\ place' \in [Msgs -> Chats]
        /\ closing' \subseteq Chats /\ key' \in 0..keys' /\ deleting' \subseteq 1..ids' /\ kept' \subseteq Msgs
        /\ restore' \in Restores
    BY <1>0, <2>1 DEF phone, keyring
  <2>8. TypeOK'
    BY <2>2, <2>4, <2>5, <2>6, <2>7 DEF TypeOK
  <2>9. Placed'
    BY <2>1 DEF Placed, Busy, counters, phone
  <2> QED
    BY <2>8, <2>9
<1>8. CASE Kill
  <2>1. /\ job' = [j \in Backups |-> NoJob] /\ restore' = NoRestore /\ deleting' = {}
        /\ cancelled' = FALSE /\ closing' = {}
        /\ UNCHANGED <<rows, chats, place, tables, partial, cloud, keyring, account, kept, counters>>
    BY <1>8 DEF Kill
  <2>2. mishaps' \subseteq Mishaps
    BY <1>8, Notes DEF Kill, Mishaps
  <2>3. faults' \in Nat
    BY <1>8, FaultsCounted DEF Kill
  <2>4. {tables, partial}' \subseteq BOOLEAN /\ {token, due, cancelled}' \subseteq BOOLEAN
    BY <2>1 DEF TypeOK, phone, account
  <2>5. {ids, keys, begun, restores, acts, faults}' \subseteq Nat
    BY <2>1, <2>3 DEF TypeOK, keyring, counters, cloud
  <2>6. job' \in [Backups -> Jobs] /\ restore' \in Restores
    BY <2>1, NothingRuns
  <2>7. /\ rows' \subseteq Msgs /\ chats' \subseteq Chats /\ place' \in [Msgs -> Chats]
        /\ closing' \subseteq Chats /\ key' \in 0..keys' /\ deleting' \subseteq 1..ids' /\ kept' \subseteq Msgs
        /\ drive' \subseteq Files /\ \A f, g \in drive' : f.id = g.id => f = g
    BY <1>0, <2>1 DEF phone, keyring, cloud, TypeOK
  <2>8. TypeOK'
    BY <2>2, <2>4, <2>5, <2>6, <2>7 DEF TypeOK
  <2>9. /\ \A j \in Backups : /\ job'[j].pc = "idle" /\ job'[j].data = 0 /\ job'[j].meta = 0
        /\ restore'.file = 0 /\ restore'.todo = {}
    BY <2>1 DEF NoJob, NoRestore
  <2>10. \A f \in drive : f.id # 0
    BY <1>0 DEF Placed
  <2>11. 0 \in 0..ids
    BY <1>0
  <2>12. /\ begun' \in 0..MaxBackups
         /\ \A f \in drive' : f.id \in 1..ids' /\ f.backup <= begun'
    BY <2>1 DEF Placed, cloud, counters
  <2> QED
    BY <2>1, <2>8, <2>9, <2>10, <2>11, <2>12 DEF Placed, Busy, cloud
<1> QED
  BY <1>1, <1>2, <1>3, <1>4, <1>5, <1>6, <1>7, <1>8, <1>9

\* And every step does.
LEMMA StepKeepsTypes ==
  ASSUME TypeOK, Placed, [Next]_vars
  PROVE  TypeOK' /\ Placed'
<1>1. CASE UNCHANGED vars
  BY <1>1 DEF vars, phone, cloud, keyring, account, counters, TypeOK, Placed, Busy
<1> QED
  BY <1>1, BackupKeepsTypes, RestoreKeepsTypes, OthersKeepTypes DEF Next, Tidy

\* The first state is of its type.
LEMMA InitTypes == Init => TypeOK /\ Placed
<1> SUFFICES ASSUME Init
             PROVE  TypeOK /\ Placed
  OBVIOUS
<1>0. MaxBackups \in Nat
  BY BackupAssumption
<1>1. NoJob \in Jobs /\ restore \in Restores /\ restore.file = 0 /\ restore.todo = {}
      /\ restore.pc = "idle"
  BY NothingRuns DEF Init, NoRestore
<1>5. {ids, keys, begun, restores, acts, faults} \subseteq Nat /\ key \in 0..keys
  BY DEF Init
<1>6. {tables, partial} \subseteq BOOLEAN /\ {token, due, cancelled} \subseteq BOOLEAN
  BY DEF Init
<1>7. job \in [Backups -> Jobs]
  BY <1>1 DEF Init
<1>2. TypeOK
  BY <1>1, <1>5, <1>6, <1>7, BackupAssumption DEF Init, TypeOK
<1>3. \A j \in Backups : job[j].pc = "idle" /\ job[j].data = 0 /\ job[j].meta = 0
  BY DEF Init, NoJob
<1>4. drive = {} /\ ids = 0 /\ begun = 0
  BY DEF Init
<1> QED
  BY <1>0, <1>1, <1>2, <1>3, <1>4 DEF Placed, Busy

\* Every table, file, backup and restore holds what it should, and no two files have one id.
THEOREM TypeCorrect == Spec => []TypeOK
<1>1. TypeOK /\ Placed /\ [Next]_vars => (TypeOK /\ Placed)'
  BY StepKeepsTypes
<1> QED
  BY <1>1, InitTypes, PTL DEF Spec

-----------------------------------------------------------------------------
(* One backup at a time.                                                   *)

\* What a step of a job does to the jobs.
LEMMA JobsMove ==
  ASSUME TypeOK, Placed, NEW j \in Backups, BackupStep(j)
  PROVE  /\ \A i \in Backups \ {j} : job'[i] = job[i]
         /\ \/ StartBackup(j)
            \/ /\ Busy(j) /\ begun' = begun /\
                  \A n : job[j].n = n => job'[j].pc = "idle" \/ job'[j].n = n
<1>0. job[j] \in Jobs /\ NoJob.pc = "idle"
  BY DEF TypeOK, NoJob
<1>1. ASSUME NEW t, Goes(j, t), t.n = job[j].n, Busy(j), begun' = begun
      PROVE  /\ \A i \in Backups \ {j} : job'[i] = job[i]
             /\ Busy(j) /\ begun' = begun /\
                \A n : job[j].n = n => job'[j].pc = "idle" \/ job'[j].n = n
  BY <1>0, <1>1, GoesTyped
<1>2. CASE StartBackup(j)
  BY <1>2, StartGoes, GoesTyped
<1>3. CASE OpenBackup(j)
  BY <1>1, <1>3, OpenGoes, Opens DEF OpenBackup, Busy, counters
<1>4. ASSUME NEW c \in Chats, ExportChat(j, c)
      PROVE  /\ \A i \in Backups \ {j} : job'[i] = job[i]
             /\ Busy(j) /\ begun' = begun /\
                \A n : job[j].n = n => job'[j].pc = "idle" \/ job'[j].n = n
  BY <1>1, <1>4, ExportGoes, Exported DEF ExportChat, Busy, counters
<1>5. CASE ExportEnds(j)
  BY <1>0, <1>1, <1>5, KeyGoes DEF ExportEnds, Busy, counters, Jobs
<1>6. CASE ReadKey(j)
  BY <1>0, <1>1, <1>6, ReadGoes DEF ReadKey, Busy, counters, Jobs
<1>7. CASE NewKey(j)
  BY <1>0, <1>1, <1>7, NewKeyGoes DEF NewKey, Busy, counters, Jobs
<1>8. CASE ListFiles(j)
  BY <1>0, <1>1, <1>8, ListGoes DEF ListFiles, Busy, counters, Jobs
<1>9. CASE UploadData(j)
  BY <1>0, <1>1, <1>9, DataGoes DEF UploadData, Busy, counters, Jobs
<1>10. CASE UploadMeta(j)
  BY <1>0, <1>1, <1>10, MetaGoes DEF UploadMeta, Busy, counters, Jobs
<1>11. CASE BackupEnds(j)
  <2>1. Goes(j, job[j]) /\ Busy(j) /\ begun' = begun
    BY <1>0, <1>11 DEF BackupEnds, End, Goes, Busy, counters
  <2> QED
    BY <2>1, <1>1
<1> QED
  BY <1>2, <1>3, <1>4, <1>5, <1>6, <1>7, <1>8, <1>9, <1>10, <1>11 DEF BackupStep

\* What has gone wrong stays on record.
LEMMA MishapsGrow ==
  ASSUME [Next]_vars
  PROVE  mishaps \subseteq mishaps'
<1>1. ASSUME NEW j \in Backups, BackupStep(j)
      PROVE  mishaps \subseteq mishaps'
  BY <1>1 DEF BackupStep, StartBackup, OpenBackup, ExportChat, ExportEnds, ReadKey, NewKey,
      ListFiles, UploadData, UploadMeta, BackupEnds, Note, NoteUpload
<1>2. ASSUME RestoreStep
      PROVE  mishaps \subseteq mishaps'
  BY <1>2 DEF RestoreStep, StartRestore, FindBackup, Download, Decrypt, NewRestoreKey, Wipe,
      CreateTables, ImportChats, ImportBatch, RestoreEnds, RestoreBreaks, Note
<1>3. CASE UNCHANGED vars
  BY <1>3 DEF vars
<1>4. CASE \/ Connect \/ Disconnect \/ IntervalElapses \/ (\E m \in Msgs : SaveMessage(m))
           \/ CancelBackup
           \/ StartDelete \/ (\E id \in deleting : DeleteFile(id)) \/ Kill
  BY <1>4 DEF Connect, Disconnect, IntervalElapses, SaveMessage, CancelBackup, StartDelete,
      DeleteFile, Kill, Note
<1>5. CASE Tidy
  BY <1>5 DEF Tidy, Heal, DeleteMessages, DeleteChat
<1> QED
  BY <1>1, <1>2, <1>3, <1>4, <1>5 DEF Next, Tidy

\* What the steps of others do to the jobs.
LEMMA JobsStay ==
  ASSUME \/ RestoreStep \/ UNCHANGED vars
         \/ Connect \/ Disconnect \/ IntervalElapses \/ (\E m \in Msgs : SaveMessage(m))
         \/ CancelBackup
         \/ StartDelete \/ (\E id \in deleting : DeleteFile(id))
  PROVE  UNCHANGED <<job, begun>>
<1>1. CASE RestoreStep
  BY <1>1 DEF RestoreStep, StartRestore, FindBackup, Download, Decrypt, NewRestoreKey, Wipe,
      CreateTables, ImportChats, ImportBatch, RestoreEnds, RestoreBreaks, counters
<1>2. CASE UNCHANGED vars
  BY <1>2 DEF vars, counters
<1>3. CASE \/ Connect \/ Disconnect \/ IntervalElapses \/ (\E m \in Msgs : SaveMessage(m))
           \/ CancelBackup \/ StartDelete \/ (\E id \in deleting : DeleteFile(id))
  BY <1>3 DEF Connect, Disconnect, IntervalElapses, SaveMessage, CancelBackup, StartDelete,
      DeleteFile, counters
<1> QED
  BY <1>1, <1>2, <1>3

\* Every step keeps Single.
LEMMA SingleStep ==
  ASSUME TypeOK, Placed, Single, [Next]_vars
  PROVE  Single'
<1> SUFFICES ASSUME Never({"two backups"})'
             PROVE  \A j \in Backups : Busy(j)' => /\ job'[j].n = begun'
                                                   /\ \A i \in Backups : Busy(i)' => i = j
  BY DEF Single
<1>1. \A j \in Backups : Busy(j) => job[j].n = begun /\ \A i \in Backups : Busy(i) => i = j
  BY MishapsGrow DEF Single, Never
<1>2. ASSUME NEW j \in Backups, BackupStep(j)
      PROVE  \A k \in Backups : Busy(k)' => /\ job'[k].n = begun'
                                            /\ \A i \in Backups : Busy(i)' => i = k
  <2>1. CASE StartBackup(j)
    <3>1. \A i \in Backups : ~Busy(i)
      BY <2>1 DEF StartBackup, Note, Never
    <3>2. Goes(j, [NoJob EXCEPT !.pc = "open", !.n = begun + 1]) /\ begun' = begun + 1
      BY <2>1, StartGoes DEF StartBackup
    <3>5. NoJob.pc = "idle" /\ [NoJob EXCEPT !.pc = "open", !.n = begun + 1].n = begun + 1
      BY DEF NoJob
    <3>3. job'[j].pc = "idle" \/ job'[j].n = begun + 1
      BY <3>2, <3>5, GoesTyped
    <3>4. \A i \in Backups \ {j} : ~Busy(i)'
      BY <3>1, <3>2, GoesTyped DEF Busy
    <3> QED
      BY <3>2, <3>3, <3>4 DEF Busy
  <2>2. CASE ~StartBackup(j)
    <3>1. /\ \A i \in Backups \ {j} : job'[i] = job[i]
          /\ Busy(j) /\ begun' = begun /\
             \A n : job[j].n = n => job'[j].pc = "idle" \/ job'[j].n = n
      BY <1>2, <2>2, JobsMove
    <3>2. \A i \in Backups \ {j} : ~Busy(i)'
      BY <1>1, <3>1 DEF Busy
    <3>3. job'[j].pc = "idle" \/ job'[j].n = begun
      BY <1>1, <3>1
    <3> QED
      BY <3>1, <3>2, <3>3 DEF Busy
  <2> QED
    BY <2>1, <2>2
<1>3. CASE Kill
  BY <1>3 DEF Kill, Busy, NoJob
<1>4. CASE UNCHANGED <<job, begun>>
  BY <1>1, <1>4 DEF Busy
<1>5. CASE Tidy
  BY <1>1, <1>5, TidyForgets DEF Busy, HadOnly
<1> QED
  BY <1>2, <1>3, <1>4, <1>5, JobsStay DEF Next, Tidy

-----------------------------------------------------------------------------
(* The key.                                                                *)

\* A step that stores no key.
LEMMA KeyQuiet ==
  ASSUME KeyRight, UNCHANGED key, mishaps \subseteq mishaps',
         Never(KeyTrouble)' =>
           /\ \A f \in drive' : f.name = "data" => f \in drive \/ (f.key = key /\ key # 0)
           /\ \A i \in Backups :
                /\ job'[i].pc \in {"list", "data"} =>
                     \/ job[i].pc \in {"list", "data"} /\ job'[i].key = job[i].key
                     \/ job'[i].key = key /\ key # 0
                /\ job'[i].pc = "newkey" => job[i].pc = "newkey" \/ key = 0
           /\ restore'.pc = "newkey" => restore.pc = "newkey" \/ key = 0
  PROVE  KeyRight'
<1> SUFFICES ASSUME Never(KeyTrouble)'
             PROVE  /\ \A f \in drive' : f.name = "data" => f.key = key /\ key # 0
                    /\ \A i \in Backups :
                         /\ job'[i].pc \in {"list", "data"} => job'[i].key = key /\ key # 0
                         /\ job'[i].pc = "newkey" => key = 0
                    /\ restore'.pc = "newkey" => key = 0
  BY DEF KeyRight
<1>1. Never(KeyTrouble)
  BY DEF Never
<1> QED
  BY <1>1 DEF KeyRight

\* A job that goes on without a key of its own.
LEMMA KeyByJob ==
  ASSUME TypeOK, KeyRight, NEW j \in Backups, NEW t, Goes(j, t),
         UNCHANGED <<key, restore>>, mishaps \subseteq mishaps',
         \A f \in drive' : f.name = "data" => f \in drive,
         \/ t.pc \notin {"list", "data", "newkey"}
         \/ t.pc \in {"list", "data"} /\ job[j].pc \in {"list", "data"} /\ t.key = job[j].key
         \/ t.pc \in {"list", "data"} /\ t.key = key /\ key # 0
         \/ t.pc = "newkey" /\ (key = 0 \/ ~Never(KeyTrouble)')
  PROVE  KeyRight'
<1>1. /\ \A i \in Backups \ {j} : job'[i] = job[i]
      /\ job'[j] = t \/ job'[j].pc = "idle"
  BY GoesTyped DEF NoJob
<1>2. \A i \in Backups :
        /\ job'[i].pc \in {"list", "data"} =>
             \/ job[i].pc \in {"list", "data"} /\ job'[i].key = job[i].key
             \/ job'[i].key = key /\ key # 0
        /\ job'[i].pc = "newkey" => job[i].pc = "newkey" \/ key = 0 \/ ~Never(KeyTrouble)'
  BY <1>1
<1> QED
  BY <1>2, KeyQuiet

\* Every step keeps KeyRight.
LEMMA KeyStep ==
  ASSUME TypeOK, Placed, Single, KeyRight, [Next]_vars
  PROVE  KeyRight'
<1>0. /\ mishaps \subseteq mishaps' /\ job \in [Backups -> Jobs] /\ keys \in Nat /\ key \in 0..keys
      /\ NoJob.pc = "idle" /\ NoRestore.pc = "idle"
  BY MishapsGrow DEF TypeOK, NoJob, NoRestore
<1>1. ASSUME NEW j \in Backups, BackupStep(j)
      PROVE  KeyRight'
  <2>0. job[j] \in Jobs
    BY <1>0
  <2>1. CASE StartBackup(j)
    <3>1. /\ Goes(j, [NoJob EXCEPT !.pc = "open", !.n = begun + 1])
          /\ UNCHANGED <<key, restore, drive>>
      BY <2>1, StartGoes DEF StartBackup, keyring, cloud
    <3>2. [NoJob EXCEPT !.pc = "open", !.n = begun + 1].pc = "open"
      BY DEF NoJob
    <3> QED
      BY <1>0, <3>1, <3>2, KeyByJob
  <2>2. CASE OpenBackup(j)
    <3>1. Goes(j, Opening(j)) /\ UNCHANGED <<key, restore, drive>>
      BY <2>2, OpenGoes DEF OpenBackup, keyring, cloud
    <3> QED
      BY <1>0, <3>1, Opens, KeyByJob
  <2>3. ASSUME NEW c \in Chats, ExportChat(j, c)
        PROVE  KeyRight'
    <3>1. Goes(j, Exporting(j, c)) /\ UNCHANGED <<key, restore, drive>>
      BY <2>3, ExportGoes DEF ExportChat, keyring, cloud
    <3>2. Exporting(j, c).pc = "export"
      BY <2>3, Exported DEF ExportChat
    <3> QED
      BY <1>0, <3>1, <3>2, KeyByJob
  <2>4. CASE ExportEnds(j)
    <3>1. Goes(j, [job[j] EXCEPT !.pc = "key"]) /\ UNCHANGED <<key, restore, drive>>
      BY <2>4, KeyGoes DEF ExportEnds, keyring, cloud
    <3>2. [job[j] EXCEPT !.pc = "key"].pc = "key"
      BY <2>0 DEF Jobs
    <3> QED
      BY <1>0, <3>1, <3>2, KeyByJob
  <2>5. CASE ReadKey(j)
    <3> DEFINE t == [job[j] EXCEPT !.pc = "list", !.key = key]
               u == [job[j] EXCEPT !.pc = "newkey"]
    <3>1. /\ \/ Goes(j, t) /\ key # 0
             \/ Goes(j, u) /\ (key = 0 \/ mishaps' = mishaps \cup {"key unread"})
          /\ UNCHANGED <<key, restore, drive>>
      BY <2>5, ReadGoes DEF ReadKey, keyring, cloud
    <3>2. t.pc = "list" /\ t.key = key /\ u.pc = "newkey"
      BY <2>0 DEF Jobs
    <3>3. mishaps' = mishaps \cup {"key unread"} => ~Never(KeyTrouble)'
      BY DEF Never, KeyTrouble
    <3> HIDE DEF t, u
    <3>4. CASE Goes(j, t) /\ key # 0
      BY <1>0, <3>1, <3>2, <3>4, KeyByJob
    <3>5. CASE Goes(j, u) /\ (key = 0 \/ mishaps' = mishaps \cup {"key unread"})
      BY <1>0, <3>1, <3>2, <3>3, <3>5, KeyByJob
    <3> QED
      BY <3>1, <3>4, <3>5
  <2>6. CASE NewKey(j)
    <3> SUFFICES ASSUME Never(KeyTrouble)'
                 PROVE  KeyRight'
      BY DEF KeyRight
    <3>1. /\ \A f \in drive : f.name = "data" => key # 0
          /\ \A i \in Backups : job[i].pc \in {"list", "data"} => key # 0
          /\ key = 0
      BY <1>0, <2>6 DEF KeyRight, Never, NewKey
    <3> DEFINE t == [job[j] EXCEPT !.pc = "list", !.key = keys + 1]
    <3>2. Goes(j, t) /\ t.pc = "list" /\ t.key = keys + 1
      BY <2>0, <2>6, NewKeyGoes DEF Jobs
    <3> HIDE DEF t
    <3>7. key' = keys + 1 /\ UNCHANGED <<restore, drive>>
      BY <2>6 DEF NewKey, cloud
    <3>3. UNCHANGED <<restore, drive>> /\ key' = keys + 1 /\ key' # 0
      BY <1>0, <3>7
    <3>4. restore.pc # "newkey"
      BY <2>6 DEF NewKey, Note, Never, KeyTrouble
    <3>5. \A i \in Backups \ {j} : job'[i] = job[i] /\ job[i].pc = "idle"
      <4>1. Busy(j) /\ Never({"two backups"})
        BY <1>0, <2>6 DEF NewKey, Busy, Never, KeyTrouble
      <4>2. \A i \in Backups : Busy(i) => i = j
        BY <4>1 DEF Single
      <4> QED
        BY <3>2, <4>2, GoesTyped DEF Busy
    <3>6. job'[j] = t \/ job'[j].pc = "idle"
      BY <1>0, <3>2, GoesTyped
    <3> QED
      BY <3>1, <3>2, <3>3, <3>4, <3>5, <3>6 DEF KeyRight
  <2>7. CASE ListFiles(j)
    <3>1. PICK d \in Chosen("data") \cup {job[j].data}, e \in Chosen("meta") \cup {job[j].meta} :
            Goes(j, [job[j] EXCEPT !.pc = "data", !.data = d, !.meta = e])
      BY <2>7, ListGoes
    <3> DEFINE t == [job[j] EXCEPT !.pc = "data", !.data = d, !.meta = e]
    <3>2. Goes(j, t) /\ t.pc = "data" /\ t.key = job[j].key /\ job[j].pc = "list"
      BY <2>0, <2>7, <3>1 DEF Jobs, ListFiles
    <3>3. UNCHANGED <<key, restore, drive>>
      BY <2>7 DEF ListFiles, keyring, cloud
    <3> HIDE DEF t
    <3> QED
      BY <1>0, <3>2, <3>3, KeyByJob
  <2>8. CASE UploadData(j)
    <3> DEFINE t == [job[j] EXCEPT !.pc = "meta"]
    <3>1. Goes(j, t) /\ t.pc = "meta" /\ job[j].pc = "data" /\ Busy(j)
      BY <2>0, <2>8, DataGoes DEF Jobs, UploadData, Busy
    <3> HIDE DEF t
    <3>2. UNCHANGED <<key, restore>>
      BY <2>8 DEF UploadData, keyring
    <3>3. UNCHANGED drive \/ Upload(j, "data", job[j].data)
      BY <2>8 DEF UploadData, cloud
    <3>4. CASE UNCHANGED drive
      BY <1>0, <3>1, <3>2, <3>4, KeyByJob
    <3>5. CASE Upload(j, "data", job[j].data)
      <4>1. job[j].data \in 0..ids /\ \A f \in drive : f.id = job[j].data => f.name = "data"
        BY DEF Placed
      <4>2. \A f \in drive' : f \in drive \/ f.key = job[j].key
        BY <3>1, <3>5, <4>1, Uploads DEF Names
      <4>3. /\ \A i \in Backups \ {j} : job'[i] = job[i]
            /\ job'[j].pc = "meta" \/ job'[j].pc = "idle"
        BY <1>0, <3>1, GoesTyped
      <4>4. Never(KeyTrouble)' => job[j].key = key /\ key # 0
        BY <1>0, <3>1 DEF KeyRight, Never
      <4> QED
        BY <1>0, <3>2, <4>2, <4>3, <4>4, KeyQuiet
    <3> QED
      BY <3>3, <3>4, <3>5
  <2>9. CASE UploadMeta(j)
    <3> DEFINE t == [job[j] EXCEPT !.pc = "record"]
    <3>1. Goes(j, t) /\ t.pc = "record" /\ Busy(j)
      BY <2>0, <2>9, MetaGoes DEF Jobs, UploadMeta, Busy
    <3> HIDE DEF t
    <3>2. UNCHANGED <<key, restore>>
      BY <2>9 DEF UploadMeta, keyring
    <3>3. UNCHANGED drive \/ Upload(j, "meta", job[j].meta)
      BY <2>9 DEF UploadMeta, cloud
    <3>4. job[j].meta \in 0..ids /\ \A f \in drive : f.id = job[j].meta => f.name = "meta"
      BY DEF Placed
    <3>5. \A f \in drive' : f.name = "data" => f \in drive
      BY <3>1, <3>3, <3>4, Uploads DEF Names
    <3> QED
      BY <1>0, <3>1, <3>2, <3>5, KeyByJob
  <2>10. CASE BackupEnds(j)
    <3>1. Goes(j, job[j]) /\ job[j].pc = "record" /\ UNCHANGED <<key, restore, drive>>
      BY <2>0, <2>10 DEF BackupEnds, End, Goes, keyring, cloud
    <3> QED
      BY <1>0, <3>1, KeyByJob
  <2> QED
    BY <1>1, <2>1, <2>2, <2>3, <2>4, <2>5, <2>6, <2>7, <2>8, <2>9, <2>10 DEF BackupStep
<1>2. CASE Decrypt
  <2>1. UNCHANGED <<key, drive, job>>
    BY <1>2 DEF Decrypt, keyring, cloud
  <2>2. restore'.pc = "newkey" => key = 0 \/ mishaps' = mishaps \cup {"key unread"}
    BY <1>0, <1>2 DEF Decrypt, GoTo, Note, TypeOK, Restores
  <2>3. Never(KeyTrouble)' /\ restore'.pc = "newkey" => key = 0
    BY <2>2 DEF Never, KeyTrouble
  <2> QED
    BY <1>0, <2>1, <2>3, KeyQuiet
<1>3. CASE NewRestoreKey
  <2> SUFFICES ASSUME Never(KeyTrouble)'
               PROVE  KeyRight'
    BY DEF KeyRight
  <2>1. \A i \in Backups : job[i].pc = "idle"
    BY <1>3 DEF NewRestoreKey, Note, Never, KeyTrouble, Busy
  <2>2. UNCHANGED <<drive, job>> /\ restore'.pc = "idle"
    BY <1>0, <1>3 DEF NewRestoreKey, cloud
  <2>3. \A f \in drive : f.name # "data"
    BY <1>0, <1>3 DEF KeyRight, Never, NewRestoreKey
  <2> QED
    BY <2>1, <2>2, <2>3 DEF KeyRight
<1>4. CASE Kill
  <2>1. /\ UNCHANGED <<key, drive>> /\ restore'.pc = "idle"
        /\ \A i \in Backups : job'[i].pc = "idle"
    BY <1>0, <1>4 DEF Kill, keyring, cloud
  <2> QED
    BY <1>0, <2>1, KeyQuiet
<1>5. CASE \/ StartRestore \/ FindBackup \/ Download \/ Wipe \/ CreateTables \/ ImportChats
           \/ (\E B \in SUBSET Msgs : ImportBatch(B)) \/ RestoreEnds \/ RestoreBreaks
  <2>1. UNCHANGED <<key, drive, job>>
    BY <1>5 DEF StartRestore, FindBackup, Download, Wipe, CreateTables, ImportChats, ImportBatch,
        RestoreEnds, RestoreBreaks, keyring, cloud
  <2>2. restore \in Restores
    BY DEF TypeOK
  <2>3. restore'.pc # "newkey"
    BY <1>0, <1>5, <2>2 DEF StartRestore, FindBackup, Download, Wipe, CreateTables, ImportChats,
        ImportBatch, RestoreEnds, RestoreBreaks, GoTo, Restores, NoRestore
  <2> QED
    BY <1>0, <2>1, <2>3, KeyQuiet
<1>6. CASE \/ Connect \/ Disconnect \/ IntervalElapses \/ (\E m \in Msgs : SaveMessage(m))
           \/ CancelBackup \/ StartDelete \/ (\E id \in deleting : DeleteFile(id)) \/ UNCHANGED vars
  <2>1. UNCHANGED <<key, job, restore>> /\ drive' \subseteq drive
    BY <1>6 DEF Connect, Disconnect, IntervalElapses, SaveMessage, CancelBackup, StartDelete,
        DeleteFile, keyring, cloud, vars
  <2> QED
    BY <1>0, <2>1, KeyQuiet
<1>7. CASE Tidy
  <2>1. HadOnly /\ UNCHANGED <<key, drive, restore>>
    BY <1>7, TidyForgets DEF cloud, keyring
  <2> QED
    BY <1>0, <2>1, KeyQuiet DEF HadOnly
<1> QED
  BY <1>1, <1>2, <1>3, <1>4, <1>5, <1>6, <1>7 DEF Next, RestoreStep, Tidy

-----------------------------------------------------------------------------
(* Metadata.                                                               *)

\* A step that leaves Drive and the deletion alone.
LEMMA MetaQuiet ==
  ASSUME MetaRight, UNCHANGED <<drive, deleting>>, mishaps \subseteq mishaps',
         \A i \in Backups : job'[i].pc = "meta" => job[i].pc = "meta" /\ job'[i].n = job[i].n
  PROVE  MetaRight'
<1>1. Never(MetaTrouble)' => Never(MetaTrouble)
  BY DEF Never, MetaTrouble
<1>2. \A n : Newest(n)' <=> Newest(n)
  BY DEF Newest
<1> QED
  BY <1>1, <1>2 DEF MetaRight

\* A job that does not go on to its metadata.
LEMMA MetaByJob ==
  ASSUME TypeOK, MetaRight, NEW j \in Backups, NEW t, Goes(j, t), t.pc # "meta",
         UNCHANGED <<drive, deleting>>, mishaps \subseteq mishaps'
  PROVE  MetaRight'
<1>1. /\ \A i \in Backups \ {j} : job'[i] = job[i]
      /\ job'[j].pc # "meta"
  BY GoesTyped DEF NoJob
<1> QED
  BY <1>1, MetaQuiet

\* The upload of the data brings the metadata within reach.
LEMMA MetaByUploadData ==
  ASSUME TypeOK, Placed, Single, MetaRight, mishaps \subseteq mishaps',
         NEW j \in Backups, UploadData(j)
  PROVE  MetaRight'
<1> DEFINE t == [job[j] EXCEPT !.pc = "meta"]
<1>0. job[j] \in Jobs
  BY DEF TypeOK
<1>1. Goes(j, t) /\ t.pc = "meta" /\ t.n = job[j].n /\ job[j].pc = "data" /\ Busy(j)
  BY <1>0, DataGoes DEF Jobs, UploadData, Busy
<1> HIDE DEF t
<1>2. /\ \A i \in Backups \ {j} : job'[i] = job[i]
      /\ job'[j] = t \/ job'[j] = NoJob
  BY <1>1, GoesTyped
<1>3. UNCHANGED deleting /\ NoteUpload
  BY DEF UploadData
<1>4. CASE Upload(j, "data", job[j].data)
  <2> SUFFICES ASSUME Never(MetaTrouble)'
               PROVE  MetaRight'
    BY DEF MetaRight
  <2>1. deleting = {}
    BY <1>3 DEF NoteUpload, Never, MetaTrouble
  <2>2. job[j].data \in 0..ids /\ \A f \in drive : f.id = job[j].data => f.name = "data"
    BY DEF Placed
  <2>n. "data" \in Names
    BY DEF Names
  <2>3. PICK f \in Files :
           /\ f.name = "data" /\ f.backup = job[j].n /\ f.id \in 1..ids' /\ ids' \in {ids, ids + 1}
           /\ f.id = job[j].data \/ (f.id = ids + 1 /\ ids' = ids + 1 /\ job[j].data = 0)
           /\ f.id = job[j].data => job[j].data # 0 /\ ids' = ids /\ WithId(job[j].data) # {}
           /\ "data" = "data" => f.key = job[j].key /\ f.msgs = job[j].got
           /\ drive' = {g \in drive : g.id # f.id} \cup {f}
    BY <1>1, <1>4, <2>2, <2>n, Uploads
  <2>4. job[j].n = begun /\ \A i \in Backups : job[i].pc # "idle" => i = j
    BY <1>1 DEF Single, Never, MetaTrouble, Busy
  <2>5. \A n \in Nat : n <= begun => Newest(n)'
    BY <2>3, <2>4 DEF Newest
  <2>6. \A g \in drive' : g.name = "meta" => g \in drive /\ g.backup \in Nat /\ g.backup <= begun
    <3>1. MaxBackups \in Nat
      BY BackupAssumption
    <3>2. \A g \in drive : g.backup \in Nat /\ g.backup <= begun
      BY <3>1 DEF Placed, TypeOK, Files
    <3> QED
      BY <2>3, <3>2
  <2>7. begun \in Nat /\ begun <= begun
    <3>1. MaxBackups \in Nat
      BY BackupAssumption
    <3> QED
      BY <3>1 DEF Placed
  <2>8. \A i \in Backups : job'[i].pc = "meta" => job'[i].n = begun
    <3>1. \A i \in Backups \ {j} : job'[i].pc = "idle"
      BY <1>2, <2>4
    <3>2. job'[j].pc = "idle" \/ job'[j].n = begun
      BY <1>1, <1>2, <2>4 DEF NoJob
    <3> QED
      BY <3>1, <3>2
  <2> QED
    BY <1>3, <2>1, <2>4, <2>5, <2>6, <2>7, <2>8 DEF MetaRight
<1>5. CASE ~Upload(j, "data", job[j].data)
  <2>1. UNCHANGED drive /\ job' = [job EXCEPT ![j] = NoJob]
    BY <1>5 DEF UploadData, End, cloud
  <2>2. \A i \in Backups : job'[i].pc = "meta" => job[i].pc = "meta" /\ job'[i].n = job[i].n
    BY <2>1 DEF TypeOK, NoJob
  <2> QED
    BY <1>3, <2>1, <2>2, MetaQuiet
<1> QED
  BY <1>4, <1>5

\* The upload of the metadata finds its data on Drive.
LEMMA MetaByUploadMeta ==
  ASSUME TypeOK, Placed, MetaRight, mishaps \subseteq mishaps', NEW j \in Backups, UploadMeta(j)
  PROVE  MetaRight'
<1> DEFINE t == [job[j] EXCEPT !.pc = "record"]
<1>0. job[j] \in Jobs
  BY DEF TypeOK
<1>1. Goes(j, t) /\ t.pc = "record" /\ job[j].pc = "meta" /\ Busy(j)
  BY <1>0, MetaGoes DEF Jobs, UploadMeta, Busy
<1> HIDE DEF t
<1>2. /\ \A i \in Backups \ {j} : job'[i] = job[i]
      /\ job'[j].pc # "meta"
  BY <1>1, GoesTyped DEF NoJob
<1>3. UNCHANGED deleting
  BY DEF UploadMeta
<1>4. CASE Upload(j, "meta", job[j].meta)
  <2> SUFFICES ASSUME Never(MetaTrouble)'
               PROVE  MetaRight'
    BY DEF MetaRight
  <2>1. /\ deleting = {} => \A f \in drive : f.name = "meta" => Newest(f.backup)
        /\ deleting = {}
        /\ \A i \in Backups : job[i].pc = "meta" => Newest(job[i].n)
    BY <1>1 DEF MetaRight, Never, MetaTrouble
  <2>2. job[j].meta \in 0..ids /\ \A f \in drive : f.id = job[j].meta => f.name = "meta"
    BY DEF Placed
  <2>n. "meta" \in Names
    BY DEF Names
  <2>3. PICK f \in Files :
           /\ f.name = "meta" /\ f.backup = job[j].n /\ f.id \in 1..ids' /\ ids' \in {ids, ids + 1}
           /\ f.id = job[j].meta \/ (f.id = ids + 1 /\ ids' = ids + 1 /\ job[j].meta = 0)
           /\ f.id = job[j].meta => job[j].meta # 0 /\ ids' = ids /\ WithId(job[j].meta) # {}
           /\ "meta" = "data" => f.key = job[j].key /\ f.msgs = job[j].got
           /\ drive' = {g \in drive : g.id # f.id} \cup {f}
    BY <1>1, <1>4, <2>2, <2>n, Uploads
  <2>9. ids \in Nat
    BY DEF TypeOK
  <2>4. ids + 1 \notin 1..ids
    BY <2>9
  <2>5. \A g \in drive : g.name = "data" => g.id # f.id
    BY <2>2, <2>3, <2>4 DEF Placed
  <2>6. \A n : Newest(n) => Newest(n)'
    BY <2>3, <2>5 DEF Newest
  <2>7. (\A g \in drive : g.name = "meta" => Newest(g.backup))'
    BY <1>1, <2>1, <2>3, <2>6
  <2>8. ASSUME NEW i \in Backups, job'[i].pc = "meta"
        PROVE  Newest(job[i].n)'
    <3>1. job'[i] = job[i]
      BY <1>2, <2>8
    <3>2. \A n : n = job[i].n => Newest(n)'
      BY <2>1, <2>6, <2>8, <3>1
    <3> QED
      BY <3>1, <3>2 DEF Newest
  <2>10. deleting' = {}
    BY <1>3, <2>1
  <2>11. (\A i \in Backups : job[i].pc = "meta" => Newest(job[i].n))'
    BY <2>8
  <2> QED
    BY <2>7, <2>10, <2>11 DEF MetaRight
<1>5. CASE ~Upload(j, "meta", job[j].meta)
  <2>1. UNCHANGED drive
    BY <1>5 DEF UploadMeta, cloud
  <2> QED
    BY <1>2, <1>3, <2>1, MetaQuiet
<1> QED
  BY <1>4, <1>5

\* Every step keeps MetaRight.
LEMMA MetaStep ==
  ASSUME TypeOK, Placed, Single, MetaRight, [Next]_vars
  PROVE  MetaRight'
<1>0. /\ mishaps \subseteq mishaps' /\ job \in [Backups -> Jobs]
      /\ NoJob.pc = "idle" /\ NoRestore.pc = "idle"
  BY MishapsGrow DEF TypeOK, NoJob, NoRestore
<1>1. ASSUME NEW j \in Backups, BackupStep(j)
      PROVE  MetaRight'
  <2>0. job[j] \in Jobs
    BY <1>0
  <2>1. CASE StartBackup(j)
    <3>1. /\ Goes(j, [NoJob EXCEPT !.pc = "open", !.n = begun + 1])
          /\ UNCHANGED <<deleting, drive>>
      BY <2>1, StartGoes DEF StartBackup, cloud
    <3>2. [NoJob EXCEPT !.pc = "open", !.n = begun + 1].pc = "open"
      BY DEF NoJob
    <3> QED
      BY <1>0, <3>1, <3>2, MetaByJob
  <2>2. CASE OpenBackup(j)
    <3>1. Goes(j, Opening(j)) /\ UNCHANGED <<deleting, drive>>
      BY <2>2, OpenGoes DEF OpenBackup, cloud
    <3> QED
      BY <1>0, <3>1, Opens, MetaByJob
  <2>3. ASSUME NEW c \in Chats, ExportChat(j, c)
        PROVE  MetaRight'
    <3>1. Goes(j, Exporting(j, c)) /\ UNCHANGED <<deleting, drive>>
      BY <2>3, ExportGoes DEF ExportChat, cloud
    <3>2. Exporting(j, c).pc = "export"
      BY <2>3, Exported DEF ExportChat
    <3> QED
      BY <1>0, <3>1, <3>2, MetaByJob
  <2>4. CASE ExportEnds(j)
    <3>1. Goes(j, [job[j] EXCEPT !.pc = "key"]) /\ UNCHANGED <<deleting, drive>>
      BY <2>4, KeyGoes DEF ExportEnds, cloud
    <3>2. [job[j] EXCEPT !.pc = "key"].pc = "key"
      BY <2>0 DEF Jobs
    <3> QED
      BY <1>0, <3>1, <3>2, MetaByJob
  <2>5. CASE ReadKey(j)
    <3> DEFINE t == [job[j] EXCEPT !.pc = "list", !.key = key]
               u == [job[j] EXCEPT !.pc = "newkey"]
    <3>1. (Goes(j, t) \/ Goes(j, u)) /\ UNCHANGED <<deleting, drive>>
      BY <2>5, ReadGoes DEF ReadKey, cloud
    <3>2. t.pc = "list" /\ u.pc = "newkey"
      BY <2>0 DEF Jobs
    <3> HIDE DEF t, u
    <3> QED
      BY <1>0, <3>1, <3>2, MetaByJob
  <2>6. CASE NewKey(j)
    <3>1. Goes(j, [job[j] EXCEPT !.pc = "list", !.key = keys + 1]) /\ UNCHANGED <<deleting, drive>>
      BY <2>6, NewKeyGoes DEF NewKey, cloud
    <3>2. [job[j] EXCEPT !.pc = "list", !.key = keys + 1].pc = "list"
      BY <2>0 DEF Jobs
    <3> QED
      BY <1>0, <3>1, <3>2, MetaByJob
  <2>7. CASE ListFiles(j)
    <3>1. PICK d \in Chosen("data") \cup {job[j].data}, e \in Chosen("meta") \cup {job[j].meta} :
            Goes(j, [job[j] EXCEPT !.pc = "data", !.data = d, !.meta = e])
      BY <2>7, ListGoes
    <3> DEFINE t == [job[j] EXCEPT !.pc = "data", !.data = d, !.meta = e]
    <3>2. Goes(j, t) /\ t.pc = "data" /\ UNCHANGED <<deleting, drive>>
      BY <2>0, <2>7, <3>1 DEF Jobs, ListFiles, cloud
    <3> HIDE DEF t
    <3> QED
      BY <1>0, <3>2, MetaByJob
  <2>8. CASE UploadData(j)
    BY <1>0, <2>8, MetaByUploadData
  <2>9. CASE UploadMeta(j)
    BY <1>0, <2>9, MetaByUploadMeta
  <2>10. CASE BackupEnds(j)
    <3>1. Goes(j, job[j]) /\ job[j].pc = "record" /\ UNCHANGED <<deleting, drive>>
      BY <2>0, <2>10 DEF BackupEnds, End, Goes, cloud
    <3> QED
      BY <1>0, <3>1, MetaByJob
  <2> QED
    BY <1>1, <2>1, <2>2, <2>3, <2>4, <2>5, <2>6, <2>7, <2>8, <2>9, <2>10 DEF BackupStep
<1>2. CASE StartDelete
  <2> SUFFICES ASSUME Never(MetaTrouble)'
               PROVE  MetaRight'
    BY DEF MetaRight
  <2>1. /\ UNCHANGED <<drive, job>> /\ deleting' = {f.id : f \in drive} /\ deleting = {}
        /\ \A i \in Backups : job[i].pc = "idle"
    BY <1>2 DEF StartDelete, cloud, Note, Never, MetaTrouble, Busy
  <2>2. \A f \in drive : f.name = "meta" => Newest(f.backup)
    BY <1>0, <2>1 DEF MetaRight, Never, MetaTrouble
  <2>3. \A n : Newest(n)' <=> Newest(n)
    BY <2>1 DEF Newest
  <2> QED
    BY <2>1, <2>2, <2>3 DEF MetaRight
<1>3. ASSUME NEW id \in deleting, DeleteFile(id)
      PROVE  MetaRight'
  <2> SUFFICES ASSUME Never(MetaTrouble)'
               PROVE  MetaRight'
    BY DEF MetaRight
  <2>1. /\ UNCHANGED job /\ deleting' = deleting \ {id}
        /\ drive' = drive \ WithId(id)
    BY <1>3 DEF DeleteFile, Note, Never, MetaTrouble
  <2>2. (\A f \in drive : f.id \in deleting) /\ \A i \in Backups : job[i].pc # "meta"
    BY <1>0 DEF MetaRight, Never, MetaTrouble
  <2>3. \A f \in drive' : f.id \in deleting'
    BY <2>1, <2>2 DEF WithId
  <2> QED
    BY <2>1, <2>2, <2>3 DEF MetaRight
<1>4. CASE Kill
  <2> SUFFICES ASSUME Never(MetaTrouble)'
               PROVE  MetaRight'
    BY DEF MetaRight
  <2>1. /\ UNCHANGED drive /\ deleting' = {} /\ deleting = {}
        /\ \A i \in Backups : job'[i].pc = "idle"
    BY <1>0, <1>4 DEF Kill, cloud, Note, Never, MetaTrouble
  <2> QED
    BY <1>0, <2>1, MetaQuiet
<1>5. CASE RestoreStep
  <2>1. UNCHANGED <<drive, deleting, job>>
    BY <1>5 DEF RestoreStep, StartRestore, FindBackup, Download, Decrypt, NewRestoreKey, Wipe,
        CreateTables, ImportChats, ImportBatch, RestoreEnds, RestoreBreaks, cloud
  <2> QED
    BY <1>0, <2>1, MetaQuiet
<1>6. CASE \/ Connect \/ Disconnect \/ IntervalElapses \/ (\E m \in Msgs : SaveMessage(m))
           \/ CancelBackup \/ UNCHANGED vars
  <2>1. UNCHANGED <<drive, deleting, job>>
    BY <1>6 DEF Connect, Disconnect, IntervalElapses, SaveMessage, CancelBackup, cloud, vars
  <2> QED
    BY <1>0, <2>1, MetaQuiet
<1>7. CASE Tidy
  <2>1. HadOnly /\ UNCHANGED <<drive, deleting>>
    BY <1>7, TidyForgets DEF cloud
  <2> QED
    BY <1>0, <2>1, MetaQuiet DEF HadOnly
<1> QED
  BY <1>1, <1>2, <1>3, <1>4, <1>5, <1>6, <1>7 DEF Next, Tidy

-----------------------------------------------------------------------------
(* What is kept.                                                           *)

\* A job with the record t would be right after the step.
StaysKept(t) == \A r : r = t => JobKept(r)'

LEMMA IdleKept ==
  ASSUME NEW r, r.pc \in {"idle", "open"}
  PROVE  JobKept(r) /\ JobKept(r)'
BY DEF JobKept, Gathered

\* A job that has nothing to keep yet, or goes on with what it has.
LEMMA IdleStays ==
  ASSUME NEW j \in Backups, NEW t,
         \/ t.pc \in {"idle", "open"}
         \/ /\ JobKept(job[j]) /\ UNCHANGED <<drive, rows, place, partial, deleting, kept>>
            /\ t.had = job[j].had /\ t.got = job[j].got /\ t.left = job[j].left
            /\ job[j].pc \in Gathered \ {"meta", "record"}
            /\ t.pc \in Gathered \ {"meta", "record"}
  PROVE  StaysKept(t)
BY DEF StaysKept, JobKept, Gathered

\* A step of a job that leaves the disk, Drive and the other operations alone.
LEMMA KeptByJob ==
  ASSUME TypeOK, KeptRight, NEW j \in Backups, NEW t, Goes(j, t),
         UNCHANGED <<drive, rows, place, partial, deleting, restore>>, kept' \subseteq kept,
         mishaps \subseteq mishaps', mishaps' = {} => StaysKept(t)
  PROVE  KeptRight'
<1> SUFFICES ASSUME mishaps' = {}
             PROVE  KeptRight'
  BY DEF KeptRight
<1>1. /\ \A i \in Backups \ {j} : job'[i] = job[i]
      /\ job'[j] = t \/ job'[j].pc = "idle"
  BY GoesTyped DEF NoJob
<1>2. \A m : Stored(m)' <=> Stored(m)
  BY DEF Stored
<1>3. \A r : JobKept(r) => JobKept(r)'
  BY <1>2 DEF JobKept
<1>4. mishaps = {} /\ \A i \in Backups : JobKept(job[i])
  BY DEF KeptRight
<1>5. (\A i \in Backups : JobKept(job[i]))'
  <2> SUFFICES ASSUME NEW i \in Backups
               PROVE  JobKept(job[i])'
    OBVIOUS
  <2>1. \E r : r = job'[i] /\ JobKept(r)'
    BY <1>1, <1>3, <1>4, IdleKept DEF StaysKept
  <2> QED
    BY <2>1 DEF JobKept
<1> QED
  BY <1>2, <1>4, <1>5 DEF KeptRight

\* A step that no job takes and that keeps Drive.
LEMMA KeptQuiet ==
  ASSUME KeptRight, UNCHANGED <<drive, kept, deleting, job>>, mishaps \subseteq mishaps',
         rows \subseteq rows', UNCHANGED <<place, partial>>,
         UNCHANGED restore \/ restore'.pc \notin Importing
  PROVE  KeptRight'
<1> SUFFICES ASSUME mishaps' = {}
             PROVE  KeptRight'
  BY DEF KeptRight
<1>2. \A m : Stored(m)' <=> Stored(m)
  BY DEF Stored
<1>3. \A r : JobKept(r) => JobKept(r)'
  BY <1>2 DEF JobKept
<1>4. mishaps = {} /\ \A i \in Backups : JobKept(job[i])
  BY DEF KeptRight
<1>5. (\A i \in Backups : JobKept(job[i]))'
  <2> SUFFICES ASSUME NEW i \in Backups
               PROVE  JobKept(job[i])'
    OBVIOUS
  <2>1. \E r : r = job'[i] /\ JobKept(r)'
    BY <1>3, <1>4
  <2> QED
    BY <2>1 DEF JobKept
<1>6. restore'.pc = "import" => restore'.pc \in Importing
  BY DEF Importing
<1> QED
  BY <1>2, <1>4, <1>5, <1>6 DEF KeptRight

\* The uploaded data holds what was kept: the job has exported all of it.
LEMMA KeptByUploadData ==
  ASSUME TypeOK, Placed, Single, KeptRight, mishaps \subseteq mishaps',
         NEW j \in Backups, UploadData(j)
  PROVE  KeptRight'
<1> DEFINE t == [job[j] EXCEPT !.pc = "meta"]
<1>0. job[j] \in Jobs
  BY DEF TypeOK
<1>1. /\ Goes(j, t) /\ t.pc = "meta" /\ job[j].pc = "data" /\ Busy(j)
      /\ t.had = job[j].had /\ t.got = job[j].got /\ t.left = job[j].left
  BY <1>0, DataGoes DEF Jobs, UploadData, Busy
<1> HIDE DEF t
<1>2. UNCHANGED <<kept, rows, place, partial, deleting, restore>> /\ NoteUpload
  BY DEF UploadData, phone
<1> SUFFICES ASSUME mishaps' = {}
             PROVE  KeptRight'
  BY DEF KeptRight
<1>3. mishaps = {} /\ JobKept(job[j])
  BY DEF KeptRight
<1>4. CASE Upload(j, "data", job[j].data)
  <2>1. deleting = {} /\ (ids' # ids => \A g \in drive : g.name # "data")
    BY <1>2 DEF NoteUpload, Named
  <2>2. job[j].data \in 0..ids /\ \A f \in drive : f.id = job[j].data => f.name = "data"
    BY DEF Placed
  <2>n. "data" \in Names
    BY DEF Names
  <2>3. PICK f \in Files :
           /\ f.name = "data" /\ f.backup = job[j].n /\ f.id \in 1..ids' /\ ids' \in {ids, ids + 1}
           /\ f.id = job[j].data \/ (f.id = ids + 1 /\ ids' = ids + 1 /\ job[j].data = 0)
           /\ f.id = job[j].data => job[j].data # 0 /\ ids' = ids /\ WithId(job[j].data) # {}
           /\ "data" = "data" => f.key = job[j].key /\ f.msgs = job[j].got
           /\ drive' = {g \in drive : g.id # f.id} \cup {f}
    BY <1>1, <1>4, <2>2, <2>n, Uploads
  <2>4. ids + 1 # ids
    BY DEF TypeOK
  <2>5. \A g \in drive' : g.name = "data" => g = f
    <3>1. CASE f.id = job[j].data
      <4>1. PICK h \in drive : h.id = f.id /\ h.name = "data"
        BY <2>2, <2>3, <3>1 DEF WithId
      <4>2. \A g \in drive : g.name = "data" => g = h
        BY <1>3, <4>1 DEF KeptRight
      <4> QED
        BY <2>3, <4>1, <4>2
    <3>2. CASE f.id # job[j].data
      BY <2>1, <2>3, <2>4, <3>2
    <3> QED
      BY <3>1, <3>2
  <2>6. /\ ~partial /\ job[j].had \subseteq rows /\ kept \subseteq job[j].had
        /\ job[j].had \subseteq In(job[j].got)
    BY <1>1, <1>3 DEF JobKept, Gathered
  <2>7. \A m \in In(job[j].got) : Stored(m)'
    BY <2>3 DEF Stored
  <2>8. \A i \in Backups \ {j} : job'[i] = job[i] /\ job[i].pc = "idle"
    <3>1. \A i \in Backups : Busy(i) => i = j
      BY <1>1, <1>3 DEF Single, Never
    <3> QED
      BY <1>1, <3>1, GoesTyped DEF Busy
  <2>9. job'[j] = t \/ job'[j].pc = "idle"
    BY <1>1, GoesTyped DEF NoJob
  <2>10. \A r : r = t => JobKept(r)'
    BY <1>1, <1>2, <1>3, <2>1, <2>6, <2>7 DEF JobKept, Gathered
  <2>11. (\A i \in Backups : JobKept(job[i]))'
    <3> SUFFICES ASSUME NEW i \in Backups
                 PROVE  JobKept(job[i])'
      OBVIOUS
    <3>1. \E r : r = job'[i] /\ JobKept(r)'
      BY <2>8, <2>9, <2>10, IdleKept
    <3> QED
      BY <3>1 DEF JobKept
  <2>12. restore.pc \notin Importing /\ restore.pc # "import"
    BY <1>3, <2>6 DEF KeptRight, Importing
  <2> QED
    BY <1>2, <2>1, <2>5, <2>6, <2>7, <2>11, <2>12 DEF KeptRight
<1>5. CASE ~Upload(j, "data", job[j].data)
  <2>1. UNCHANGED drive /\ job' = [job EXCEPT ![j] = NoJob]
    BY <1>5 DEF UploadData, End, cloud
  <2>2. NoJob.pc = "idle" /\ NoJob \in Jobs
    BY NothingRuns DEF NoJob
  <2>3. Goes(j, NoJob) /\ StaysKept(NoJob)
    BY <2>1, <2>2, IdleStays DEF Goes
  <2> QED
    BY <1>2, <2>1, <2>3, KeptByJob
<1> QED
  BY <1>4, <1>5

\* The upload of the metadata leaves the data file alone.
LEMMA KeptByUploadMeta ==
  ASSUME TypeOK, Placed, KeptRight, mishaps \subseteq mishaps', NEW j \in Backups, UploadMeta(j)
  PROVE  KeptRight'
<1> DEFINE t == [job[j] EXCEPT !.pc = "record"]
<1>0. job[j] \in Jobs
  BY DEF TypeOK
<1>1. /\ Goes(j, t) /\ t.pc = "record" /\ job[j].pc = "meta" /\ Busy(j)
      /\ t.had = job[j].had /\ t.got = job[j].got /\ t.left = job[j].left
  BY <1>0, MetaGoes DEF Jobs, UploadMeta, Busy
<1> HIDE DEF t
<1>2. UNCHANGED <<kept, rows, place, partial, deleting, restore>>
  BY DEF UploadMeta, phone
<1>3. mishaps' = {} => JobKept(job[j])
  BY DEF KeptRight
<1>4. JobKept(job[j]) => JobKept(t)
  BY <1>1 DEF JobKept, Gathered
<1>5. CASE Upload(j, "meta", job[j].meta)
  <2> SUFFICES ASSUME mishaps' = {}
               PROVE  KeptRight'
    BY DEF KeptRight
  <2>1. mishaps = {}
    OBVIOUS
  <2>2. job[j].meta \in 0..ids /\ \A f \in drive : f.id = job[j].meta => f.name = "meta"
    BY DEF Placed
  <2>n. "meta" \in Names
    BY DEF Names
  <2>3. PICK f \in Files :
           /\ f.name = "meta" /\ f.backup = job[j].n /\ f.id \in 1..ids' /\ ids' \in {ids, ids + 1}
           /\ f.id = job[j].meta \/ (f.id = ids + 1 /\ ids' = ids + 1 /\ job[j].meta = 0)
           /\ f.id = job[j].meta => job[j].meta # 0 /\ ids' = ids /\ WithId(job[j].meta) # {}
           /\ "meta" = "data" => f.key = job[j].key /\ f.msgs = job[j].got
           /\ drive' = {g \in drive : g.id # f.id} \cup {f}
    BY <1>1, <1>5, <2>2, <2>n, Uploads
  <2>9. ids \in Nat
    BY DEF TypeOK
  <2>4. ids + 1 \notin 1..ids
    BY <2>9
  <2>5. \A g : g.name = "data" => (g \in drive' <=> g \in drive)
    BY <2>2, <2>3, <2>4 DEF Placed
  <2>6. \A m : Stored(m)' <=> Stored(m)
    BY <2>5 DEF Stored
  <2>7. \A r : JobKept(r) <=> JobKept(r)'
    BY <1>2, <2>6 DEF JobKept
  <2>8. /\ \A i \in Backups \ {j} : job'[i] = job[i]
        /\ job'[j] = t \/ job'[j].pc = "idle"
    BY <1>1, GoesTyped DEF NoJob
  <2>10. JobKept(t) /\ \A i \in Backups : JobKept(job[i])
    BY <1>3, <1>4 DEF KeptRight
  <2>11. (\A i \in Backups : JobKept(job[i]))'
    <3> SUFFICES ASSUME NEW i \in Backups
                 PROVE  JobKept(job[i])'
      OBVIOUS
    <3>1. \E r : r = job'[i] /\ JobKept(r)'
      BY <2>7, <2>8, <2>10, IdleKept
    <3> QED
      BY <3>1 DEF JobKept
  <2> QED
    BY <1>2, <2>1, <2>5, <2>6, <2>11 DEF KeptRight
<1>6. CASE ~Upload(j, "meta", job[j].meta)
  <2>1. UNCHANGED drive /\ job' = [job EXCEPT ![j] = NoJob]
    BY <1>6 DEF UploadMeta, End, cloud
  <2>2. NoJob.pc = "idle" /\ NoJob \in Jobs
    BY NothingRuns DEF NoJob
  <2>3. Goes(j, NoJob) /\ StaysKept(NoJob)
    BY <2>1, <2>2, IdleStays DEF Goes
  <2> QED
    BY <1>2, <2>1, <2>3, KeptByJob
<1> QED
  BY <1>5, <1>6

\* A backup that ends has uploaded what it had.
LEMMA KeptByBackupEnds ==
  ASSUME TypeOK, Placed, Single, KeptRight, mishaps \subseteq mishaps',
         NEW j \in Backups, BackupEnds(j)
  PROVE  KeptRight'
<1> SUFFICES ASSUME mishaps' = {}
             PROVE  KeptRight'
  BY DEF KeptRight
<1>1. /\ job[j].pc = "record" /\ Busy(j) /\ job' = [job EXCEPT ![j] = NoJob]
      /\ kept' = kept \cup job[j].had
      /\ UNCHANGED <<drive, rows, place, partial, deleting, restore>>
  BY DEF BackupEnds, End, Busy, phone, cloud
<1>2. mishaps = {} /\ JobKept(job[j])
  BY DEF KeptRight
<1>3. \A i \in Backups : Busy(i) => i = j
  BY <1>1, <1>2 DEF Single, Never
<1>4. \A i \in Backups : job'[i].pc = "idle"
  BY <1>1, <1>3 DEF TypeOK, Busy, NoJob
<1>5. /\ ~partial /\ job[j].had \subseteq rows /\ kept \subseteq job[j].had /\ deleting = {}
      /\ \A m \in job[j].had : Stored(m)
  BY <1>1, <1>2 DEF JobKept, Gathered
<1>6. \A m : Stored(m)' <=> Stored(m)
  BY <1>1 DEF Stored
<1>7. (\A i \in Backups : JobKept(job[i]))'
  BY <1>4 DEF JobKept, Gathered
<1>8. restore.pc \notin Importing /\ restore.pc # "import"
  BY <1>2, <1>5 DEF KeptRight, Importing
<1>9. \A f, g \in drive : f.name = "data" /\ g.name = "data" => f = g
  BY <1>2 DEF KeptRight
<1> QED
  BY <1>1, <1>2, <1>5, <1>6, <1>7, <1>8, <1>9 DEF KeptRight

\* Every step of a backup keeps KeptRight.
LEMMA KeptByBackup ==
  ASSUME TypeOK, Placed, Single, KeptRight, mishaps \subseteq mishaps',
         NEW j \in Backups, BackupStep(j)
  PROVE  KeptRight'
<1>0. job[j] \in Jobs /\ rows \subseteq Msgs /\ \A c \in Chats : c # None
  BY BackupAssumption DEF TypeOK
<1>a. mishaps' = {} => JobKept(job[j])
  BY DEF KeptRight
<1>1. CASE StartBackup(j)
  <2> DEFINE t == [NoJob EXCEPT !.pc = "open", !.n = begun + 1]
  <2>1. /\ Goes(j, t) /\ t.pc = "open"
        /\ UNCHANGED <<drive, kept, rows, place, partial, deleting, restore>>
    BY <1>1, StartGoes DEF StartBackup, cloud, phone, NoJob
  <2> HIDE DEF t
  <2> QED
    BY <2>1, KeptByJob, IdleStays
<1>2. CASE OpenBackup(j)
  <2> DEFINE t == Opening(j)
  <2>1. /\ Goes(j, t) /\ UNCHANGED <<drive, rows, place, partial, deleting, restore>>
        /\ kept' \subseteq kept
    BY <1>2, OpenGoes DEF OpenBackup, cloud, phone
  <2>2. t.pc = "export" /\ t.left = chats /\ t.had = Listed
    BY Opens
  <2> HIDE DEF t
  <2>3. \/ job' = [job EXCEPT ![j] = NoJob]
        \/ (mishaps' = {} => ~partial) /\ kept' = kept \ (rows \ Listed)
    BY <1>2 DEF OpenBackup, Note, End, Listed
  <2>4. CASE (mishaps' = {} => ~partial) /\ kept' = kept \ (rows \ Listed)
    <3>1. mishaps' = {} => ~partial /\ kept' \subseteq Listed
      BY <2>4 DEF KeptRight
    <3>2. mishaps' = {} => StaysKept(t)
      BY <2>1, <2>2, <3>1 DEF StaysKept, JobKept, Gathered, Listed
    <3> QED
      BY <2>1, <3>2, KeptByJob
  <2>5. CASE job' = [job EXCEPT ![j] = NoJob]
    <3>1. Goes(j, NoJob) /\ NoJob.pc = "idle"
      BY <2>5, NothingRuns DEF Goes, NoJob
    <3> QED
      BY <2>1, <3>1, KeptByJob, IdleStays
  <2> QED
    BY <2>3, <2>4, <2>5
<1>3. ASSUME NEW c \in Chats, ExportChat(j, c)
      PROVE  KeptRight'
  <2> DEFINE t == Exporting(j, c)
             beyond == InChat(c) \ Oldest(c)
  <2>1. /\ Goes(j, t) /\ UNCHANGED <<drive, rows, place, partial, deleting, restore>>
        /\ kept' \subseteq kept
    BY <1>3, ExportGoes DEF ExportChat, cloud, phone
  <2>2. /\ t.pc = "export" /\ t.left = job[j].left \ {c} /\ t.had = job[j].had \ beyond
        /\ t.got = Add(job[j].got, Oldest(c), c) /\ job[j].pc = "export"
    BY <1>3, Exported DEF ExportChat
  <2>3. In(t.got) = In(job[j].got) \cup Oldest(c)
    <3>1. job[j].got \in Exports /\ Oldest(c) \in SUBSET Msgs
      BY <1>0 DEF Jobs, Oldest, InChat
    <3> QED
      BY <1>0, <2>2, <3>1, Adds
  <2>4. InChat(c) = {m \in rows : place[m] = c}
    BY DEF InChat
  <2> HIDE DEF t, beyond
  <2>5. CASE tables
    <3>1. kept' = kept \ beyond /\ InChat(c) \subseteq Oldest(c) \cup beyond
      BY <1>3, <2>5 DEF ExportChat, beyond
    <3>2. JobKept(job[j]) => StaysKept(t)
      BY <2>1, <2>2, <2>3, <2>4, <3>1 DEF StaysKept, JobKept, Gathered
    <3> QED
      BY <1>a, <2>1, <3>2, KeptByJob
  <2>6. CASE ~tables
    <3>1. Goes(j, NoJob) /\ NoJob.pc = "idle"
      BY <1>3, <2>6, NothingRuns DEF ExportChat, End, Goes, NoJob
    <3> QED
      BY <2>1, <3>1, KeptByJob, IdleStays
  <2> QED
    BY <2>5, <2>6
<1>4. CASE ExportEnds(j)
  <2> DEFINE t == [job[j] EXCEPT !.pc = "key"]
  <2>1. Goes(j, t) /\ UNCHANGED <<drive, kept, rows, place, partial, deleting, restore>>
    BY <1>4, KeyGoes DEF ExportEnds, cloud, phone
  <2>2. /\ t.pc = "key" /\ t.left = {} /\ t.had = job[j].had /\ t.got = job[j].got
        /\ job[j].pc = "export" /\ job[j].left = {}
    BY <1>0, <1>4 DEF Jobs, ExportEnds
  <2> HIDE DEF t
  <2>3. JobKept(job[j]) => StaysKept(t)
    BY <2>1, <2>2 DEF StaysKept, JobKept, Gathered
  <2> QED
    BY <1>a, <2>1, <2>3, KeptByJob
<1>5. CASE ReadKey(j)
  <2> DEFINE t == [job[j] EXCEPT !.pc = "list", !.key = key]
             u == [job[j] EXCEPT !.pc = "newkey"]
  <2>1. /\ Goes(j, t) \/ Goes(j, u)
        /\ UNCHANGED <<drive, kept, rows, place, partial, deleting, restore>>
    BY <1>5, ReadGoes DEF ReadKey, cloud, phone
  <2>2. /\ t.pc = "list" /\ t.left = job[j].left /\ t.had = job[j].had /\ t.got = job[j].got
        /\ u.pc = "newkey" /\ u.left = job[j].left /\ u.had = job[j].had /\ u.got = job[j].got
        /\ job[j].pc = "key"
    BY <1>0, <1>5 DEF Jobs, ReadKey
  <2> HIDE DEF t, u
  <2>3. JobKept(job[j]) => StaysKept(t) /\ StaysKept(u)
    BY <2>1, <2>2, IdleStays DEF Gathered
  <2> QED
    BY <1>a, <2>1, <2>3, KeptByJob
<1>6. CASE NewKey(j)
  <2> DEFINE t == [job[j] EXCEPT !.pc = "list", !.key = keys + 1]
  <2>1. Goes(j, t) /\ UNCHANGED <<drive, kept, rows, place, partial, deleting, restore>>
    BY <1>6, NewKeyGoes DEF NewKey, cloud, phone
  <2>2. /\ t.pc = "list" /\ t.left = job[j].left /\ t.had = job[j].had /\ t.got = job[j].got
        /\ job[j].pc = "newkey"
    BY <1>0, <1>6 DEF Jobs, NewKey
  <2> HIDE DEF t
  <2>3. JobKept(job[j]) => StaysKept(t)
    BY <2>1, <2>2, IdleStays DEF Gathered
  <2> QED
    BY <1>a, <2>1, <2>3, KeptByJob
<1>7. CASE ListFiles(j)
  <2>1. PICK d \in Chosen("data") \cup {job[j].data}, e \in Chosen("meta") \cup {job[j].meta} :
          Goes(j, [job[j] EXCEPT !.pc = "data", !.data = d, !.meta = e])
    BY <1>7, ListGoes
  <2> DEFINE t == [job[j] EXCEPT !.pc = "data", !.data = d, !.meta = e]
  <2>2. /\ t.pc = "data" /\ t.left = job[j].left /\ t.had = job[j].had /\ t.got = job[j].got
        /\ job[j].pc = "list" /\ UNCHANGED <<drive, kept, rows, place, partial, deleting, restore>>
    BY <1>0, <1>7 DEF Jobs, ListFiles, cloud, phone
  <2>3. Goes(j, t)
    BY <2>1
  <2> HIDE DEF t
  <2>4. JobKept(job[j]) => StaysKept(t)
    BY <2>2, IdleStays DEF Gathered
  <2> QED
    BY <1>a, <2>2, <2>3, <2>4, KeptByJob
<1> QED
  BY <1>1, <1>2, <1>3, <1>4, <1>5, <1>6, <1>7, KeptByUploadData, KeptByUploadMeta,
     KeptByBackupEnds DEF BackupStep

\* While the messages are partly restored no backup is under way.
LEMMA KeptByRestore ==
  ASSUME TypeOK, Placed, KeptRight, mishaps \subseteq mishaps', RestoreStep
  PROVE  KeptRight'
<1> SUFFICES ASSUME mishaps' = {}
             PROVE  KeptRight'
  BY DEF KeptRight
<1>0. /\ mishaps = {} /\ restore \in Restores /\ NoRestore.pc = "idle"
      /\ \A m \in kept : Stored(m)
      /\ \A f, g \in drive : f.name = "data" /\ g.name = "data" => f = g
      /\ partial \/ kept \subseteq rows
      /\ deleting # {} => kept = {}
      /\ restore.pc \in Importing => partial /\ kept \subseteq In(restore.got)
      /\ restore.pc = "import" => kept \subseteq rows \cup restore.todo
  BY DEF TypeOK, KeptRight, NoRestore
<1>a. \A j \in Backups : JobKept(job[j])
  BY <1>0 DEF KeptRight
\* A step that changes only the messages and the restore, while no backup is under way.
<1>b. ASSUME UNCHANGED <<drive, kept, deleting, job>>,
             \A j \in Backups : job[j].pc \notin Gathered \cup {"export"},
             partial' \/ kept \subseteq rows',
             restore'.pc \in Importing => partial' /\ kept \subseteq In(restore'.got),
             restore'.pc = "import" => kept \subseteq rows' \cup restore'.todo
      PROVE  KeptRight'
  <2>1. \A m : Stored(m)' <=> Stored(m)
    BY <1>b DEF Stored
  <2>2. (\A j \in Backups : JobKept(job[j]))'
    BY <1>b DEF JobKept, Gathered
  <2> QED
    BY <1>0, <1>b, <2>1, <2>2 DEF KeptRight
<1>c. partial => \A j \in Backups : job[j].pc \notin Gathered \cup {"export"}
  BY <1>a DEF JobKept
<1>1. CASE StartRestore \/ FindBackup \/ Download \/ Decrypt \/ NewRestoreKey \/ RestoreBreaks
  <2>1. UNCHANGED <<drive, kept, deleting, job, rows, place, partial>>
    BY <1>1 DEF StartRestore, FindBackup, Download, Decrypt, NewRestoreKey, RestoreBreaks, phone,
       cloud
  <2>2. restore'.pc \notin Importing
    BY <1>0, <1>1 DEF StartRestore, FindBackup, Download, Decrypt, NewRestoreKey, RestoreBreaks,
        GoTo, Importing, Restores, NoRestore
  <2> QED
    BY <2>1, <2>2, KeptQuiet
<1>2. CASE Wipe
  <2>1. /\ UNCHANGED <<drive, kept, deleting, job>> /\ partial' = TRUE
        /\ restore' = [restore EXCEPT !.pc = "create"] /\ restore.pc = "wipe"
    BY <1>2 DEF Wipe, GoTo, cloud
  <2>2. /\ \A j \in Backups : job[j].pc = "idle"
        /\ \E f \in WithId(restore.file) : f.msgs = restore.got
    BY <1>2 DEF Wipe, Note, Busy
  <2>3. PICK f \in drive : f.name = "data" /\ f.msgs = restore.got
    BY <2>2 DEF WithId, Placed
  <2>4. kept \subseteq In(restore.got)
    BY <1>0, <2>3 DEF Stored
  <2>5. restore'.pc = "create" /\ restore'.got = restore.got
    BY <1>0, <2>1 DEF Restores
  <2>6. \A j \in Backups : job[j].pc \notin Gathered \cup {"export"}
    BY <2>2 DEF Gathered
  <2> QED
    BY <1>b, <2>1, <2>4, <2>5, <2>6
<1>3. CASE CreateTables
  <2>1. /\ UNCHANGED <<drive, kept, deleting, job, rows, place, partial>>
        /\ restore' = [restore EXCEPT !.pc = "chats"] /\ restore.pc = "create"
    BY <1>3 DEF CreateTables, GoTo, cloud
  <2>2. restore'.pc = "chats" /\ restore'.got = restore.got /\ partial /\ kept \subseteq In(restore.got)
    BY <1>0, <2>1 DEF Restores, Importing
  <2> QED
    BY <1>b, <1>c, <2>1, <2>2
<1>4. CASE ImportChats
  <2>1. /\ UNCHANGED <<drive, kept, deleting, job, rows, place, partial>>
        /\ restore' = [restore EXCEPT !.pc = "import", !.todo = In(restore.got)] /\ restore.pc = "chats"
    BY <1>4 DEF ImportChats, cloud
  <2>2. /\ restore'.got = restore.got /\ restore'.todo = In(restore.got)
        /\ partial /\ kept \subseteq In(restore.got)
    BY <1>0, <2>1 DEF Restores, Importing
  <2> QED
    BY <1>b, <1>c, <2>1, <2>2
<1>5. ASSUME NEW B \in SUBSET Msgs, ImportBatch(B)
      PROVE  KeptRight'
  <2>1. /\ UNCHANGED <<drive, kept, deleting, job, partial>> /\ rows' = rows \cup B
        /\ restore' = [restore EXCEPT !.todo = @ \ B] /\ restore.pc = "import"
    BY <1>5 DEF ImportBatch, cloud
  <2>2. /\ restore'.got = restore.got /\ restore'.todo = restore.todo \ B
        /\ partial /\ kept \subseteq In(restore.got)
        /\ kept \subseteq rows \cup restore.todo
    BY <1>0, <2>1 DEF Restores, Importing
  <2> QED
    BY <1>b, <1>c, <2>1, <2>2
<1>6. CASE RestoreEnds
  <2>1. /\ UNCHANGED <<drive, kept, deleting, job, rows>> /\ partial' = FALSE
        /\ restore' = NoRestore /\ restore.pc = "import" /\ restore.todo = {}
    BY <1>6 DEF RestoreEnds, cloud
  <2>2. partial /\ kept \subseteq In(restore.got) /\ kept \subseteq rows
    BY <1>0, <2>1 DEF Importing
  <2>3. restore'.pc \notin Importing /\ restore'.pc # "import"
    BY <1>0, <2>1 DEF Importing
  <2> QED
    BY <1>b, <1>c, <2>1, <2>2, <2>3
<1> QED
  BY <1>1, <1>2, <1>3, <1>4, <1>5, <1>6 DEF RestoreStep

\* What the database loses while it is tidied up is not kept any more.
LEMMA KeptByTidy ==
  ASSUME TypeOK, KeptRight, mishaps \subseteq mishaps', Tidy
  PROVE  KeptRight'
<1> SUFFICES ASSUME mishaps' = {}
             PROVE  KeptRight'
  BY DEF KeptRight
<1>1. /\ HadOnly /\ kept' \subseteq kept /\ UNCHANGED <<partial, drive, restore, deleting>>
  BY TidyForgets DEF cloud
<1>2. \A m : Stored(m)' <=> Stored(m)
  BY <1>1 DEF Stored
<1>3. /\ mishaps = {} /\ \A m \in kept : Stored(m)
      /\ \A f, g \in drive : f.name = "data" /\ g.name = "data" => f = g
      /\ partial \/ kept \subseteq rows
      /\ deleting # {} => kept = {}
      /\ restore.pc \in Importing => partial /\ kept \subseteq In(restore.got)
      /\ restore.pc = "import" => kept \subseteq rows \cup restore.todo
      /\ \A j \in Backups : JobKept(job[j])
  BY DEF KeptRight
<1>4. kept \cap rows = {} \/ kept' \cap rows \subseteq rows'
  BY DEF Tidy, Heal, DeleteMessages, DeleteChat
<1>5. ASSUME NEW j \in Backups
      PROVE  StaysKept(job'[j])
  <2>1. /\ job[j].pc \in Gathered \cup {"export"} =>
              /\ ~partial /\ job[j].had \subseteq rows /\ kept \subseteq job[j].had
              /\ \A m \in job[j].had : place[m] \in job[j].left \/ m \in In(job[j].got)
        /\ job[j].pc \in Gathered => job[j].had \subseteq In(job[j].got)
        /\ job[j].pc \in {"meta", "record"} =>
              deleting = {} /\ \A m \in job[j].had : Stored(m)
    BY <1>3 DEF JobKept
  <2>2. /\ job'[j].pc = job[j].pc /\ job'[j].left = job[j].left /\ job'[j].got = job[j].got
    BY <1>1 DEF HadOnly
  <2>3. ASSUME NEW c \in Chats, NEW d \in Chats, Heal(c, d)
        PROVE  StaysKept(job'[j])
    <3> DEFINE lost == IF \E i \in Backups : Overlooks(i, c, d) THEN InChat(c) ELSE {}
    <3>1. /\ job' = [i \in Backups |-> [job[i] EXCEPT !.had = @ \ lost]]
          /\ kept' = kept \ lost /\ rows' = rows
          /\ place' = [m \in Msgs |-> IF m \in InChat(c) THEN d ELSE place[m]]
      BY <2>3 DEF Heal
    <3>2. job'[j].had = job[j].had \ lost
      BY <3>1, JobsForget
    <3>3. Overlooks(j, c, d) => lost = InChat(c)
      OBVIOUS
    <3> HIDE DEF lost
    <3>4. rows \subseteq Msgs /\ InChat(c) = {m \in rows : place[m] = c}
      BY DEF TypeOK, InChat
    <3>5. ASSUME job[j].pc = "export", NEW m \in job'[j].had
          PROVE  place'[m] \in job[j].left \/ m \in In(job[j].got)
      <4>1. m \in job[j].had /\ m \in rows /\ m \in Msgs
        BY <2>1, <3>2, <3>4, <3>5
      <4>2. CASE m \in InChat(c)
        BY <2>1, <3>1, <3>2, <3>3, <3>4, <3>5, <4>1, <4>2 DEF Overlooks
      <4>3. CASE m \notin InChat(c)
        BY <2>1, <3>1, <3>5, <4>1, <4>3
      <4> QED
        BY <4>2, <4>3
    <3> QED
      BY <1>1, <1>2, <2>1, <2>2, <3>1, <3>2, <3>5 DEF StaysKept, JobKept, Gathered
  <2>4. ASSUME NEW c \in Chats, DeleteMessages(c)
        PROVE  StaysKept(job'[j])
    <3>1. /\ job' = [i \in Backups |-> [job[i] EXCEPT !.had = @ \ InChat(c)]]
          /\ kept' = kept \ InChat(c) /\ rows' = rows \ InChat(c)
          /\ place' = [m \in Msgs |-> IF m \in InChat(c) THEN ChatOf[m] ELSE place[m]]
      BY <2>4 DEF DeleteMessages
    <3>2. job'[j].had = job[j].had \ InChat(c) /\ rows \subseteq Msgs
      BY <3>1, JobsForget DEF TypeOK
    <3> QED
      BY <1>1, <1>2, <2>1, <2>2, <3>1, <3>2 DEF StaysKept, JobKept, Gathered
  <2>5. ASSUME NEW c \in Chats, DeleteChat(c)
        PROVE  StaysKept(job'[j])
    BY <1>2, <1>1, <2>1, <2>5 DEF DeleteChat, StaysKept, JobKept
  <2> QED
    BY <2>3, <2>4, <2>5 DEF Tidy
<1>6. (\A j \in Backups : JobKept(job[j]))'
  <2> SUFFICES ASSUME NEW j \in Backups
               PROVE  JobKept(job[j])'
    OBVIOUS
  <2>1. \E r : r = job'[j] /\ JobKept(r)'
    BY <1>5 DEF StaysKept
  <2> QED
    BY <2>1 DEF JobKept
<1> QED
  BY <1>1, <1>2, <1>3, <1>4, <1>6 DEF KeptRight

\* Every step keeps KeptRight.
LEMMA KeptStep ==
  ASSUME TypeOK, Placed, Single, KeptRight, [Next]_vars
  PROVE  KeptRight'
<1>0. /\ mishaps \subseteq mishaps' /\ NoJob.pc = "idle" /\ NoRestore.pc = "idle"
  BY MishapsGrow DEF NoJob, NoRestore
<1>1. CASE \/ Connect \/ Disconnect \/ IntervalElapses \/ (\E m \in Msgs : SaveMessage(m))
           \/ CancelBackup \/ UNCHANGED vars
  <2>1. /\ UNCHANGED <<drive, deleting, job, kept, place, partial, restore>> /\ rows \subseteq rows'
    BY <1>1 DEF Connect, Disconnect, IntervalElapses, SaveMessage, CancelBackup, cloud, phone, vars
  <2> QED
    BY <1>0, <2>1, KeptQuiet
<1> SUFFICES ASSUME mishaps' = {}, ~UNCHANGED vars
             PROVE  KeptRight'
  BY <1>1 DEF KeptRight
<1>a. /\ mishaps = {}
      /\ \A m \in kept : Stored(m)
      /\ \A f, g \in drive : f.name = "data" /\ g.name = "data" => f = g
      /\ partial \/ kept \subseteq rows
      /\ deleting # {} => kept = {}
      /\ restore.pc \in Importing => partial /\ kept \subseteq In(restore.got)
      /\ restore.pc = "import" => kept \subseteq rows \cup restore.todo
      /\ \A j \in Backups : JobKept(job[j])
  BY <1>0 DEF KeptRight
<1>2. CASE StartDelete
  <2>1. /\ UNCHANGED <<drive, job, rows, place, partial, restore>> /\ kept' = {}
        /\ \A j \in Backups : job[j].pc = "idle"
    BY <1>2 DEF StartDelete, cloud, phone, Note, Busy
  <2>2. (\A j \in Backups : JobKept(job[j]))'
    BY <2>1 DEF JobKept, Gathered
  <2> QED
    BY <1>a, <2>1, <2>2 DEF KeptRight
<1>3. ASSUME NEW id \in deleting, DeleteFile(id)
      PROVE  KeptRight'
  <2>1. /\ drive' \subseteq drive /\ deleting' \subseteq deleting /\ deleting # {}
        /\ UNCHANGED <<job, kept, rows, place, partial, restore>>
    BY <1>3 DEF DeleteFile, phone
  <2>2. kept = {} /\ \A j \in Backups : job[j].pc \notin {"meta", "record"}
    BY <1>a, <2>1 DEF JobKept
  <2>3. (\A j \in Backups : JobKept(job[j]))'
    BY <1>a, <2>1, <2>2 DEF JobKept
  <2> QED
    BY <1>a, <2>1, <2>2, <2>3 DEF KeptRight
<1>4. CASE Kill
  <2>1. /\ UNCHANGED <<drive, kept, rows, partial>> /\ deleting' = {} /\ restore'.pc = "idle"
        /\ \A j \in Backups : job'[j].pc = "idle"
    BY <1>0, <1>4 DEF Kill, cloud, phone
  <2>2. (\A j \in Backups : JobKept(job[j]))'
    BY <2>1 DEF JobKept, Gathered
  <2>3. \A m : Stored(m)' <=> Stored(m)
    BY <2>1 DEF Stored
  <2> QED
    BY <1>a, <2>1, <2>2, <2>3 DEF KeptRight, Importing
<1> QED
  BY <1>0, <1>1, <1>2, <1>3, <1>4, KeptByBackup, KeptByRestore, KeptByTidy DEF Next, Tidy

-----------------------------------------------------------------------------
(* The theorems.                                                           *)

LEMMA InitInv == Init => Inv
<1> SUFFICES ASSUME Init
             PROVE  Inv
  OBVIOUS
<1>1. /\ drive = {} /\ deleting = {} /\ kept = {} /\ partial = FALSE /\ restore.pc = "idle"
      /\ \A j \in Backups : job[j].pc = "idle"
  BY DEF Init, NoJob, NoRestore
<1>2. Single /\ KeyRight /\ MetaRight
  BY <1>1 DEF Single, KeyRight, MetaRight, Busy
<1>3. KeptRight
  BY <1>1, IdleKept DEF KeptRight, Importing
<1> QED
  BY <1>2, <1>3, InitTypes DEF Inv

\* The inductive invariant holds in every reachable state.
LEMMA Invariance == Spec => []Inv
<1>1. Inv /\ [Next]_vars => Inv'
  BY StepKeepsTypes, SingleStep, KeyStep, MetaStep, KeptStep DEF Inv
<1> QED
  BY <1>1, InitInv, PTL DEF Spec

\* What is on Drive can be opened with the phone's key, unless the key store failed to return it
\* or two operations that create one met.
THEOREM BackupsCanBeRead == Spec => []BackupIsReadable
<1>1. Inv => BackupIsReadable
  BY DEF Inv, KeyRight, BackupIsReadable, KeyTrouble, Named
<1> QED
  BY <1>1, Invariance, PTL

\* Metadata never runs ahead of the data, unless two backups or a backup and a deletion met.
THEOREM MetadataHasData == Spec => []MetadataIsBacked
<1>1. Inv => MetadataIsBacked
  BY DEF Inv, MetaRight, MetaTrouble, MetadataIsBacked, Newest, Named
<1> QED
  BY <1>1, Invariance, PTL

\* What was backed up is on Drive and on the phone, as long as the operations did not meet.
THEOREM NothingBackedUpIsLost == Spec => []BackedUpIsKept
<1>1. Inv => BackedUpIsKept
  <2> SUFFICES ASSUME Inv, mishaps = {}
               PROVE  kept \subseteq Saved /\ (partial \/ kept \subseteq rows)
    BY DEF BackedUpIsKept
  <2>1. \A f \in drive : f.name = "data" => f.key = key
    BY DEF Inv, KeyRight, Never
  <2>2. (\A m \in kept : Stored(m)) /\ (partial \/ kept \subseteq rows)
    BY DEF Inv, KeptRight
  <2>3. kept \subseteq Saved
    BY <2>1, <2>2 DEF Stored, Saved, Named
  <2> QED
    BY <2>2, <2>3
<1> QED
  BY <1>1, Invariance, PTL

=============================================================================
