------------------------- MODULE FirstContact_proofs -------------------------
(***************************************************************************)
(* Proofs about FirstContact, for any messages and bounds: the directory   *)
(* is consistent, a locked message has a cause, two users share one        *)
(* conversation, and what is stored stays in the reach of the gap fill.    *)
(***************************************************************************)
EXTENDS FirstContact, FiniteSetTheorems, TLAPS

-----------------------------------------------------------------------------
(* The inductive invariant.                                                *)

FetchPcs == {"key", "standIn", "signed", "signedIn"}
Saving == {"savePriv", "savePub"}

\* The statements that each kind of job has.
Kinds(j) ==
  /\ j.kind = "register" => job[j].pc \in InitPcs \cup {"init", "upload", "done"}
  /\ j.kind = "send" => job[j].pc \in InitPcs \cup FetchPcs \cup
       {"idle", "create", "init", "route", "make", "join", "joinTo", "insert", "done"}
  /\ j.kind = "open" => job[j].pc \in InitPcs \cup {"idle", "init", "open", "done"}
  /\ j.kind = "delete" => job[j].pc \in {"idle", "leave", "list", "hide", "done"}

\* Keys that are used are there.
PairReal(u) == pair[u] # NoPair => pair[u].pub # NoKey /\ pair[u].sec # NoKey
BoxReal(m) == box[m] # Plain =>
                box[m].to # NoKey /\ box[m].by # NoKey /\ box[m].from # NoKey
JobReal(j) ==
  /\ job[j].pc \in Saving \cup {"signed", "signedIn"} => job[j].key # NoKey
  /\ job[j].pc \in FetchPcs \cup {"upload"} => job[j].mine # NoKey
  /\ job[j].pc \in FetchPcs => pair[Owner(j)] # NoPair
  /\ job[j].pc = "open" /\ box[j.of] # Plain => pair[Owner(j)] # NoPair

\* Between its two statements a bundle is of one piece.
DirectoryRight(u) == signed[u] # NoKey => signed[u] = identity[u]
BundleRight(m) ==
  job[Send(m)].pc \in {"signed", "signedIn"} /\ signed[To(m)] = NoKey
    => job[Send(m)].key = identity[To(m)]

\* The only pair of a user without trouble.
First(u) == Key(u, 1)
FirstPair(u) == [pub |-> First(u), sec |-> First(u)]
Ours(u) == {NoKey, First(u)}

\* How far its creation is, from the counter and the secure store,
Untouched(u) == pairs[u] = 0 /\ disk[u] = NoPair
Complete(u) == pairs[u] = 1 /\ disk[u] = FirstPair(u)
Settled(u) == Untouched(u) \/ Complete(u) \/ \E j \in Jobs : Owner(j) = u /\ job[j].pc \in Saving

\* and from the job that creates it.
Creates(j) ==
  LET u == Owner(j) IN
  /\ job[j].mine \in Ours(u)
  /\ job[j].pc = "readPub" => job[j].key = disk[u].sec
  /\ job[j].pc = "savePriv" => job[j].key = First(u) /\ pairs[u] = 1 /\ disk[u] = NoPair
  /\ job[j].pc = "savePub" => /\ job[j].key = First(u) /\ pairs[u] = 1
                              /\ disk[u] = [pub |-> NoKey, sec |-> First(u)]

Creating(j) == job[j].pc \in InitPcs

OneCreates(u) ==
  \A i, j \in Jobs : Owner(i) = u /\ Owner(j) = u => ~(i # j /\ Creating(i) /\ Creating(j))

PhoneClean(u) ==
  /\ pair[u] \in {NoPair, FirstPair(u)} /\ identity[u] \in Ours(u)
  /\ Settled(u) /\ OneCreates(u)
  /\ \A j \in Jobs : Owner(j) = u => Creates(j)

\* Where else the key of u is.
SpreadClean(u) ==
  /\ \A v \in Users : Peer(v) = u => cache[v] \in Ours(u)
  /\ \A m \in Msgs : To(m) = u =>
       /\ box[m].to \in Ours(u)
       /\ job[Send(m)].pc \in {"signed", "signedIn"} => job[Send(m)].key \in Ours(u)
  /\ \A m \in Msgs : From[m] = u => box[m].by \in Ours(u) /\ box[m].from \in Ours(u)

Clean(u) == trouble[u] = {} => PhoneClean(u) /\ SpreadClean(u)

Keyring ==
  /\ \A u \in Users : PairReal(u) /\ DirectoryRight(u) /\ Clean(u)
  /\ \A m \in Msgs : BoxReal(m) /\ BundleRight(m)
  /\ \A j \in Jobs : JobReal(j)
  /\ LockedHasCause

\* One conversation, in which a message on its way finds those that it would put back.
Found(m) ==
  /\ At(Send(m), "join") => members[job[Send(m)].conv] = Users
  /\ At(Send(m), "joinTo") => To(m) \in members[job[Send(m)].conv]

Single == ~raced => (\A c, d \in Direct : c = d) /\ \A m \in Msgs : Found(m)

\* Where a message is, and who reaches it.
Placed(m) ==
  /\ stored[m] # 0 => job[Send(m)].pc = "done" /\ job[Send(m)].conv = stored[m]
  /\ job[Send(m)].pc \in {"join", "joinTo", "insert"} => job[Send(m)].conv \in Convs
  /\ job[Open(m)].pc # "idle" => stored[m] # 0
  /\ \A u \in Users : <<m, u>> \in hidden => stored[m] # 0
  /\ m \notin swept /\ (job[Send(m)].pc = "insert" \/ stored[m] # 0) =>
       To(m) \in members[job[Send(m)].conv] /\ <<m, To(m)>> \notin hidden

Sweeping(u) ==
  /\ job[Delete(u)].pc \in {"leave", "list", "hide"} => job[Delete(u)].conv \in Convs
  /\ job[Delete(u)].pc = "hide" => \A m \in job[Delete(u)].todo : stored[m] = job[Delete(u)].conv

Meeting == Single /\ (\A m \in Msgs : Placed(m)) /\ \A u \in Users : Sweeping(u)

Inv == TypeOK /\ (\A j \in Jobs : Kinds(j)) /\ Keyring /\ Meeting

-----------------------------------------------------------------------------
(* Lemmas about users, jobs and keys.                                      *)

LEMMA Peers ==
  ASSUME NEW u \in Users
  PROVE  Peer(u) \in Users /\ Peer(u) # u /\ \A v \in Users : v = u \/ v = Peer(u)
<1>1. PICK a \in Users, b \in Users : a # b /\ Users = {a, b}
  BY ContactAssumption
<1>2. \E v \in Users : v # u
  BY <1>1
<1>3. Peer(u) \in Users /\ Peer(u) # u
  BY <1>2 DEF Peer
<1> QED
  BY <1>1, <1>3

LEMMA Ends ==
  ASSUME NEW m \in Msgs
  PROVE  From[m] \in Users /\ To(m) \in Users /\ To(m) # From[m] /\ To(m) = Peer(From[m])
  BY ContactAssumption, Peers DEF To

LEMMA JobNames ==
  /\ \A u \in Users : Register(u) \in Jobs /\ Delete(u) \in Jobs
  /\ \A m \in Msgs : Send(m) \in Jobs /\ Open(m) \in Jobs
  BY DEF Jobs

LEMMA JobFacts ==
  /\ \A u : /\ Register(u).kind = "register" /\ Register(u).of = u
            /\ Delete(u).kind = "delete" /\ Delete(u).of = u
            /\ Send(u).kind = "send" /\ Send(u).of = u
            /\ Open(u).kind = "open" /\ Open(u).of = u
  BY DEF Register, Delete, Send, Open

LEMMA Owners ==
  /\ \A u : Owner(Register(u)) = u /\ Owner(Delete(u)) = u
  /\ \A m : Owner(Send(m)) = From[m] /\ Owner(Open(m)) = To(m)
<1>1. ASSUME NEW u PROVE Owner(Register(u)) = u /\ Owner(Delete(u)) = u
  BY JobFacts DEF Owner
<1>2. ASSUME NEW m PROVE Owner(Send(m)) = From[m] /\ Owner(Open(m)) = To(m)
  BY JobFacts DEF Owner
<1> QED
  BY <1>1, <1>2

LEMMA JobCases ==
  ASSUME NEW j \in Jobs
  PROVE  /\ Owner(j) \in Users
         /\ \/ \E u \in Users : j = Register(u) \/ j = Delete(u)
            \/ \E m \in Msgs : j = Send(m) \/ j = Open(m)
<1>1. \/ \E u \in Users : j = Register(u) \/ j = Delete(u)
      \/ \E m \in Msgs : j = Send(m) \/ j = Open(m)
  BY DEF Jobs
<1> QED
  BY <1>1, Owners, Ends

\* No job is another one.
LEMMA JobsDiffer ==
  /\ \A u, v : /\ Register(u) # Delete(v) /\ Register(u) # Send(v) /\ Register(u) # Open(v)
               /\ Delete(u) # Send(v) /\ Delete(u) # Open(v) /\ Send(u) # Open(v)
  /\ \A u, v : u # v => /\ Register(u) # Register(v) /\ Delete(u) # Delete(v)
                        /\ Send(u) # Send(v) /\ Open(u) # Open(v)
<1>1. ASSUME NEW u, NEW v
      PROVE  /\ Register(u).kind # Delete(v).kind /\ Register(u).kind # Send(v).kind
             /\ Register(u).kind # Open(v).kind /\ Delete(u).kind # Send(v).kind
             /\ Delete(u).kind # Open(v).kind /\ Send(u).kind # Open(v).kind
  BY JobFacts
<1>2. ASSUME NEW u, NEW v, u # v
      PROVE  /\ Register(u).of # Register(v).of /\ Delete(u).of # Delete(v).of
             /\ Send(u).of # Send(v).of /\ Open(u).of # Open(v).of
  BY <1>2, JobFacts
<1>3. \A u, v : /\ Register(u) # Delete(v) /\ Register(u) # Send(v) /\ Register(u) # Open(v)
                /\ Delete(u) # Send(v) /\ Delete(u) # Open(v) /\ Send(u) # Open(v)
  BY <1>1
<1>4. \A u, v : u # v => /\ Register(u) # Register(v) /\ Delete(u) # Delete(v)
                         /\ Send(u) # Send(v) /\ Open(u) # Open(v)
  BY <1>2
<1> QED
  BY <1>3, <1>4

LEMMA KeyTypes ==
  /\ NoKey \in Keys
  /\ \A u \in Users, n \in 0..MaxPairs : Key(u, n) \in Keys
  /\ \A u, n : Key(u, n) # NoKey
<1>1. ASSUME NEW u, NEW n PROVE Key(u, n) # NoKey
  <2>1. "of" \in DOMAIN Key(u, n) /\ "of" \notin DOMAIN NoKey
    BY DEF Key, NoKey
  <2> QED
    BY <2>1
<1>2. ASSUME NEW u \in Users, NEW n \in 0..MaxPairs PROVE Key(u, n) \in Keys
  BY DEF Key, Keys, RealKeys
<1> QED
  BY <1>1, <1>2 DEF Keys

LEMMA FirstIsAKey == \A u : First(u) # NoKey
  BY KeyTypes DEF First

LEMMA PairFacts ==
  /\ NoPair.pub = NoKey /\ NoPair.sec = NoKey /\ NoPair \in [pub : Keys, sec : Keys]
  /\ \A u : /\ FirstPair(u).pub = First(u) /\ FirstPair(u).sec = First(u)
            /\ FirstPair(u) # NoPair
<1>1. NoPair.pub = NoKey /\ NoPair.sec = NoKey /\ NoPair \in [pub : Keys, sec : Keys]
  BY KeyTypes DEF NoPair
<1>2. ASSUME NEW u PROVE FirstPair(u).pub = First(u) /\ FirstPair(u).sec = First(u)
  BY DEF FirstPair
<1> QED
  BY <1>1, <1>2, FirstIsAKey

LEMMA Numbers ==
  Convs \subseteq 0..MaxConvs /\ Direct \subseteq Convs
  BY ContactAssumption DEF Convs, Direct

LEMMA TaskType == Task \in Tasks /\ Task.pc = "idle" /\ Task.conv = 0 /\ Task.todo = {}
                  /\ Task.key = NoKey /\ Task.mine = NoKey
  BY KeyTypes, ContactAssumption DEF Task, Tasks

-----------------------------------------------------------------------------
(* How a step changes the jobs.                                            *)

Pcs == {"idle", "init", "readPub", "savePriv", "savePub", "upload", "create", "key",
        "standIn", "signed", "signedIn", "route", "make", "join", "joinTo", "insert",
        "open", "leave", "list", "hide", "done"}

\* At most job j changes.
Stepped(j) == job' \in [Jobs -> Tasks] /\ \A x \in Jobs : x # j => job'[x] = job[x]

LEMMA Moves ==
  ASSUME job \in [Jobs -> Tasks], NEW j \in Jobs, NEW pc \in Pcs, Goto(j, pc)
  PROVE  /\ Stepped(j) /\ job'[j].pc = pc /\ job'[j].key = job[j].key
         /\ job'[j].mine = job[j].mine /\ job'[j].conv = job[j].conv
         /\ job'[j].todo = job[j].todo
<1> DEFINE t == [job[j] EXCEPT !.pc = pc]
<1>1. t \in Tasks /\ t.pc = pc /\ t.key = job[j].key /\ t.mine = job[j].mine
      /\ t.conv = job[j].conv /\ t.todo = job[j].todo
  BY DEF Tasks, Pcs
<1>2. job' = [job EXCEPT ![j] = t]
  BY DEF Goto
<1> HIDE DEF t
<1> QED
  BY <1>1, <1>2 DEF Stepped

LEMMA MovesWithKey ==
  ASSUME job \in [Jobs -> Tasks], NEW j \in Jobs, NEW pc \in Pcs, NEW k \in Keys,
         job' = [job EXCEPT ![j].pc = pc, ![j].key = k]
  PROVE  /\ Stepped(j) /\ job'[j].pc = pc /\ job'[j].key = k
         /\ job'[j].mine = job[j].mine /\ job'[j].conv = job[j].conv
         /\ job'[j].todo = job[j].todo
<1> DEFINE t == [job[j] EXCEPT !.pc = pc, !.key = k]
<1>1. t \in Tasks /\ t.pc = pc /\ t.key = k /\ t.mine = job[j].mine
      /\ t.conv = job[j].conv /\ t.todo = job[j].todo
  BY DEF Tasks, Pcs
<1>2. job' = [job EXCEPT ![j] = t]
  OBVIOUS
<1> HIDE DEF t
<1> QED
  BY <1>1, <1>2 DEF Stepped

LEMMA MovesWithMine ==
  ASSUME job \in [Jobs -> Tasks], NEW j \in Jobs, NEW pc \in Pcs, NEW k \in Keys,
         job' = [job EXCEPT ![j].pc = pc, ![j].mine = k]
  PROVE  /\ Stepped(j) /\ job'[j].pc = pc /\ job'[j].mine = k
         /\ job'[j].key = job[j].key /\ job'[j].conv = job[j].conv
         /\ job'[j].todo = job[j].todo
<1> DEFINE t == [job[j] EXCEPT !.pc = pc, !.mine = k]
<1>1. t \in Tasks /\ t.pc = pc /\ t.mine = k /\ t.key = job[j].key
      /\ t.conv = job[j].conv /\ t.todo = job[j].todo
  BY DEF Tasks, Pcs
<1>2. job' = [job EXCEPT ![j] = t]
  OBVIOUS
<1> HIDE DEF t
<1> QED
  BY <1>1, <1>2 DEF Stepped

LEMMA MovesWithConv ==
  ASSUME job \in [Jobs -> Tasks], NEW j \in Jobs, NEW pc \in Pcs, NEW c \in 0..MaxConvs,
         job' = [job EXCEPT ![j].pc = pc, ![j].conv = c]
  PROVE  /\ Stepped(j) /\ job'[j].pc = pc /\ job'[j].conv = c
         /\ job'[j].key = job[j].key /\ job'[j].mine = job[j].mine
         /\ job'[j].todo = job[j].todo
<1> DEFINE t == [job[j] EXCEPT !.pc = pc, !.conv = c]
<1>1. t \in Tasks /\ t.pc = pc /\ t.conv = c /\ t.key = job[j].key
      /\ t.mine = job[j].mine /\ t.todo = job[j].todo
  BY DEF Tasks, Pcs
<1>2. job' = [job EXCEPT ![j] = t]
  OBVIOUS
<1> HIDE DEF t
<1> QED
  BY <1>1, <1>2 DEF Stepped

LEMMA MovesWithSent ==
  ASSUME job \in [Jobs -> Tasks], NEW j \in Jobs, NEW pc \in Pcs, NEW c \in 0..MaxConvs,
         job' = [job EXCEPT ![j].pc = pc, ![j].sent = c]
  PROVE  /\ Stepped(j) /\ job'[j].pc = pc
         /\ job'[j].key = job[j].key /\ job'[j].mine = job[j].mine
         /\ job'[j].conv = job[j].conv /\ job'[j].todo = job[j].todo
<1> DEFINE t == [job[j] EXCEPT !.pc = pc, !.sent = c]
<1>1. t \in Tasks /\ t.pc = pc /\ t.key = job[j].key /\ t.mine = job[j].mine
      /\ t.conv = job[j].conv /\ t.todo = job[j].todo
  BY DEF Tasks, Pcs
<1>2. job' = [job EXCEPT ![j] = t]
  OBVIOUS
<1> HIDE DEF t
<1> QED
  BY <1>1, <1>2 DEF Stepped

LEMMA MovesWithTodo ==
  ASSUME job \in [Jobs -> Tasks], NEW j \in Jobs, NEW pc \in Pcs, NEW T \in SUBSET Msgs,
         job' = [job EXCEPT ![j].pc = pc, ![j].todo = T]
  PROVE  /\ Stepped(j) /\ job'[j].pc = pc /\ job'[j].todo = T
         /\ job'[j].key = job[j].key /\ job'[j].mine = job[j].mine
         /\ job'[j].conv = job[j].conv
<1> DEFINE t == [job[j] EXCEPT !.pc = pc, !.todo = T]
<1>1. t \in Tasks /\ t.pc = pc /\ t.todo = T /\ t.key = job[j].key
      /\ t.mine = job[j].mine /\ t.conv = job[j].conv
  BY DEF Tasks, Pcs
<1>2. job' = [job EXCEPT ![j] = t]
  OBVIOUS
<1> HIDE DEF t
<1> QED
  BY <1>1, <1>2 DEF Stepped

\* The fields of a job.
LEMMA JobType ==
  ASSUME TypeOK, NEW j \in Jobs
  PROVE  /\ job \in [Jobs -> Tasks] /\ job[j].pc \in Pcs /\ job[j].key \in Keys
         /\ job[j].mine \in Keys /\ job[j].conv \in 0..MaxConvs /\ job[j].todo \subseteq Msgs
         /\ job[j].sent \in 0..MaxConvs
  BY DEF TypeOK, Tasks, Pcs

\* The job that a step leaves alone keeps its kind of statement.
LEMMA KindsStay ==
  ASSUME NEW j \in Jobs, \A x \in Jobs : Kinds(x), Stepped(j), Kinds(j)'
  PROVE  \A x \in Jobs : Kinds(x)'
  BY DEF Kinds, Stepped

-----------------------------------------------------------------------------
(* A step that touches no key.                                             *)

\* A job that does not create, upload, fetch or use a key goes on, or one that starts.
LEMMA KeyringStays ==
  ASSUME Inv, NEW j \in Jobs, Stepped(j),
         UNCHANGED <<identity, signed, pairs, pair, disk, cache, box, trouble>>,
         job'[j].mine = job[j].mine,
         job'[j].pc \notin InitPcs \cup FetchPcs \cup {"upload"},
         job[j].pc \notin InitPcs,
         job'[j].pc = "open" => box[j.of] = Plain,
         \A m \in Msgs : shown'[m] = "locked" => trouble[From[m]] \cup trouble[To(m)] # {}
  PROVE  Keyring'
<1>1. \A u \in Users : PairReal(u)' /\ DirectoryRight(u)'
  BY DEF Inv, Keyring, PairReal, DirectoryRight
<1>2. \A m \in Msgs : BoxReal(m)'
  BY DEF Inv, Keyring, BoxReal
<1>3. ASSUME NEW m \in Msgs PROVE BundleRight(m)'
  <2>1. BundleRight(m)
    BY DEF Inv, Keyring
  <2>2. job'[Send(m)] = job[Send(m)] \/ job'[Send(m)].pc \notin FetchPcs
    BY JobNames DEF Stepped
  <2> QED
    BY <2>1, <2>2 DEF BundleRight, FetchPcs
<1>4. ASSUME NEW x \in Jobs PROVE JobReal(x)'
  <2>1. JobReal(x)
    BY DEF Inv, Keyring
  <2>2. CASE x # j
    BY <2>1, <2>2 DEF JobReal, Stepped
  <2>3. CASE x = j
    BY <2>1, <2>3 DEF JobReal, FetchPcs, Saving, InitPcs
  <2> QED
    BY <2>2, <2>3
<1>5. ASSUME NEW u \in Users, trouble[u] = {}, PhoneClean(u) PROVE PhoneClean(u)'
  <2>1. \A x \in Jobs : Owner(x) = u => Creates(x)'
    <3>1. ASSUME NEW x \in Jobs, Owner(x) = u PROVE Creates(x)'
      <4>1. Creates(x)
        BY <1>5, <3>1 DEF PhoneClean
      <4>2. x # j => job'[x] = job[x]
        BY DEF Stepped
      <4> QED
        BY <4>1, <4>2 DEF Creates, InitPcs, First, FirstPair, Ours
    <3> QED
      BY <3>1
  <2>2. OneCreates(u)'
    BY <1>5 DEF PhoneClean, OneCreates, Creating, Stepped
  <2>3. Settled(u)'
    <3>1. CASE \E x \in Jobs : Owner(x) = u /\ job[x].pc \in Saving
      <4>1. PICK x \in Jobs : Owner(x) = u /\ job[x].pc \in Saving
        BY <3>1
      <4>2. job'[x] = job[x]
        BY <4>1 DEF Stepped, Saving, InitPcs
      <4> QED
        BY <4>1, <4>2 DEF Settled
    <3>2. CASE Untouched(u) \/ Complete(u)
      BY <3>2 DEF Settled, Untouched, Complete, First, FirstPair
    <3> QED
      BY <1>5, <3>1, <3>2 DEF PhoneClean, Settled
  <2> QED
    BY <1>5, <2>1, <2>2, <2>3 DEF PhoneClean, First, FirstPair, Ours
<1>6. ASSUME NEW u \in Users, SpreadClean(u) PROVE SpreadClean(u)'
  <2>1. \A m \in Msgs : job'[Send(m)] = job[Send(m)] \/ job'[Send(m)].pc \notin FetchPcs
    BY JobNames DEF Stepped
  <2> QED
    BY <1>6, <2>1 DEF SpreadClean, First, Ours, FetchPcs
<1>7. \A u \in Users : Clean(u)'
  BY <1>5, <1>6 DEF Inv, Keyring, Clean
<1>8. LockedHasCause'
  BY DEF LockedHasCause
<1> QED
  BY <1>1, <1>2, <1>3, <1>4, <1>7, <1>8 DEF Keyring

-----------------------------------------------------------------------------
(* A step that touches no conversation.                                    *)

\* While members only come in, two conversations need two that are made, or a message on its way
\* that does not find those that it puts back.
LEMMA SingleStays ==
  ASSUME Inv, NEW j \in Jobs, Stepped(j), members' \in [Convs -> SUBSET Users],
         \A d \in Convs : members[d] \subseteq members'[d], raced => raced',
         ~raced' => \A c, d \in Direct' : c = d,
         \A m \in Msgs : j = Send(m) /\ ~raced' => Found(m)'
  PROVE  Single'
<1> SUFFICES ASSUME ~raced', NEW m \in Msgs PROVE Found(m)'
  BY DEF Single
<1>1. Found(m) /\ Placed(m) /\ To(m) \in Users
  BY Ends DEF Inv, Meeting, Single
<1>2. CASE j # Send(m)
  <2>1. job'[Send(m)] = job[Send(m)]
    BY <1>2, JobNames DEF Stepped
  <2> QED
    BY <1>1, <2>1 DEF Found, Placed, At
<1> QED
  BY <1>2

LEMMA MeetingStays ==
  ASSUME Inv, NEW j \in Jobs, Stepped(j),
         UNCHANGED <<members, stored, hidden, raced, swept>>,
         job'[j].conv = job[j].conv, job'[j].todo = job[j].todo,
         job'[j].pc \notin {"join", "joinTo", "insert", "leave", "list", "hide"},
         \A m \in Msgs : j = Send(m) => job[j].pc # "done",
         \A m \in Msgs : j = Open(m) => stored[m] # 0
  PROVE  Meeting'
<1>1. Single'
  <2>1. \A m \in Msgs : j = Send(m) => Found(m)'
    BY DEF Found, At
  <2>2. members' \in [Convs -> SUBSET Users]
    BY DEF Inv, TypeOK
  <2>3. ~raced' => \A c, d \in Direct' : c = d
    BY DEF Inv, Meeting, Single, Direct
  <2> QED
    BY <2>1, <2>2, <2>3, SingleStays
<1>2. ASSUME NEW m \in Msgs PROVE Placed(m)'
  <2>1. Placed(m)
    BY DEF Inv, Meeting
  <2>2. job'[Open(m)].pc # "idle" => stored[m] # 0
    BY <2>1, JobNames DEF Placed, Stepped
  <2>3. CASE j # Send(m)
    BY <2>1, <2>2, <2>3, JobNames DEF Placed, Stepped
  <2>4. CASE j = Send(m)
    BY <2>1, <2>2, <2>4 DEF Placed
  <2> QED
    BY <2>3, <2>4
<1>3. ASSUME NEW u \in Users PROVE Sweeping(u)'
  <2>1. Sweeping(u)
    BY DEF Inv, Meeting
  <2> QED
    BY <2>1, JobNames DEF Sweeping, Stepped
<1> QED
  BY <1>1, <1>2, <1>3 DEF Meeting

-----------------------------------------------------------------------------
(* The steps of a conversation.                                            *)

\* Types of the variables of the directory, the phones and the boxes.
KeyTypesOK ==
  /\ identity \in [Users -> Keys] /\ signed \in [Users -> Keys]
  /\ pairs \in [Users -> 0..MaxPairs]
  /\ pair \in [Users -> [pub : Keys, sec : Keys]] /\ disk \in [Users -> [pub : Keys, sec : Keys]]
  /\ cache \in [Users -> Keys]
  /\ box \in [Msgs -> [to : Keys, by : Keys, from : Keys]]
  /\ trouble \in [Users -> SUBSET {"two at once", "storage", "cut off", "stand-in"}]

\* Types of the others, but for the jobs.
ConvTypesOK ==
  /\ members \in [Convs -> SUBSET Users]
  /\ stored \in [Msgs -> 0..MaxConvs] /\ hidden \subseteq Msgs \X Users
  /\ chat \in [Users -> 0..MaxConvs]
  /\ shown \in [Msgs -> {"nothing", "text", "locked"}]
  /\ raced \in BOOLEAN /\ swept \subseteq Msgs /\ deletes \in Nat /\ mishaps \in Nat

LEMMA TypeParts == TypeOK <=> KeyTypesOK /\ ConvTypesOK /\ job \in [Jobs -> Tasks]
<1>1. TypeOK => KeyTypesOK
  BY DEF TypeOK, KeyTypesOK
<1>2. TypeOK => ConvTypesOK /\ job \in [Jobs -> Tasks]
  BY DEF TypeOK, ConvTypesOK
<1>3. KeyTypesOK /\ ConvTypesOK /\ job \in [Jobs -> Tasks] => TypeOK
  BY DEF TypeOK, KeyTypesOK, ConvTypesOK
<1> QED
  BY <1>1, <1>2, <1>3

LEMMA KeyTypesStay ==
  ASSUME KeyTypesOK, UNCHANGED <<identity, signed, pairs, pair, disk, cache, box, trouble>>
  PROVE  KeyTypesOK'
  BY DEF KeyTypesOK

LEMMA ConvTypesStay ==
  ASSUME ConvTypesOK, UNCHANGED <<members, stored, hidden, chat, shown, raced, swept, deletes>>,
         mishaps' \in Nat
  PROVE  ConvTypesOK'
  BY DEF ConvTypesOK

LEMMA InvParts ==
  ASSUME Inv
  PROVE  /\ TypeOK /\ KeyTypesOK /\ ConvTypesOK /\ job \in [Jobs -> Tasks]
         /\ \A j \in Jobs : Kinds(j)
         /\ Keyring /\ Meeting
         /\ \A u \in Users : PairReal(u) /\ DirectoryRight(u) /\ Clean(u) /\ Sweeping(u)
         /\ \A m \in Msgs : BoxReal(m) /\ BundleRight(m) /\ Placed(m)
         /\ \A j \in Jobs : JobReal(j)
         /\ LockedHasCause /\ Single
  BY TypeParts DEF Inv, Keyring, Meeting

LEMMA InvAgain ==
  ASSUME KeyTypesOK', ConvTypesOK', job' \in [Jobs -> Tasks], \A j \in Jobs : Kinds(j)',
         Keyring', Meeting'
  PROVE  Inv'
<1>1. TypeOK'
  BY DEF TypeOK, KeyTypesOK, ConvTypesOK
<1> QED
  BY <1>1 DEF Inv

\* The locks that there are have their causes, and no step forgets one.
LEMMA LocksStay ==
  ASSUME Inv, \A m \in Msgs : shown'[m] = "locked" => shown[m] = "locked"
  PROVE  \A m \in Msgs : shown'[m] = "locked" => trouble[From[m]] \cup trouble[To(m)] # {}
  BY InvParts DEF LockedHasCause

LEMMA PrepareMoves ==
  ASSUME Inv, NEW m \in Msgs, NEW c \in 0..MaxConvs, Prepare(m, c)
  PROVE  /\ Stepped(Send(m)) /\ job'[Send(m)].pc \in {"init", "route"}
         /\ job'[Send(m)].mine = job[Send(m)].mine /\ job'[Send(m)].conv = job[Send(m)].conv
         /\ job'[Send(m)].todo = job[Send(m)].todo
<1>1. PICK pc \in {"init", "route"} :
        job' = [job EXCEPT ![Send(m)].pc = pc, ![Send(m)].sent = c]
  BY DEF Prepare
<1>2. pc \in Pcs
  BY DEF Pcs
<1> QED
  BY <1>1, <1>2, InvParts, JobNames, MovesWithSent

\* What a job of the kind "send" needs to show for its kind.
LEMMA SendKind ==
  ASSUME NEW m \in Msgs, job'[Send(m)].pc \in InitPcs \cup FetchPcs \cup
           {"idle", "create", "init", "route", "make", "join", "joinTo", "insert", "done"}
  PROVE  Kinds(Send(m))'
<1>1. Send(m).kind = "send"
  BY JobFacts
<1> QED
  BY <1>1 DEF Kinds

LEMMA StartSendStep ==
  ASSUME Inv, NEW m \in Msgs, StartSend(m) PROVE Inv'
<1> DEFINE j == Send(m)
<1>1. /\ Stepped(j) /\ job'[j].pc \in {"init", "route", "create"}
      /\ job'[j].mine = job[j].mine /\ job'[j].conv = job[j].conv
      /\ job'[j].todo = job[j].todo
  <2>1. ASSUME Goto(j, "create")
        PROVE  /\ Stepped(j) /\ job'[j].pc = "create"
               /\ job'[j].mine = job[j].mine /\ job'[j].conv = job[j].conv
               /\ job'[j].todo = job[j].todo
    BY <2>1, InvParts, JobNames, Moves DEF Pcs
  <2>2. CASE Prepare(m, chat[From[m]])
    <3>1. chat[From[m]] \in 0..MaxConvs
      BY InvParts, Ends DEF ConvTypesOK
    <3> QED
      BY <2>2, <3>1, PrepareMoves
  <2>3. CASE \E c \in Direct : Prepare(m, c)
    BY <2>3, Numbers, PrepareMoves
  <2> QED
    BY <2>1, <2>2, <2>3 DEF StartSend
<1>2. job[j].pc = "idle" /\ j \in Jobs
  BY JobNames DEF StartSend, At
<1>3. Kinds(j)'
  BY <1>1, SendKind
<1>4. \A x \in Jobs : Kinds(x)'
  BY <1>1, <1>2, <1>3, InvParts, KindsStay
<1>5. Keyring'
  <2>1. \A n \in Msgs : shown'[n] = "locked" => trouble[From[n]] \cup trouble[To(n)] # {}
    BY LocksStay DEF StartSend, seen
  <2> QED
    BY <1>1, <1>2, <2>1, KeyringStays DEF StartSend, server, seen, history, InitPcs, FetchPcs
<1>6. Meeting'
  BY <1>1, <1>2, MeetingStays, JobsDiffer DEF StartSend, convs, history
<1>7. chat' \in [Users -> 0..MaxConvs]
  <2>1. chat' = chat \/ \E c \in Direct : chat' = [chat EXCEPT ![From[m]] = c]
    BY DEF StartSend
  <2>2. chat \in [Users -> 0..MaxConvs] /\ Direct \subseteq 0..MaxConvs
    BY InvParts, Numbers DEF ConvTypesOK
  <2> QED
    BY <2>1, <2>2
<1>8. ConvTypesOK'
  BY <1>7, InvParts DEF ConvTypesOK, StartSend, convs, seen, history
<1>9. KeyTypesOK'
  BY InvParts, KeyTypesStay DEF StartSend, server, seen, history
<1> QED
  BY <1>1, <1>4, <1>5, <1>6, <1>8, <1>9, InvAgain DEF Stepped

\* For a step of a conversation, the rest of the invariant is a matter of form.
LEMMA MeetingSteps ==
  ASSUME Inv, NEW j \in Jobs, Stepped(j),
         UNCHANGED <<identity, signed, pairs, pair, disk, cache, box, trouble>>,
         job'[j].mine = job[j].mine,
         job'[j].pc \notin InitPcs \cup FetchPcs \cup {"upload", "open"},
         job[j].pc \notin InitPcs,
         \A m \in Msgs : shown'[m] = "locked" => shown[m] = "locked",
         Kinds(j)', ConvTypesOK', Meeting'
  PROVE  Inv'
<1>1. \A x \in Jobs : Kinds(x)'
  BY InvParts, KindsStay
<1>2. Keyring'
  BY LocksStay, KeyringStays
<1>3. KeyTypesOK'
  BY InvParts, KeyTypesStay
<1> QED
  BY <1>1, <1>2, <1>3, InvAgain DEF Stepped

\* A conversation is created, by a request or for a message.
LEMMA NewConversationIsSingle ==
  ASSUME Inv, NEW c \in Convs, NewConversation(c)
  PROVE  /\ members' \in [Convs -> SUBSET Users] /\ members'[c] = Users
         /\ \A d \in Convs : members[d] \subseteq members'[d]
         /\ \A d \in Convs : d # c => members'[d] = members[d]
         /\ raced' \in BOOLEAN /\ (raced => raced')
         /\ ~raced' => \A d \in Direct' : d = c
<1>1. /\ members \in [Convs -> SUBSET Users] /\ raced \in BOOLEAN
      /\ members' = [members EXCEPT ![c] = Users]
      /\ raced' = (raced \/ Direct # {}) /\ members[c] = {}
  BY InvParts DEF NewConversation, ConvTypesOK, Unused
<1>2. /\ members' \in [Convs -> SUBSET Users] /\ members'[c] = Users
      /\ \A d \in Convs : d # c => members'[d] = members[d]
  BY <1>1
<1>3. ASSUME ~raced', NEW d \in Direct' PROVE d = c
  <2>1. d \in Convs /\ members'[d] = Users
    BY <1>3 DEF Direct
  <2>2. d # c => d \in Direct
    BY <1>2, <2>1 DEF Direct
  <2> QED
    BY <1>1, <1>3, <2>2
<1>4. raced' \in BOOLEAN /\ (raced => raced')
  BY <1>1
<1> QED
  BY <1>1, <1>2, <1>3, <1>4

\* Members only come in, while one message goes on.
LEMMA PlacesStay ==
  ASSUME Inv, NEW j \in Jobs, Stepped(j), UNCHANGED <<stored, hidden, swept>>,
         \A d \in Convs : members[d] \subseteq members'[d],
         \A m \in Msgs : j # Open(m), \A m \in Msgs : j = Send(m) => Placed(m)',
         \A u \in Users : j # Delete(u)
  PROVE  (\A m \in Msgs : Placed(m)') /\ \A u \in Users : Sweeping(u)'
<1>1. ASSUME NEW m \in Msgs PROVE Placed(m)'
  <2>1. Placed(m) /\ stored[m] \in 0..MaxConvs
    BY InvParts DEF ConvTypesOK
  <2>2. job'[Open(m)] = job[Open(m)]
    BY JobNames DEF Stepped
  <2>3. CASE j # Send(m)
    <3>1. job'[Send(m)] = job[Send(m)]
      BY <2>3, JobNames DEF Stepped
    <3>2. m \notin swept /\ (job[Send(m)].pc = "insert" \/ stored[m] # 0) =>
            To(m) \in members'[job[Send(m)].conv]
      BY <2>1 DEF Placed, Convs
    <3> QED
      BY <2>1, <2>2, <3>1, <3>2 DEF Placed
  <2> QED
    BY <2>3
<1>2. ASSUME NEW u \in Users PROVE Sweeping(u)'
  <2>1. job'[Delete(u)] = job[Delete(u)] /\ Sweeping(u)
    BY JobNames, InvParts DEF Stepped
  <2> QED
    BY <2>1 DEF Sweeping
<1> QED
  BY <1>1, <1>2

LEMMA CreateForPhoneStep ==
  ASSUME Inv, NEW m \in Msgs, NEW c \in Convs, CreateForPhone(m, c) PROVE Inv'
<1> DEFINE j == Send(m)
<1>1. /\ Stepped(j) /\ job'[j].pc \in {"init", "route"} /\ job[j].pc = "create"
      /\ job'[j].mine = job[j].mine /\ job'[j].conv = job[j].conv
      /\ job'[j].todo = job[j].todo /\ j \in Jobs
  BY PrepareMoves, JobNames, Numbers DEF CreateForPhone, At
<1>2. Placed(m) /\ UNCHANGED <<stored, hidden, swept, shown>>
  BY InvParts DEF CreateForPhone, seen
<1>3. Placed(m)'
  <2>1. job'[Open(m)] = job[Open(m)]
    BY <1>1, JobNames, JobsDiffer DEF Stepped
  <2> QED
    BY <1>1, <1>2, <2>1 DEF Placed
<1>4. (\A n \in Msgs : Placed(n)') /\ \A u \in Users : Sweeping(u)'
  <2>1. \A n \in Msgs : j # Open(n) /\ (j = Send(n) => n = m)
    BY JobsDiffer
  <2>2. \A u \in Users : j # Delete(u)
    BY JobsDiffer
  <2>3. \A d \in Convs : members[d] \subseteq members'[d]
    BY NewConversationIsSingle DEF CreateForPhone
  <2> QED
    BY <1>1, <1>2, <1>3, <2>1, <2>2, <2>3, PlacesStay
<1>5. Single'
  <2>1. \A n \in Msgs : j = Send(n) => Found(n)'
    BY <1>1 DEF Found, At
  <2> QED
    BY <1>1, <2>1, NewConversationIsSingle, SingleStays DEF CreateForPhone
<1>6. ConvTypesOK'
  <2>1. chat' \in [Users -> 0..MaxConvs]
    BY InvParts, Ends DEF CreateForPhone, ConvTypesOK, Convs
  <2> QED
    BY <2>1, InvParts, NewConversationIsSingle DEF CreateForPhone, ConvTypesOK, seen
<1>7. Kinds(j)'
  BY <1>1, SendKind
<1> QED
  BY <1>1, <1>2, <1>4, <1>5, <1>6, <1>7, MeetingSteps
     DEF Meeting, CreateForPhone, server, seen, InitPcs, FetchPcs

LEMMA CreateForMessageStep ==
  ASSUME Inv, NEW m \in Msgs, NEW c \in Convs, CreateForMessage(m, c) PROVE Inv'
<1> DEFINE j == Send(m)
<1>1. /\ Stepped(j) /\ job'[j].pc = "join" /\ job[j].pc = "make"
      /\ job'[j].mine = job[j].mine /\ job'[j].conv = c /\ j \in Jobs
  <2>1. c \in 0..MaxConvs /\ "join" \in Pcs /\ j \in Jobs /\ job[j].pc = "make"
        /\ job' = [job EXCEPT ![j].pc = "join", ![j].conv = c]
    BY JobNames, Numbers DEF CreateForMessage, At, Pcs
  <2> QED
    BY <2>1, InvParts, MovesWithConv
<1>2. Placed(m) /\ UNCHANGED <<stored, hidden, swept, shown>>
  BY InvParts DEF CreateForMessage, seen
<1>3. Placed(m)'
  <2>1. job'[Open(m)] = job[Open(m)]
    BY <1>1, JobNames, JobsDiffer DEF Stepped
  <2> QED
    BY <1>1, <1>2, <2>1 DEF Placed
<1>4. (\A n \in Msgs : Placed(n)') /\ \A u \in Users : Sweeping(u)'
  <2>1. \A n \in Msgs : j # Open(n) /\ (j = Send(n) => n = m)
    BY JobsDiffer
  <2>2. \A u \in Users : j # Delete(u)
    BY JobsDiffer
  <2>3. \A d \in Convs : members[d] \subseteq members'[d]
    BY NewConversationIsSingle DEF CreateForMessage
  <2> QED
    BY <1>1, <1>2, <1>3, <2>1, <2>2, <2>3, PlacesStay
<1>5. Single'
  <2>1. \A n \in Msgs : j = Send(n) => Found(n)'
    BY <1>1, NewConversationIsSingle DEF CreateForMessage, Found, At
  <2> QED
    BY <1>1, <2>1, NewConversationIsSingle, SingleStays DEF CreateForMessage
<1>6. ConvTypesOK'
  BY InvParts, NewConversationIsSingle DEF CreateForMessage, ConvTypesOK, seen, phones
<1>7. Kinds(j)'
  BY <1>1, SendKind
<1> QED
  BY <1>1, <1>2, <1>4, <1>5, <1>6, <1>7, MeetingSteps
     DEF Meeting, CreateForMessage, server, phones, seen, InitPcs, FetchPcs

LEMMA RouteStep ==
  ASSUME Inv, NEW m \in Msgs, Route(m) PROVE Inv'
<1> DEFINE j == Send(m)
<1>1. /\ Stepped(j) /\ job[j].pc = "route" /\ job'[j].mine = job[j].mine /\ j \in Jobs
      /\ \/ job'[j].pc = "make" /\ job'[j].conv = job[j].conv
         \/ job'[j].pc = "join" /\ job'[j].conv \in Direct
  <2>1. ASSUME Goto(j, "make")
        PROVE  /\ Stepped(j) /\ job'[j].pc = "make" /\ job'[j].mine = job[j].mine
               /\ job'[j].conv = job[j].conv
    BY <2>1, InvParts, JobNames, Moves DEF Pcs
  <2>2. ASSUME NEW c \in Direct, job' = [job EXCEPT ![j].pc = "join", ![j].conv = c]
        PROVE  /\ Stepped(j) /\ job'[j].pc = "join" /\ job'[j].mine = job[j].mine
               /\ job'[j].conv = c
    <3>1. c \in 0..MaxConvs /\ "join" \in Pcs /\ j \in Jobs
      BY <2>2, JobNames, Numbers DEF Pcs
    <3> QED
      BY <2>2, <3>1, InvParts, MovesWithConv
  <2> QED
    BY <2>1, <2>2, JobNames DEF Route, At
<1>2. Placed(m) /\ UNCHANGED <<members, stored, hidden, swept, raced, shown>>
  BY InvParts DEF Route, convs, seen, history
<1>3. Placed(m)'
  <2>1. job'[Open(m)] = job[Open(m)]
    BY <1>1, JobNames, JobsDiffer DEF Stepped
  <2> QED
    BY <1>1, <1>2, <2>1 DEF Placed, Direct
<1>4. (\A n \in Msgs : Placed(n)') /\ \A u \in Users : Sweeping(u)'
  <2>1. \A n \in Msgs : j # Open(n) /\ (j = Send(n) => n = m)
    BY JobsDiffer
  <2>2. \A u \in Users : j # Delete(u)
    BY JobsDiffer
  <2> QED
    BY <1>1, <1>2, <1>3, <2>1, <2>2, PlacesStay
<1>5. Single'
  <2>1. \A n \in Msgs : j = Send(n) => Found(n)'
    BY <1>1, <1>2 DEF Found, Direct, At
  <2>2. members' \in [Convs -> SUBSET Users]
    BY <1>2, InvParts DEF ConvTypesOK
  <2>3. ~raced' => \A c, d \in Direct' : c = d
    BY <1>2, InvParts DEF Single, Direct
  <2> QED
    BY <1>1, <1>2, <2>1, <2>2, <2>3, SingleStays
<1>6. ConvTypesOK'
  BY InvParts DEF Route, ConvTypesOK, convs, seen, phones, history
<1>7. Kinds(j)'
  BY <1>1, SendKind
<1> QED
  BY <1>1, <1>2, <1>4, <1>5, <1>6, <1>7, MeetingSteps
     DEF Meeting, Route, server, phones, seen, history, InitPcs, FetchPcs

LEMMA KeepSentStep ==
  ASSUME Inv, NEW m \in Msgs, KeepSent(m) PROVE Inv'
<1> DEFINE j == Send(m)
           c == job[j].sent
<1>1. c \in 0..MaxConvs /\ c \in Convs
  <2>1. c \in 0..MaxConvs /\ c # 0
    BY InvParts, JobNames, JobType DEF KeepSent
  <2> QED
    BY <2>1, ContactAssumption DEF Convs
<1>2. /\ Stepped(j) /\ job[j].pc \in {"route", "make"} /\ job'[j].pc = "join"
      /\ job'[j].mine = job[j].mine /\ job'[j].conv = c /\ j \in Jobs
  <2>1. "join" \in Pcs /\ j \in Jobs /\ job[j].pc \in {"route", "make"}
        /\ job' = [job EXCEPT ![j].pc = "join", ![j].conv = c]
    BY JobNames DEF KeepSent, Pcs
  <2> QED
    BY <1>1, <2>1, InvParts, MovesWithConv
<1>3. Placed(m) /\ UNCHANGED <<members, stored, hidden, swept, shown>>
  BY InvParts DEF KeepSent, convs, seen
<1>4. raced' = (raced \/ c \notin Direct) /\ raced \in BOOLEAN
  BY InvParts DEF KeepSent, ConvTypesOK
<1>5. Placed(m)'
  <2>1. job'[Open(m)] = job[Open(m)]
    BY <1>2, JobNames, JobsDiffer DEF Stepped
  <2> QED
    BY <1>1, <1>2, <1>3, <2>1 DEF Placed
<1>6. (\A n \in Msgs : Placed(n)') /\ \A u \in Users : Sweeping(u)'
  <2>1. \A n \in Msgs : j # Open(n) /\ (j = Send(n) => n = m)
    BY JobsDiffer
  <2>2. \A u \in Users : j # Delete(u)
    BY JobsDiffer
  <2> QED
    BY <1>2, <1>3, <1>5, <2>1, <2>2, PlacesStay
<1>7. Single'
  <2>1. ASSUME NEW n \in Msgs, j = Send(n), ~raced' PROVE Found(n)'
    <3>1. members'[c] = Users
      BY <1>3, <1>4, <2>1 DEF Direct
    <3> QED
      BY <1>2, <2>1, <3>1 DEF Found, At
  <2>2. members' \in [Convs -> SUBSET Users]
    BY <1>3, InvParts DEF ConvTypesOK
  <2>3. ~raced' => \A d, e \in Direct' : d = e
    BY <1>3, <1>4, InvParts DEF Single, Direct
  <2> QED
    BY <1>2, <1>3, <1>4, <2>1, <2>2, <2>3, SingleStays
<1>8. ConvTypesOK'
  <2>1. raced' \in BOOLEAN
    BY <1>4
  <2> QED
    BY <1>3, <2>1, InvParts DEF KeepSent, ConvTypesOK, phones
<1>9. Kinds(j)'
  BY <1>2, SendKind
<1> QED
  BY <1>2, <1>3, <1>6, <1>7, <1>8, <1>9, MeetingSteps
     DEF Meeting, KeepSent, server, phones, seen, InitPcs, FetchPcs

\* createMessage puts a user back, who is there already unless there was a race.
LEMMA EnterStep ==
  ASSUME Inv, NEW m \in Msgs, NEW u \in Users, NEW from, NEW to,
         \/ from = "join" /\ to = "joinTo"
         \/ from = "joinTo" /\ to = "insert" /\ u = To(m),
         from = "join" => u = From[m],
         Enter(m, u, from, to)
  PROVE  Inv'
<1> DEFINE j == Send(m)
           c == job[j].conv
<1>1. /\ Stepped(j) /\ job[j].pc = from /\ job'[j].pc = to
      /\ job'[j].mine = job[j].mine /\ job'[j].conv = c /\ j \in Jobs
  <2>1. to \in Pcs /\ Goto(j, to) /\ j \in Jobs
    BY JobNames DEF Enter, Pcs
  <2> QED
    BY <2>1, InvParts, Moves DEF Enter, At
<1>2. Placed(m) /\ UNCHANGED <<stored, hidden, swept, raced, shown>> /\ c \in Convs
  BY <1>1, InvParts DEF Enter, seen, history, Placed
<1>3. /\ members' \in [Convs -> SUBSET Users] /\ members'[c] = members[c] \cup {u}
      /\ \A d \in Convs : members[d] \subseteq members'[d]
      /\ \A d \in Convs : d # c => members'[d] = members[d]
  BY <1>2, InvParts DEF Enter, ConvTypesOK
<1>4. Placed(m)'
  <2>1. job'[Open(m)] = job[Open(m)]
    BY <1>1, JobNames, JobsDiffer DEF Stepped
  <2>2. stored[m] = 0
    BY <1>1, <1>2 DEF Placed
  <2>3. <<m, To(m)>> \notin hidden
    BY <1>2, <2>2, Ends DEF Placed
  <2>4. to = "insert" => To(m) \in members'[c]
    BY <1>3
  <2> QED
    BY <1>1, <1>2, <2>1, <2>2, <2>3, <2>4, Ends DEF Placed
<1>5. (\A n \in Msgs : Placed(n)') /\ \A v \in Users : Sweeping(v)'
  <2>1. \A n \in Msgs : j # Open(n) /\ (j = Send(n) => n = m)
    BY JobsDiffer
  <2>2. \A v \in Users : j # Delete(v)
    BY JobsDiffer
  <2> QED
    BY <1>1, <1>2, <1>3, <1>4, <2>1, <2>2, PlacesStay
<1>6. Single'
  <2>1. ~raced => u \in members[c] /\ (from = "join" => members[c] = Users)
    BY <1>1, InvParts DEF Single, Found, At
  <2>2. ~raced => \A d \in Convs : members'[d] = members[d]
    BY <1>3, <2>1
  <2>3. ~raced => Direct' = Direct
    BY <2>2 DEF Direct
  <2>4. ASSUME NEW n \in Msgs, j = Send(n), ~raced PROVE Found(n)'
    <3>1. n = m /\ To(m) \in Users
      BY <2>4, JobsDiffer, Ends
    <3>2. to = "joinTo" => To(m) \in members'[c]
      BY <1>2, <2>1, <2>2, <2>4, <3>1
    <3> QED
      BY <1>1, <3>1, <3>2 DEF Found, At
  <2> QED
    BY <1>1, <1>2, <1>3, <2>3, <2>4, InvParts, SingleStays DEF Single
<1>7. ConvTypesOK'
  BY <1>3, InvParts DEF Enter, ConvTypesOK, seen, phones, history
<1>8. Kinds(j)'
  BY <1>1, SendKind
<1> QED
  BY <1>1, <1>2, <1>5, <1>6, <1>7, <1>8, MeetingSteps
     DEF Meeting, Enter, server, phones, seen, history, InitPcs, FetchPcs

LEMMA JoinStep ==
  ASSUME Inv, NEW m \in Msgs, JoinSender(m) \/ JoinReceiver(m) PROVE Inv'
<1>1. CASE JoinSender(m)
  BY <1>1, Ends, EnterStep DEF JoinSender
<1>2. CASE JoinReceiver(m)
  BY <1>2, Ends, EnterStep DEF JoinReceiver
<1> QED
  BY <1>1, <1>2

LEMMA InsertStep ==
  ASSUME Inv, NEW m \in Msgs, Insert(m) PROVE Inv'
<1> DEFINE j == Send(m)
           c == job[j].conv
<1>1. /\ Stepped(j) /\ job[j].pc = "insert" /\ job'[j].pc = "done"
      /\ job'[j].mine = job[j].mine /\ job'[j].conv = c /\ j \in Jobs
  BY InvParts, JobNames, Moves DEF Insert, At, Pcs
<1>2. Placed(m) /\ UNCHANGED <<members, hidden, swept, raced>> /\ c \in Convs /\ c \in Nat \ {0}
  BY <1>1, InvParts, ContactAssumption DEF Insert, history, Placed, Convs
<1>3. /\ stored \in [Msgs -> 0..MaxConvs] /\ stored' \in [Msgs -> 0..MaxConvs]
      /\ stored[m] = 0 /\ stored'[m] = c
      /\ \A n \in Msgs : n # m => stored'[n] = stored[n]
  BY <1>1, <1>2, Numbers, InvParts DEF Insert, ConvTypesOK, Placed
<1>4. ASSUME NEW n \in Msgs PROVE Placed(n)'
  <2>1. CASE n = m
    <3>1. job'[Open(m)] = job[Open(m)]
      BY <1>1, JobNames, JobsDiffer DEF Stepped
    <3> QED
      BY <1>1, <1>2, <1>3, <2>1, <3>1 DEF Placed
  <2>2. CASE n # m
    <3>1. job'[Open(n)] = job[Open(n)] /\ job'[Send(n)] = job[Send(n)]
      BY <1>1, <2>2, JobNames, JobsDiffer DEF Stepped
    <3>2. Placed(n) /\ stored'[n] = stored[n]
      BY <1>3, <2>2, InvParts
    <3> QED
      BY <1>2, <3>1, <3>2 DEF Placed
  <2> QED
    BY <2>1, <2>2
<1>5. ASSUME NEW u \in Users PROVE Sweeping(u)'
  <2>1. job'[Delete(u)] = job[Delete(u)] /\ Sweeping(u)
    BY <1>1, InvParts, JobNames, JobsDiffer DEF Stepped
  <2>2. ASSUME job[Delete(u)].pc = "hide", NEW n \in job[Delete(u)].todo
        PROVE  stored'[n] = job[Delete(u)].conv
    <3>1. n \in Msgs /\ stored[n] = job[Delete(u)].conv /\ job[Delete(u)].conv \in Convs
      BY <2>1, <2>2, JobType, JobNames, InvParts DEF Sweeping
    <3>2. job[Delete(u)].conv # 0
      BY <3>1, ContactAssumption DEF Convs
    <3> QED
      BY <1>3, <3>1, <3>2
  <2> QED
    BY <2>1, <2>2 DEF Sweeping
<1>6. Single'
  <2>1. \A n \in Msgs : j = Send(n) => Found(n)'
    BY <1>1 DEF Found, At
  <2>2. members' \in [Convs -> SUBSET Users]
    BY <1>2, InvParts DEF ConvTypesOK
  <2>3. ~raced' => \A d, e \in Direct' : d = e
    BY <1>2, InvParts DEF Single, Direct
  <2> QED
    BY <1>1, <1>2, <2>1, <2>2, <2>3, SingleStays
<1>7. shown' \in [Msgs -> {"nothing", "text", "locked"}]
      /\ \A n \in Msgs : shown'[n] = "locked" => shown[n] = "locked"
  BY InvParts DEF Insert, ConvTypesOK
<1>8. chat' \in [Users -> 0..MaxConvs]
  BY <1>2, Numbers, InvParts DEF Insert, Meet, ConvTypesOK
<1>9. ConvTypesOK'
  BY <1>3, <1>7, <1>8, InvParts DEF Insert, ConvTypesOK, history
<1>10. Kinds(j)'
  BY <1>1, SendKind
<1> QED
  BY <1>1, <1>4, <1>5, <1>6, <1>7, <1>9, <1>10, MeetingSteps
     DEF Meeting, Insert, server, history, InitPcs, FetchPcs

-----------------------------------------------------------------------------
(* Deleting a chat.                                                        *)

LEMMA DeleteKind ==
  ASSUME NEW u \in Users, job'[Delete(u)].pc \in {"idle", "leave", "list", "hide", "done"}
  PROVE  Kinds(Delete(u))'
<1>1. Delete(u).kind = "delete"
  BY JobFacts
<1> QED
  BY <1>1 DEF Kinds

\* The jobs of the messages go on being what they are.
LEMMA DeleteLeavesMessages ==
  ASSUME Inv, NEW u \in Users, Stepped(Delete(u))
  PROVE  /\ \A m \in Msgs : job'[Send(m)] = job[Send(m)] /\ job'[Open(m)] = job[Open(m)]
         /\ \A v \in Users : v # u => job'[Delete(v)] = job[Delete(v)]
  BY JobNames, JobsDiffer DEF Stepped

LEMMA DeleteIsIdle ==
  ASSUME Inv, NEW u \in Users
  PROVE  job[Delete(u)].pc \in {"idle", "leave", "list", "hide", "done"}
<1>1. Delete(u).kind = "delete" /\ Delete(u) \in Jobs
  BY JobFacts, JobNames
<1> QED
  BY <1>1, InvParts DEF Kinds

\* While nobody joins or leaves, the conversations stay what they are.
LEMMA DeleteGoesOn ==
  ASSUME Inv, NEW u \in Users, Stepped(Delete(u)), UNCHANGED <<members, stored, raced>>,
         swept \subseteq swept',
         \A m \in Msgs \ swept' : <<m, To(m)>> \in hidden' => <<m, To(m)>> \in hidden,
         \A m \in Msgs, v \in Users : <<m, v>> \in hidden' => stored[m] # 0,
         Sweeping(u)'
  PROVE  Meeting'
<1>1. ASSUME NEW m \in Msgs PROVE Placed(m)'
  <2>1. Placed(m)
    BY InvParts
  <2> QED
    BY <2>1, DeleteLeavesMessages DEF Placed
<1>2. ASSUME NEW v \in Users PROVE Sweeping(v)'
  <2>1. CASE v # u
    <3>1. Sweeping(v)
      BY InvParts
    <3> QED
      BY <2>1, <3>1, DeleteLeavesMessages DEF Sweeping
  <2> QED
    BY <2>1
<1>3. Single'
  BY InvParts, DeleteLeavesMessages DEF Single, Found, At, Direct
<1> QED
  BY <1>1, <1>2, <1>3 DEF Meeting

LEMMA StartDeleteStep ==
  ASSUME Inv, NEW u \in Users, StartDelete(u) PROVE Inv'
<1> DEFINE j == Delete(u)
<1>1. chat[u] \in 0..MaxConvs /\ chat[u] # 0 /\ chat[u] \in Convs /\ j \in Jobs /\ "leave" \in Pcs
  BY InvParts, JobNames, ContactAssumption DEF StartDelete, ConvTypesOK, Convs, Pcs
<1>2. /\ Stepped(j) /\ job[j].pc \in {"idle", "done"} /\ job'[j].pc = "leave"
      /\ job'[j].mine = job[j].mine /\ job'[j].conv = chat[u]
  <2>1. job[j].pc \in {"idle", "done"} /\ job' = [job EXCEPT ![j].pc = "leave", ![j].conv = chat[u]]
    BY DEF StartDelete
  <2>2. job \in [Jobs -> Tasks] /\ j \in Jobs /\ "leave" \in Pcs /\ chat[u] \in 0..MaxConvs
    BY <1>1, InvParts
  <2>3. /\ Stepped(j) /\ job'[j].pc = "leave" /\ job'[j].conv = chat[u]
        /\ job'[j].mine = job[j].mine
    BY <2>1, <2>2, MovesWithConv
  <2> QED
    BY <2>1, <2>3
<1>3. UNCHANGED <<members, stored, hidden, swept, raced, shown>>
  BY DEF StartDelete, convs, seen
<1>4. Sweeping(u)'
  BY <1>1, <1>2 DEF Sweeping
<1>5. \A m \in Msgs, v \in Users : <<m, v>> \in hidden' => stored[m] # 0
  BY <1>3, InvParts DEF Placed
<1>6. Meeting'
  BY <1>2, <1>3, <1>4, <1>5, DeleteGoesOn
<1>7. chat' \in [Users -> 0..MaxConvs] /\ deletes' \in Nat
  <2>1. 0 \in 0..MaxConvs /\ chat \in [Users -> 0..MaxConvs] /\ deletes \in Nat
    BY InvParts, ContactAssumption DEF ConvTypesOK
  <2>2. UNCHANGED chat \/ chat' = [chat EXCEPT ![u] = 0]
    BY DEF StartDelete
  <2>3. deletes' = deletes + 1
    BY DEF StartDelete
  <2> QED
    BY <2>1, <2>2, <2>3
<1>8. ConvTypesOK'
  BY <1>3, <1>7, InvParts DEF StartDelete, ConvTypesOK
<1>9. Kinds(j)'
  BY <1>2, DeleteKind
<1> QED
  BY <1>1, <1>2, <1>3, <1>6, <1>8, <1>9, MeetingSteps
     DEF StartDelete, server, seen, InitPcs, FetchPcs

LEMMA LeaveStep ==
  ASSUME Inv, NEW u \in Users, Leave(u) PROVE Inv'
<1> DEFINE j == Delete(u)
           c == job[j].conv
<1>1. /\ Stepped(j) /\ job[j].pc = "leave" /\ job'[j].pc = "list"
      /\ job'[j].mine = job[j].mine /\ job'[j].conv = c /\ j \in Jobs
  BY InvParts, JobNames, Moves DEF Leave, At, Pcs
<1>2. UNCHANGED <<stored, hidden, shown>> /\ c \in Convs
  BY <1>1, InvParts DEF Leave, seen, Sweeping
<1>3. /\ members \in [Convs -> SUBSET Users] /\ members' \in [Convs -> SUBSET Users]
      /\ members'[c] = members[c] \ {u}
      /\ \A d \in Convs : d # c => members'[d] = members[d]
  BY <1>2, InvParts DEF Leave, ConvTypesOK
<1>4. /\ swept' = swept \cup Routed(u, c)
      /\ raced' = (raced \/ Returns(u, c))
      /\ raced \in BOOLEAN /\ swept \subseteq Msgs
  BY InvParts DEF Leave, ConvTypesOK
<1>5. ASSUME NEW m \in Msgs PROVE Placed(m)'
  <2>1. Placed(m) /\ job'[Send(m)] = job[Send(m)] /\ job'[Open(m)] = job[Open(m)]
    BY <1>1, InvParts, DeleteLeavesMessages
  <2>2. ASSUME m \notin swept', job[Send(m)].pc = "insert" \/ stored[m] # 0
        PROVE  To(m) \in members'[job[Send(m)].conv]
    <3>1. m \notin swept /\ ~(To(m) = u /\ job[Send(m)].conv = c)
      BY <1>4, <2>2 DEF Routed
    <3>2. To(m) \in members[job[Send(m)].conv]
      BY <2>1, <2>2, <3>1 DEF Placed
    <3>3. job[Send(m)].conv \in Convs
      <4>1. stored[m] \in 0..MaxConvs
        BY InvParts DEF ConvTypesOK
      <4> QED
        BY <2>1, <2>2, <4>1, ContactAssumption DEF Placed, Convs
    <3> QED
      BY <1>3, <3>1, <3>2, <3>3
  <2> QED
    BY <1>2, <1>4, <2>1, <2>2 DEF Placed
<1>6. ASSUME NEW v \in Users PROVE Sweeping(v)'
  <2>1. CASE v = u
    BY <1>1, <1>2, <2>1 DEF Sweeping
  <2>2. CASE v # u
    <3>1. Sweeping(v) /\ job'[Delete(v)] = job[Delete(v)]
      BY <1>1, <2>2, InvParts, DeleteLeavesMessages
    <3> QED
      BY <1>2, <3>1 DEF Sweeping
  <2> QED
    BY <2>1, <2>2
<1>7. Single'
  <2>1. ~raced' => ~raced /\ ~Returns(u, c)
    BY <1>4
  <2>2. Direct' \subseteq Direct
    BY <1>3 DEF Direct
  <2>3. ASSUME NEW n \in Msgs, ~raced' PROVE Found(n)'
    <3>1. job'[Send(n)] = job[Send(n)] /\ Found(n) /\ Placed(n)
      BY <1>1, <2>1, <2>3, DeleteLeavesMessages, InvParts DEF Single
    <3>2. CASE At(Send(n), "join")
      <4>1. job[Send(n)].conv # c /\ job[Send(n)].conv \in Convs
        BY <2>1, <2>3, <3>1, <3>2 DEF Returns, Placed, At
      <4> QED
        BY <1>3, <3>1, <3>2, <4>1 DEF Found, At
    <3>3. CASE At(Send(n), "joinTo")
      <4>1. /\ job[Send(n)].conv # c \/ To(n) # u
            /\ job[Send(n)].conv \in Convs
        BY <2>1, <2>3, <3>1, <3>3 DEF Returns, Placed, At
      <4> QED
        BY <1>3, <3>1, <3>3, <4>1 DEF Found, At
    <3> QED
      BY <3>1, <3>2, <3>3 DEF Found, At
  <2> QED
    BY <2>1, <2>2, <2>3, InvParts DEF Single
<1>8. ConvTypesOK'
  <2>1. swept' \subseteq Msgs /\ raced' \in BOOLEAN
    BY <1>4 DEF Routed, Returns
  <2> QED
    BY <1>3, <2>1, InvParts DEF Leave, ConvTypesOK, seen, phones
<1>9. Kinds(j)'
  BY <1>1, DeleteKind
<1> QED
  BY <1>1, <1>2, <1>5, <1>6, <1>7, <1>8, <1>9, MeetingSteps
     DEF Meeting, Leave, server, phones, seen, InitPcs, FetchPcs

LEMMA ListMessagesStep ==
  ASSUME Inv, NEW u \in Users, ListMessages(u) PROVE Inv'
<1> DEFINE j == Delete(u)
           c == job[j].conv
           T == {m \in Msgs : stored[m] = c}
<1>1. /\ Stepped(j) /\ job[j].pc = "list" /\ job'[j].pc = "hide" /\ job'[j].todo = T
      /\ job'[j].mine = job[j].mine /\ job'[j].conv = c /\ j \in Jobs
  <2>1. T \in SUBSET Msgs /\ "hide" \in Pcs /\ j \in Jobs /\ job[j].pc = "list"
        /\ job' = [job EXCEPT ![j].pc = "hide", ![j].todo = T]
    BY JobNames DEF ListMessages, At, Pcs
  <2> HIDE DEF T
  <2> QED
    BY <2>1, InvParts, MovesWithTodo
<1>2. UNCHANGED <<members, stored, hidden, swept, raced, shown, chat, deletes, mishaps>>
      /\ c \in Convs
  BY <1>1, InvParts DEF ListMessages, seen, convs, history, phones, Sweeping
<1>3. Sweeping(u)'
  BY <1>1, <1>2 DEF Sweeping
<1>4. \A m \in Msgs, v \in Users : <<m, v>> \in hidden' => stored[m] # 0
  BY <1>2, InvParts DEF Placed
<1>5. Meeting'
  BY <1>1, <1>2, <1>3, <1>4, DeleteGoesOn
<1>6. ConvTypesOK'
  BY <1>2, InvParts DEF ConvTypesOK
<1>7. Kinds(j)'
  BY <1>1, DeleteKind
<1> QED
  BY <1>1, <1>2, <1>5, <1>6, <1>7, MeetingSteps
     DEF ListMessages, server, phones, seen, history, InitPcs, FetchPcs

LEMMA HideMessagesStep ==
  ASSUME Inv, NEW u \in Users, HideMessages(u) PROVE Inv'
<1> DEFINE j == Delete(u)
           c == job[j].conv
           T == job[j].todo
<1>1. /\ Stepped(j) /\ job[j].pc = "hide" /\ job'[j].pc = "done"
      /\ job'[j].mine = job[j].mine /\ j \in Jobs
  <2>1. {} \in SUBSET Msgs /\ "done" \in Pcs /\ j \in Jobs /\ job[j].pc = "hide"
        /\ job' = [job EXCEPT ![j].pc = "done", ![j].todo = {}]
    BY JobNames DEF HideMessages, At, Pcs
  <2> QED
    BY <2>1, InvParts, MovesWithTodo
<1>2. /\ UNCHANGED <<members, stored, raced, shown, chat, deletes, mishaps>>
      /\ swept' = swept \cup Routed(u, c) /\ hidden' = hidden \cup (T \X {u})
  BY DEF HideMessages, seen, phones
<1>3. Sweeping(u)'
  BY <1>1 DEF Sweeping
<1>4. T \subseteq Msgs /\ c \in Convs /\ \A m \in T : stored[m] = c
  BY <1>1, JobType, InvParts DEF Sweeping
<1>5. \A m \in Msgs, v \in Users : <<m, v>> \in hidden' => stored[m] # 0
  <2>1. c # 0
    BY <1>4, ContactAssumption DEF Convs
  <2> QED
    BY <1>2, <1>4, <2>1, InvParts DEF Placed
<1>6. ASSUME NEW m \in Msgs \ swept', <<m, To(m)>> \in hidden', <<m, To(m)>> \notin hidden
      PROVE  FALSE
  <2>1. m \in T /\ To(m) = u
    BY <1>2, <1>6
  <2>2. stored[m] = c /\ c # 0
    BY <1>4, <2>1, ContactAssumption DEF Convs
  <2>3. job[Send(m)].conv = c
    BY <2>2, InvParts DEF Placed
  <2>4. m \in Routed(u, c)
    BY <2>1, <2>3 DEF Routed
  <2> QED
    BY <1>2, <1>6, <2>4
<1>7. Meeting'
  BY <1>1, <1>2, <1>3, <1>5, <1>6, DeleteGoesOn
<1>8. ConvTypesOK'
  <2>1. hidden' \subseteq Msgs \X Users /\ swept' \subseteq Msgs
    BY <1>2, <1>4, InvParts DEF ConvTypesOK, Routed
  <2> QED
    BY <1>2, <2>1, InvParts DEF ConvTypesOK
<1>9. Kinds(j)'
  BY <1>1, DeleteKind
<1> QED
  BY <1>1, <1>2, <1>7, <1>8, <1>9, MeetingSteps
     DEF HideMessages, server, phones, seen, InitPcs, FetchPcs

-----------------------------------------------------------------------------
(* The gap fill.                                                           *)

LEMMA OpenKind ==
  ASSUME NEW m \in Msgs, job'[Open(m)].pc \in InitPcs \cup {"idle", "init", "open", "done"}
  PROVE  Kinds(Open(m))'
<1>1. Open(m).kind = "open"
  BY JobFacts
<1> QED
  BY <1>1 DEF Kinds

LEMMA GapFillStep ==
  ASSUME Inv, NEW m \in Msgs, GapFill(m) PROVE Inv'
<1> DEFINE j == Open(m)
<1>1. /\ Stepped(j) /\ job[j].pc = "idle" /\ job'[j].pc \in {"open", "init"}
      /\ (job'[j].pc = "open" => box[m] = Plain)
      /\ job'[j].mine = job[j].mine /\ job'[j].conv = job[j].conv
      /\ job'[j].todo = job[j].todo /\ j \in Jobs /\ stored[m] # 0 /\ j.of = m
  <2>1. PICK pc \in {"open", "init"} : Goto(j, pc) /\ (pc = "open" => box[m] = Plain)
    BY DEF GapFill
  <2>2. pc \in Pcs /\ j \in Jobs /\ j.of = m /\ stored[m] # 0 /\ job[j].pc = "idle"
    BY JobNames, JobFacts DEF GapFill, At, Pcs
  <2> QED
    BY <2>1, <2>2, InvParts, Moves
<1>2. Kinds(j)'
  BY <1>1, OpenKind
<1>3. \A x \in Jobs : Kinds(x)'
  BY <1>1, <1>2, InvParts, KindsStay
<1>4. Keyring'
  <2>1. \A n \in Msgs : shown'[n] = "locked" => trouble[From[n]] \cup trouble[To(n)] # {}
    BY LocksStay DEF GapFill, seen
  <2> QED
    BY <1>1, <2>1, KeyringStays DEF GapFill, server, seen, history, phones, InitPcs, FetchPcs
<1>5. Meeting'
  <2>1. \A n \in Msgs : j # Send(n) /\ (j = Open(n) => n = m)
    BY JobsDiffer
  <2> QED
    BY <1>1, <2>1, MeetingStays DEF GapFill, convs, history
<1>6. ConvTypesOK'
  BY InvParts DEF GapFill, ConvTypesOK, convs, seen, phones, history
<1>7. KeyTypesOK'
  BY InvParts, KeyTypesStay DEF GapFill, server, seen, phones, history
<1> QED
  BY <1>1, <1>3, <1>4, <1>5, <1>6, <1>7, InvAgain DEF Stepped

\* Without trouble on either side a box opens.
LEMMA CleanBoxOpens ==
  ASSUME Inv, NEW m \in Msgs, job[Open(m)].pc = "open",
         trouble[From[m]] = {}, trouble[To(m)] = {}
  PROVE  Opens(m, pair[To(m)])
<1>1. CASE box[m] = Plain
  BY <1>1 DEF Opens
<1>2. CASE box[m] # Plain
  <2>1. From[m] \in Users /\ To(m) \in Users /\ Open(m) \in Jobs /\ Open(m).of = m
        /\ Owner(Open(m)) = To(m)
    BY Ends, JobNames, JobFacts, Owners
  <2>2. PhoneClean(To(m)) /\ SpreadClean(To(m)) /\ SpreadClean(From[m])
    BY <2>1, InvParts DEF Clean
  <2>3. box[m].to # NoKey /\ box[m].by # NoKey /\ box[m].from # NoKey
    BY <1>2, InvParts DEF BoxReal
  <2>4. box[m].to = First(To(m)) /\ box[m].by = First(From[m]) /\ box[m].from = First(From[m])
    BY <2>2, <2>3 DEF SpreadClean, Ours
  <2>5. pair[To(m)] # NoPair
    BY <1>2, <2>1, InvParts DEF JobReal
  <2>6. pair[To(m)].sec = First(To(m))
    BY <2>2, <2>5, PairFacts DEF PhoneClean
  <2> QED
    BY <2>4, <2>6 DEF Opens
<1> QED
  BY <1>1, <1>2

LEMMA DecryptStep ==
  ASSUME Inv, NEW m \in Msgs, Decrypt(m) PROVE Inv'
<1> DEFINE j == Open(m)
<1>1. /\ Stepped(j) /\ job[j].pc = "open" /\ job'[j].pc = "done"
      /\ job'[j].mine = job[j].mine /\ job'[j].conv = job[j].conv
      /\ job'[j].todo = job[j].todo /\ j \in Jobs /\ stored[m] # 0
  <2>1. job[j].pc = "open" /\ Goto(j, "done") /\ "done" \in Pcs /\ j \in Jobs
    BY JobNames DEF Decrypt, At, Pcs
  <2>2. stored[m] # 0
    BY <2>1, InvParts DEF Placed
  <2> QED
    BY <2>1, <2>2, InvParts, Moves
<1>2. Kinds(j)'
  BY <1>1, OpenKind
<1>3. \A x \in Jobs : Kinds(x)'
  BY <1>1, <1>2, InvParts, KindsStay
<1>4. \A n \in Msgs : shown'[n] = "locked" => trouble[From[n]] \cup trouble[To(n)] # {}
  <2>1. ASSUME NEW n \in Msgs, shown'[n] = "locked"
        PROVE  trouble[From[n]] \cup trouble[To(n)] # {}
    <3>1. CASE n = m
      <4>1. ~Opens(m, pair[To(m)])
        BY <2>1, <3>1, InvParts DEF Decrypt, ConvTypesOK
      <4> QED
        BY <1>1, <3>1, <4>1, CleanBoxOpens
    <3>2. CASE n # m
      <4>1. shown[n] = "locked"
        BY <2>1, <3>2, InvParts DEF Decrypt, ConvTypesOK
      <4> QED
        BY <4>1, InvParts DEF LockedHasCause
    <3> QED
      BY <3>1, <3>2
  <2> QED
    BY <2>1
<1>5. Keyring'
  BY <1>1, <1>4, KeyringStays DEF Decrypt, server, history, InitPcs, FetchPcs
<1>6. Meeting'
  <2>1. \A n \in Msgs : j # Send(n) /\ (j = Open(n) => n = m)
    BY JobsDiffer
  <2> QED
    BY <1>1, <2>1, MeetingStays DEF Decrypt, convs, history
<1>7. ConvTypesOK'
  <2>1. shown' \in [Msgs -> {"nothing", "text", "locked"}]
    BY InvParts DEF Decrypt, ConvTypesOK
  <2>2. chat' \in [Users -> 0..MaxConvs]
    BY InvParts DEF Decrypt, Meet, ConvTypesOK
  <2> QED
    BY <2>1, <2>2, InvParts DEF Decrypt, ConvTypesOK, convs, history
<1>8. KeyTypesOK'
  BY InvParts, KeyTypesStay DEF Decrypt, server, history
<1> QED
  BY <1>1, <1>3, <1>5, <1>6, <1>7, <1>8, InvAgain DEF Stepped

-----------------------------------------------------------------------------
(* The directory.                                                          *)

\* A pair stays clean while a job steps that does not make it.
LEMMA PhoneStaysClean ==
  ASSUME Inv, NEW j \in Jobs, Stepped(j), NEW u \in Users, trouble[u] = {},
         pair'[u] = pair[u], pairs'[u] = pairs[u], disk'[u] = disk[u], identity'[u] \in Ours(u),
         \/ u # Owner(j)
         \/ /\ job[j].pc \notin InitPcs /\ job'[j].pc \notin InitPcs
            /\ job'[j].mine = job[j].mine
  PROVE  PhoneClean(u)'
<1>1. PhoneClean(u)
  BY InvParts DEF Clean
<1>2. \A x \in Jobs : Owner(x) = u =>
        \/ job'[x] = job[x]
        \/ /\ job[x].pc \notin InitPcs /\ job'[x].pc \notin InitPcs
           /\ job'[x].mine = job[x].mine
  BY DEF Stepped
<1>3. ASSUME NEW x \in Jobs, Owner(x) = u PROVE Creates(x)'
  <2>1. Creates(x)
    BY <1>1, <1>3 DEF PhoneClean
  <2>2. CASE job'[x] = job[x]
    BY <1>3, <2>1, <2>2 DEF Creates, Ours, First, FirstPair
  <2>3. CASE /\ job[x].pc \notin InitPcs /\ job'[x].pc \notin InitPcs
             /\ job'[x].mine = job[x].mine
    BY <1>3, <2>1, <2>3 DEF Creates, Ours, First, FirstPair, InitPcs
  <2> QED
    BY <1>2, <1>3, <2>2, <2>3
<1>4. OneCreates(u)'
  BY <1>1, <1>2 DEF PhoneClean, OneCreates, Creating
<1>5. Settled(u)'
  <2>1. CASE Untouched(u) \/ Complete(u)
    BY <2>1 DEF Settled, Untouched, Complete, First, FirstPair
  <2>2. CASE \E x \in Jobs : Owner(x) = u /\ job[x].pc \in Saving
    <3>1. PICK x \in Jobs : Owner(x) = u /\ job[x].pc \in Saving
      BY <2>2
    <3>2. job'[x] = job[x]
      BY <1>2, <3>1 DEF Saving, InitPcs
    <3> QED
      BY <3>1, <3>2 DEF Settled
  <2> QED
    BY <1>1, <2>1, <2>2 DEF PhoneClean, Settled
<1>6. pair[u] \in {NoPair, FirstPair(u)}
  BY <1>1 DEF PhoneClean
<1> QED
  BY <1>3, <1>4, <1>5, <1>6 DEF PhoneClean, Ours, First, FirstPair

\* The jobs that do not step keep what they need.
LEMMA JobsStayReal ==
  ASSUME Inv, NEW j \in Jobs, Stepped(j),
         \A u \in Users : pair[u] # NoPair => pair'[u] # NoPair,
         \A x \in Jobs : x # j /\ job[x].pc = "open" => box'[x.of] = box[x.of],
         JobReal(j)'
  PROVE  \A x \in Jobs : JobReal(x)'
<1>1. ASSUME NEW x \in Jobs, x # j PROVE JobReal(x)'
  <2>1. JobReal(x) /\ job'[x] = job[x] /\ Owner(x) \in Users
    BY <1>1, InvParts, JobCases DEF Stepped
  <2> QED
    BY <1>1, <2>1 DEF JobReal
<1> QED
  BY <1>1

\* Of the jobs, those that open a message are the gap fill's.
LEMMA Openers ==
  ASSUME Inv, NEW x \in Jobs, job[x].pc = "open"
  PROVE  \E n \in Msgs : x = Open(n) /\ x.of = n /\ stored[n] # 0
<1>1. Kinds(x)
  BY InvParts
<1>2. ~\E u \in Users : x = Register(u) \/ x = Delete(u)
  BY <1>1, JobFacts DEF Kinds, InitPcs
<1>3. ~\E n \in Msgs : x = Send(n)
  BY <1>1, JobFacts DEF Kinds, InitPcs, FetchPcs
<1>4. PICK n \in Msgs : x = Open(n)
  BY <1>2, <1>3, JobCases
<1>5. stored[n] # 0
  BY <1>4, InvParts DEF Placed
<1> QED
  BY <1>4, <1>5, JobFacts

LEMMA UploadStep ==
  ASSUME Inv, NEW u \in Users, Upload(u) PROVE Inv'
<1> DEFINE j == Register(u)
           k == job[j].mine
<1>1. /\ Stepped(j) /\ job[j].pc = "upload" /\ job'[j].pc = "done" /\ job'[j].mine = k
      /\ job'[j].conv = job[j].conv /\ job'[j].todo = job[j].todo /\ j \in Jobs
  BY InvParts, JobNames, Moves DEF Upload, At, Pcs
<1>2. UNCHANGED <<pairs, pair, disk, cache, box, trouble, shown>>
  BY DEF Upload, phones, seen
<1>3. identity \in [Users -> Keys] /\ signed \in [Users -> Keys] /\ k \in Keys /\ k # NoKey
      /\ Owner(j) = u
  BY <1>1, InvParts, JobType, Owners DEF KeyTypesOK, JobReal
<1>4. \/ UNCHANGED <<identity, signed>>
      \/ /\ identity' = [identity EXCEPT ![u] = k] /\ signed' = [signed EXCEPT ![u] = k]
  BY DEF Upload, server
<1>5. \A v \in Users : \/ identity'[v] = identity[v] /\ signed'[v] = signed[v]
                       \/ v = u /\ identity'[v] = k /\ signed'[v] = k
  BY <1>3, <1>4
<1>6. \A v \in Users : PairReal(v)' /\ DirectoryRight(v)'
  BY <1>2, <1>5, InvParts DEF PairReal, DirectoryRight
<1>7. ASSUME NEW m \in Msgs PROVE BoxReal(m)' /\ BundleRight(m)'
  <2>1. BoxReal(m) /\ BundleRight(m) /\ job'[Send(m)] = job[Send(m)] /\ To(m) \in Users
    BY <1>1, InvParts, JobNames, JobsDiffer, Ends DEF Stepped
  <2>2. signed'[To(m)] = NoKey => signed[To(m)] = NoKey /\ identity'[To(m)] = identity[To(m)]
    BY <1>3, <1>5, <2>1
  <2> QED
    BY <1>2, <2>1, <2>2 DEF BoxReal, BundleRight
<1>8. \A x \in Jobs : JobReal(x)'
  <2>1. JobReal(j)'
    BY <1>1 DEF JobReal, FetchPcs, Saving
  <2> QED
    BY <1>1, <1>2, <2>1, JobsStayReal
<1>9. ASSUME NEW v \in Users PROVE Clean(v)'
  <2> SUFFICES ASSUME trouble[v] = {} PROVE PhoneClean(v)' /\ SpreadClean(v)'
    BY <1>2 DEF Clean
  <2>1. PhoneClean(v) /\ SpreadClean(v)
    BY InvParts DEF Clean
  <2>2. identity'[v] \in Ours(v)
    <3>1. v = u => k \in Ours(v)
      BY <1>1, <1>3, <2>1 DEF PhoneClean, Creates
    <3> QED
      BY <1>5, <2>1, <3>1 DEF PhoneClean
  <2>3. PhoneClean(v)'
    BY <1>1, <1>2, <2>2, PhoneStaysClean DEF InitPcs
  <2>4. \A m \in Msgs : job'[Send(m)] = job[Send(m)]
    BY <1>1, JobNames, JobsDiffer DEF Stepped
  <2>5. SpreadClean(v)'
    BY <1>2, <2>1, <2>4 DEF SpreadClean, Ours, First
  <2> QED
    BY <2>3, <2>5
<1>10. LockedHasCause'
  BY <1>2, InvParts DEF LockedHasCause
<1>11. Keyring'
  BY <1>6, <1>7, <1>8, <1>9, <1>10 DEF Keyring
<1>12. Meeting'
  <2>1. \A n \in Msgs : j # Send(n) /\ j # Open(n)
    BY JobsDiffer
  <2> QED
    BY <1>1, <2>1, MeetingStays DEF Upload, convs
<1>13. Kinds(j)'
  BY <1>1, JobFacts DEF Kinds
<1>14. \A x \in Jobs : Kinds(x)'
  BY <1>1, <1>13, InvParts, KindsStay
<1>15. mishaps' \in Nat
  BY InvParts DEF Upload, Mishap, ConvTypesOK
<1>16. ConvTypesOK'
  BY <1>15, InvParts, ConvTypesStay DEF Upload, convs, phones, seen
<1>17. KeyTypesOK'
  <2>1. identity' \in [Users -> Keys] /\ signed' \in [Users -> Keys]
    BY <1>3, <1>4
  <2> QED
    BY <1>2, <2>1, InvParts DEF KeyTypesOK
<1> QED
  BY <1>1, <1>11, <1>12, <1>14, <1>16, <1>17, InvAgain DEF Stepped

-----------------------------------------------------------------------------
(* Finding a key.                                                          *)

\* What a fetch has to show; the rest of the invariant follows.
LEMMA FetchSteps ==
  ASSUME Inv, NEW m \in Msgs, Stepped(Send(m)), job[Send(m)].pc \in FetchPcs,
         job'[Send(m)].pc \in {"standIn", "signed", "signedIn", "route"},
         job'[Send(m)].mine = job[Send(m)].mine, job'[Send(m)].conv = job[Send(m)].conv,
         job'[Send(m)].todo = job[Send(m)].todo,
         job'[Send(m)].pc \in {"signed", "signedIn"} => job'[Send(m)].key # NoKey,
         UNCHANGED <<members, stored, hidden, pairs, pair, disk, chat, shown, raced, swept,
                     deletes>>,
         mishaps' \in Nat, KeyTypesOK',
         \A u \in Users : trouble'[u] = {} =>
           trouble[u] = {} /\ identity'[u] \in Ours(u) /\ SpreadClean(u)',
         \A u \in Users : DirectoryRight(u)',
         \A n \in Msgs : BundleRight(n)' /\ BoxReal(n)' /\ (n # m => box'[n] = box[n])
  PROVE  Inv'
<1> DEFINE j == Send(m)
<1>1. j \in Jobs /\ Owner(j) = From[m] /\ From[m] \in Users /\ Kinds(j) /\ Placed(m)
      /\ JobReal(j)
  BY JobNames, Owners, Ends, InvParts
<1>2. job[j].pc \notin InitPcs /\ job'[j].pc \notin InitPcs /\ stored[m] = 0
      /\ job[j].pc # "done" /\ job'[j].pc \notin {"join", "insert", "leave", "list", "hide"}
  BY <1>1 DEF InitPcs, FetchPcs, Placed
<1>3. \A u \in Users : PairReal(u)'
  BY InvParts DEF PairReal
<1>4. \A x \in Jobs : JobReal(x)'
  <2>1. JobReal(j)'
    BY <1>1 DEF JobReal, FetchPcs, Saving
  <2>2. ASSUME NEW x \in Jobs, x # j, job[x].pc = "open" PROVE box'[x.of] = box[x.of]
    <3>1. PICK n \in Msgs : x = Open(n) /\ x.of = n /\ stored[n] # 0
      BY <2>2, Openers
    <3> QED
      BY <1>2, <3>1
  <2> QED
    BY <1>1, <2>1, <2>2, JobsStayReal
<1>5. ASSUME NEW u \in Users PROVE Clean(u)'
  <2> SUFFICES ASSUME trouble'[u] = {} PROVE PhoneClean(u)' /\ SpreadClean(u)'
    BY DEF Clean
  <2>1. trouble[u] = {} /\ identity'[u] \in Ours(u) /\ SpreadClean(u)'
    OBVIOUS
  <2> QED
    BY <1>1, <1>2, <2>1, PhoneStaysClean
<1>6. LockedHasCause'
  <2>1. \A u \in Users : trouble'[u] = {} => trouble[u] = {}
    OBVIOUS
  <2> QED
    BY <2>1, InvParts, Ends DEF LockedHasCause
<1>7. Keyring'
  BY <1>3, <1>4, <1>5, <1>6 DEF Keyring
<1>8. Meeting'
  <2>1. \A n \in Msgs : j # Open(n) /\ (j = Send(n) => n = m)
    BY JobsDiffer
  <2> QED
    BY <1>1, <1>2, <2>1, MeetingStays
<1>9. \A x \in Jobs : Kinds(x)'
  <2>1. Kinds(j)'
    BY SendKind DEF FetchPcs
  <2> QED
    BY <1>1, <2>1, InvParts, KindsStay
<1>10. ConvTypesOK'
  BY InvParts, ConvTypesStay
<1> QED
  BY <1>7, <1>8, <1>9, <1>10, InvAgain DEF Stepped

\* What encryptMessage leaves: a real box, clean for whoever is without trouble.
LEMMA EncryptEffect ==
  ASSUME Inv, NEW m \in Msgs, job[Send(m)].pc \in FetchPcs, NEW theirs \in Keys, theirs # NoKey,
         trouble[To(m)] = {} => theirs \in Ours(To(m)), Encrypt(m, theirs)
  PROVE  /\ Stepped(Send(m)) /\ job'[Send(m)].pc = "route"
         /\ job'[Send(m)].mine = job[Send(m)].mine /\ job'[Send(m)].conv = job[Send(m)].conv
         /\ job'[Send(m)].todo = job[Send(m)].todo
         /\ box' \in [Msgs -> [to : Keys, by : Keys, from : Keys]]
         /\ \A n \in Msgs : BoxReal(n)' /\ (n # m => box'[n] = box[n])
         /\ \A u \in Users : trouble[u] = {} =>
              /\ \A n \in Msgs : To(n) = u => box'[n].to \in Ours(u)
              /\ \A n \in Msgs : From[n] = u => box'[n].by \in Ours(u) /\ box'[n].from \in Ours(u)
<1> DEFINE j == Send(m)
           b == [to |-> theirs, by |-> pair[From[m]].sec, from |-> job[Send(m)].mine]
<1>1. /\ j \in Jobs /\ Owner(j) = From[m] /\ From[m] \in Users /\ To(m) \in Users
      /\ To(m) # From[m]
  BY JobNames, Owners, Ends
<1>2. /\ Stepped(j) /\ job'[j].pc = "route" /\ job'[j].mine = job[j].mine
      /\ job'[j].conv = job[j].conv /\ job'[j].todo = job[j].todo
  BY <1>1, InvParts, Moves DEF Encrypt, Pcs
<1>3. pair[From[m]].sec \in Keys /\ pair[From[m]].sec # NoKey
      /\ job[j].mine \in Keys /\ job[j].mine # NoKey
  <2>1. pair[From[m]] # NoPair /\ job[j].mine # NoKey
    BY <1>1, InvParts DEF JobReal
  <2>2. pair[From[m]].sec # NoKey
    BY <1>1, <2>1, InvParts DEF PairReal
  <2>3. pair[From[m]].sec \in Keys
    BY <1>1, InvParts DEF KeyTypesOK
  <2> QED
    BY <1>1, <2>1, <2>2, <2>3, InvParts, JobType
<1>4. /\ b \in [to : Keys, by : Keys, from : Keys]
      /\ b.to = theirs /\ b.by = pair[From[m]].sec /\ b.from = job[j].mine
  BY <1>3
<1>5. box \in [Msgs -> [to : Keys, by : Keys, from : Keys]] /\ box' = [box EXCEPT ![m] = b]
  BY InvParts DEF Encrypt, KeyTypesOK
<1> HIDE DEF b
<1>6. /\ box' \in [Msgs -> [to : Keys, by : Keys, from : Keys]] /\ box'[m] = b
      /\ \A n \in Msgs : n # m => box'[n] = box[n]
  BY <1>4, <1>5
<1>7. ASSUME NEW n \in Msgs PROVE BoxReal(n)'
  BY <1>3, <1>4, <1>6, InvParts DEF BoxReal
<1>8. ASSUME NEW u \in Users, trouble[u] = {}, NEW n \in Msgs
      PROVE  /\ To(n) = u => box'[n].to \in Ours(u)
             /\ From[n] = u => box'[n].by \in Ours(u) /\ box'[n].from \in Ours(u)
  <2>1. PhoneClean(u) /\ SpreadClean(u)
    BY <1>8, InvParts DEF Clean
  <2>2. CASE n # m
    BY <1>6, <2>1, <2>2 DEF SpreadClean
  <2>3. CASE n = m
    <3>1. From[m] = u => pair[u].sec \in Ours(u)
      BY <2>1, PairFacts DEF PhoneClean, Ours
    <3>2. From[m] = u => job[j].mine \in Ours(u)
      BY <1>1, <2>1 DEF PhoneClean, Creates
    <3> QED
      BY <1>4, <1>6, <1>8, <2>3, <3>1, <3>2
  <2> QED
    BY <2>2, <2>3
<1> QED
  BY <1>2, <1>6, <1>7, <1>8

LEMMA SendPlainEffect ==
  ASSUME Inv, NEW m \in Msgs, SendPlain(m)
  PROVE  /\ Stepped(Send(m)) /\ job'[Send(m)].pc = "route" /\ box' = box
         /\ job'[Send(m)].mine = job[Send(m)].mine /\ job'[Send(m)].conv = job[Send(m)].conv
         /\ job'[Send(m)].todo = job[Send(m)].todo
  BY InvParts, JobNames, Moves DEF SendPlain, Pcs

\* The bundles of other messages, when one message goes on.
LEMMA BundlesStay ==
  ASSUME Inv, NEW m \in Msgs, Stepped(Send(m)),
         \A u \in Users : /\ signed[u] # NoKey => signed'[u] # NoKey
                          /\ signed[u] = NoKey /\ identity[u] # NoKey =>
                               identity'[u] = identity[u],
         BundleRight(m)'
  PROVE  \A n \in Msgs : BundleRight(n)'
<1>1. ASSUME NEW n \in Msgs, n # m, job'[Send(n)].pc \in {"signed", "signedIn"},
             signed'[To(n)] = NoKey
      PROVE  job'[Send(n)].key = identity'[To(n)]
  <2>1. job'[Send(n)] = job[Send(n)] /\ To(n) \in Users /\ Send(n) \in Jobs
    BY <1>1, JobNames, JobsDiffer, Ends DEF Stepped
  <2>2. signed[To(n)] = NoKey /\ job[Send(n)].key # NoKey
    BY <1>1, <2>1, InvParts DEF JobReal
  <2>3. job[Send(n)].key = identity[To(n)]
    BY <1>1, <2>1, <2>2, InvParts DEF BundleRight
  <2> QED
    BY <2>1, <2>2, <2>3
<1> QED
  BY <1>1 DEF BundleRight

\* What is clean and stays, when one message goes on and its box does or does not change.
LEMMA SpreadStays ==
  ASSUME Inv, NEW m \in Msgs, Stepped(Send(m)), NEW u \in Users, trouble[u] = {},
         \A v \in Users : Peer(v) = u => cache'[v] \in Ours(u),
         To(m) = u /\ job'[Send(m)].pc \in {"signed", "signedIn"} => job'[Send(m)].key \in Ours(u),
         \A n \in Msgs : To(n) = u => box'[n].to \in Ours(u),
         \A n \in Msgs : From[n] = u => box'[n].by \in Ours(u) /\ box'[n].from \in Ours(u)
  PROVE  SpreadClean(u)'
<1>1. SpreadClean(u)
  BY InvParts DEF Clean
<1>2. \A n \in Msgs : n # m => job'[Send(n)] = job[Send(n)]
  BY JobNames, JobsDiffer DEF Stepped
<1>3. \A n \in Msgs : To(n) = u /\ job'[Send(n)].pc \in {"signed", "signedIn"} =>
                        job'[Send(n)].key \in Ours(u)
  BY <1>1, <1>2 DEF SpreadClean
<1> QED
  BY <1>3 DEF SpreadClean, Ours, First

\* The parts of what is clean.
LEMMA SpreadParts ==
  ASSUME Inv, NEW u \in Users, trouble[u] = {}
  PROVE  /\ PhoneClean(u) /\ identity[u] \in Ours(u)
         /\ \A v \in Users : Peer(v) = u => cache[v] \in Ours(u)
         /\ \A n \in Msgs : To(n) = u /\ job[Send(n)].pc \in {"signed", "signedIn"} =>
                              job[Send(n)].key \in Ours(u)
         /\ \A n \in Msgs : To(n) = u => box[n].to \in Ours(u)
         /\ \A n \in Msgs : From[n] = u => box[n].by \in Ours(u) /\ box[n].from \in Ours(u)
<1>1. PhoneClean(u) /\ SpreadClean(u)
  BY InvParts DEF Clean
<1> QED
  BY <1>1 DEF PhoneClean, SpreadClean

\* Without a key the message goes in plain text.
LEMMA PlainStep ==
  ASSUME Inv, NEW m \in Msgs, job[Send(m)].pc \in FetchPcs, SendPlain(m),
         UNCHANGED <<identity, signed, members, stored, hidden, pairs, pair, disk, cache, chat,
                     shown, trouble, raced, swept, deletes>>,
         mishaps' \in Nat
  PROVE  Inv'
<1> DEFINE j == Send(m)
<1>1. /\ Stepped(j) /\ job'[j].pc = "route" /\ job'[j].mine = job[j].mine
      /\ job'[j].conv = job[j].conv /\ job'[j].todo = job[j].todo /\ box' = box
  BY SendPlainEffect
<1>2. \A n \in Msgs : BundleRight(n)'
  <2>1. BundleRight(m)'
    BY <1>1 DEF BundleRight
  <2> QED
    BY <1>1, <2>1, BundlesStay
<1>3. ASSUME NEW v \in Users, trouble[v] = {}
      PROVE  identity'[v] \in Ours(v) /\ SpreadClean(v)'
  <2>1. /\ identity'[v] \in Ours(v) /\ \A w \in Users : Peer(w) = v => cache'[w] \in Ours(v)
        /\ \A n \in Msgs : To(n) = v => box'[n].to \in Ours(v)
        /\ \A n \in Msgs : From[n] = v => box'[n].by \in Ours(v) /\ box'[n].from \in Ours(v)
    BY <1>1, <1>3, SpreadParts
  <2> QED
    BY <1>1, <1>3, <2>1, SpreadStays
<1>4. KeyTypesOK'
  BY <1>1, InvParts, KeyTypesStay
<1>5. \A n \in Msgs : BoxReal(n)' /\ box'[n] = box[n]
  BY <1>1, InvParts DEF BoxReal
<1>6. \A v \in Users : DirectoryRight(v)'
  BY InvParts DEF DirectoryRight
<1> QED
  BY <1>1, <1>2, <1>3, <1>4, <1>5, <1>6, FetchSteps

LEMMA FindKeyStep ==
  ASSUME Inv, NEW m \in Msgs, FindKey(m) PROVE Inv'
<1> DEFINE j == Send(m)
           u == To(m)
           row == identity[u]
<1>1. /\ job[j].pc = "key" /\ j \in Jobs /\ From[m] \in Users /\ u \in Users
      /\ Peer(From[m]) = u
  BY JobNames, Ends DEF FindKey, At
<1>2. UNCHANGED <<identity, signed, members, stored, hidden, pairs, pair, disk, cache, chat,
                  shown, trouble, raced, swept, deletes>>
  BY DEF FindKey, server, convs, phones
<1>3. mishaps' \in Nat
  BY InvParts DEF FindKey, Mishap, ConvTypesOK
<1>4. \A v \in Users : DirectoryRight(v)'
  BY <1>2, InvParts DEF DirectoryRight
<1>5. CASE cache[From[m]] # NoKey /\ Encrypt(m, cache[From[m]])
  <2> DEFINE k == cache[From[m]]
  <2>1. k \in Keys /\ (trouble[u] = {} => k \in Ours(u))
    BY <1>1, InvParts, SpreadParts DEF KeyTypesOK
  <2> HIDE DEF k
  <2>2. k # NoKey /\ Encrypt(m, k) /\ job[j].pc \in FetchPcs
    BY <1>1, <1>5 DEF k, FetchPcs
  <2>3. /\ Stepped(j) /\ job'[j].pc = "route" /\ job'[j].mine = job[j].mine
        /\ job'[j].conv = job[j].conv /\ job'[j].todo = job[j].todo
        /\ box' \in [Msgs -> [to : Keys, by : Keys, from : Keys]]
        /\ \A n \in Msgs : BoxReal(n)' /\ (n # m => box'[n] = box[n])
        /\ \A v \in Users : trouble[v] = {} =>
             /\ \A n \in Msgs : To(n) = v => box'[n].to \in Ours(v)
             /\ \A n \in Msgs : From[n] = v => box'[n].by \in Ours(v) /\ box'[n].from \in Ours(v)
    BY <2>1, <2>2, EncryptEffect
  <2>4. \A n \in Msgs : BundleRight(n)'
    <3>1. BundleRight(m)'
      BY <2>3 DEF BundleRight
    <3> QED
      BY <1>2, <2>3, <3>1, BundlesStay
  <2>5. ASSUME NEW v \in Users, trouble[v] = {}
        PROVE  identity'[v] \in Ours(v) /\ SpreadClean(v)'
    <3>1. identity'[v] \in Ours(v) /\ \A w \in Users : Peer(w) = v => cache'[w] \in Ours(v)
      BY <1>2, <2>5, SpreadParts
    <3> QED
      BY <2>3, <2>5, <3>1, SpreadStays
  <2>6. KeyTypesOK'
    BY <1>2, <2>3, InvParts DEF KeyTypesOK
  <2> QED
    BY <1>1, <1>2, <1>3, <1>4, <2>2, <2>3, <2>4, <2>5, <2>6, FetchSteps
<1>6. CASE /\ job' = [job EXCEPT ![j].pc = IF row = NoKey THEN "standIn" ELSE "signed",
                                 ![j].key = row]
           /\ UNCHANGED box
  <2>1. PICK pc \in {"standIn", "signed"} :
          /\ job' = [job EXCEPT ![j].pc = pc, ![j].key = row]
          /\ pc = "signed" => row # NoKey
    BY <1>6
  <2>2. row \in Keys /\ pc \in Pcs
    BY <1>1, InvParts DEF KeyTypesOK, Pcs
  <2>3. /\ Stepped(j) /\ job'[j].pc = pc /\ job'[j].key = row /\ job'[j].mine = job[j].mine
        /\ job'[j].conv = job[j].conv /\ job'[j].todo = job[j].todo
    <3>1. job \in [Jobs -> Tasks] /\ j \in Jobs /\ row \in Keys
          /\ job' = [job EXCEPT ![j].pc = pc, ![j].key = row]
      BY <1>1, <2>1, <2>2, InvParts
    <3> HIDE DEF j, row, u
    <3> QED
      BY <2>2, <3>1, MovesWithKey
  <2>4. \A n \in Msgs : BundleRight(n)'
    <3>1. BundleRight(m)'
      BY <1>2, <2>3 DEF BundleRight
    <3> QED
      BY <1>2, <2>3, <3>1, BundlesStay
  <2>5. ASSUME NEW v \in Users, trouble[v] = {}
        PROVE  identity'[v] \in Ours(v) /\ SpreadClean(v)'
    <3>1. /\ identity'[v] \in Ours(v) /\ \A w \in Users : Peer(w) = v => cache'[w] \in Ours(v)
          /\ (u = v => job'[j].key \in Ours(v))
          /\ \A n \in Msgs : To(n) = v => box'[n].to \in Ours(v)
          /\ \A n \in Msgs : From[n] = v => box'[n].by \in Ours(v) /\ box'[n].from \in Ours(v)
      BY <1>2, <1>6, <2>3, <2>5, SpreadParts
    <3> QED
      BY <2>3, <2>5, <3>1, SpreadStays
  <2>6. KeyTypesOK'
    BY <1>2, <1>6, InvParts, KeyTypesStay
  <2>7. \A n \in Msgs : BoxReal(n)' /\ box'[n] = box[n]
    BY <1>6, InvParts DEF BoxReal
  <2>8. job[j].pc \in FetchPcs /\ job'[j].pc \in {"standIn", "signed", "signedIn", "route"}
        /\ (job'[j].pc \in {"signed", "signedIn"} => job'[j].key # NoKey)
    BY <1>1, <2>1, <2>3 DEF FetchPcs
  <2> QED
    BY <1>1, <1>2, <1>3, <1>4, <2>3, <2>4, <2>5, <2>6, <2>7, <2>8, FetchSteps
<1>7. CASE SendPlain(m)
  BY <1>1, <1>2, <1>3, <1>7, PlainStep DEF FetchPcs
<1> QED
  BY <1>5, <1>6, <1>7 DEF FindKey

LEMMA StandInStep ==
  ASSUME Inv, NEW m \in Msgs, StandIn(m) PROVE Inv'
<1> DEFINE j == Send(m)
           u == To(m)
           k == StandInKey(u)
<1>1. /\ job[j].pc = "standIn" /\ j \in Jobs /\ u \in Users /\ job[j].pc \in FetchPcs
      /\ UNCHANGED <<signed, members, stored, hidden, pairs, pair, disk, cache, chat, shown,
                     raced, swept, deletes>>
      /\ mishaps' \in Nat
  BY JobNames, Ends, InvParts DEF StandIn, At, FetchPcs, convs, phones, ConvTypesOK
<1>2. CASE SendPlain(m) /\ UNCHANGED <<identity, trouble>>
  BY <1>1, <1>2, PlainStep
<1>3. CASE /\ identity[u] = NoKey
           /\ identity' = [identity EXCEPT ![u] = k]
           /\ job' = [job EXCEPT ![j].pc = "signed", ![j].key = k]
           /\ Note(u, "stand-in")
           /\ UNCHANGED box
  <2>1. k \in Keys /\ k # NoKey /\ "signed" \in Pcs
    BY <1>1, KeyTypes, ContactAssumption DEF StandInKey, Pcs
  <2>2. /\ Stepped(j) /\ job'[j].pc = "signed" /\ job'[j].key = k /\ job'[j].mine = job[j].mine
        /\ job'[j].conv = job[j].conv /\ job'[j].todo = job[j].todo
    <3>1. job \in [Jobs -> Tasks] /\ j \in Jobs
          /\ job' = [job EXCEPT ![j].pc = "signed", ![j].key = k]
      BY <1>1, <1>3, InvParts
    <3> HIDE DEF j, k, u
    <3> QED
      BY <2>1, <3>1, MovesWithKey
  <2>3. /\ trouble' \in [Users -> SUBSET {"two at once", "storage", "cut off", "stand-in"}]
        /\ trouble'[u] # {}
        /\ \A v \in Users : v # u => trouble'[v] = trouble[v]
    BY <1>1, <1>3, InvParts DEF Note, KeyTypesOK
  <2>4. /\ identity \in [Users -> Keys] /\ identity' \in [Users -> Keys] /\ identity'[u] = k
        /\ \A v \in Users : v # u => identity'[v] = identity[v]
    BY <1>1, <1>3, <2>1, InvParts DEF KeyTypesOK
  <2>5. \A v \in Users : DirectoryRight(v)'
    BY <1>1, <1>3, <2>4, InvParts DEF DirectoryRight
  <2>6. \A n \in Msgs : BundleRight(n)'
    <3>1. BundleRight(m)'
      BY <2>2, <2>4 DEF BundleRight
    <3>2. \A v \in Users : /\ signed[v] # NoKey => signed'[v] # NoKey
                           /\ identity[v] # NoKey => identity'[v] = identity[v]
      BY <1>1, <1>3, <2>4
    <3> QED
      BY <2>2, <3>1, <3>2, BundlesStay
  <2>7. ASSUME NEW v \in Users, trouble'[v] = {}
        PROVE  trouble[v] = {} /\ identity'[v] \in Ours(v) /\ SpreadClean(v)'
    <3>1. v # u /\ trouble[v] = {}
      BY <2>3, <2>7
    <3>2. /\ identity'[v] \in Ours(v) /\ \A w \in Users : Peer(w) = v => cache'[w] \in Ours(v)
          /\ \A n \in Msgs : To(n) = v => box'[n].to \in Ours(v)
          /\ \A n \in Msgs : From[n] = v => box'[n].by \in Ours(v) /\ box'[n].from \in Ours(v)
      BY <1>1, <1>3, <2>4, <3>1, SpreadParts
    <3> QED
      BY <2>2, <3>1, <3>2, SpreadStays
  <2>8. \A n \in Msgs : BoxReal(n)' /\ box'[n] = box[n]
    BY <1>3, InvParts DEF BoxReal
  <2>9. KeyTypesOK'
    BY <1>1, <1>3, <2>3, <2>4, InvParts DEF KeyTypesOK
  <2> QED
    BY <1>1, <2>1, <2>2, <2>5, <2>6, <2>7, <2>8, <2>9, FetchSteps
<1> QED
  BY <1>2, <1>3 DEF StandIn

\* The bundle is complete: its key is cached and used.
LEMMA BundleStep ==
  ASSUME Inv, NEW m \in Msgs, job[Send(m)].pc \in {"signed", "signedIn"}, UseBundle(m),
         \/ signed' = signed
         \/ /\ signed[To(m)] = NoKey
            /\ signed' = [signed EXCEPT ![To(m)] = job[Send(m)].key],
         UNCHANGED <<identity, members, stored, hidden, pairs, pair, disk, chat, shown, trouble,
                     raced, swept, deletes, mishaps>>
  PROVE  Inv'
<1> DEFINE j == Send(m)
           u == To(m)
           k == job[j].key
<1>1. /\ j \in Jobs /\ u \in Users /\ From[m] \in Users /\ Peer(From[m]) = u
      /\ job[j].pc \in FetchPcs /\ k \in Keys /\ k # NoKey /\ mishaps' \in Nat
      /\ (trouble[u] = {} => k \in Ours(u))
  <2>1. j \in Jobs /\ u \in Users /\ From[m] \in Users /\ Peer(From[m]) = u
    BY JobNames, Ends
  <2>2. k # NoKey /\ k \in Keys
    BY <2>1, InvParts, JobType DEF JobReal
  <2>3. trouble[u] = {} => k \in Ours(u)
    BY <2>1, SpreadParts
  <2> QED
    BY <2>1, <2>2, <2>3, InvParts DEF FetchPcs, ConvTypesOK
<1>2. k = k /\ Encrypt(m, k) /\ cache' = [cache EXCEPT ![From[m]] = k]
  BY DEF UseBundle
<1>3. /\ Stepped(j) /\ job'[j].pc = "route" /\ job'[j].mine = job[j].mine
      /\ job'[j].conv = job[j].conv /\ job'[j].todo = job[j].todo
      /\ box' \in [Msgs -> [to : Keys, by : Keys, from : Keys]]
      /\ \A n \in Msgs : BoxReal(n)' /\ (n # m => box'[n] = box[n])
      /\ \A v \in Users : trouble[v] = {} =>
           /\ \A n \in Msgs : To(n) = v => box'[n].to \in Ours(v)
           /\ \A n \in Msgs : From[n] = v => box'[n].by \in Ours(v) /\ box'[n].from \in Ours(v)
  BY <1>1, <1>2, EncryptEffect
<1>4. /\ signed \in [Users -> Keys] /\ signed' \in [Users -> Keys]
      /\ \A v \in Users : signed'[v] = signed[v]
                          \/ (v = u /\ signed[u] = NoKey /\ signed'[v] = k)
  BY <1>1, InvParts DEF KeyTypesOK
<1>5. signed[u] = NoKey => k = identity[u]
  BY <1>1, InvParts DEF BundleRight
<1>6. \A v \in Users : DirectoryRight(v)'
  BY <1>4, <1>5, InvParts DEF DirectoryRight
<1>7. \A n \in Msgs : BundleRight(n)'
  <2>1. BundleRight(m)'
    BY <1>3 DEF BundleRight
  <2>2. \A v \in Users : signed[v] # NoKey => signed'[v] # NoKey
    BY <1>4
  <2> QED
    BY <1>3, <2>1, <2>2, BundlesStay
<1>8. ASSUME NEW v \in Users, trouble[v] = {}
      PROVE  identity'[v] \in Ours(v) /\ SpreadClean(v)'
  <2>1. identity'[v] \in Ours(v) /\ \A w \in Users : Peer(w) = v => cache[w] \in Ours(v)
    BY <1>8, SpreadParts
  <2>2. \A w \in Users : Peer(w) = v => cache'[w] \in Ours(v)
    BY <1>1, <1>2, <1>8, <2>1, InvParts DEF KeyTypesOK
  <2> QED
    BY <1>3, <1>8, <2>1, <2>2, SpreadStays
<1>9. KeyTypesOK'
  <2>1. cache' \in [Users -> Keys]
    BY <1>1, <1>2, InvParts DEF KeyTypesOK
  <2> QED
    BY <1>3, <1>4, <2>1, InvParts DEF KeyTypesOK
<1> QED
  BY <1>1, <1>3, <1>6, <1>7, <1>8, <1>9, FetchSteps

LEMMA FindSignedStep ==
  ASSUME Inv, NEW m \in Msgs, FindSigned(m) PROVE Inv'
<1> DEFINE j == Send(m)
<1>1. /\ job[j].pc = "signed" /\ j \in Jobs /\ To(m) \in Users
      /\ UNCHANGED <<identity, signed, members, stored, hidden, pairs, pair, disk, chat, shown,
                     trouble, raced, swept, deletes, mishaps>>
  BY JobNames, Ends DEF FindSigned, At, server, convs, history
<1>2. CASE UseBundle(m)
  BY <1>1, <1>2, BundleStep
<1>3. CASE Goto(j, "signedIn") /\ UNCHANGED <<cache, box>>
  <2>1. /\ Stepped(j) /\ job'[j].pc = "signedIn" /\ job'[j].key = job[j].key
        /\ job'[j].mine = job[j].mine
        /\ job'[j].conv = job[j].conv /\ job'[j].todo = job[j].todo
    BY <1>1, <1>3, InvParts, Moves DEF Pcs
  <2>2. \A n \in Msgs : BundleRight(n)'
    <3>1. BundleRight(m)'
      BY <1>1, <2>1, InvParts DEF BundleRight
    <3> QED
      BY <1>1, <2>1, <3>1, BundlesStay
  <2>3. ASSUME NEW v \in Users, trouble[v] = {}
        PROVE  identity'[v] \in Ours(v) /\ SpreadClean(v)'
    <3>1. /\ identity'[v] \in Ours(v) /\ \A w \in Users : Peer(w) = v => cache'[w] \in Ours(v)
          /\ (To(m) = v => job'[j].key \in Ours(v))
          /\ \A n \in Msgs : To(n) = v => box'[n].to \in Ours(v)
          /\ \A n \in Msgs : From[n] = v => box'[n].by \in Ours(v) /\ box'[n].from \in Ours(v)
      BY <1>1, <1>3, <2>1, <2>3, SpreadParts
    <3> QED
      BY <2>1, <2>3, <3>1, SpreadStays
  <2>4. KeyTypesOK'
    BY <1>1, <1>3, InvParts, KeyTypesStay
  <2>5. \A n \in Msgs : BoxReal(n)' /\ box'[n] = box[n]
    BY <1>3, InvParts DEF BoxReal
  <2>6. \A v \in Users : DirectoryRight(v)'
    BY <1>1, InvParts DEF DirectoryRight
  <2>7. job[j].pc \in FetchPcs /\ job'[j].key # NoKey /\ mishaps' \in Nat
    BY <1>1, <2>1, InvParts DEF FetchPcs, JobReal, ConvTypesOK
  <2> QED
    BY <1>1, <2>1, <2>2, <2>3, <2>4, <2>5, <2>6, <2>7, FetchSteps
<1> QED
  BY <1>2, <1>3 DEF FindSigned

LEMMA SignedStandInStep ==
  ASSUME Inv, NEW m \in Msgs, SignedStandIn(m) PROVE Inv'
<1>1. /\ job[Send(m)].pc = "signedIn" /\ job[Send(m)].pc \in FetchPcs /\ mishaps' \in Nat
      /\ UNCHANGED <<identity, members, stored, hidden, pairs, pair, disk, chat, shown,
                     trouble, raced, swept, deletes, mishaps>>
  BY InvParts DEF SignedStandIn, At, convs, history, FetchPcs, ConvTypesOK
<1>2. CASE SendPlain(m) /\ UNCHANGED <<signed, cache>>
  BY <1>1, <1>2, PlainStep
<1>3. CASE /\ signed[To(m)] = NoKey /\ UseBundle(m)
           /\ signed' = [signed EXCEPT ![To(m)] = job[Send(m)].key]
  BY <1>1, <1>3, BundleStep
<1> QED
  BY <1>2, <1>3 DEF SignedStandIn

-----------------------------------------------------------------------------
(* Making a pair, or using the one there is.                               *)

LEMMA AfterInitFacts ==
  ASSUME Inv, NEW j \in Jobs, job[j].pc \in InitPcs \cup {"init"}
  PROVE  /\ AfterInit(j) \in {"upload", "key", "open"} /\ AfterInit(j) \in Pcs
         /\ j.kind \in {"register", "send", "open"}
         /\ AfterInit(j) = "upload" => j.kind = "register"
         /\ AfterInit(j) = "key" => j.kind = "send"
         /\ AfterInit(j) = "open" => j.kind = "open"
         /\ \A u \in Users : j # Delete(u)
         /\ \A m \in Msgs : j = Open(m) => stored[m] # 0
<1>1. Kinds(j)
  BY InvParts
<1>2. \A u \in Users : j # Delete(u)
  BY <1>1, JobFacts DEF Kinds, InitPcs
<1>3. j.kind \in {"register", "send", "open"}
  BY <1>2, JobCases, JobFacts
<1>4. \A m \in Msgs : j = Open(m) => stored[m] # 0
  BY InvParts DEF Placed, InitPcs
<1>5. CASE j.kind = "register"
  BY <1>2, <1>3, <1>4, <1>5 DEF AfterInit, Pcs
<1>6. CASE j.kind = "send"
  BY <1>2, <1>3, <1>4, <1>6 DEF AfterInit, Pcs
<1>7. CASE j.kind = "open"
  BY <1>2, <1>3, <1>4, <1>7 DEF AfterInit, Pcs
<1> QED
  BY <1>3, <1>5, <1>6, <1>7

\* What such a step has to show; the rest of the invariant follows.
LEMMA InitSteps ==
  ASSUME Inv, NEW j \in Jobs, Stepped(j), job[j].pc \in InitPcs \cup {"init"},
         job'[j].pc \in InitPcs \cup {AfterInit(j)},
         job'[j].conv = job[j].conv, job'[j].todo = job[j].todo,
         UNCHANGED <<identity, signed, members, stored, hidden, cache, box, chat, shown, raced,
                     swept, deletes>>,
         mishaps' \in Nat, KeyTypesOK',
         \A u \in Users : trouble'[u] = {} => trouble[u] = {},
         \A u \in Users : u # Owner(j) =>
           pair'[u] = pair[u] /\ pairs'[u] = pairs[u] /\ disk'[u] = disk[u],
         pair[Owner(j)] # NoPair => pair'[Owner(j)] # NoPair,
         PairReal(Owner(j))', JobReal(j)',
         trouble'[Owner(j)] = {} => PhoneClean(Owner(j))'
  PROVE  Inv'
<1>1. AfterInit(j) \in {"upload", "key", "open"} /\ Owner(j) \in Users
  BY AfterInitFacts, JobCases
<1>2. ASSUME NEW u \in Users PROVE PairReal(u)' /\ DirectoryRight(u)'
  BY InvParts DEF PairReal, DirectoryRight
<1>3. ASSUME NEW m \in Msgs PROVE BoxReal(m)' /\ BundleRight(m)'
  <2>1. BoxReal(m) /\ BundleRight(m) /\ To(m) \in Users /\ Send(m) \in Jobs
    BY InvParts, Ends, JobNames
  <2>2. job'[Send(m)].pc \in {"signed", "signedIn"} => job'[Send(m)] = job[Send(m)]
    BY <1>1, <2>1 DEF Stepped, InitPcs
  <2> QED
    BY <2>1, <2>2 DEF BoxReal, BundleRight
<1>4. \A x \in Jobs : JobReal(x)'
  <2>1. \A u \in Users : pair[u] # NoPair => pair'[u] # NoPair
    BY <1>1
  <2> QED
    BY <2>1, JobsStayReal
<1>5. ASSUME NEW u \in Users PROVE Clean(u)'
  <2> SUFFICES ASSUME trouble'[u] = {} PROVE PhoneClean(u)' /\ SpreadClean(u)'
    BY DEF Clean
  <2>1. trouble[u] = {} /\ PhoneClean(u) /\ SpreadClean(u)
    BY InvParts DEF Clean
  <2>2. PhoneClean(u)'
    <3>1. CASE u = Owner(j)
      BY <3>1
    <3>2. CASE u # Owner(j)
      <4>1. identity'[u] \in Ours(u)
        BY <2>1 DEF PhoneClean
      <4> QED
        BY <2>1, <3>2, <4>1, PhoneStaysClean
    <3> QED
      BY <3>1, <3>2
  <2>3. \A m \in Msgs : job'[Send(m)].pc \in {"signed", "signedIn"} =>
                          job'[Send(m)] = job[Send(m)]
    BY <1>1, JobNames DEF Stepped, InitPcs
  <2>4. SpreadClean(u)'
    BY <2>1, <2>3 DEF SpreadClean, Ours, First
  <2> QED
    BY <2>2, <2>4
<1>6. LockedHasCause'
  BY InvParts, Ends DEF LockedHasCause
<1>7. Keyring'
  BY <1>2, <1>3, <1>4, <1>5, <1>6 DEF Keyring
<1>8. Meeting'
  <2>1. /\ job'[j].pc \notin {"join", "joinTo", "insert", "leave", "list", "hide"}
        /\ job[j].pc # "done"
    BY <1>1 DEF InitPcs
  <2>2. \A m \in Msgs : j = Open(m) => stored[m] # 0
    BY AfterInitFacts
  <2> QED
    BY <2>1, <2>2, MeetingStays
<1>9. \A x \in Jobs : Kinds(x)'
  <2>1. Kinds(j)'
    BY AfterInitFacts DEF Kinds, FetchPcs
  <2> QED
    BY <2>1, InvParts, KindsStay
<1>10. ConvTypesOK'
  BY InvParts, ConvTypesStay
<1> QED
  BY <1>7, <1>8, <1>9, <1>10, InvAgain DEF Stepped

\* A user without trouble, while one of the jobs of the user's phone steps: what remains to be
\* shown of the pair.
LEMMA PhoneSteps ==
  ASSUME Inv, NEW j \in Jobs, Stepped(j), trouble[Owner(j)] = {},
         pair'[Owner(j)] \in {NoPair, FirstPair(Owner(j))},
         identity'[Owner(j)] = identity[Owner(j)], Creates(j)',
         job'[j].pc \in InitPcs => \A x \in Jobs \ {j} : ~(Owner(x) = Owner(j) /\ Creating(x)),
         \/ pairs'[Owner(j)] = pairs[Owner(j)] /\ disk'[Owner(j)] = disk[Owner(j)]
            /\ job[j].pc \notin Saving
         \/ /\ job[j].pc \in InitPcs
            /\ job'[j].pc \in Saving \/ Complete(Owner(j))'
  PROVE  PhoneClean(Owner(j))'
<1> DEFINE u == Owner(j)
<1>1. PhoneClean(u) /\ u \in Users
  BY InvParts, JobCases DEF Clean
<1>2. \A x \in Jobs : x # j => job'[x] = job[x]
  BY DEF Stepped
<1>3. ASSUME NEW x \in Jobs, Owner(x) = u PROVE Creates(x)'
  <2>1. CASE x = j
    BY <2>1
  <2>2. CASE x # j
    <3>1. Creates(x) /\ job'[x] = job[x]
      BY <1>1, <1>2, <1>3, <2>2 DEF PhoneClean
    <3>2. CASE pairs'[u] = pairs[u] /\ disk'[u] = disk[u]
      BY <1>3, <3>1, <3>2 DEF Creates, Ours, First, FirstPair
    <3>3. CASE job[j].pc \in InitPcs
      <4>1. job[x].pc \notin InitPcs
        BY <1>1, <1>3, <2>2, <3>3 DEF PhoneClean, OneCreates, Creating
      <4> QED
        BY <1>3, <3>1, <4>1 DEF Creates, Ours, First, FirstPair, InitPcs
    <3> QED
      BY <3>2, <3>3
  <2> QED
    BY <2>1, <2>2
<1>4. OneCreates(u)'
  <2>1. ASSUME NEW x \in Jobs, NEW y \in Jobs, Owner(x) = u, Owner(y) = u, x # y,
               job'[x].pc \in InitPcs, job'[y].pc \in InitPcs
        PROVE  FALSE
    <3>1. CASE x # j /\ y # j
      BY <1>1, <1>2, <2>1, <3>1 DEF PhoneClean, OneCreates, Creating
    <3>2. CASE x = j \/ y = j
      BY <1>2, <2>1, <3>2 DEF Creating
    <3> QED
      BY <3>1, <3>2
  <2> QED
    BY <2>1 DEF OneCreates, Creating
<1>5. Settled(u)'
  <2>1. CASE pairs'[u] = pairs[u] /\ disk'[u] = disk[u] /\ job[j].pc \notin Saving
    <3>1. CASE Untouched(u) \/ Complete(u)
      BY <2>1, <3>1 DEF Settled, Untouched, Complete, First, FirstPair
    <3>2. CASE \E x \in Jobs : Owner(x) = u /\ job[x].pc \in Saving
      <4>1. PICK x \in Jobs : Owner(x) = u /\ job[x].pc \in Saving
        BY <3>2
      <4>2. job'[x] = job[x]
        BY <1>2, <2>1, <4>1
      <4> QED
        BY <4>1, <4>2 DEF Settled
    <3> QED
      BY <1>1, <3>1, <3>2 DEF PhoneClean, Settled
  <2>2. CASE job'[j].pc \in Saving \/ Complete(u)'
    BY <2>2 DEF Settled
  <2> QED
    BY <2>1, <2>2
<1>6. identity'[u] \in Ours(u) /\ pair'[u] \in {NoPair, FirstPair(u)}
  BY <1>1 DEF PhoneClean
<1> HIDE DEF u
<1>7. PhoneClean(u)'
  BY <1>3, <1>4, <1>5, <1>6 DEF PhoneClean, Ours, First, FirstPair
<1> QED
  BY <1>7 DEF u

LEMMA UsePairStep ==
  ASSUME Inv, NEW j \in Jobs, UsePair(j) PROVE Inv'
<1> DEFINE p == Owner(j)
<1>1. /\ job[j].pc = "init" /\ pair[p] # NoPair /\ p \in Users /\ pair[p].pub \in Keys
      /\ pair[p].pub # NoKey /\ job \in [Jobs -> Tasks]
      /\ UNCHANGED <<identity, signed, members, stored, hidden, pairs, pair, disk, cache, chat,
                     box, shown, trouble, raced, swept, deletes, mishaps>>
      /\ job' = [job EXCEPT ![j].pc = AfterInit(j), ![j].mine = pair[p].pub]
  <2>1. p \in Users /\ PairReal(p) /\ pair[p].pub \in Keys
    BY InvParts, JobCases DEF KeyTypesOK
  <2> QED
    BY <2>1, InvParts DEF UsePair, At, server, convs, phones, seen, history, PairReal
<1>2. AfterInit(j) \in Pcs /\ AfterInit(j) \in {"upload", "key", "open"}
  BY <1>1, AfterInitFacts
<1>3. /\ Stepped(j) /\ job'[j].pc = AfterInit(j) /\ job'[j].mine = pair[p].pub
      /\ job'[j].key = job[j].key /\ job'[j].conv = job[j].conv /\ job'[j].todo = job[j].todo
  <2> HIDE DEF p
  <2> QED
    BY <1>1, <1>2, MovesWithMine
<1>4. PairReal(p)' /\ JobReal(j)'
  <2>1. PairReal(p)'
    BY <1>1, InvParts DEF PairReal
  <2> QED
    BY <1>1, <1>2, <1>3, <2>1 DEF JobReal, FetchPcs, Saving
<1>5. ASSUME trouble'[p] = {} PROVE PhoneClean(p)'
  <2>1. PhoneClean(p)
    BY <1>1, <1>5, InvParts DEF Clean
  <2>2. pair[p] = FirstPair(p)
    BY <1>1, <2>1 DEF PhoneClean
  <2>3. Creates(j)'
    BY <1>2, <1>3, <2>2, PairFacts DEF Creates, Ours, First
  <2> QED
    BY <1>1, <1>2, <1>3, <1>5, <2>2, <2>3, PhoneSteps DEF InitPcs, Saving
<1>6. KeyTypesOK' /\ mishaps' \in Nat
  BY <1>1, InvParts, KeyTypesStay DEF ConvTypesOK
<1> QED
  BY <1>1, <1>2, <1>3, <1>4, <1>5, <1>6, InitSteps

LEMMA ReadPrivStep ==
  ASSUME Inv, NEW j \in Jobs, ReadPriv(j) PROVE Inv'
<1> DEFINE p == Owner(j)
           others == {i \in Jobs \ {j} : Owner(i) = p /\ job[i].pc \in InitPcs}
           noted == IF others = {} THEN {} ELSE {"two at once"}
<1>1. /\ job[j].pc = "init" /\ p \in Users /\ job \in [Jobs -> Tasks] /\ disk[p].sec \in Keys
      /\ trouble \in [Users -> SUBSET {"two at once", "storage", "cut off", "stand-in"}]
      /\ UNCHANGED <<identity, signed, members, stored, hidden, pairs, pair, disk, cache, chat,
                     box, shown, raced, swept, deletes>>
  <2>1. p \in Users /\ disk[p].sec \in Keys
    BY InvParts, JobCases DEF KeyTypesOK
  <2> QED
    BY <2>1, InvParts DEF ReadPriv, At, server, convs, phones, seen, KeyTypesOK
<1>2. \/ /\ job' = [job EXCEPT ![j].pc = "readPub", ![j].key = disk[p].sec]
         /\ trouble' = [trouble EXCEPT ![p] = @ \cup noted]
         /\ mishaps' = mishaps
      \/ /\ job' = [job EXCEPT ![j].pc = "readPub", ![j].key = NoKey]
         /\ trouble' = [trouble EXCEPT ![p] = @ \cup noted \cup {"storage"}]
         /\ mishaps' = mishaps + 1
  BY DEF ReadPriv, Mishap
<1>3. noted \subseteq {"two at once"} /\ (noted = {} => others = {})
  OBVIOUS
<1> HIDE DEF p, noted
<1>4. /\ trouble' \in [Users -> SUBSET {"two at once", "storage", "cut off", "stand-in"}]
      /\ \A u \in Users : trouble'[u] = {} => trouble[u] = {}
      /\ trouble'[p] = {} =>
           /\ noted = {}
           /\ job' = [job EXCEPT ![j].pc = "readPub", ![j].key = disk[p].sec]
  <2>1. CASE trouble' = [trouble EXCEPT ![p] = @ \cup noted]
             /\ job' = [job EXCEPT ![j].pc = "readPub", ![j].key = disk[p].sec]
    BY <1>1, <1>3, <2>1
  <2>2. CASE trouble' = [trouble EXCEPT ![p] = @ \cup noted \cup {"storage"}]
    BY <1>1, <1>3, <2>2
  <2> QED
    BY <1>2, <2>1, <2>2
<1>5. ASSUME NEW k \in Keys, job' = [job EXCEPT ![j].pc = "readPub", ![j].key = k]
      PROVE  /\ Stepped(j) /\ job'[j].pc = "readPub" /\ job'[j].key = k
             /\ job'[j].mine = job[j].mine /\ job'[j].conv = job[j].conv
             /\ job'[j].todo = job[j].todo
  <2>1. "readPub" \in Pcs
    BY DEF Pcs
  <2> QED
    BY <1>1, <1>5, <2>1, MovesWithKey
<1>6. /\ Stepped(j) /\ job'[j].pc = "readPub" /\ job'[j].mine = job[j].mine
      /\ job'[j].conv = job[j].conv /\ job'[j].todo = job[j].todo
      /\ trouble'[p] = {} => noted = {} /\ job'[j].key = disk[p].sec
  <2>1. NoKey \in Keys /\ disk[p].sec \in Keys
    BY <1>1, KeyTypes
  <2>2. CASE job' = [job EXCEPT ![j].pc = "readPub", ![j].key = disk[p].sec]
    BY <1>4, <1>5, <2>1, <2>2
  <2>3. CASE job' = [job EXCEPT ![j].pc = "readPub", ![j].key = NoKey]
    BY <1>4, <1>5, <2>1, <2>3
  <2> QED
    BY <1>2, <2>2, <2>3
<1> USE DEF p
<1>7. PairReal(p)' /\ JobReal(j)'
  BY <1>1, <1>6, InvParts DEF PairReal, JobReal, FetchPcs, Saving
<1>8. ASSUME trouble'[p] = {} PROVE PhoneClean(p)'
  <2>1. trouble[p] = {} /\ PhoneClean(p) /\ others = {}
    BY <1>1, <1>3, <1>4, <1>8, InvParts DEF Clean
  <2>2. Creates(j)'
    <3>1. job'[j].mine \in Ours(p) /\ job'[j].key = disk'[p].sec
      BY <1>1, <1>6, <1>8, <2>1 DEF PhoneClean, Creates
    <3> QED
      BY <1>6, <3>1 DEF Creates, Ours, First
  <2>3. \A x \in Jobs \ {j} : ~(Owner(x) = Owner(j) /\ Creating(x))
    BY <2>1 DEF Creating
  <2>4. pair'[p] \in {NoPair, FirstPair(p)}
    BY <1>1, <2>1 DEF PhoneClean
  <2> QED
    BY <1>1, <1>6, <2>1, <2>2, <2>3, <2>4, PhoneSteps DEF Saving
<1>9. KeyTypesOK' /\ mishaps' \in Nat
  <2>1. KeyTypesOK'
    BY <1>1, <1>4, InvParts DEF KeyTypesOK
  <2>2. mishaps \in Nat
    BY InvParts DEF ConvTypesOK
  <2> QED
    BY <1>2, <2>1, <2>2
<1> QED
  BY <1>1, <1>4, <1>6, <1>7, <1>8, <1>9, InitSteps DEF InitPcs

LEMMA ReadPubStep ==
  ASSUME Inv, NEW j \in Jobs, ReadPub(j) PROVE Inv'
<1> DEFINE p == Owner(j)
           k == Key(p, pairs[p] + 1)
<1>1. /\ job[j].pc = "readPub" /\ p \in Users /\ job \in [Jobs -> Tasks]
      /\ pairs \in [Users -> 0..MaxPairs] /\ pair \in [Users -> [pub : Keys, sec : Keys]]
      /\ disk[p].pub \in Keys /\ job[j].key \in Keys
      /\ UNCHANGED <<identity, signed, members, stored, hidden, disk, cache, chat, box, shown,
                     trouble, raced, swept, deletes, mishaps>>
  <2>1. p \in Users /\ disk[p].pub \in Keys /\ job[j].key \in Keys
    BY InvParts, JobCases, JobType DEF KeyTypesOK
  <2> QED
    BY <2>1, InvParts DEF ReadPub, At, server, convs, seen, history, KeyTypesOK
<1>2. AfterInit(j) \in Pcs /\ AfterInit(j) \in {"upload", "key", "open"}
  BY <1>1, AfterInitFacts DEF InitPcs
<1>3. mishaps' \in Nat
  BY <1>1, InvParts DEF ConvTypesOK
<1>4. CASE job[j].key # NoKey /\ disk[p].pub # NoKey
  <2>1. /\ pair' = [pair EXCEPT ![p] = [pub |-> disk[p].pub, sec |-> job[j].key]]
        /\ job' = [job EXCEPT ![j].pc = AfterInit(j), ![j].mine = disk[p].pub]
        /\ UNCHANGED pairs
    BY <1>4 DEF ReadPub
  <2>2. /\ Stepped(j) /\ job'[j].pc = AfterInit(j) /\ job'[j].mine = disk[p].pub
        /\ job'[j].key = job[j].key /\ job'[j].conv = job[j].conv /\ job'[j].todo = job[j].todo
    <3> HIDE DEF p
    <3> QED
      BY <1>1, <1>2, <2>1, MovesWithMine
  <2>3. /\ pair' \in [Users -> [pub : Keys, sec : Keys]]
        /\ pair'[p].pub = disk[p].pub /\ pair'[p].sec = job[j].key
        /\ pair'[p] = [pub |-> disk[p].pub, sec |-> job[j].key]
        /\ \A u \in Users : u # p => pair'[u] = pair[u]
    <3> HIDE DEF p
    <3> QED
      BY <1>1, <2>1
  <2>4. pair'[p] # NoPair
    BY <1>4, <2>3, PairFacts
  <2>5. PairReal(p)' /\ JobReal(j)'
    <3>1. PairReal(p)'
      BY <1>4, <2>3 DEF PairReal
    <3> QED
      BY <1>2, <1>4, <2>2, <2>4, <3>1 DEF JobReal, FetchPcs, Saving
  <2>6. ASSUME trouble'[p] = {} PROVE PhoneClean(p)'
    <3>1. PhoneClean(p) /\ Creates(j) /\ trouble[p] = {}
      BY <1>1, <2>6, InvParts DEF Clean, PhoneClean
    <3>2. Complete(p)
      <4>1. ~Untouched(p)
        BY <1>4, PairFacts DEF Untouched
      <4>2. ~\E x \in Jobs : Owner(x) = p /\ job[x].pc \in Saving
        BY <1>1, <3>1 DEF PhoneClean, OneCreates, Creating, InitPcs, Saving
      <4> QED
        BY <3>1, <4>1, <4>2 DEF PhoneClean, Settled
    <3>3. disk[p].pub = First(p) /\ job[j].key = First(p)
      BY <1>1, <3>1, <3>2, PairFacts DEF Complete, Creates
    <3>4. pair'[p] = FirstPair(p)
      BY <2>3, <3>3 DEF FirstPair
    <3>5. Creates(j)'
      BY <1>2, <2>2, <3>3 DEF Creates, Ours, First
    <3> QED
      BY <1>1, <1>2, <2>1, <2>2, <3>1, <3>4, <3>5, PhoneSteps DEF InitPcs, Saving
  <2>7. KeyTypesOK'
    BY <1>1, <2>1, <2>3, InvParts DEF KeyTypesOK
  <2>8. job[j].pc \in InitPcs
    BY <1>1 DEF InitPcs
  <2> QED
    BY <1>1, <1>3, <2>1, <2>2, <2>3, <2>4, <2>5, <2>6, <2>7, <2>8, InitSteps
<1>5. CASE ~(job[j].key # NoKey /\ disk[p].pub # NoKey)
  <2>1. /\ pairs[p] < MaxPairs /\ pairs' = [pairs EXCEPT ![p] = @ + 1]
        /\ job' = [job EXCEPT ![j].pc = "savePriv", ![j].key = k]
        /\ UNCHANGED pair
    BY <1>5 DEF ReadPub
  <2>2. k \in Keys /\ k # NoKey
    <3>1. pairs[p] + 1 \in 0..MaxPairs
      BY <1>1, <2>1, ContactAssumption
    <3> QED
      BY <1>1, <3>1, KeyTypes
  <2>3. /\ Stepped(j) /\ job'[j].pc = "savePriv" /\ job'[j].key = k
        /\ job'[j].mine = job[j].mine /\ job'[j].conv = job[j].conv
        /\ job'[j].todo = job[j].todo
    <3>1. "savePriv" \in Pcs
      BY DEF Pcs
    <3> HIDE DEF k
    <3> QED
      BY <1>1, <2>1, <2>2, <3>1, MovesWithKey
  <2>4. /\ pairs' \in [Users -> 0..MaxPairs] /\ pairs'[p] = pairs[p] + 1
        /\ \A u \in Users : u # p => pairs'[u] = pairs[u]
    <3>1. pairs[p] + 1 \in 0..MaxPairs
      BY <1>1, <2>1, ContactAssumption
    <3> HIDE DEF p
    <3> QED
      BY <1>1, <2>1, <3>1
  <2>5. PairReal(p)' /\ JobReal(j)'
    <3>1. PairReal(p)'
      BY <1>1, <2>1, InvParts DEF PairReal
    <3> QED
      BY <2>2, <2>3, <3>1 DEF JobReal, FetchPcs, Saving
  <2>6. ASSUME trouble'[p] = {} PROVE PhoneClean(p)'
    <3>1. PhoneClean(p) /\ Creates(j) /\ trouble[p] = {}
      BY <1>1, <2>6, InvParts DEF Clean, PhoneClean
    <3>2. \A x \in Jobs \ {j} : ~(Owner(x) = Owner(j) /\ Creating(x))
      BY <1>1, <3>1 DEF PhoneClean, OneCreates, Creating, InitPcs
    <3>3. Untouched(p)
      <4>1. ~Complete(p)
        BY <1>1, <1>5, <3>1, PairFacts, FirstIsAKey DEF Complete, Creates
      <4>2. ~\E x \in Jobs : Owner(x) = p /\ job[x].pc \in Saving
        BY <1>1, <3>2 DEF Creating, InitPcs, Saving
      <4> QED
        BY <3>1, <4>1, <4>2 DEF PhoneClean, Settled
    <3>4. job'[j].key = First(p) /\ pairs'[p] = 1 /\ disk'[p] = NoPair
      BY <1>1, <2>3, <2>4, <3>3 DEF Untouched, First
    <3>5. Creates(j)'
      BY <2>3, <3>1, <3>4 DEF Creates, Ours, First
    <3>6. pair'[p] \in {NoPair, FirstPair(p)}
      BY <2>1, <3>1 DEF PhoneClean
    <3> QED
      BY <1>1, <2>3, <3>1, <3>2, <3>5, <3>6, PhoneSteps DEF InitPcs, Saving
  <2>7. KeyTypesOK'
    BY <1>1, <2>1, <2>4, InvParts DEF KeyTypesOK
  <2>8. job[j].pc \in InitPcs /\ job'[j].pc \in InitPcs
    BY <1>1, <2>3 DEF InitPcs
  <2> QED
    BY <1>1, <1>3, <2>1, <2>3, <2>4, <2>5, <2>6, <2>7, <2>8, InitSteps
<1> QED
  BY <1>4, <1>5

\* A write to the secure store succeeds, or leaves a trace.
LEMMA NotedWrite ==
  ASSUME Inv, NEW p \in Users,
         UNCHANGED <<trouble, mishaps>> \/ (Mishap /\ Note(p, "storage"))
  PROVE  /\ trouble' \in [Users -> SUBSET {"two at once", "storage", "cut off", "stand-in"}]
         /\ \A u \in Users : trouble'[u] = {} => trouble[u] = {}
         /\ trouble'[p] = {} => trouble' = trouble /\ mishaps' = mishaps
         /\ mishaps' \in Nat
<1>1. trouble \in [Users -> SUBSET {"two at once", "storage", "cut off", "stand-in"}]
      /\ mishaps \in Nat
  BY InvParts DEF KeyTypesOK, ConvTypesOK
<1>2. CASE UNCHANGED <<trouble, mishaps>>
  BY <1>1, <1>2
<1>3. CASE Mishap /\ Note(p, "storage")
  <2>1. trouble' = [trouble EXCEPT ![p] = @ \cup {"storage"}] /\ mishaps' = mishaps + 1
    BY <1>3 DEF Mishap, Note
  <2>2. "storage" \in trouble'[p]
    BY <1>1, <2>1
  <2>3. trouble' \in [Users -> SUBSET {"two at once", "storage", "cut off", "stand-in"}]
    BY <1>1, <2>1
  <2>4. \A u \in Users : trouble'[u] = {} => trouble[u] = {}
    BY <1>1, <2>1
  <2>5. mishaps' \in Nat
    <3>1. mishaps \in Nat /\ mishaps' = mishaps + 1
      BY <1>1, <2>1
    <3> QED
      BY <3>1
  <2> QED
    BY <2>2, <2>3, <2>4, <2>5
<1> QED
  BY <1>2, <1>3

LEMMA SavePrivStep ==
  ASSUME Inv, NEW j \in Jobs, SavePriv(j) PROVE Inv'
<1> DEFINE p == Owner(j)
           k == job[j].key
<1>1. /\ job[j].pc = "savePriv" /\ p \in Users /\ job \in [Jobs -> Tasks]
      /\ disk \in [Users -> [pub : Keys, sec : Keys]] /\ k \in Keys /\ k # NoKey
      /\ UNCHANGED <<identity, signed, members, stored, hidden, pairs, pair, cache, chat, box,
                     shown, raced, swept, deletes>>
  <2>1. p \in Users /\ k \in Keys /\ job[j].pc = "savePriv"
    BY InvParts, JobCases, JobType DEF SavePriv, At
  <2>2. k # NoKey
    BY <2>1, InvParts DEF JobReal, Saving
  <2> QED
    BY <2>1, <2>2, InvParts DEF SavePriv, server, convs, seen, KeyTypesOK
<1>2. /\ Stepped(j) /\ job'[j].pc = "savePub" /\ job'[j].key = k
      /\ job'[j].mine = job[j].mine /\ job'[j].conv = job[j].conv /\ job'[j].todo = job[j].todo
  <2>1. "savePub" \in Pcs /\ Goto(j, "savePub")
    BY DEF Pcs, SavePriv
  <2> QED
    BY <1>1, <2>1, Moves
<1>3. \/ /\ disk' = [disk EXCEPT ![p].sec = k]
         /\ UNCHANGED <<trouble, mishaps>>
      \/ Mishap /\ Note(p, "storage") /\ UNCHANGED disk
  BY DEF SavePriv
<1>4. /\ trouble' \in [Users -> SUBSET {"two at once", "storage", "cut off", "stand-in"}]
      /\ \A u \in Users : trouble'[u] = {} => trouble[u] = {}
      /\ trouble'[p] = {} => trouble' = trouble /\ mishaps' = mishaps
      /\ mishaps' \in Nat
  <2> HIDE DEF p
  <2> QED
    BY <1>1, <1>3, NotedWrite
<1>5. /\ disk' \in [Users -> [pub : Keys, sec : Keys]]
      /\ \A u \in Users : u # p => disk'[u] = disk[u]
  <2> HIDE DEF p, k
  <2> QED
    BY <1>1, <1>3
<1>6. trouble'[p] = {} => disk'[p] = [disk[p] EXCEPT !.sec = k]
  <2>1. ASSUME Mishap, trouble'[p] = {} PROVE FALSE
    <3>1. mishaps' = mishaps + 1 /\ mishaps \in Nat
      BY <2>1, InvParts DEF Mishap, ConvTypesOK
    <3>2. mishaps' = mishaps
      BY <1>4, <2>1
    <3> QED
      BY <3>1, <3>2
  <2> HIDE DEF p, k
  <2> QED
    BY <1>1, <1>3, <2>1
<1>7. PairReal(p)' /\ JobReal(j)'
  <2>1. PairReal(p)'
    BY <1>1, InvParts DEF PairReal
  <2> QED
    BY <1>1, <1>2, <2>1 DEF JobReal, FetchPcs, Saving
<1>8. ASSUME trouble'[p] = {} PROVE PhoneClean(p)'
  <2>1. PhoneClean(p) /\ Creates(j) /\ trouble[p] = {}
    BY <1>1, <1>4, <1>8, InvParts DEF Clean, PhoneClean
  <2>2. \A x \in Jobs \ {j} : ~(Owner(x) = Owner(j) /\ Creating(x))
    BY <1>1, <2>1 DEF PhoneClean, OneCreates, Creating, InitPcs
  <2>3. k = First(p) /\ pairs[p] = 1 /\ disk[p] = NoPair
    BY <1>1, <2>1 DEF Creates
  <2>4. disk'[p] = [pub |-> NoKey, sec |-> First(p)]
    BY <1>6, <1>8, <2>3 DEF NoPair
  <2>5. Creates(j)'
    BY <1>1, <1>2, <2>1, <2>3, <2>4 DEF Creates, Ours, First
  <2>6. pair'[p] \in {NoPair, FirstPair(p)}
    BY <1>1, <2>1 DEF PhoneClean
  <2> QED
    BY <1>1, <1>2, <2>1, <2>2, <2>5, <2>6, PhoneSteps DEF InitPcs, Saving
<1>9. KeyTypesOK'
  BY <1>1, <1>4, <1>5, InvParts DEF KeyTypesOK
<1> QED
  BY <1>1, <1>2, <1>4, <1>5, <1>7, <1>8, <1>9, InitSteps DEF InitPcs

LEMMA SavePubStep ==
  ASSUME Inv, NEW j \in Jobs, SavePub(j) PROVE Inv'
<1> DEFINE p == Owner(j)
           k == job[j].key
<1>1. /\ job[j].pc = "savePub" /\ p \in Users /\ job \in [Jobs -> Tasks]
      /\ disk \in [Users -> [pub : Keys, sec : Keys]]
      /\ pair \in [Users -> [pub : Keys, sec : Keys]] /\ k \in Keys /\ k # NoKey
      /\ pair' = [pair EXCEPT ![p] = [pub |-> k, sec |-> k]]
      /\ UNCHANGED <<identity, signed, members, stored, hidden, pairs, cache, chat, box,
                     shown, raced, swept, deletes>>
  <2>1. p \in Users /\ k \in Keys /\ job[j].pc = "savePub"
    BY InvParts, JobCases, JobType DEF SavePub, At
  <2>2. k # NoKey
    BY <2>1, InvParts DEF JobReal, Saving
  <2> QED
    BY <2>1, <2>2, InvParts DEF SavePub, Adopt, server, convs, seen, KeyTypesOK
<1>2. AfterInit(j) \in Pcs /\ AfterInit(j) \in {"upload", "key", "open"}
  BY <1>1, AfterInitFacts DEF InitPcs
<1>3. /\ Stepped(j) /\ job'[j].pc = AfterInit(j) /\ job'[j].mine = k /\ job'[j].key = k
      /\ job'[j].conv = job[j].conv /\ job'[j].todo = job[j].todo
  <2>1. job' = [job EXCEPT ![j].pc = AfterInit(j), ![j].mine = k]
    BY DEF SavePub, Adopt
  <2>2. k = job[j].key
    OBVIOUS
  <2>3. k \in Keys /\ job \in [Jobs -> Tasks]
    BY <1>1
  <2> HIDE DEF k
  <2>4. /\ Stepped(j) /\ job'[j].pc = AfterInit(j) /\ job'[j].mine = k
        /\ job'[j].key = job[j].key /\ job'[j].conv = job[j].conv
        /\ job'[j].todo = job[j].todo
    BY <1>2, <2>1, <2>3, MovesWithMine
  <2> QED
    BY <2>2, <2>4
<1>4. \/ /\ disk' = [disk EXCEPT ![p].pub = k]
         /\ UNCHANGED <<trouble, mishaps>>
      \/ Mishap /\ Note(p, "storage") /\ UNCHANGED disk
  BY DEF SavePub
<1>5. /\ trouble' \in [Users -> SUBSET {"two at once", "storage", "cut off", "stand-in"}]
      /\ \A u \in Users : trouble'[u] = {} => trouble[u] = {}
      /\ trouble'[p] = {} => trouble' = trouble /\ mishaps' = mishaps
      /\ mishaps' \in Nat
  <2> HIDE DEF p
  <2> QED
    BY <1>1, <1>4, NotedWrite
<1>6. /\ disk' \in [Users -> [pub : Keys, sec : Keys]]
      /\ \A u \in Users : u # p => disk'[u] = disk[u]
  <2> HIDE DEF p, k
  <2> QED
    BY <1>1, <1>4
<1>7. trouble'[p] = {} => disk'[p] = [disk[p] EXCEPT !.pub = k]
  <2>1. ASSUME Mishap, trouble'[p] = {} PROVE FALSE
    <3>1. mishaps' = mishaps + 1 /\ mishaps \in Nat
      BY <2>1, InvParts DEF Mishap, ConvTypesOK
    <3>2. mishaps' = mishaps
      BY <1>5, <2>1
    <3> QED
      BY <3>1, <3>2
  <2> HIDE DEF p, k
  <2> QED
    BY <1>1, <1>4, <2>1
<1>8. /\ pair' \in [Users -> [pub : Keys, sec : Keys]]
      /\ pair'[p] = [pub |-> k, sec |-> k] /\ pair'[p].pub = k /\ pair'[p].sec = k
      /\ \A u \in Users : u # p => pair'[u] = pair[u]
  <2> HIDE DEF p, k
  <2> QED
    BY <1>1
<1>9. pair'[p] # NoPair
  BY <1>1, <1>8, PairFacts
<1>10. PairReal(p)' /\ JobReal(j)'
  <2>1. PairReal(p)'
    BY <1>1, <1>8 DEF PairReal
  <2> QED
    BY <1>1, <1>2, <1>3, <1>9, <2>1 DEF JobReal, FetchPcs, Saving
<1>11. ASSUME trouble'[p] = {} PROVE PhoneClean(p)'
  <2>1. PhoneClean(p) /\ Creates(j) /\ trouble[p] = {}
    BY <1>1, <1>5, <1>11, InvParts DEF Clean, PhoneClean
  <2>2. k = First(p) /\ pairs[p] = 1 /\ disk[p] = [pub |-> NoKey, sec |-> First(p)]
    BY <1>1, <2>1 DEF Creates
  <2>3. disk'[p] = FirstPair(p) /\ pair'[p] = FirstPair(p)
    BY <1>7, <1>8, <1>11, <2>2 DEF FirstPair
  <2>4. Complete(p)'
    BY <1>1, <2>2, <2>3 DEF Complete, FirstPair, First
  <2>5. Creates(j)'
    BY <1>2, <1>3, <2>2 DEF Creates, Ours, First
  <2> QED
    BY <1>1, <1>2, <1>3, <2>1, <2>3, <2>4, <2>5, PhoneSteps DEF InitPcs
<1>12. KeyTypesOK'
  BY <1>1, <1>5, <1>6, <1>8, InvParts DEF KeyTypesOK
<1> QED
  BY <1>1, <1>2, <1>3, <1>5, <1>6, <1>8, <1>9, <1>10, <1>11, <1>12, InitSteps DEF InitPcs

LEMMA InitStepStep ==
  ASSUME Inv, NEW j \in Jobs, InitStep(j) PROVE Inv'
  BY UsePairStep, ReadPrivStep, ReadPubStep, SavePrivStep, SavePubStep DEF InitStep

-----------------------------------------------------------------------------
(* The app restarts.                                                       *)

\* What becomes of a job: it goes on, or begins again from nothing.
Again(j, p) ==
  /\ j = Register(p) \/ job[j].pc \in OnPhone
  /\ job'[j].key = NoKey /\ job'[j].mine = NoKey /\ job'[j].conv = 0 /\ job'[j].todo = {}
  /\ j = Register(p) => job'[j].pc = "init"
  /\ j.kind = "send" => job'[j].pc = "route"
  /\ j # Register(p) /\ j.kind # "send" => job'[j].pc = "idle"

GoesOn(j, p) == job'[j] = job[j] /\ (Owner(j) = p => job[j].pc \notin OnPhone)

LEMMA RestartEffect ==
  ASSUME Inv, NEW p \in Users, Restart(p)
  PROVE  /\ job' \in [Jobs -> Tasks]
         /\ \A j \in Jobs : GoesOn(j, p) \/ (Owner(j) = p /\ Again(j, p))
         /\ \A u \in Users : job'[Delete(u)] = job[Delete(u)]
<1> DEFINE initial == [Task EXCEPT !.pc = "init"]
           routed(j) == [Task EXCEPT !.pc = "route", !.sent = job[j].sent]
<1>1. /\ Task \in Tasks /\ initial \in Tasks
      /\ initial.pc = "init" /\ Task.pc = "idle"
      /\ initial.key = NoKey /\ initial.mine = NoKey /\ initial.conv = 0 /\ initial.todo = {}
      /\ Task.key = NoKey /\ Task.mine = NoKey /\ Task.conv = 0 /\ Task.todo = {}
  <2>1. Task \in Tasks
    BY TaskType
  <2>2. initial \in Tasks
    BY <2>1 DEF Tasks
  <2> QED
    BY <2>2, TaskType DEF Task
<1>2. ASSUME NEW j \in Jobs
      PROVE  /\ routed(j) \in Tasks /\ routed(j).pc = "route" /\ routed(j).key = NoKey
             /\ routed(j).mine = NoKey /\ routed(j).conv = 0 /\ routed(j).todo = {}
  <2>1. Task \in Tasks /\ job[j].sent \in 0..MaxConvs
    BY TaskType, InvParts, JobType
  <2>2. routed(j) \in Tasks
    BY <2>1 DEF Tasks
  <2> QED
    BY <2>2, TaskType DEF Task
<1>3. job' = [j \in Jobs |->
        IF j = Register(p) THEN initial
        ELSE IF Owner(j) # p \/ job[j].pc \notin OnPhone THEN job[j]
        ELSE IF j.kind = "send" THEN routed(j)
        ELSE Task]
  BY DEF Restart
<1> HIDE DEF initial, routed
<1>4. job' \in [Jobs -> Tasks]
  BY <1>1, <1>3, <1>2, InvParts
<1>5. ASSUME NEW j \in Jobs PROVE GoesOn(j, p) \/ (Owner(j) = p /\ Again(j, p))
  <2>1. CASE j = Register(p)
    <3>1. job'[j] = initial /\ Owner(j) = p /\ j.kind = "register"
      BY <1>3, <2>1, Owners, JobFacts
    <3> QED
      BY <1>1, <2>1, <3>1 DEF Again
  <2>2. CASE j # Register(p) /\ (Owner(j) # p \/ job[j].pc \notin OnPhone)
    BY <1>3, <2>2 DEF GoesOn
  <2>3. CASE j # Register(p) /\ Owner(j) = p /\ job[j].pc \in OnPhone /\ j.kind = "send"
    <3>1. job'[j] = routed(j)
      BY <1>3, <2>3
    <3> QED
      BY <1>2, <2>3, <3>1 DEF Again
  <2>4. CASE j # Register(p) /\ Owner(j) = p /\ job[j].pc \in OnPhone /\ j.kind # "send"
    <3>1. job'[j] = Task
      BY <1>3, <2>4
    <3> QED
      BY <1>1, <2>4, <3>1 DEF Again
  <2> QED
    BY <2>1, <2>2, <2>3, <2>4
<1>6. ASSUME NEW u \in Users PROVE job'[Delete(u)] = job[Delete(u)]
  <2>1. Delete(u) \in Jobs /\ Delete(u) # Register(p) /\ Delete(u).kind = "delete"
    BY JobNames, JobsDiffer, JobFacts
  <2>2. job[Delete(u)].pc \notin OnPhone
    BY <2>1, InvParts DEF Kinds, OnPhone
  <2> QED
    BY <1>3, <2>1, <2>2
<1> QED
  BY <1>4, <1>5, <1>6

\* A phone has one registration.
LEMMA OneRegistration ==
  ASSUME NEW j \in Jobs, j.kind = "register"
  PROVE  j = Register(Owner(j))
<1>1. \/ \E u \in Users : j = Register(u) \/ j = Delete(u)
      \/ \E m \in Msgs : j = Send(m) \/ j = Open(m)
  BY JobCases
<1>2. PICK u \in Users : j = Register(u)
  BY <1>1, JobFacts
<1> QED
  BY <1>2, Owners

LEMMA RestartStep ==
  ASSUME Inv, NEW p \in Users, Restart(p) PROVE Inv'
<1>1. /\ pair' = [pair EXCEPT ![p] = NoPair] /\ cache' = [cache EXCEPT ![p] = NoKey]
      /\ pair \in [Users -> [pub : Keys, sec : Keys]] /\ cache \in [Users -> Keys]
      /\ UNCHANGED <<identity, signed, members, stored, hidden, pairs, disk, chat, box, shown,
                     raced, swept, deletes>>
  BY InvParts DEF Restart, server, convs, seen, KeyTypesOK
<1>2. /\ job' \in [Jobs -> Tasks]
      /\ \A j \in Jobs : GoesOn(j, p) \/ (Owner(j) = p /\ Again(j, p))
      /\ \A u \in Users : job'[Delete(u)] = job[Delete(u)]
  BY RestartEffect
<1>3. /\ trouble' \in [Users -> SUBSET {"two at once", "storage", "cut off", "stand-in"}]
      /\ \A u \in Users : trouble'[u] = {} => trouble[u] = {}
      /\ trouble'[p] = {} => ~\E j \in Jobs : Owner(j) = p /\ job[j].pc \in Saving
  <2> DEFINE cut == IF \E j \in Jobs : Owner(j) = p /\ job[j].pc \in {"savePriv", "savePub"}
                      THEN {"cut off"} ELSE {}
  <2>1. trouble' = [trouble EXCEPT ![p] = @ \cup cut]
        /\ trouble \in [Users -> SUBSET {"two at once", "storage", "cut off", "stand-in"}]
    BY InvParts DEF Restart, KeyTypesOK
  <2>2. cut \subseteq {"cut off"}
        /\ (cut = {} => ~\E j \in Jobs : Owner(j) = p /\ job[j].pc \in Saving)
    BY DEF Saving
  <2> HIDE DEF cut
  <2> QED
    BY <2>1, <2>2
<1>4. \A j \in Jobs : \/ GoesOn(j, p)
                      \/ Owner(j) = p /\ Again(j, p) /\ job'[j].pc \in {"init", "route", "idle"}
  BY <1>2 DEF Again
<1>5. \A j \in Jobs : Kinds(j)'
  <2>1. ASSUME NEW j \in Jobs PROVE Kinds(j)'
    <3>1. CASE GoesOn(j, p)
      BY <3>1, InvParts DEF GoesOn, Kinds
    <3>2. CASE Owner(j) = p /\ Again(j, p)
      <4>1. CASE j = Register(p)
        BY <3>2, <4>1, JobFacts DEF Again, Kinds
      <4>2. CASE j.kind = "send"
        BY <3>2, <4>2, JobFacts DEF Again, Kinds
      <4>3. CASE j # Register(p) /\ j.kind # "send"
        <5>1. job'[j].pc = "idle" /\ j.kind # "register"
          BY <3>2, <4>3, OneRegistration DEF Again
        <5> QED
          BY <4>3, <5>1 DEF Kinds
      <4> QED
        BY <4>1, <4>2, <4>3
    <3> QED
      BY <1>2, <3>1, <3>2
  <2> QED
    BY <2>1
<1>6. ASSUME NEW u \in Users PROVE PairReal(u)' /\ DirectoryRight(u)'
  BY <1>1, InvParts DEF PairReal, DirectoryRight
<1>7. ASSUME NEW m \in Msgs PROVE BoxReal(m)' /\ BundleRight(m)'
  <2>1. BoxReal(m) /\ BundleRight(m) /\ Send(m) \in Jobs
    BY InvParts, JobNames
  <2>2. job'[Send(m)].pc \in {"signed", "signedIn"} => job'[Send(m)] = job[Send(m)]
    BY <1>4, <2>1 DEF GoesOn
  <2> QED
    BY <1>1, <2>1, <2>2 DEF BoxReal, BundleRight
<1>8. ASSUME NEW j \in Jobs PROVE JobReal(j)'
  <2>1. CASE GoesOn(j, p)
    <3>1. JobReal(j) /\ Owner(j) \in Users
      BY InvParts, JobCases
    <3>2. CASE Owner(j) = p
      BY <2>1, <3>2 DEF GoesOn, JobReal, OnPhone, Saving, FetchPcs
    <3>3. CASE Owner(j) # p
      BY <1>1, <2>1, <3>1, <3>3 DEF GoesOn, JobReal
    <3> QED
      BY <3>2, <3>3
  <2>2. CASE job'[j].pc \in {"init", "route", "idle"}
    BY <2>2 DEF JobReal, Saving, FetchPcs
  <2> QED
    BY <1>4, <2>1, <2>2
<1>9. ASSUME NEW u \in Users, trouble'[u] = {} PROVE PhoneClean(u)'
  <2>1. PhoneClean(u)
    BY <1>3, <1>9, InvParts DEF Clean
  <2>2. ASSUME NEW j \in Jobs, Owner(j) = u
        PROVE  \/ job'[j] = job[j] /\ (u = p => job[j].pc \notin InitPcs)
               \/ u = p /\ job'[j].mine = NoKey /\ job'[j].pc \in {"init", "route", "idle"}
    BY <1>4, <2>2 DEF GoesOn, Again, OnPhone, InitPcs
  <2>3. ASSUME NEW j \in Jobs, Owner(j) = u PROVE Creates(j)'
    <3>1. Creates(j)
      BY <2>1, <2>3 DEF PhoneClean
    <3>2. CASE job'[j] = job[j]
      BY <1>1, <3>1, <3>2 DEF Creates, Ours, First
    <3>3. CASE job'[j].mine = NoKey /\ job'[j].pc \in {"init", "route", "idle"}
      BY <3>3 DEF Creates, Ours
    <3> QED
      BY <2>2, <2>3, <3>2, <3>3
  <2>4. OneCreates(u)'
    <3>1. \A j \in Jobs : Owner(j) = u /\ Creating(j)' => Creating(j)
      BY <2>2 DEF Creating, InitPcs
    <3> QED
      BY <2>1, <3>1 DEF PhoneClean, OneCreates
  <2>5. Settled(u)'
    <3>1. CASE Untouched(u) \/ Complete(u)
      BY <1>1, <3>1 DEF Settled, Untouched, Complete, First, FirstPair
    <3>2. CASE \E j \in Jobs : Owner(j) = u /\ job[j].pc \in Saving
      <4>1. PICK j \in Jobs : Owner(j) = u /\ job[j].pc \in Saving
        BY <3>2
      <4>2. u # p
        BY <1>3, <1>9, <4>1
      <4>3. job'[j] = job[j]
        BY <2>2, <4>1, <4>2
      <4> QED
        BY <4>1, <4>3 DEF Settled
    <3> QED
      BY <2>1, <3>1, <3>2 DEF PhoneClean, Settled
  <2>6. pair'[u] \in {NoPair, FirstPair(u)} /\ identity'[u] \in Ours(u)
    BY <1>1, <2>1 DEF PhoneClean
  <2> QED
    BY <2>3, <2>4, <2>5, <2>6 DEF PhoneClean, Ours, First, FirstPair
<1>10. ASSUME NEW u \in Users, trouble'[u] = {} PROVE SpreadClean(u)'
  <2>1. SpreadClean(u)
    BY <1>3, <1>10, InvParts DEF Clean
  <2>2. \A v \in Users : Peer(v) = u => cache'[v] \in Ours(u)
    BY <1>1, <2>1 DEF SpreadClean, Ours
  <2>3. \A m \in Msgs : job'[Send(m)].pc \in {"signed", "signedIn"} =>
                          job'[Send(m)] = job[Send(m)]
    BY <1>4, JobNames DEF GoesOn
  <2> QED
    BY <1>1, <2>1, <2>2, <2>3 DEF SpreadClean, Ours, First
<1>11. LockedHasCause'
  BY <1>1, <1>3, InvParts, Ends DEF LockedHasCause
<1>12. Keyring'
  BY <1>6, <1>7, <1>8, <1>9, <1>10, <1>11 DEF Keyring, Clean
<1>13. Single'
  <2>1. \A m \in Msgs : (At(Send(m), "join") \/ At(Send(m), "joinTo"))' =>
                          job'[Send(m)] = job[Send(m)]
    BY <1>4, JobNames DEF At, GoesOn
  <2> QED
    BY <1>1, <2>1, InvParts DEF Single, Found, At, Direct
<1>14. ASSUME NEW m \in Msgs PROVE Placed(m)'
  <2>1. Placed(m) /\ Send(m) \in Jobs /\ Open(m) \in Jobs /\ Send(m).kind = "send"
        /\ Open(m).kind = "open" /\ Open(m) # Register(p) /\ Send(m) # Register(p)
    BY InvParts, JobNames, JobFacts, JobsDiffer
  <2>2. job'[Open(m)].pc # "idle" => stored[m] # 0
    BY <1>2, <2>1 DEF GoesOn, Again, Placed
  <2>3. CASE job'[Send(m)] = job[Send(m)]
    BY <1>1, <2>1, <2>2, <2>3 DEF Placed
  <2>4. CASE job[Send(m)].pc \in OnPhone /\ job'[Send(m)].pc = "route"
    <3>1. stored[m] = 0
      BY <2>1, <2>4 DEF Placed, OnPhone
    <3> QED
      BY <1>1, <2>1, <2>2, <2>4, <3>1 DEF Placed
  <2> QED
    BY <1>2, <2>1, <2>3, <2>4 DEF GoesOn, Again
<1>15. \A u \in Users : Sweeping(u)'
  BY <1>1, <1>2, InvParts DEF Sweeping
<1>16. KeyTypesOK'
  <2>1. pair' \in [Users -> [pub : Keys, sec : Keys]] /\ cache' \in [Users -> Keys]
    BY <1>1, PairFacts, KeyTypes
  <2> QED
    BY <1>1, <1>3, <2>1, InvParts DEF KeyTypesOK
<1>17. ConvTypesOK'
  <2>1. mishaps' = mishaps + 1 /\ mishaps \in Nat
    BY InvParts DEF Restart, Mishap, ConvTypesOK
  <2>2. mishaps' \in Nat
    BY <2>1
  <2> QED
    BY <1>1, <2>2, InvParts, ConvTypesStay
<1> QED
  BY <1>2, <1>5, <1>12, <1>13, <1>14, <1>15, <1>16, <1>17, InvAgain DEF Meeting

-----------------------------------------------------------------------------
(* The invariant holds.                                                    *)

LEMMA InvInit == Init => Inv
<1> SUFFICES ASSUME Init PROVE Inv
  OBVIOUS
<1> DEFINE initial == [Task EXCEPT !.pc = "init"]
<1>1. /\ Task \in Tasks /\ initial \in Tasks /\ initial.pc = "init" /\ Task.pc = "idle"
      /\ initial.key = NoKey /\ initial.mine = NoKey /\ initial.conv = 0 /\ initial.todo = {}
      /\ Task.key = NoKey /\ Task.mine = NoKey /\ Task.conv = 0 /\ Task.todo = {}
  <2>1. Task \in Tasks
    BY TaskType
  <2>2. initial \in Tasks
    BY <2>1 DEF Tasks
  <2> QED
    BY <2>2, TaskType DEF Task
<1>2. job = [j \in Jobs |-> IF j.kind = "register" THEN initial ELSE Task]
  BY DEF Init
<1> HIDE DEF initial
<1>3. /\ job \in [Jobs -> Tasks]
      /\ \A j \in Jobs : job[j].mine = NoKey /\ job[j].conv = 0 /\ job[j].pc \in {"init", "idle"}
      /\ \A j \in Jobs : job[j].pc = "init" <=> j.kind = "register"
  BY <1>1, <1>2
<1>4. KeyTypesOK
  <2>1. Plain \in [to : Keys, by : Keys, from : Keys]
    BY KeyTypes DEF Plain
  <2>2. 0 \in 0..MaxPairs
    BY ContactAssumption
  <2>3. pairs \in [Users -> 0..MaxPairs] /\ box \in [Msgs -> [to : Keys, by : Keys, from : Keys]]
    BY <2>1, <2>2 DEF Init
  <2> QED
    BY <2>3, KeyTypes, PairFacts DEF Init, KeyTypesOK
<1>5. ConvTypesOK
  <2>1. 0 \in 0..MaxConvs
    BY ContactAssumption
  <2> QED
    BY <2>1 DEF Init, ConvTypesOK
<1>6. ASSUME NEW j \in Jobs PROVE Kinds(j) /\ JobReal(j)
  <2>1. Kinds(j)
    BY <1>3 DEF Kinds
  <2> QED
    BY <1>3, <2>1 DEF JobReal, Saving, FetchPcs
<1>7. ASSUME NEW u \in Users PROVE PairReal(u) /\ DirectoryRight(u) /\ Clean(u) /\ Sweeping(u)
  <2>1. PairReal(u) /\ DirectoryRight(u)
    BY DEF Init, PairReal, DirectoryRight
  <2>2. \A j \in Jobs : Creates(j)
    BY <1>3 DEF Creates, Ours
  <2>3. OneCreates(u)
    BY <1>3 DEF OneCreates, Creating, InitPcs
  <2>4. Settled(u)
    BY DEF Settled, Untouched, Init
  <2>5. PhoneClean(u)
    BY <2>2, <2>3, <2>4 DEF PhoneClean, Init, Ours
  <2>6. \A m \in Msgs : job[Send(m)].pc \notin {"signed", "signedIn"}
    BY <1>3, JobNames
  <2>7. SpreadClean(u)
    BY <2>6 DEF SpreadClean, Init, Plain, Ours
  <2>8. Sweeping(u)
    BY <1>3, JobNames DEF Sweeping
  <2> QED
    BY <2>1, <2>5, <2>7, <2>8 DEF Clean
<1>8. ASSUME NEW m \in Msgs PROVE BoxReal(m) /\ BundleRight(m) /\ Placed(m)
  <2>1. job[Send(m)].pc = "idle" /\ job[Open(m)].pc = "idle"
    BY <1>3, JobNames, JobFacts
  <2> QED
    BY <2>1 DEF BoxReal, BundleRight, Placed, Init
<1>9. LockedHasCause
  BY DEF LockedHasCause, Init
<1>10. Single
  <2>1. \A m \in Msgs : Found(m)
    BY <1>3, JobNames DEF Found, At
  <2>2. Users # {}
    BY ContactAssumption
  <2>3. Direct = {}
    BY <2>2 DEF Direct, Init
  <2> QED
    BY <2>1, <2>3 DEF Single
<1>11. TypeOK
  BY <1>3, <1>4, <1>5, TypeParts
<1> QED
  BY <1>6, <1>7, <1>8, <1>9, <1>10, <1>11 DEF Inv, Keyring, Meeting

LEMMA SendStepStep ==
  ASSUME Inv, NEW m \in Msgs, SendStep(m) PROVE Inv'
<1>1. CASE \/ StartSend(m) \/ Route(m) \/ KeepSent(m) \/ JoinSender(m) \/ JoinReceiver(m)
           \/ Insert(m)
  BY <1>1, StartSendStep, RouteStep, KeepSentStep, JoinStep, InsertStep
<1>2. CASE FindKey(m) \/ StandIn(m) \/ FindSigned(m) \/ SignedStandIn(m)
  BY <1>2, FindKeyStep, StandInStep, FindSignedStep, SignedStandInStep
<1>3. CASE \E c \in Convs : CreateForPhone(m, c) \/ CreateForMessage(m, c)
  BY <1>3, CreateForPhoneStep, CreateForMessageStep
<1> QED
  BY <1>1, <1>2, <1>3 DEF SendStep

LEMMA StutterStep ==
  ASSUME Inv, UNCHANGED vars PROVE Inv'
<1>1. /\ UNCHANGED <<identity, signed, members, stored, hidden, pairs, pair, disk, cache, chat>>
      /\ UNCHANGED <<job, box, shown, trouble, raced, swept, deletes, mishaps>>
  BY DEF vars, server, convs, phones, seen, history
<1>2. KeyTypesOK' /\ ConvTypesOK' /\ job' \in [Jobs -> Tasks] /\ \A j \in Jobs : Kinds(j)'
  BY <1>1, InvParts DEF KeyTypesOK, ConvTypesOK, Kinds
<1>3. \A u \in Users : PairReal(u)' /\ DirectoryRight(u)' /\ Sweeping(u)'
  BY <1>1, InvParts DEF PairReal, DirectoryRight, Sweeping
<1>4. \A m \in Msgs : BoxReal(m)' /\ BundleRight(m)' /\ Placed(m)'
  BY <1>1, InvParts DEF BoxReal, BundleRight, Placed
<1>5. (\A j \in Jobs : JobReal(j)') /\ LockedHasCause' /\ Single'
  BY <1>1, InvParts DEF JobReal, LockedHasCause, Single, Found, Direct, At
<1>6. ASSUME NEW u \in Users PROVE Clean(u)'
  <2>1. SpreadClean(u) => SpreadClean(u)'
    BY <1>1 DEF SpreadClean, Ours, First
  <2>2. \A j \in Jobs : Creates(j) => Creates(j)'
    BY <1>1 DEF Creates, Ours, First
  <2>3. Settled(u) => Settled(u)'
    BY <1>1 DEF Settled, Untouched, Complete, FirstPair, First
  <2>4. OneCreates(u) => OneCreates(u)'
    BY <1>1 DEF OneCreates, Creating
  <2>5. PhoneClean(u) => PhoneClean(u)'
    BY <1>1, <2>2, <2>3, <2>4 DEF PhoneClean, Ours, FirstPair, First
  <2> QED
    BY <1>1, <2>1, <2>5, InvParts DEF Clean
<1>7. Keyring' /\ Meeting'
  BY <1>3, <1>4, <1>5, <1>6 DEF Keyring, Meeting
<1> QED
  BY <1>2, <1>7, InvAgain

LEMMA InvStep == Inv /\ [Next]_vars => Inv'
<1> SUFFICES ASSUME Inv, [Next]_vars PROVE Inv'
  OBVIOUS
<1>1. ASSUME NEW j \in Jobs, InitStep(j) PROVE Inv'
  BY <1>1, InitStepStep
<1>2. ASSUME NEW m \in Msgs, SendStep(m) PROVE Inv'
  BY <1>2, SendStepStep
<1>3. ASSUME NEW m \in Msgs, GapFill(m) PROVE Inv'
  BY <1>3, GapFillStep
<1>4. ASSUME NEW m \in Msgs, Decrypt(m) PROVE Inv'
  BY <1>4, DecryptStep
<1>5. ASSUME NEW u \in Users, Upload(u) PROVE Inv'
  BY <1>5, UploadStep
<1>6. ASSUME NEW u \in Users, DeleteStep(u) PROVE Inv'
  BY <1>6, StartDeleteStep, LeaveStep, ListMessagesStep, HideMessagesStep DEF DeleteStep
<1>7. ASSUME NEW u \in Users, Restart(u) PROVE Inv'
  BY <1>7, RestartStep
<1>8. CASE UNCHANGED vars
  BY <1>8, StutterStep
<1> QED
  BY <1>1, <1>2, <1>3, <1>4, <1>5, <1>6, <1>7, <1>8 DEF Next

LEMMA InvHolds == Spec => []Inv
  BY InvInit, InvStep, PTL DEF Spec

-----------------------------------------------------------------------------
(* What follows.                                                           *)

\* The type invariant: keys, conversations, jobs and boxes stay what they are.
THEOREM TypeCorrect == Spec => []TypeOK
<1>1. Inv => TypeOK
  BY DEF Inv
<1> QED
  BY <1>1, InvHolds, PTL

\* SignedIsIdentitys: however the statements of registrations and bundle requests mix, the signed
\* pre-key that KeyService hands out belongs to the identity key next to it.
THEOREM DirectoryIsConsistent == Spec => []SignedIsIdentitys
<1>1. Inv => SignedIsIdentitys
  BY InvParts DEF DirectoryRight, SignedIsIdentitys
<1> QED
  BY <1>1, InvHolds, PTL

\* LockedHasCause: without a stand-in key, two overlapping initialisations, a failing secure store
\* or an interrupted save on either side, decryptMessage opens what encryptMessage made.
THEOREM LocksHaveCauses == Spec => []LockedHasCause
<1>1. Inv => LockedHasCause
  BY InvParts
<1> QED
  BY <1>1, InvHolds, PTL

\* OneConversation: getOrCreateDirect and createMessage leave two users with one conversation,
\* unless two requests overlapped, a member left while a message was on its way in, or a failed
\* lookup left a message the id of a conversation that is no longer that of both.
THEOREM OneConversationEach == Spec => []OneConversation
<1>1. ASSUME Inv PROVE OneConversation
  <2> SUFFICES ASSUME ~raced PROVE ~(Cardinality(Direct) > 1)
    BY InvParts DEF OneConversation, ConvTypesOK
  <2>1. \A c, d \in Direct : c = d
    BY <1>1, InvParts DEF Single
  <2>2. CASE Direct = {}
    BY <2>2, FS_EmptySet
  <2>3. CASE Direct # {}
    <3>1. PICK c \in Direct : Direct = {c}
      BY <2>1, <2>3
    <3>2. Cardinality(Direct) = 1
      BY <3>1, FS_Singleton
    <3> QED
      BY <3>2
  <2> QED
    BY <2>2, <2>3
<1> QED
  BY <1>1, InvHolds, PTL

\* StoredIsReachable: whatever conversations are left, joined and swept meanwhile, a stored message
\* that was not shown stays within what the gap fill of its receiver asks for.
THEOREM StoredStaysReachable == Spec => []StoredIsReachable
<1>1. ASSUME Inv PROVE StoredIsReachable
  <2> SUFFICES ASSUME NEW m \in Msgs \ swept, stored[m] # 0 PROVE Reachable(m)
    BY DEF StoredIsReachable
  <2> QED
    BY <1>1, InvParts DEF Placed, Reachable
<1> QED
  BY <1>1, InvHolds, PTL

=============================================================================
