------------------------ MODULE DeviceSessions_proofs ------------------------
(***************************************************************************)
(* Proofs about DeviceSessions, for any phones, device numbers, requests   *)
(* and bounds: no token outlives its device, a session never forks, what a *)
(* revocation deleted refreshes nothing, and an undisturbed session lasts. *)
(***************************************************************************)
EXTENDS DeviceSessions, TLAPS

-----------------------------------------------------------------------------
(* The inductive invariant.                                                *)

\* What a request holds in its local variables between two statements.
Knows(j) ==
  /\ job[j].kind = "login" => job[j].p \in Phones
  /\ job[j].pc = "save" => job[j].new.dev = job[j].id
  /\ job[j].pc = "rotate" =>
       /\ job[j].row \in 1..saves
       /\ \A s \in stored : s.row = job[j].row => s.tok = job[j].tok

\* Row ids are not used again.
FreshRows == /\ spent \subseteq 1..saves /\ revoked \subseteq 1..saves
             /\ \A s \in stored : s.row \in 1..saves \ (spent \cup revoked)

Inv == TypeOK /\ NoOrphanTokens /\ FreshRows /\ \A j \in Jobs : Knows(j)

-----------------------------------------------------------------------------
(* Frame lemmas.                                                           *)

\* What a waiting request knows stays true: rows go, and new rows have new ids.
LEMMA KnowsStable ==
  ASSUME Inv, NEW j \in Jobs, job'[j] = job[j], saves' \in Nat, saves <= saves',
         \A s \in stored' : s \in stored \/ s.row = saves + 1
  PROVE  Knows(j)'
<1>1. Knows(j) /\ saves \in Nat
  BY DEF Inv, TypeOK
<1>2. job[j].row \in 1..saves => job[j].row \in 1..saves' /\ job[j].row # saves + 1
  BY <1>1
<1> QED
  BY <1>1, <1>2 DEF Knows

\* One request takes a step.
LEMMA JobSteps ==
  ASSUME Inv, NEW j \in Jobs, NEW t \in Handlers, job' = [job EXCEPT ![j] = t],
         saves' \in Nat, saves <= saves',
         \A s \in stored' : s \in stored \/ s.row = saves + 1, Knows(j)'
  PROVE  job' \in [Jobs -> Handlers] /\ \A x \in Jobs : Knows(x)'
<1>1. job' \in [Jobs -> Handlers] /\ \A x \in Jobs \ {j} : job'[x] = job[x]
  BY DEF Inv, TypeOK
<1> QED
  BY <1>1, KnowsStable

\* A request takes a step that leaves the database alone.
LEMMA JobStepsQuietly ==
  ASSUME Inv, NEW j \in Jobs, NEW t \in Handlers, job' = [job EXCEPT ![j] = t],
         UNCHANGED <<device, ids, stored, saves, spent, revoked>>, joined' \subseteq Phones,
         active' \in BOOLEAN, clock' \in Nat, held' \in [Phones -> Tokens],
         faults' \in Nat, acts' \in Nat,
         t.kind = "login" => t.p \in Phones, t.pc # "save",
         t.pc = "rotate" => /\ t.row \in 1..saves
                            /\ \A s \in stored : s.row = t.row => s.tok = t.tok
  PROVE  Inv'
<1>1. job'[j] = t /\ saves \in Nat
  BY DEF Inv, TypeOK
<1>2. Knows(j)'
  BY <1>1 DEF Knows
<1>0. saves' \in Nat /\ saves <= saves' /\ \A s \in stored' : s \in stored \/ s.row = saves + 1
  BY <1>1
<1>3. job' \in [Jobs -> Handlers] /\ \A x \in Jobs : Knows(x)'
  BY <1>0, <1>2, JobSteps
<1>4. NoOrphanTokens' /\ FreshRows'
  BY DEF Inv, NoOrphanTokens, FreshRows, Devices
<1> QED
  BY <1>3, <1>4 DEF Inv, TypeOK

\* A request only goes on to another statement.
LEMMA JobGoesOn ==
  ASSUME Inv, NEW j \in Jobs, NEW pc, Goto(j, pc),
         pc \in {"known", "count", "upsert", "match", "expel", "off", "list", "ok", "fail"},
         UNCHANGED <<device, ids, stored, saves, spent, revoked, joined, clock, held, faults,
                     acts>>,
         active' \in BOOLEAN
  PROVE  Inv'
<1> DEFINE t == [job[j] EXCEPT !.pc = pc]
<1>1. job[j] \in Handlers /\ Knows(j)
  BY DEF Inv, TypeOK
<1>2. t \in Handlers /\ t.pc = pc /\ t.kind = job[j].kind /\ t.p = job[j].p
  BY <1>1 DEF Handlers
<1>3. job' = [job EXCEPT ![j] = t]
  BY DEF Goto
<1> HIDE DEF t
<1> QED
  BY <1>1, <1>2, <1>3, JobStepsQuietly DEF Inv, TypeOK, Knows

LEMMA IdleType == Idle \in Handlers
  BY DEF Idle, Handlers, NoToken, Tokens

\* Tokens are taken away while a request takes a step.
LEMMA JobRemoves ==
  ASSUME Inv, NEW j \in Jobs, NEW t \in Handlers, job' = [job EXCEPT ![j] = t],
         stored' \subseteq stored,
         UNCHANGED <<active, ids, saves, clock, held, joined, faults, acts>>,
         device' \in [Nums -> Nat], \A s \in stored' : s.tok.dev \in Devices',
         spent' \subseteq 1..saves, revoked' \subseteq 1..saves,
         \A s \in stored' : s.row \notin spent' \cup revoked',
         t.kind = "login" => t.p \in Phones, t.pc # "rotate",
         t.pc = "save" => t.new.dev = t.id
  PROVE  Inv'
<1>1. job'[j] = t /\ saves \in Nat
  BY DEF Inv, TypeOK
<1>2. Knows(j)'
  BY <1>1 DEF Knows
<1>0. saves' \in Nat /\ saves <= saves' /\ \A s \in stored' : s \in stored \/ s.row = saves + 1
  BY <1>1
<1>3. job' \in [Jobs -> Handlers] /\ \A x \in Jobs : Knows(x)'
  BY <1>0, <1>2, JobSteps
<1>4. NoOrphanTokens' /\ FreshRows'
  BY DEF Inv, NoOrphanTokens, FreshRows
<1>5. spent' \subseteq Nat /\ revoked' \subseteq Nat
  BY <1>1
<1> QED
  BY <1>3, <1>4, <1>5 DEF Inv, TypeOK

-----------------------------------------------------------------------------
(* The phones.                                                             *)

LEMMA BeginsKeep ==
  ASSUME Inv, NEW j \in Jobs, NEW kind, NEW pc, NEW p \in Phones \cup {"none"},
         NEW tok \in Tokens, NEW d \in Nat, Begin(j, kind, pc, p, tok, d),
         <<kind, pc>> \in {<<"login", "user">>, <<"refresh", "device">>, <<"revoke", "purge">>,
                           <<"deactivate", "off">>},
         kind = "login" => p \in Phones,
         UNCHANGED <<serverVars, spent, revoked, clock, held, faults>>, acts' \in Nat,
         joined' \subseteq Phones
  PROVE  Inv'
<1> DEFINE t == [Idle EXCEPT !.kind = kind, !.pc = pc, !.p = p, !.tok = tok, !.id = d, !.heard = TRUE]
<1>1. job' = [job EXCEPT ![j] = t]
  BY DEF Begin
<1>2. t \in Handlers /\ t.kind = kind /\ t.pc = pc /\ t.p = p
  BY DEF Idle, Handlers, NoToken, Tokens
<1> HIDE DEF t
<1> QED
  BY <1>1, <1>2, JobStepsQuietly DEF Inv, TypeOK, serverVars

LEMMA AnswerKeeps ==
  ASSUME Inv, NEW j \in Jobs, Answer(j) \/ LoseAnswer(j)
  PROVE  Inv'
<1>1. job[j] \in Handlers /\ Knows(j) /\ NoToken \in Tokens /\ held \in [Phones -> Tokens]
  BY DEF Inv, TypeOK, NoToken, Tokens
<1>2. job[j].new \in Tokens
  BY <1>1 DEF Handlers
<1>3. \A p : SessionExpired(p) => held' \in [Phones -> Tokens]
  BY <1>1 DEF SessionExpired
<1>4. CASE Answer(j)
  <2>1. held' \in [Phones -> Tokens]
    BY <1>1, <1>2, <1>3, <1>4 DEF Answer
  <2>2. job' = [job EXCEPT ![j] = Idle] /\ Idle.pc = "idle" /\ Idle.kind = "idle"
    BY <1>4 DEF Answer, Idle
  <2> QED
    BY <1>4, <2>1, <2>2, IdleType, JobStepsQuietly DEF Answer, serverVars, Inv, TypeOK
<1>5. CASE LoseAnswer(j)
  <2> DEFINE t == [job[j] EXCEPT !.heard = FALSE]
  <2>1. held' \in [Phones -> Tokens]
    BY <1>1, <1>3, <1>5 DEF LoseAnswer
  <2>2. t \in Handlers /\ t.kind = job[j].kind /\ t.p = job[j].p /\ t.pc = job[j].pc
    BY <1>1 DEF Handlers
  <2>3. t.row = job[j].row /\ t.tok = job[j].tok /\ t.new = job[j].new /\ t.id = job[j].id
    BY <1>1 DEF Handlers
  <2>4. job' = [job EXCEPT ![j] = t] /\ UNCHANGED <<serverVars, clock, spent, revoked, joined, acts>>
        /\ faults' \in Nat
    BY <1>5 DEF LoseAnswer, Inv, TypeOK
  <2> HIDE DEF t
  <2>5. job'[j] = t /\ saves \in Nat
    BY <2>4 DEF Inv, TypeOK
  <2>6. Knows(j)'
    BY <1>1, <2>2, <2>3, <2>4, <2>5 DEF Knows, serverVars
  <2>0. saves' \in Nat /\ saves <= saves' /\ \A s \in stored' : s \in stored \/ s.row = saves + 1
    BY <2>4, <2>5 DEF serverVars
  <2>7. job' \in [Jobs -> Handlers] /\ \A x \in Jobs : Knows(x)'
    BY <2>0, <2>2, <2>4, <2>6, JobSteps
  <2>8. NoOrphanTokens' /\ FreshRows'
    BY <2>4 DEF Inv, NoOrphanTokens, FreshRows, Devices, serverVars
  <2> QED
    BY <2>1, <2>4, <2>7, <2>8 DEF Inv, TypeOK, serverVars
<1> QED
  BY <1>4, <1>5

-----------------------------------------------------------------------------
(* The statements of the requests.                                         *)

LEMMA DevicesType ==
  ASSUME TypeOK PROVE Devices \subseteq Nat \ {0} /\ \A n \in Nums : device[n] \in Nat
  BY DEF TypeOK, Devices

LEMMA LoginReads ==
  ASSUME Inv, NEW j \in Jobs, FindUser(j) \/ FindDevice(j) \/ CountDevices(j)
  PROVE  Inv'
<1>1. active' \in BOOLEAN
  BY DEF FindUser, FindDevice, CountDevices, serverVars, Inv, TypeOK
<1>2. CASE FindUser(j)
  BY <1>1, <1>2, JobGoesOn DEF FindUser, serverVars
<1>3. CASE FindDevice(j)
  BY <1>1, <1>3, JobGoesOn DEF FindDevice, serverVars
<1>4. CASE CountDevices(j)
  BY <1>1, <1>4, JobGoesOn DEF CountDevices, serverVars
<1> QED
  BY <1>2, <1>3, <1>4

\* A device row stays, or a new one comes.
LEMMA UpsertKeeps ==
  ASSUME Inv, NEW j \in Jobs, UpsertDevice(j)
  PROVE  Inv'
<1>1. job[j] \in Handlers /\ job[j].kind = "login" /\ job[j].p \in Phones /\ ids \in Nat
  BY DEF UpsertDevice, At, Inv, TypeOK, Knows
<1>2. PICK n : n = Slot[job[j].p]
  OBVIOUS
<1>3. n \in Nums /\ device \in [Nums -> Nat]
  BY <1>1, <1>2, SessionAssumption DEF Inv, TypeOK
<1>4. PICK d : d = IF device[n] = 0 THEN ids + 1 ELSE device[n]
  OBVIOUS
<1>5. d \in Nat
  BY <1>1, <1>3, <1>4
<1> DEFINE t == [job[j] EXCEPT !.pc = "purge", !.id = d]
<1>6. /\ device' = [device EXCEPT ![n] = d]
      /\ ids' = IF device[n] = 0 THEN ids + 1 ELSE ids
      /\ job' = [job EXCEPT ![j] = t]
      /\ UNCHANGED <<active, stored, saves, clock, held, spent, revoked, joined, faults, acts>>
  BY <1>2, <1>4 DEF UpsertDevice
<1>7. t \in Handlers /\ t.pc = "purge" /\ t.kind = "login" /\ t.p = job[j].p
  BY <1>1, <1>5 DEF Handlers
<1> HIDE DEF t
<1>8. device' \in [Nums -> Nat] /\ ids' \in Nat
  BY <1>1, <1>3, <1>5, <1>6
<1>9. Devices \subseteq Devices'
  BY <1>3, <1>4, <1>6 DEF Devices
<1>10. job'[j] = t
  BY <1>6 DEF Inv, TypeOK
<1>11. Knows(j)'
  BY <1>1, <1>7, <1>10 DEF Knows
<1>12. saves' \in Nat /\ saves <= saves' /\ \A s \in stored' : s \in stored \/ s.row = saves + 1
  BY <1>6 DEF Inv, TypeOK
<1>13. job' \in [Jobs -> Handlers] /\ \A x \in Jobs : Knows(x)'
  BY <1>6, <1>7, <1>11, <1>12, JobSteps
<1>14. NoOrphanTokens' /\ FreshRows'
  BY <1>6, <1>9 DEF Inv, NoOrphanTokens, FreshRows
<1> QED
  BY <1>6, <1>8, <1>13, <1>14 DEF Inv, TypeOK

\* The rows that go with a device are no rows of what is left.
LEMMA RevokedRows ==
  ASSUME Inv, NEW d
  PROVE  /\ RowsOf(d) \subseteq 1..saves
         /\ \A s \in stored \ OfDevice(d) : s.row \notin RowsOf(d)
  BY DEF Inv, TypeOK, FreshRows, RowsOf, OfDevice

\* Tokens of one device are deleted.
LEMMA PurgeKeeps ==
  ASSUME Inv, NEW j \in Jobs, NEW t \in Handlers, job' = [job EXCEPT ![j] = t], NEW d,
         stored' = stored \ OfDevice(d), revoked' \in {revoked, revoked \cup RowsOf(d)},
         UNCHANGED <<active, device, ids, saves, clock, held, spent, joined, faults, acts>>,
         t.kind = "login" => t.p \in Phones, t.pc # "rotate",
         t.pc = "save" => t.new.dev = t.id
  PROVE  Inv'
<1>1. stored' \subseteq stored /\ Devices' = Devices
  BY DEF Devices
<1>2. /\ \A s \in stored' : s.tok.dev \in Devices'
      /\ spent' \subseteq 1..saves /\ device' \in [Nums -> Nat]
  BY <1>1 DEF Inv, NoOrphanTokens, FreshRows, TypeOK
<1>3. revoked' \subseteq 1..saves /\ \A s \in stored' : s.row \notin spent' \cup revoked'
  BY RevokedRows DEF Inv, FreshRows
<1> QED
  BY <1>1, <1>2, <1>3, JobRemoves

LEMMA PurgeTokensKeeps ==
  ASSUME Inv, NEW j \in Jobs, PurgeTokens(j) \/ Expel(j) \/ RevokeTokens(j)
  PROVE  Inv'
<1>1. job[j] \in Handlers /\ Knows(j) /\ clock \in Nat
  BY DEF Inv, TypeOK
<1>2. CASE PurgeTokens(j)
  <2> DEFINE k == [dev |-> job[j].id, sec |-> clock]
             t == [job[j] EXCEPT !.pc = "save", !.new = k]
  <2>1. job' = [job EXCEPT ![j] = t]
    BY <1>2 DEF PurgeTokens
  <2>2. k \in Tokens /\ k.dev = job[j].id
    BY <1>1 DEF Tokens, Handlers
  <2> HIDE DEF k
  <2>3. t \in Handlers /\ t.new.dev = t.id /\ t.kind = job[j].kind /\ t.p = job[j].p /\ t.pc = "save"
    BY <1>1, <2>2 DEF Handlers
  <2> HIDE DEF t
  <2> QED
    BY <1>1, <1>2, <2>1, <2>3, PurgeKeeps DEF PurgeTokens, Knows
<1>3. ASSUME NEW pc \in {"fail", "drop"}, Goto(j, pc), stored' = stored \ OfDevice(job[j].id),
             revoked' \in {revoked, revoked \cup RowsOf(job[j].id)},
             UNCHANGED <<active, device, ids, saves, clock, held, spent, joined, faults, acts>>
      PROVE  Inv'
  <2> DEFINE t == [job[j] EXCEPT !.pc = pc]
  <2>1. job' = [job EXCEPT ![j] = t]
    BY <1>3 DEF Goto
  <2>2. t \in Handlers /\ t.pc = pc /\ t.kind = job[j].kind /\ t.p = job[j].p
    BY <1>1 DEF Handlers
  <2> HIDE DEF t
  <2> QED
    BY <1>1, <1>3, <2>1, <2>2, PurgeKeeps DEF Knows
<1> QED
  BY <1>2, <1>3 DEF Expel, RevokeTokens

\* The database insists on the device and on a new token.
LEMMA SaveKeeps ==
  ASSUME Inv, NEW j \in Jobs, SaveToken(j)
  PROVE  Inv'
<1>1. job[j] \in Handlers /\ Knows(j) /\ job[j].pc = "save" /\ saves \in Nat
  BY DEF Inv, TypeOK, SaveToken
<1>2. CASE job[j].id \notin Devices \/ IsStored(job[j].new)
  BY <1>2, JobGoesOn DEF SaveToken, Inv, TypeOK
<1>3. CASE job[j].id \in Devices /\ ~IsStored(job[j].new)
  <2> DEFINE r == [tok |-> job[j].new, row |-> saves + 1]
             t == [job[j] EXCEPT !.pc = "ok"]
  <2>1. /\ stored' = stored \cup {r} /\ saves' = saves + 1
        /\ job' = [job EXCEPT ![j] = t]
        /\ UNCHANGED <<active, device, ids, clock, held, spent, revoked, joined, faults, acts>>
    BY <1>3 DEF SaveToken, Goto
  <2>2. t \in Handlers /\ t.pc = "ok" /\ t.kind = job[j].kind /\ t.p = job[j].p
    BY <1>1 DEF Handlers
  <2>3. r \in [tok : Tokens, row : Nat] /\ r.row = saves + 1 /\ r.tok = job[j].new
    BY <1>1 DEF Handlers
  <2> HIDE DEF r, t
  <2>4. r.tok.dev \in Devices /\ Devices' = Devices
    BY <1>1, <1>3, <2>1, <2>3 DEF Knows, Devices
  <2>5. NoOrphanTokens'
    BY <2>1, <2>4 DEF Inv, NoOrphanTokens
  <2>6. FreshRows'
    <3>1. saves + 1 \in 1..(saves + 1) /\ 1..saves \subseteq 1..(saves + 1) /\ saves + 1 \notin 1..saves
      BY <1>1
    <3> QED
      BY <2>1, <2>3, <3>1 DEF Inv, FreshRows
  <2>7. \A s, u \in stored' : s.tok = u.tok \/ s.row = u.row => s = u
    <3>1. \A s \in stored : s.tok # r.tok /\ s.row # r.row
      <4>1. saves + 1 \notin 1..saves
        BY <1>1
      <4> QED
        BY <1>3, <2>3, <4>1 DEF IsStored, Inv, FreshRows
    <3> QED
      BY <2>1, <3>1 DEF Inv, TypeOK
  <2>8. job'[j] = t
    BY <2>1 DEF Inv, TypeOK
  <2>9. Knows(j)'
    BY <1>1, <2>2, <2>8 DEF Knows
  <2>10. saves' \in Nat /\ saves <= saves' /\ \A s \in stored' : s \in stored \/ s.row = saves + 1
    BY <1>1, <2>1, <2>3
  <2>11. job' \in [Jobs -> Handlers] /\ \A x \in Jobs : Knows(x)'
    BY <2>1, <2>2, <2>9, <2>10, JobSteps
  <2> QED
    BY <2>1, <2>3, <2>5, <2>6, <2>7, <2>10, <2>11 DEF Inv, TypeOK
<1> QED
  BY <1>2, <1>3

LEMMA ChooseKeeps ==
  ASSUME Inv, NEW j \in Jobs, ChooseDevice(j)
  PROVE  Inv'
<1>1. /\ job[j] \in Handlers /\ job[j].kind = "refresh"
      /\ UNCHANGED <<serverVars, clock, held, spent, revoked, joined, faults, acts>>
  BY DEF Inv, TypeOK, ChooseDevice, At
<1>2. CASE Goto(j, "fail")
  BY <1>1, <1>2, JobGoesOn DEF serverVars, Inv, TypeOK
<1>3. ASSUME NEW d \in Devices, job' = [job EXCEPT ![j].pc = "active", ![j].id = d]
      PROVE  Inv'
  <2> DEFINE t == [job[j] EXCEPT !.pc = "active", !.id = d]
  <2>1. job' = [job EXCEPT ![j] = t]
    BY <1>3
  <2>2. d \in Nat
    BY DevicesType DEF Inv
  <2>3. t \in Handlers /\ t.pc = "active" /\ t.kind = "refresh"
    BY <1>1, <2>2 DEF Handlers
  <2> HIDE DEF t
  <2> QED
    BY <1>1, <2>1, <2>3, JobStepsQuietly DEF serverVars, Inv, TypeOK
<1> QED
  BY <1>2, <1>3 DEF ChooseDevice

\* The row that matches has the token of the request.
LEMMA MatchKeeps ==
  ASSUME Inv, NEW j \in Jobs, MatchToken(j)
  PROVE  Inv'
<1>1. /\ job[j] \in Handlers /\ job[j].kind = "refresh"
      /\ UNCHANGED <<serverVars, clock, held, spent, revoked, joined, faults, acts>>
  BY DEF Inv, TypeOK, MatchToken, At
<1>2. CASE Goto(j, "expel")
  BY <1>1, <1>2, JobGoesOn DEF serverVars, Inv, TypeOK
<1>3. ASSUME NEW s \in stored, s.tok = job[j].tok,
             job' = [job EXCEPT ![j].pc = "rotate", ![j].row = s.row]
      PROVE  Inv'
  <2> DEFINE t == [job[j] EXCEPT !.pc = "rotate", !.row = s.row]
  <2>1. job' = [job EXCEPT ![j] = t]
    BY <1>3
  <2>2. s.row \in Nat /\ s.row \in 1..saves /\ \A u \in stored : u.row = s.row => u = s
    BY DEF Inv, TypeOK, FreshRows
  <2>3. t \in Handlers /\ t.pc = "rotate" /\ t.kind = "refresh" /\ t.row = s.row /\ t.tok = job[j].tok
    BY <1>1, <2>2 DEF Handlers
  <2> HIDE DEF t
  <2> QED
    <3>1. t.row \in 1..saves /\ \A u \in stored : u.row = t.row => u.tok = t.tok
      BY <1>3, <2>2, <2>3
    <3> QED
      BY <1>1, <2>1, <2>3, <3>1, JobStepsQuietly DEF serverVars, Inv, TypeOK
<1> QED
  BY <1>2, <1>3 DEF MatchToken, OfDevice

\* The row that a refresh rotates is there, has its token, and has not been rotated.
LEMMA RotateEffect ==
  ASSUME Inv, NEW j \in Jobs, Rotate(j), \E s \in stored : s.row = job[j].row
  PROVE  Inv' /\ job[j].tok.dev \in Devices /\ job[j].row \notin spent \cup revoked
<1>1. job[j] \in Handlers /\ Knows(j) /\ job[j].kind = "refresh" /\ job[j].pc = "rotate" /\ clock \in Nat
  BY DEF Inv, TypeOK, Rotate, At
<1>2. PICK s \in stored : s.row = job[j].row
  OBVIOUS
<1>3. job[j].tok = s.tok /\ job[j].row \notin spent \cup revoked /\ job[j].row \in 1..saves
  BY <1>1, <1>2 DEF Knows, Inv, FreshRows
<1>4. job[j].tok.dev \in Devices
  BY <1>3 DEF Inv, NoOrphanTokens
<1> DEFINE k == [dev |-> job[j].id, sec |-> clock]
           t == [job[j] EXCEPT !.pc = "save", !.new = k]
<1>5. /\ stored' = {u \in stored : u.row # job[j].row} /\ spent' = spent \cup {job[j].row}
      /\ job' = [job EXCEPT ![j] = t]
      /\ UNCHANGED <<active, device, ids, saves, clock, held, revoked, joined, faults, acts>>
  BY <1>2 DEF Rotate
<1>6. k \in Tokens /\ k.dev = job[j].id
  BY <1>1 DEF Tokens, Handlers
<1> HIDE DEF k
<1>7. t \in Handlers /\ t.new.dev = t.id /\ t.kind = "refresh" /\ t.pc = "save"
  BY <1>1, <1>6 DEF Handlers
<1> HIDE DEF t
<1>8. /\ stored' \subseteq stored /\ device' \in [Nums -> Nat]
      /\ \A u \in stored' : u.tok.dev \in Devices' /\ u.row \notin spent' \cup revoked'
      /\ spent' \subseteq 1..saves /\ revoked' \subseteq 1..saves
  <2>1. stored' \subseteq stored /\ device' = device /\ Devices' = Devices
    BY <1>5 DEF Devices
  <2>2. \A u \in stored' : u.tok.dev \in Devices'
    BY <2>1 DEF Inv, NoOrphanTokens
  <2>3. \A u \in stored' : u.row \notin spent' \cup revoked'
    BY <1>5, <2>1 DEF Inv, FreshRows
  <2>4. spent' \subseteq 1..saves /\ revoked' \subseteq 1..saves
    BY <1>3, <1>5 DEF Inv, FreshRows
  <2> QED
    BY <2>1, <2>2, <2>3, <2>4 DEF Inv, TypeOK
<1>9. Inv'
  BY <1>5, <1>7, <1>8, JobRemoves
<1> QED
  BY <1>3, <1>4, <1>9

LEMMA RotateKeeps ==
  ASSUME Inv, NEW j \in Jobs, Rotate(j)
  PROVE  Inv'
<1>1. CASE \E s \in stored : s.row = job[j].row
  BY <1>1, RotateEffect
<1>2. CASE ~\E s \in stored : s.row = job[j].row
  BY <1>2, JobGoesOn DEF Rotate, Inv, TypeOK
<1> QED
  BY <1>1, <1>2

LEMMA DropKeeps ==
  ASSUME Inv, NEW j \in Jobs, DropDevice(j)
  PROVE  Inv'
<1>1. job[j] \in Handlers /\ job[j].kind = "revoke" /\ device \in [Nums -> Nat]
  BY DEF Inv, TypeOK, DropDevice, At
<1>2. PICK d : d = job[j].id
  OBVIOUS
<1>3. CASE Goto(j, "fail") /\ UNCHANGED <<device, stored, revoked>>
  BY <1>3, JobGoesOn DEF DropDevice, Inv, TypeOK
<1>4. ASSUME NEW pc \in {"ok", "fail"}, Goto(j, pc),
             device' = [n \in Nums |-> IF device[n] = d THEN 0 ELSE device[n]],
             stored' = stored \ OfDevice(d), revoked' = revoked \cup RowsOf(d),
             UNCHANGED <<active, ids, saves, clock, held, spent, joined, faults, acts>>
      PROVE  Inv'
  <2> DEFINE t == [job[j] EXCEPT !.pc = pc]
  <2>1. job' = [job EXCEPT ![j] = t]
    BY <1>4 DEF Goto
  <2>2. t \in Handlers /\ t.pc = pc /\ t.kind = "revoke"
    BY <1>1 DEF Handlers
  <2> HIDE DEF t
  <2>3. device' \in [Nums -> Nat] /\ \A x \in Devices : x # d => x \in Devices'
    BY <1>1, <1>4 DEF Devices
  <2>4. /\ stored' \subseteq stored /\ \A s \in stored' : s.tok.dev \in Devices'
        /\ spent' \subseteq 1..saves
    BY <1>4, <2>3 DEF Inv, NoOrphanTokens, FreshRows, OfDevice
  <2>5. revoked' \subseteq 1..saves /\ \A s \in stored' : s.row \notin spent' \cup revoked'
    BY <1>4, RevokedRows DEF Inv, FreshRows
  <2> QED
    BY <1>4, <2>1, <2>2, <2>3, <2>4, <2>5, JobRemoves
<1> QED
  BY <1>2, <1>3, <1>4 DEF DropDevice

LEMMA DeactivateKeeps ==
  ASSUME Inv, NEW j \in Jobs, Deactivate(j) \/ ListDevices(j) \/ WipeDevice(j)
  PROVE  Inv'
<1>1. job[j] \in Handlers /\ job[j].kind = "deactivate"
  BY DEF Inv, TypeOK, Deactivate, ListDevices, WipeDevice, At
<1>2. CASE Deactivate(j)
  BY <1>2, JobGoesOn DEF Deactivate
<1>3. CASE ListDevices(j)
  <2> DEFINE t == [job[j] EXCEPT !.pc = "wipe", !.todo = Devices]
  <2>1. job' = [job EXCEPT ![j] = t] /\ UNCHANGED <<serverVars, clock, held, spent, revoked, joined, faults, acts>>
    BY <1>3 DEF ListDevices
  <2>2. t \in Handlers /\ t.pc = "wipe" /\ t.kind = "deactivate"
    BY <1>1, DevicesType DEF Handlers, Inv
  <2> HIDE DEF t
  <2> QED
    BY <2>1, <2>2, JobStepsQuietly DEF serverVars, Inv, TypeOK
<1>4. CASE WipeDevice(j)
  <2>1. CASE job[j].todo = {}
    BY <1>4, <2>1, JobGoesOn DEF WipeDevice, Inv, TypeOK
  <2>2. CASE job[j].todo # {}
    <3>1. PICK d \in job[j].todo : /\ stored' = stored \ OfDevice(d)
                                   /\ job' = [job EXCEPT ![j].todo = @ \ {d}]
      BY <1>4, <2>2 DEF WipeDevice
    <3> DEFINE t == [job[j] EXCEPT !.todo = @ \ {d}]
    <3>2. job' = [job EXCEPT ![j] = t]
      BY <3>1
    <3>3. t \in Handlers /\ t.pc = "wipe" /\ t.kind = "deactivate"
      BY <1>1, <1>4 DEF Handlers, WipeDevice, At
    <3> HIDE DEF t
    <3> QED
      BY <1>4, <3>1, <3>2, <3>3, PurgeKeeps DEF WipeDevice
  <2> QED
    BY <2>1, <2>2
<1> QED
  BY <1>2, <1>3, <1>4

-----------------------------------------------------------------------------
(* The theorems.                                                           *)

LEMMA StartsKeep ==
  ASSUME Inv, NEW j \in Jobs,
         \/ \E p \in Phones : StartLogin(p, j) \/ StartRefresh(p, j)
         \/ StartDeactivate(j) \/ \E d \in Devices : StartRevoke(j, d)
  PROVE  Inv'
<1>1. /\ NoToken \in Tokens /\ held \in [Phones -> Tokens] /\ acts \in Nat
      /\ joined \subseteq Phones
  BY DEF Inv, TypeOK, NoToken, Tokens
<1>2. ASSUME NEW p \in Phones, StartLogin(p, j) PROVE Inv'
  <2>1. joined' \subseteq Phones
    BY <1>1, <1>2 DEF StartLogin
  <2> QED
    BY <1>1, <1>2, <2>1, BeginsKeep DEF StartLogin
<1>3. ASSUME NEW p \in Phones, StartRefresh(p, j) PROVE Inv'
  <2>1. joined' \subseteq Phones /\ held[p] \in Tokens
    BY <1>1, <1>3 DEF StartRefresh
  <2> QED
    BY <1>1, <1>3, <2>1, BeginsKeep DEF StartRefresh
<1>4. CASE StartDeactivate(j)
  <2>1. acts' \in Nat /\ joined' \subseteq Phones
    BY <1>1, <1>4 DEF StartDeactivate
  <2> QED
    BY <1>1, <1>4, <2>1, BeginsKeep DEF StartDeactivate
<1>5. ASSUME NEW d \in Devices, StartRevoke(j, d) PROVE Inv'
  <2>1. acts' \in Nat /\ d \in Nat /\ joined' \subseteq Phones
    BY <1>1, <1>5, DevicesType DEF StartRevoke, Inv
  <2> QED
    BY <1>1, <1>5, <2>1, BeginsKeep DEF StartRevoke
<1> QED
  BY <1>2, <1>3, <1>4, <1>5

\* Neither the clock nor a phone changes what the server holds.
LEMMA RestKeeps ==
  ASSUME Inv, UNCHANGED <<serverVars, job, spent, revoked, joined>>, clock' \in Nat, held' \in [Phones -> Tokens],
         faults' \in Nat, acts' \in Nat
  PROVE  Inv'
<1>1. NoOrphanTokens' /\ FreshRows' /\ \A j \in Jobs : Knows(j)'
  BY DEF Inv, NoOrphanTokens, FreshRows, Knows, Devices, serverVars
<1> QED
  BY <1>1 DEF Inv, TypeOK, serverVars

LEMMA NextKeeps ==
  ASSUME Inv, [Next]_vars
  PROVE  Inv'
<1>1. CASE UNCHANGED vars
  BY <1>1, RestKeeps DEF vars, Inv, TypeOK
<1>2. ASSUME NEW p \in Phones, Logout(p) PROVE Inv'
  <2>1. held' \in [Phones -> Tokens] /\ acts' \in Nat
    BY <1>2 DEF Logout, Inv, TypeOK, NoToken, Tokens
  <2> QED
    BY <1>2, <2>1, RestKeeps DEF Logout, Inv, TypeOK
<1>3. CASE Tick
  <2>1. clock' \in Nat
    BY <1>3 DEF Tick, Inv, TypeOK
  <2> QED
    BY <1>3, <2>1, RestKeeps DEF Tick, Inv, TypeOK
<1>4. ASSUME NEW j \in Jobs, Login(j) PROVE Inv'
  BY <1>4, LoginReads, UpsertKeeps, PurgeTokensKeeps DEF Login
<1>5. ASSUME NEW j \in Jobs, Refresh(j) PROVE Inv'
  <2>1. CASE CheckActive(j)
    BY <2>1, JobGoesOn DEF CheckActive, serverVars, Inv, TypeOK
  <2> QED
    BY <1>5, <2>1, ChooseKeeps, MatchKeeps, RotateKeeps, PurgeTokensKeeps DEF Refresh
<1>6. ASSUME NEW j \in Jobs, Manage(j) PROVE Inv'
  BY <1>6, PurgeTokensKeeps, DropKeeps, DeactivateKeeps DEF Manage
<1> QED
  BY <1>1, <1>2, <1>3, <1>4, <1>5, <1>6, StartsKeep, AnswerKeeps, SaveKeeps DEF Next

LEMMA InvHolds == Spec => []Inv
<1>1. Init => Inv
  BY IdleType DEF Init, Inv, TypeOK, NoOrphanTokens, FreshRows, Knows, Idle, NoToken, Tokens
<1>2. Inv /\ [Next]_vars => Inv'
  BY NextKeeps
<1> QED
  BY <1>1, <1>2, PTL DEF Spec

\* Every table, every request and every phone holds what it should, and token strings are unique.
THEOREM TypeCorrect == Spec => []TypeOK
<1>1. Inv => TypeOK
  BY DEF Inv
<1> QED
  BY <1>1, InvHolds, PTL

\* No refresh token outlives its device, however logins, refreshes and revocations overlap.
THEOREM TokensHaveDevices == Spec => []NoOrphanTokens
<1>1. Inv => NoOrphanTokens
  BY DEF Inv
<1> QED
  BY <1>1, InvHolds, PTL

LEMMA RotationIsUnique ==
  ASSUME Inv, [Next]_vars, NEW j \in Jobs, Rotates(j)
  PROVE  job[j].row \notin spent \cup revoked /\ job[j].tok.dev \in Devices
<1>1. At(j, "refresh", "rotate") /\ (job'[j]).pc = "save"
  BY DEF Rotates
<1>2. job'[j] # job[j]
  BY <1>1 DEF At
<1>3. ASSUME NEW x \in Jobs, NEW pc, Goto(x, pc), x = j => pc # "save"
      PROVE  FALSE
  BY <1>1, <1>2, <1>3 DEF Goto, Inv, TypeOK, Handlers
<1>4. ASSUME NEW x \in Jobs, NEW t, job' = [job EXCEPT ![x] = t], x = j => t.pc # "save"
      PROVE  FALSE
  BY <1>1, <1>2, <1>4 DEF Inv, TypeOK
<1>5. ASSUME NEW x \in Jobs, Login(x) PROVE FALSE
  <2>1. CASE FindUser(x) \/ FindDevice(x) \/ CountDevices(x)
    BY <1>3, <2>1 DEF FindUser, FindDevice, CountDevices
  <2>2. CASE UpsertDevice(x)
    BY <1>1, <1>2, <2>2 DEF UpsertDevice, At, Inv, TypeOK
  <2>3. CASE PurgeTokens(x)
    BY <1>1, <1>2, <2>3 DEF PurgeTokens, At, Inv, TypeOK
  <2> QED
    BY <1>5, <2>1, <2>2, <2>3 DEF Login
<1>6. ASSUME NEW x \in Jobs, Manage(x) PROVE FALSE
  <2>1. CASE RevokeTokens(x) \/ DropDevice(x) \/ Deactivate(x)
    BY <1>3, <2>1 DEF RevokeTokens, DropDevice, Deactivate
  <2>2. CASE ListDevices(x)
    BY <1>1, <1>2, <2>2 DEF ListDevices, At, Inv, TypeOK
  <2>3. CASE WipeDevice(x)
    BY <1>1, <1>2, <2>3 DEF WipeDevice, Goto, At, Inv, TypeOK
  <2> QED
    BY <1>6, <2>1, <2>2, <2>3 DEF Manage
<1>7. ASSUME NEW x \in Jobs,
             \/ \E p \in Phones : StartLogin(p, x) \/ StartRefresh(p, x)
             \/ StartDeactivate(x) \/ \E d \in Devices : StartRevoke(x, d)
      PROVE  FALSE
  <2>1. \A kind, pc, p, t, d : ~Begin(x, kind, pc, p, t, d)
    BY <1>1, <1>2 DEF Begin, At, Inv, TypeOK
  <2> QED
    BY <1>7, <2>1 DEF StartLogin, StartRefresh, StartDeactivate, StartRevoke
<1>8. ASSUME NEW x \in Jobs, Answer(x) \/ LoseAnswer(x) \/ SaveToken(x) PROVE FALSE
  <2>1. CASE Answer(x)
    BY <1>4, <2>1 DEF Answer, Idle
  <2>2. CASE LoseAnswer(x)
    BY <1>1, <1>2, <2>2 DEF LoseAnswer, At, Inv, TypeOK, Handlers
  <2>3. CASE SaveToken(x)
    BY <1>3, <2>3 DEF SaveToken
  <2> QED
    BY <1>8, <2>1, <2>2, <2>3
<1>9. (\A p \in Phones : ~Logout(p)) /\ ~Tick /\ ~UNCHANGED vars
  BY <1>2 DEF Logout, Tick, vars
<1>10. PICK x \in Jobs : Refresh(x)
  BY <1>5, <1>6, <1>7, <1>8, <1>9 DEF Next
<1>11. Rotate(x)
  <2>1. ~ChooseDevice(x)
    BY <1>1, <1>2, <1>3 DEF ChooseDevice, At, Inv, TypeOK
  <2>2. ~MatchToken(x)
    BY <1>1, <1>2, <1>3 DEF MatchToken, At, Inv, TypeOK
  <2>3. ~(CheckActive(x) \/ Expel(x))
    BY <1>3 DEF CheckActive, Expel
  <2> QED
    BY <1>10, <2>1, <2>2, <2>3 DEF Refresh
<1>12. x = j /\ \E s \in stored : s.row = job[j].row
  <2>1. x = j
    BY <1>2, <1>11 DEF Rotate, Goto, Inv, TypeOK
  <2> QED
    BY <1>3, <1>11, <2>1 DEF Rotate
<1> QED
  BY <1>11, <1>12, RotateEffect

\* Of all the refreshes that match one token row, and of all its retries, one rotates it.
THEOREM SessionNeverForks == Spec => RotatedAtMostOnce
<1>1. Inv /\ [Next]_vars => [\A j \in Jobs : Rotates(j) => job[j].row \notin spent]_vars
  BY RotationIsUnique
<1> QED
  BY <1>1, InvHolds, PTL DEF Spec, RotatedAtMostOnce

\* A refresh that has found the device, or matched its token, before the revocation deleted it
\* does not rotate the token, whether or not the device itself could be deleted.
THEOREM RevocationHolds == Spec => RevokedIsRefused
<1>1. Inv /\ [Next]_vars =>
        [\A j \in Jobs : Rotates(j) => job[j].tok.dev \in Devices /\ job[j].row \notin revoked]_vars
  BY RotationIsUnique
<1> QED
  BY <1>1, InvHolds, PTL DEF Spec, RevokedIsRefused

-----------------------------------------------------------------------------
(* Undisturbed sessions.                                                   *)

\* The device row of a phone.
Home(p) == device[Slot[p]]

\* A phone with a session has a device row, and unless it refreshes its token is stored.
Session(p) ==
  held[p] # NoToken =>
    /\ held[p].dev = Home(p) /\ Home(p) # 0
    /\ ~Awaits(p, "refresh") => IsStored(held[p])

\* How far a login has come: its phone has no session yet.
LoggingIn(j) ==
  /\ held[job[j].p] = NoToken
  /\ job[j].pc \in {"user", "known", "count", "upsert", "purge", "save", "ok", "fail"}
  /\ job[j].pc \in {"purge", "save", "ok"} => job[j].id = Home(job[j].p) /\ job[j].id # 0
  /\ job[j].pc = "save" => OfDevice(job[j].id) = {}

\* How far a refresh has come: it has the token of its phone, finds it, and never fails.
Refreshing(j) ==
  /\ held[job[j].p] # NoToken /\ job[j].tok = held[job[j].p]
  /\ job[j].pc \in {"device", "active", "match", "rotate", "save", "ok"}
  /\ job[j].pc # "device" => job[j].id = Home(job[j].p)
  /\ job[j].pc \in {"device", "active", "match"} => IsStored(job[j].tok)
  /\ job[j].pc = "rotate" => \E s \in stored : s.row = job[j].row /\ s.tok = job[j].tok
  /\ job[j].pc = "save" => OfDevice(job[j].id) = {}

Serving(j) ==
  IF job[j].kind = "idle" THEN job[j].pc = "idle"
  ELSE /\ job[j].kind \in {"login", "refresh"} /\ job[j].p \in Phones /\ job[j].heard
       /\ job[j].kind = "login" => LoggingIn(j)
       /\ job[j].kind = "refresh" => Refreshing(j)
       /\ job[j].pc \in {"save", "ok"} => job[j].new.dev = job[j].id
       /\ job[j].pc = "ok" => IsStored(job[j].new)

\* One request at a time for a phone, one token for a device, one device for a number.
OnePerPhone ==
  \A i, j \in Jobs : job[i].kind # "idle" /\ job[j].kind # "idle" /\ job[i].p = job[j].p => i = j
OnePerDevice == \A s, t \in stored : s.tok.dev = t.tok.dev => s = t
OnePerNumber == /\ \A n \in Nums : device[n] <= ids
                /\ \A m, n \in Nums : device[m] = device[n] /\ device[m] # 0 => m = n

\* A phone that never asked for a login has nothing.
Strangers == \A p \in Phones \ joined :
               held[p] = NoToken /\ \A j \in Jobs : job[j].kind # "idle" => job[j].p # p

Calm == /\ active /\ OnePerNumber /\ OnePerDevice /\ OnePerPhone /\ Strangers
        /\ \A p \in Phones : Session(p)
        /\ \A j \in Jobs : Serving(j)

\* No two phones have sent the same number.
OwnNumbers == \A p, q \in joined : Slot[p] = Slot[q] => p = q

\* A request of one phone takes a step that touches the rows of that phone only.
LEMMA OnePhoneSteps ==
  ASSUME OwnNumbers', Inv, Calm, NEW j \in Jobs, NEW p \in Phones, NEW t \in Handlers,
         job' = [job EXCEPT ![j] = t], t.kind = "idle" \/ t.p = p,
         job[j].kind = "idle" \/ job[j].p = p,
         \A i \in Jobs \ {j} : job[i].kind # "idle" => job[i].p # p,
         UNCHANGED active, OnePerNumber', OnePerDevice', joined' = joined \cup {p},
         \A q \in Phones \ {p} : held'[q] = held[q],
         \A q \in joined \ {p} : Home(q)' = Home(q),
         \A s : s.tok.dev # Home(p)' => (s \in stored' <=> s \in stored),
         Session(p)', Serving(j)'
  PROVE  Calm'
<1>1. /\ job'[j] = t
      /\ \A i \in Jobs \ {j} : job'[i] = job[i]
  BY DEF Inv, TypeOK
<1>2. OnePerPhone'
  BY <1>1 DEF Calm, OnePerPhone
<1>0. joined \subseteq Phones
  BY DEF Inv, TypeOK
<1>3. ASSUME NEW q \in joined \ {p}, Home(q) # 0
      PROVE  /\ Home(q) # Home(p)'
             /\ \A s : s.tok.dev = Home(q) => (s \in stored' <=> s \in stored)
             /\ \A x : x.dev = Home(q) => (IsStored(x)' <=> IsStored(x))
  <2>1. Slot[p] # Slot[q] /\ Slot[p] \in Nums /\ Slot[q] \in Nums
    BY <1>0, SessionAssumption DEF OwnNumbers
  <2>2. Home(q) # Home(p)'
    BY <1>3, <2>1 DEF Home, OnePerNumber
  <2>3. \A s : s.tok.dev = Home(q) => (s \in stored' <=> s \in stored)
    BY <2>2
  <2> QED
    BY <2>2, <2>3 DEF IsStored
<1>6. ASSUME NEW q \in Phones \ joined, q # p
      PROVE  held'[q] = NoToken /\ \A i \in Jobs : job'[i].kind # "idle" => job'[i].p # q
  BY <1>1, <1>6 DEF Calm, Strangers
<1>4. ASSUME NEW q \in Phones \ {p}
      PROVE  Session(q)'
  <2> SUFFICES ASSUME q \in joined PROVE Session(q)'
    BY <1>6 DEF Session
  <2>1. Session(q) /\ held'[q] = held[q] /\ Home(q)' = Home(q)
    BY DEF Calm
  <2>2. Awaits(q, "refresh")' <=> Awaits(q, "refresh")
    BY <1>1 DEF Awaits
  <2>3. Home(q) # 0 /\ held[q].dev = Home(q) => (IsStored(held[q])' <=> IsStored(held[q]))
    BY <1>3
  <2> QED
    BY <2>1, <2>2, <2>3 DEF Session
<1>5. ASSUME NEW i \in Jobs \ {j}
      PROVE  Serving(i)'
  <2> SUFFICES ASSUME job[i].kind # "idle" PROVE Serving(i)'
    BY <1>1 DEF Serving, Calm
  <2>1. Serving(i) /\ job'[i] = job[i] /\ job[i].p \in joined \ {p}
    BY <1>1 DEF Calm, Serving, Strangers
  <2>2. PICK q \in joined \ {p} : q = job[i].p
    BY <2>1
  <2>3. held'[q] = held[q] /\ Home(q)' = Home(q) /\ Session(q)
    BY <1>0 DEF Calm
  <2>4. ASSUME Home(q) # 0
        PROVE  /\ \A s : s.tok.dev = Home(q) => (s \in stored' <=> s \in stored)
               /\ \A x : x.dev = Home(q) => (IsStored(x)' <=> IsStored(x))
               /\ (OfDevice(Home(q)) = {}) => (OfDevice(Home(q)) = {})'
    <3>1. Home(q)' = Home(q)
      BY <2>3
    <3> QED
      BY <1>3, <2>4, <3>1 DEF OfDevice
  <2>5. ASSUME job[i].kind = "login" PROVE Serving(i)'
    BY <2>1, <2>2, <2>3, <2>4, <2>5 DEF Serving, LoggingIn, OfDevice
  <2>6. ASSUME job[i].kind = "refresh" PROVE Serving(i)'
    <3>1. Home(q) # 0 /\ job[i].tok.dev = Home(q) /\ Refreshing(i) /\ job[i].tok = held[q]
      BY <2>1, <2>2, <2>3, <2>6 DEF Serving, Refreshing, Session
    <3>2. Refreshing(i)'
      BY <2>1, <2>2, <2>3, <2>4, <3>1 DEF Refreshing, OfDevice
    <3> QED
      BY <2>1, <2>2, <2>4, <2>6, <3>1, <3>2 DEF Serving, Refreshing
  <2> QED
    BY <2>1, <2>5, <2>6 DEF Serving
<1>7. Strangers'
  BY <1>6 DEF Strangers
<1> QED
  BY <1>2, <1>4, <1>5, <1>7 DEF Calm

\* The phone of a request has asked for a login.
LEMMA RequestsJoined ==
  ASSUME Calm, NEW j \in Jobs, job[j].kind # "idle", job[j].p \in Phones
  PROVE  joined = joined \cup {job[j].p}
  BY DEF Calm, Strangers

\* A request goes on for its phone, whose storage waits for the answer.
LEMMA RequestGoesOn ==
  ASSUME OwnNumbers', Inv, Calm, NEW j \in Jobs, NEW t \in Handlers, job[j].kind # "idle",
         job' = [job EXCEPT ![j] = t],
         t.kind = job[j].kind, t.p = job[j].p, t.heard = job[j].heard,
         UNCHANGED <<active, held, joined>>, OnePerNumber', OnePerDevice',
         \A q \in joined \ {t.p} : Home(q)' = Home(q),
         t.kind = "refresh" => Home(t.p)' = Home(t.p),
         \A s : s.tok.dev # Home(t.p)' => (s \in stored' <=> s \in stored),
         t.kind = "login" => LoggingIn(j)', t.kind = "refresh" => Refreshing(j)',
         t.pc \in {"save", "ok"} => t.new.dev = t.id,
         t.pc = "ok" => IsStored(t.new)'
  PROVE  Calm'
<1>1. job'[j] = t /\ Serving(j)
  BY DEF Inv, TypeOK, Calm
<1>2. PICK p \in Phones : p = t.p
  BY <1>1 DEF Serving
<1>3. Serving(j)'
  BY <1>1 DEF Serving
<1>4. Session(p)'
  <2>1. CASE t.kind = "login"
    BY <1>1, <1>2, <2>1 DEF Serving, LoggingIn, Session
  <2>2. CASE t.kind = "refresh"
    <3>1. Awaits(p, "refresh")'
      BY <1>1, <1>2, <2>2 DEF Awaits, Serving
    <3> QED
      BY <1>2, <2>2, <3>1 DEF Session, Calm
  <2> QED
    BY <1>1, <2>1, <2>2 DEF Serving
<1>5. \A i \in Jobs \ {j} : job[i].kind # "idle" => job[i].p # p
  BY <1>2 DEF Calm, OnePerPhone
<1>6. \A q \in Phones \ {p} : held'[q] = held[q]
  OBVIOUS
<1>7. joined' = joined \cup {p}
  BY <1>2, RequestsJoined
<1> QED
  BY <1>1, <1>2, <1>3, <1>4, <1>5, <1>6, <1>7, OnePhoneSteps

\* A phone starts a request: it has none under way.
LEMMA StartsCalmly ==
  ASSUME OwnNumbers', Inv, Calm, NEW j \in Jobs, NEW p \in Phones,
         StartLogin(p, j) \/ StartRefresh(p, j)
  PROVE  Calm'
<1>1. PICK kind \in {"login", "refresh"}, pc \in {"user", "device"} :
        /\ Begin(j, kind, pc, p, held[p], 0)
        /\ kind = "login" => pc = "user" /\ held[p] = NoToken /\ ~Awaits(p, "login")
        /\ kind = "refresh" => pc = "device" /\ held[p] # NoToken /\ ~Awaits(p, "refresh")
        /\ joined' = joined \cup {p}
        /\ UNCHANGED <<serverVars, clock, held, spent, revoked, faults, acts>>
  BY DEF StartLogin, StartRefresh, Calm, Strangers
<1> DEFINE t == [Idle EXCEPT !.kind = kind, !.pc = pc, !.p = p, !.tok = held[p], !.id = 0,
                             !.heard = TRUE]
<1>2. job[j].kind = "idle" /\ job' = [job EXCEPT ![j] = t]
  BY <1>1 DEF Begin
<1>3. t \in Handlers /\ t.kind = kind /\ t.pc = pc /\ t.p = p /\ t.tok = held[p] /\ t.heard
  BY DEF Idle, Handlers, NoToken, Tokens, Inv, TypeOK
<1> HIDE DEF t
<1>4. job'[j] = t
  BY <1>2 DEF Inv, TypeOK
<1>5. ASSUME NEW i \in Jobs \ {j}, job[i].kind # "idle" PROVE job[i].p # p
  <2>1. Serving(i)
    BY DEF Calm
  <2> QED
    BY <1>1, <1>5, <2>1 DEF Serving, LoggingIn, Refreshing, Awaits
<1>6. UNCHANGED <<active, device, ids, stored, held>>
  BY <1>1 DEF serverVars
<1>7. /\ OnePerNumber' /\ OnePerDevice' /\ \A q : Home(q)' = Home(q)
      /\ \A x : IsStored(x)' <=> IsStored(x)
  BY <1>6 DEF Calm, OnePerNumber, OnePerDevice, Home, IsStored
<1>8. Serving(j)'
  <2>1. kind = "refresh" => IsStored(held[p])
    BY <1>1 DEF Calm, Session
  <2> QED
    BY <1>1, <1>3, <1>4, <1>6, <1>7, <2>1 DEF Serving, LoggingIn, Refreshing
<1>9. Session(p)'
  <2>1. Session(p)
    BY DEF Calm
  <2> QED
    BY <1>1, <1>3, <1>4, <1>6, <1>7, <2>1 DEF Session, Awaits
<1> QED
  BY <1>1, <1>2, <1>3, <1>5, <1>6, <1>7, <1>8, <1>9, OnePhoneSteps

\* The answer brings a token that is stored.
LEMMA AnswersCalmly ==
  ASSUME OwnNumbers', Inv, Calm, NEW j \in Jobs, Answer(j)
  PROVE  Calm'
<1>1. /\ job[j].pc \in {"ok", "fail"} /\ job' = [job EXCEPT ![j] = Idle] /\ job'[j] = Idle
      /\ UNCHANGED <<active, device, ids, stored, joined>> /\ Idle \in Handlers
      /\ Idle.kind = "idle" /\ Idle.pc = "idle"
  BY IdleType DEF Answer, serverVars, Inv, TypeOK, Idle
<1>2. Serving(j) /\ held \in [Phones -> Tokens] /\ job[j] \in Handlers
  BY DEF Calm, Inv, TypeOK
<1>3. /\ OnePerNumber' /\ OnePerDevice' /\ \A q : Home(q)' = Home(q)
      /\ \A x : IsStored(x)' <=> IsStored(x)
  BY <1>1 DEF Calm, OnePerNumber, OnePerDevice, Home, IsStored
<1>4. Serving(j)'
  BY <1>1 DEF Serving
<1>5. job[j].kind # "idle"
  BY <1>1, <1>2 DEF Serving
<1>6. PICK p \in Phones : p = job[j].p
  BY <1>2, <1>5 DEF Serving
<1>7. \A i \in Jobs \ {j} : job[i].kind # "idle" => job[i].p # p
  BY <1>5, <1>6 DEF Calm, OnePerPhone
<1>8. IF job[j].pc = "ok" THEN held' = [held EXCEPT ![p] = job[j].new]
      ELSE UNCHANGED held /\ held[p] = NoToken
  BY <1>1, <1>2, <1>5, <1>6 DEF Answer, Serving, LoggingIn, Refreshing
<1>9. \A q \in Phones \ {p} : held'[q] = held[q]
  BY <1>2, <1>8
<1>10. Session(p)'
  <2>1. CASE job[j].pc = "ok"
    <3>1. job[j].new.dev = Home(p) /\ IsStored(job[j].new) /\ job[j].id = Home(p)
      BY <1>2, <1>5, <1>6, <2>1 DEF Serving, LoggingIn, Refreshing
    <3>2. Home(p) # 0
      BY <1>2, <1>5, <1>6, <2>1 DEF Serving, LoggingIn, Refreshing, Calm, Session
    <3>3. held'[p] = job[j].new
      BY <1>2, <1>8, <2>1
    <3> QED
      BY <1>3, <3>1, <3>2, <3>3 DEF Session
  <2>2. CASE job[j].pc # "ok"
    BY <1>8, <2>2 DEF Session
  <2> QED
    BY <2>1, <2>2
<1>11. joined' = joined \cup {p}
  BY <1>1, <1>5, <1>6, RequestsJoined
<1> QED
  BY <1>1, <1>3, <1>4, <1>6, <1>7, <1>9, <1>10, <1>11, OnePhoneSteps

\* A request reads the database, or finds that it has nothing to change.
LEMMA RequestReads ==
  ASSUME OwnNumbers', Inv, Calm, NEW j \in Jobs, NEW t \in Handlers, job[j].kind # "idle",
         job' = [job EXCEPT ![j] = t],
         t.kind = job[j].kind, t.p = job[j].p, t.heard = job[j].heard, t.tok = job[j].tok,
         UNCHANGED <<active, device, ids, stored, held, joined>>,
         t.pc \notin {"save", "ok"},
         t.kind = "login" =>
           /\ t.pc \in {"user", "known", "count", "upsert", "purge", "fail"}
           /\ t.pc = "purge" => t.id = Home(t.p) /\ t.id # 0,
         t.kind = "refresh" =>
           /\ t.pc \in {"device", "active", "match", "rotate"}
           /\ t.pc # "device" => t.id = Home(t.p)
           /\ t.pc \in {"device", "active", "match"} => IsStored(t.tok)
           /\ t.pc = "rotate" => \E s \in stored : s.row = t.row /\ s.tok = t.tok
  PROVE  Calm'
<1>1. job'[j] = t /\ Serving(j)
  BY DEF Inv, TypeOK, Calm
<1>2. /\ OnePerNumber' /\ OnePerDevice' /\ \A q : Home(q)' = Home(q)
      /\ \A x : IsStored(x)' <=> IsStored(x)
  BY DEF Calm, OnePerNumber, OnePerDevice, Home, IsStored
<1>3. t.kind = "login" => LoggingIn(j)'
  BY <1>1, <1>2 DEF LoggingIn, Serving
<1>4. t.kind = "refresh" => Refreshing(j)'
  BY <1>1, <1>2 DEF Refreshing, Serving
<1> QED
  BY <1>1, <1>2, <1>3, <1>4, RequestGoesOn

LEMMA LoginReadsCalmly ==
  ASSUME OwnNumbers', Inv, Calm, NEW j \in Jobs, FindUser(j) \/ FindDevice(j) \/ CountDevices(j)
  PROVE  Calm'
<1>1. PICK pc \in {"known", "fail", "upsert", "count"} : Goto(j, pc)
  BY DEF FindUser, FindDevice, CountDevices
<1>0. PICK t : t = [job[j] EXCEPT !.pc = pc]
  OBVIOUS
<1>2. job' = [job EXCEPT ![j] = t] /\ job[j] \in Handlers /\ job[j].kind = "login"
  BY <1>0, <1>1 DEF Goto, FindUser, FindDevice, CountDevices, At, Inv, TypeOK
<1>3. /\ t \in Handlers /\ t.pc = pc /\ t.kind = "login" /\ t.p = job[j].p
      /\ t.heard = job[j].heard /\ t.tok = job[j].tok
  BY <1>0, <1>2 DEF Handlers
<1>4. UNCHANGED <<active, device, ids, stored, held, joined>>
  BY DEF FindUser, FindDevice, CountDevices, serverVars
<1> QED
  BY <1>2, <1>3, <1>4, RequestReads

LEMMA UpsertsCalmly ==
  ASSUME OwnNumbers', Inv, Calm, NEW j \in Jobs, UpsertDevice(j)
  PROVE  Calm'
<1>1. /\ job[j] \in Handlers /\ job[j].kind = "login" /\ job[j].p \in Phones /\ ids \in Nat
      /\ Serving(j)
  BY DEF UpsertDevice, At, Inv, TypeOK, Knows, Calm
<1>2. PICK n : n = Slot[job[j].p]
  OBVIOUS
<1>3. n \in Nums /\ device \in [Nums -> Nat]
  BY <1>1, <1>2, SessionAssumption DEF Inv, TypeOK
<1>4. PICK d : d = IF device[n] = 0 THEN ids + 1 ELSE device[n]
  OBVIOUS
<1>5. d \in Nat /\ d # 0
  BY <1>1, <1>3, <1>4
<1>0. PICK t : t = [job[j] EXCEPT !.pc = "purge", !.id = d]
  OBVIOUS
<1>6. /\ device' = [device EXCEPT ![n] = d]
      /\ ids' = IF device[n] = 0 THEN ids + 1 ELSE ids
      /\ job' = [job EXCEPT ![j] = t]
      /\ UNCHANGED <<active, stored, saves, clock, held, spent, revoked, joined, faults, acts>>
  BY <1>0, <1>2, <1>4 DEF UpsertDevice
<1>7. /\ t \in Handlers /\ t.pc = "purge" /\ t.kind = "login" /\ t.p = job[j].p
      /\ t.heard = job[j].heard /\ t.id = d
  BY <1>0, <1>1, <1>5 DEF Handlers
<1>8. job'[j] = t
  BY <1>6 DEF Inv, TypeOK
<1>9. \A m \in Nums : device'[m] = IF m = n THEN d ELSE device[m]
  BY <1>3, <1>6
<1>10. OnePerNumber'
  <2>1. \A m \in Nums : device[m] \in Nat /\ device[m] <= ids
    BY <1>3 DEF Calm, OnePerNumber
  <2>2. \A m \in Nums : device'[m] <= ids'
    BY <1>1, <1>4, <1>6, <1>9, <2>1
  <2>3. \A m \in Nums : m # n => device[m] # d \/ device[m] = 0
    BY <1>1, <1>3, <1>4, <2>1 DEF Calm, OnePerNumber
  <2>4. \A m, k \in Nums : device[m] = device[k] /\ device[m] # 0 => m = k
    BY DEF Calm, OnePerNumber
  <2> HIDE DEF OnePerNumber
  <2>5. ASSUME NEW m \in Nums, NEW k \in Nums, device'[m] = device'[k], device'[m] # 0
        PROVE  m = k
    BY <1>5, <1>9, <2>3, <2>4, <2>5
  <2> QED
    BY <2>2, <2>5 DEF OnePerNumber
<1>11. OnePerDevice' /\ LoggingIn(j)'
  <2>1. OnePerDevice'
    BY <1>6 DEF OnePerDevice, Calm
  <2>2. Home(t.p)' = d
    BY <1>2, <1>3, <1>7, <1>9 DEF Home
  <2> QED
    BY <1>1, <1>5, <1>6, <1>7, <1>8, <2>1, <2>2 DEF LoggingIn, Serving
<1>12. \A q \in joined \ {t.p} : Home(q)' = Home(q)
  <2>1. joined \subseteq Phones /\ t.p \in joined
    BY <1>1, <1>7, RequestsJoined DEF Inv, TypeOK
  <2> QED
    BY <1>1, <1>2, <1>6, <1>7, <1>9, <2>1, SessionAssumption DEF Home, OwnNumbers
<1> QED
  BY <1>1, <1>6, <1>7, <1>10, <1>11, <1>12, RequestGoesOn

\* The tokens of the phone's own device go, and a new one is signed.
LEMMA ClearsCalmly ==
  ASSUME OwnNumbers', Inv, Calm, NEW j \in Jobs, PurgeTokens(j) \/ Rotate(j)
  PROVE  Calm'
<1>1. /\ job[j] \in Handlers /\ Serving(j) /\ Knows(j) /\ clock \in Nat
      /\ job[j].kind \in {"login", "refresh"}
  BY DEF Inv, TypeOK, Calm, PurgeTokens, Rotate, At
<1>2. PICK p \in Phones : p = job[j].p
  BY <1>1 DEF Serving
<1>3. job[j].id = Home(p) /\ Home(p) # 0
  <2>1. CASE PurgeTokens(j)
    BY <1>1, <1>2, <2>1 DEF PurgeTokens, At, Serving, LoggingIn
  <2>2. CASE Rotate(j)
    <3>1. Session(p) /\ Refreshing(j) /\ job[j].pc = "rotate"
      BY <1>1, <2>2 DEF Rotate, At, Serving, Calm
    <3> QED
      BY <1>2, <3>1 DEF Refreshing, Session
  <2> QED
    BY <2>1, <2>2
<1>0. PICK k, t : /\ k = [dev |-> job[j].id, sec |-> clock]
                  /\ t = [job[j] EXCEPT !.pc = "save", !.new = k]
  OBVIOUS
<1>4. /\ job' = [job EXCEPT ![j] = t] /\ UNCHANGED <<active, device, ids, held, joined>>
      /\ stored' = {s \in stored : s.tok.dev # Home(p)}
  <2>1. CASE PurgeTokens(j)
    BY <1>0, <1>3, <2>1 DEF PurgeTokens, OfDevice
  <2>2. CASE Rotate(j)
    <3>1. Session(p) /\ Refreshing(j) /\ job[j].pc = "rotate"
      BY <1>1, <2>2 DEF Rotate, At, Serving, Calm
    <3>2. PICK s \in stored : s.row = job[j].row /\ s.tok = job[j].tok
      BY <3>1 DEF Refreshing
    <3>3. s.tok.dev = Home(p)
      BY <1>2, <3>1, <3>2 DEF Refreshing, Session
    <3>4. \A u \in stored : u.row = job[j].row <=> u.tok.dev = Home(p)
      BY <3>2, <3>3 DEF Calm, OnePerDevice, Inv, TypeOK
    <3>5. /\ job' = [job EXCEPT ![j] = t] /\ UNCHANGED <<active, device, ids, held, joined>>
          /\ stored' = {u \in stored : u.row # job[j].row}
      BY <1>0, <2>2, <3>2 DEF Rotate
    <3> QED
      BY <3>4, <3>5
  <2> QED
    BY <2>1, <2>2
<1>5. k \in Tokens /\ k.dev = job[j].id
  BY <1>0, <1>1 DEF Tokens, Handlers
<1>6. /\ t \in Handlers /\ t.new.dev = t.id /\ t.kind = job[j].kind /\ t.p = p /\ t.pc = "save"
      /\ t.heard = job[j].heard /\ t.id = job[j].id /\ t.tok = job[j].tok
  BY <1>0, <1>1, <1>2, <1>5 DEF Handlers
<1>7. job'[j] = t
  BY <1>4 DEF Inv, TypeOK
<1>8. OnePerNumber' /\ OnePerDevice' /\ \A q : Home(q)' = Home(q)
  BY <1>4 DEF Calm, OnePerNumber, OnePerDevice, Home
<1>9. OfDevice(job[j].id)' = {}
  <2>1. \A s \in stored' : s.tok.dev # t.id
    BY <1>3, <1>4, <1>6
  <2>2. (job[j].id)' = t.id
    BY <1>7
  <2> QED
    BY <2>1, <2>2 DEF OfDevice
<1>10. t.kind = "login" => LoggingIn(j)'
  BY <1>1, <1>2, <1>3, <1>4, <1>6, <1>7, <1>8, <1>9 DEF LoggingIn, Serving
<1>11. t.kind = "refresh" => Refreshing(j)'
  BY <1>1, <1>2, <1>3, <1>4, <1>6, <1>7, <1>8, <1>9 DEF Refreshing, Serving
<1>12. \A s : s.tok.dev # Home(t.p)' => (s \in stored' <=> s \in stored)
  BY <1>4, <1>6, <1>8
<1>13. job[j].kind # "idle"
  BY <1>1
<1>14. p = job[j].p
  BY <1>2
<1> QED
  BY <1>4, <1>6, <1>7, <1>8, <1>10, <1>11, <1>12, <1>13, <1>14, RequestGoesOn

\* The new token is stored, for its device has a row and no token.
LEMMA SavesCalmly ==
  ASSUME OwnNumbers', Inv, Calm, NEW j \in Jobs, SaveToken(j)
  PROVE  Calm'
<1>1. /\ job[j] \in Handlers /\ Serving(j) /\ job[j].pc = "save" /\ Knows(j)
  BY DEF Inv, TypeOK, Calm, SaveToken
<1>2. /\ job[j].kind \in {"login", "refresh"} /\ job[j].new.dev = job[j].id
      /\ OfDevice(job[j].id) = {}
  <2>1. job[j].kind # "idle"
    BY <1>1 DEF Serving
  <2> QED
    BY <1>1, <2>1 DEF Serving, LoggingIn, Refreshing
<1>3. PICK p \in Phones : p = job[j].p
  BY <1>1, <1>2 DEF Serving
<1>4. job[j].id = Home(p) /\ Home(p) # 0 /\ Home(p) \in Devices
  <2>1. Session(p)
    BY DEF Calm
  <2>2. job[j].id = Home(p) /\ Home(p) # 0
    BY <1>1, <1>2, <1>3, <2>1 DEF Serving, LoggingIn, Refreshing, Session
  <2> QED
    BY <2>2, SessionAssumption DEF Home, Devices
<1>5. ~IsStored(job[j].new)
  BY <1>2 DEF IsStored, OfDevice
<1>0. PICK r, t : r = [tok |-> job[j].new, row |-> saves + 1] /\ t = [job[j] EXCEPT !.pc = "ok"]
  OBVIOUS
<1>6. /\ stored' = stored \cup {r} /\ job' = [job EXCEPT ![j] = t]
      /\ UNCHANGED <<active, device, ids, held, joined>>
  BY <1>0, <1>4, <1>5 DEF SaveToken, Goto
<1>7. /\ t \in Handlers /\ t.pc = "ok" /\ t.kind = job[j].kind /\ t.p = p
      /\ t.heard = job[j].heard /\ t.tok = job[j].tok /\ t.new = job[j].new /\ t.id = Home(p)
  BY <1>0, <1>1, <1>3, <1>4 DEF Handlers
<1>8. r.tok = job[j].new /\ r.tok.dev = Home(p)
  BY <1>0, <1>2, <1>4
<1>9. job'[j] = t
  BY <1>6 DEF Inv, TypeOK
<1>10. OnePerNumber' /\ \A q : Home(q)' = Home(q)
  BY <1>6 DEF Calm, OnePerNumber, Home
<1>11. OnePerDevice'
  <2>1. \A s \in stored : s.tok.dev # r.tok.dev
    BY <1>2, <1>4, <1>8 DEF OfDevice
  <2> QED
    BY <1>6, <2>1 DEF Calm, OnePerDevice
<1>12. t.kind = "login" => LoggingIn(j)'
  BY <1>1, <1>2, <1>3, <1>4, <1>6, <1>7, <1>9, <1>10 DEF LoggingIn, Serving
<1>13. t.kind = "refresh" => Refreshing(j)'
  BY <1>1, <1>2, <1>3, <1>4, <1>6, <1>7, <1>9, <1>10 DEF Refreshing, Serving
<1>14. \A s : s.tok.dev # Home(t.p)' => (s \in stored' <=> s \in stored)
  BY <1>6, <1>7, <1>8, <1>10
<1>15. IsStored(t.new)' /\ t.new.dev = t.id /\ job[j].kind # "idle" /\ p = job[j].p
  BY <1>2, <1>3, <1>4, <1>6, <1>7, <1>8 DEF IsStored
<1> QED
  BY <1>6, <1>7, <1>9, <1>10, <1>11, <1>12, <1>13, <1>14, <1>15, RequestGoesOn

\* The refresh finds the device of its token, the account active, and the token.
LEMMA RefreshesCalmly ==
  ASSUME OwnNumbers', Inv, Calm, NEW j \in Jobs,
         ChooseDevice(j) \/ CheckActive(j) \/ MatchToken(j) \/ Expel(j)
  PROVE  Calm'
<1>1. /\ job[j] \in Handlers /\ job[j].kind = "refresh" /\ Serving(j) /\ Refreshing(j)
      /\ job[j].pc \in {"device", "active", "match", "expel"}
  BY DEF Inv, TypeOK, Calm, Serving, ChooseDevice, CheckActive, MatchToken, Expel, At
<1>2. job[j].pc # "expel" /\ IsStored(job[j].tok)
  BY <1>1 DEF Refreshing
<1>3. PICK p \in Phones : p = job[j].p
  BY <1>1 DEF Serving
<1>4. job[j].tok.dev = Home(p) /\ Home(p) \in Devices
  <2>1. Session(p)
    BY DEF Calm
  <2>2. job[j].tok.dev = Home(p) /\ Home(p) # 0
    BY <1>1, <1>3, <2>1 DEF Refreshing, Session
  <2> QED
    BY <2>2, SessionAssumption DEF Home, Devices
<1>5. CASE ChooseDevice(j)
  <2>0. PICK t : t = [job[j] EXCEPT !.pc = "active", !.id = job[j].tok.dev]
    OBVIOUS
  <2>1. job' = [job EXCEPT ![j] = t] /\ UNCHANGED <<active, device, ids, stored, held, joined>>
    BY <1>4, <1>5, <2>0 DEF ChooseDevice, serverVars
  <2>2. /\ t \in Handlers /\ t.pc = "active" /\ t.kind = "refresh" /\ t.p = p
        /\ t.heard = job[j].heard /\ t.tok = job[j].tok /\ t.id = Home(p)
    BY <1>1, <1>3, <1>4, <2>0 DEF Handlers, Tokens
  <2> QED
    BY <1>1, <1>2, <1>3, <2>1, <2>2, RequestReads
<1>6. CASE CheckActive(j)
  <2>0. PICK t : t = [job[j] EXCEPT !.pc = "match"]
    OBVIOUS
  <2>1. job' = [job EXCEPT ![j] = t] /\ UNCHANGED <<active, device, ids, stored, held, joined>>
    BY <1>6, <2>0 DEF CheckActive, Goto, serverVars, Calm
  <2>2. /\ t \in Handlers /\ t.pc = "match" /\ t.kind = "refresh" /\ t.p = p
        /\ t.heard = job[j].heard /\ t.tok = job[j].tok /\ t.id = job[j].id
    BY <1>1, <1>3, <2>0 DEF Handlers
  <2>3. t.id = Home(p)
    BY <1>1, <1>3, <1>6, <2>2 DEF CheckActive, At, Refreshing
  <2> QED
    BY <1>1, <1>2, <1>3, <2>1, <2>2, <2>3, RequestReads
<1>7. CASE MatchToken(j)
  <2>1. job[j].id = Home(p)
    BY <1>1, <1>3, <1>7 DEF MatchToken, At, Refreshing
  <2>2. PICK s \in stored : s.tok = job[j].tok
    BY <1>2 DEF IsStored
  <2>3. {u \in OfDevice(job[j].id) : u.tok = job[j].tok} = {s}
    BY <1>4, <2>1, <2>2 DEF OfDevice, Inv, TypeOK
  <2>0. PICK t : t = [job[j] EXCEPT !.pc = "rotate", !.row = s.row]
    OBVIOUS
  <2>4. job' = [job EXCEPT ![j] = t] /\ UNCHANGED <<active, device, ids, stored, held, joined>>
    BY <1>7, <2>0, <2>3 DEF MatchToken, serverVars
  <2>5. s.row \in Nat
    BY DEF Inv, TypeOK
  <2>6. /\ t \in Handlers /\ t.pc = "rotate" /\ t.kind = "refresh" /\ t.p = p
        /\ t.heard = job[j].heard /\ t.tok = job[j].tok /\ t.id = job[j].id /\ t.row = s.row
    BY <1>1, <1>3, <2>0, <2>5 DEF Handlers
  <2> QED
    BY <1>1, <1>3, <2>1, <2>2, <2>4, <2>6, RequestReads
<1>8. CASE Expel(j)
  BY <1>2, <1>8 DEF Expel, At
<1> QED
  BY <1>5, <1>6, <1>7, <1>8

LEMMA StaysCalm ==
  ASSUME Inv, Undisturbed => Calm, [Next]_vars, Undisturbed'
  PROVE  Calm'
<1>1. faults \in Nat /\ acts \in Nat
  BY DEF Inv, TypeOK
<1>0. OwnNumbers'
  BY DEF OwnNumbers, Undisturbed
<1>2. CASE UNCHANGED <<serverVars, job, held, joined>> /\ Undisturbed
  BY <1>2 DEF Calm, Strangers, OnePerNumber, OnePerDevice, OnePerPhone, Session, Serving, LoggingIn, Refreshing,
              Awaits, IsStored, OfDevice, Home, serverVars
<1>3. CASE UNCHANGED vars
  BY <1>2, <1>3 DEF vars, Undisturbed
<1>4. CASE Tick
  BY <1>2, <1>4 DEF Tick, Undisturbed
<1>5. ASSUME NEW p \in Phones, Logout(p) PROVE FALSE
  BY <1>1, <1>5 DEF Logout, Undisturbed
<1>6. ASSUME NEW j \in Jobs, \/ LoseAnswer(j) \/ StartDeactivate(j)
                             \/ \E d \in Devices : StartRevoke(j, d)
      PROVE  FALSE
  BY <1>1, <1>6 DEF LoseAnswer, StartDeactivate, StartRevoke, Undisturbed
<1>7. ASSUME NEW p \in Phones, NEW j \in Jobs, StartLogin(p, j) \/ StartRefresh(p, j)
      PROVE  Calm'
  <2>1. Undisturbed
    BY <1>7 DEF StartLogin, StartRefresh, Undisturbed
  <2> QED
    BY <1>0, <1>7, <2>1, StartsCalmly
<1>8. ASSUME NEW j \in Jobs, Answer(j) \/ SaveToken(j)
      PROVE  Calm'
  <2>1. Undisturbed
    BY <1>8 DEF Answer, SaveToken, Undisturbed
  <2> QED
    BY <1>0, <1>8, <2>1, AnswersCalmly, SavesCalmly
<1>9. ASSUME NEW j \in Jobs, Login(j)
      PROVE  Calm'
  <2>1. Undisturbed
    BY <1>9 DEF Login, FindUser, FindDevice, CountDevices, UpsertDevice, PurgeTokens, Undisturbed
  <2> QED
    BY <1>0, <1>9, <2>1, LoginReadsCalmly, UpsertsCalmly, ClearsCalmly DEF Login
<1>10. ASSUME NEW j \in Jobs, Refresh(j)
       PROVE  Calm'
  <2>1. Undisturbed
    BY <1>10 DEF Refresh, ChooseDevice, CheckActive, MatchToken, Rotate, Expel, Undisturbed
  <2> QED
    BY <1>0, <1>10, <2>1, RefreshesCalmly, ClearsCalmly DEF Refresh
<1>11. ASSUME NEW j \in Jobs, Manage(j)
       PROVE  FALSE
  <2>1. Undisturbed
    BY <1>11 DEF Manage, RevokeTokens, DropDevice, Deactivate, ListDevices, WipeDevice, Undisturbed
  <2>2. Serving(j)
    BY <2>1 DEF Calm
  <2>3. job[j].kind \in {"revoke", "deactivate"}
    BY <1>11 DEF Manage, RevokeTokens, DropDevice, Deactivate, ListDevices, WipeDevice, At
  <2> QED
    BY <2>2, <2>3 DEF Serving
<1> QED
  BY <1>3, <1>4, <1>5, <1>6, <1>7, <1>8, <1>9, <1>10, <1>11 DEF Next

\* Until an answer is lost, somebody logs out, revokes or deactivates, or a second phone logs in
\* with the number of the first, no interleaving of logins and refreshes, of tokens signed
\* within one second included, separates a phone from its session.
THEOREM UndisturbedSessionsLast == Spec => []HeldIsStored
<1>1. Init => (Undisturbed => Calm)
  BY DEF Init, Calm, Strangers, OnePerNumber, OnePerDevice, OnePerPhone, Session, Serving, Idle
<1>2. Inv /\ (Undisturbed => Calm) /\ [Next]_vars => (Undisturbed => Calm)'
  BY StaysCalm
<1>3. (Undisturbed => Calm) => HeldIsStored
  BY DEF Calm, Session, HeldIsStored
<1> QED
  BY <1>1, <1>2, <1>3, InvHolds, PTL DEF Spec

=============================================================================
