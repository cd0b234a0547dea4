--------------------------- MODULE DeviceSessions ---------------------------
(***************************************************************************)
(* Devices and refresh tokens of one user: AuthService and AuthRepository  *)
(* on the server, refreshAuthToken on the phones.                          *)
(*                                                                         *)
(* Every database statement is a step of its own, so that requests         *)
(* interleave between their statements.  A refresh token is a signed JWT   *)
(* with a device id and the second of its signature: two tokens signed for *)
(* a device within one second are the same token.  The one-time password   *)
(* of a login has been accepted already.  The database keeps token strings *)
(* unique, refuses tokens of unknown devices, deletes the tokens of a      *)
(* deleted device and refuses to delete the device of a stored message.    *)
(***************************************************************************)
EXTENDS Naturals, FiniteSets

CONSTANTS
  Phones,
  Nums,        \* device numbers that phones send at login
  Slot,        \* the number of each phone; the mobile app always sends 1
  Jobs,        \* bound: requests the server works on at a time
  MaxDevices,  \* MAX_DEVICES
  MaxSeconds,  \* bound: seconds on the clock
  MaxSaves,    \* bound: token rows ever stored
  MaxRows,     \* bound: device rows ever created
  MaxFaults,   \* bound: answers that a phone does not get
  MaxUser      \* bound: logouts, revocations and deactivations

ASSUME SessionAssumption ==
  /\ Slot \in [Phones -> Nums]
  /\ {MaxDevices, MaxSeconds, MaxSaves, MaxRows, MaxFaults, MaxUser} \subseteq Nat

VARIABLES
  active,  \* users.isActive
  device,  \* device rows: the id of the row of each number, 0 without a row
  ids,     \* device rows created so far
  stored,  \* refresh token rows
  saves,   \* token rows stored so far
  clock,   \* seconds
  job,     \* requests on the server
  held,    \* the refresh token in the storage of each phone
  spent,   \* history: token rows that a refresh has rotated
  revoked, \* history: token rows that a revocation has deleted
  joined,  \* history: phones that have asked for a login
  faults, acts

serverVars == <<active, device, ids, stored, saves>>
vars == <<serverVars, clock, job, held, spent, revoked, joined, faults, acts>>

Tokens == [dev : Nat, sec : Nat]
NoToken == [dev |-> 0, sec |-> 0]
Idle == [kind |-> "idle", pc |-> "idle", p |-> "none", tok |-> NoToken, row |-> 0,
         id |-> 0, todo |-> {}, new |-> NoToken, heard |-> FALSE]
Handlers ==
  [kind : {"idle", "login", "refresh", "revoke", "deactivate"},
   pc : {"idle", "user", "known", "count", "upsert", "purge", "save", "device", "active",
         "match", "rotate", "expel", "drop", "off", "list", "wipe", "ok", "fail"},
   p : Phones \cup {"none"}, tok : Tokens, row : Nat, id : Nat, todo : SUBSET Nat,
   new : Tokens, heard : BOOLEAN]

TypeOK ==
  /\ active \in BOOLEAN /\ device \in [Nums -> Nat] /\ ids \in Nat
  /\ stored \subseteq [tok : Tokens, row : Nat] /\ saves \in Nat /\ clock \in Nat
  /\ job \in [Jobs -> Handlers]
  /\ held \in [Phones -> Tokens]
  /\ spent \subseteq Nat /\ revoked \subseteq Nat /\ joined \subseteq Phones
  /\ \A s, t \in stored : s.tok = t.tok \/ s.row = t.row => s = t
  /\ faults \in Nat /\ acts \in Nat

Init ==
  /\ active = TRUE /\ device = [n \in Nums |-> 0] /\ ids = 0
  /\ stored = {} /\ saves = 0 /\ clock = 1
  /\ job = [j \in Jobs |-> Idle]
  /\ held = [p \in Phones |-> NoToken]
  /\ spent = {} /\ revoked = {} /\ joined = {} /\ faults = 0 /\ acts = 0

-----------------------------------------------------------------------------
(* Building blocks.                                                        *)

Devices == {device[n] : n \in Nums} \ {0}
OfDevice(d) == {s \in stored : s.tok.dev = d}
IsStored(t) == \E s \in stored : s.tok = t

At(j, kind, pc) == job[j].kind = kind /\ job[j].pc = pc
Goto(j, pc) == job' = [job EXCEPT ![j].pc = pc]

\* A phone awaits the answer to a request of this kind.
Awaits(p, kind) == \E j \in Jobs : job[j].p = p /\ job[j].kind = kind /\ job[j].heard

Begin(j, kind, pc, p, t, d) ==
  /\ job[j].kind = "idle"
  /\ job' = [job EXCEPT ![j] = [Idle EXCEPT !.kind = kind, !.pc = pc, !.p = p, !.tok = t,
                                             !.id = d, !.heard = TRUE]]

-----------------------------------------------------------------------------
(* The phones.                                                             *)

\* The login screen sends the code of a phone without a session.
StartLogin(p, j) ==
  /\ held[p] = NoToken /\ ~Awaits(p, "login")
  /\ Begin(j, "login", "user", p, NoToken, 0)
  /\ joined' = joined \cup {p}
  /\ UNCHANGED <<serverVars, clock, held, spent, revoked, faults, acts>>

\* Mutant of StartRefresh: callers do not share the refresh in flight.
StartRefreshEach(p, j) ==
  /\ held[p] # NoToken
  /\ Begin(j, "refresh", "device", p, held[p], 0)
  /\ UNCHANGED <<serverVars, clock, held, spent, revoked, joined, faults, acts>>

\* refreshAuthToken: one refresh in flight, with the stored token.
StartRefresh(p, j) ==
  /\ held[p] # NoToken /\ ~Awaits(p, "refresh")
  /\ Begin(j, "refresh", "device", p, held[p], 0)
  /\ UNCHANGED <<serverVars, clock, held, spent, revoked, joined, faults, acts>>

\* A refresh without a new token ends the session for most callers, for some not.
SessionExpired(p) == held' = [held EXCEPT ![p] = NoToken] \/ UNCHANGED held

\* The answer arrives, and the phone stores the token it brings.
Answer(j) ==
  /\ job[j].pc \in {"ok", "fail"}
  /\ job' = [job EXCEPT ![j] = Idle]
  /\ IF ~job[j].heard \/ job[j].kind \notin {"login", "refresh"} THEN UNCHANGED held
     ELSE IF job[j].pc = "ok" THEN held' = [held EXCEPT ![job[j].p] = job[j].new]
     ELSE IF job[j].kind = "refresh" THEN SessionExpired(job[j].p)
     ELSE UNCHANGED held
  /\ UNCHANGED <<serverVars, clock, spent, revoked, joined, faults, acts>>

\* The network fails: the request may still run on the server.
LoseAnswer(j) ==
  /\ job[j].heard /\ job[j].kind \in {"login", "refresh"} /\ faults < MaxFaults
  /\ faults' = faults + 1
  /\ job' = [job EXCEPT ![j].heard = FALSE]
  /\ IF job[j].kind = "refresh" THEN SessionExpired(job[j].p) ELSE UNCHANGED held
  /\ UNCHANGED <<serverVars, clock, spent, revoked, joined, acts>>

\* Logging out only clears the phone.
Logout(p) ==
  /\ held[p] # NoToken /\ acts < MaxUser
  /\ acts' = acts + 1
  /\ held' = [held EXCEPT ![p] = NoToken]
  /\ UNCHANGED <<serverVars, clock, job, spent, revoked, joined, faults>>

-----------------------------------------------------------------------------
(* verifyOtp.                                                              *)

FindUser(j) ==
  /\ At(j, "login", "user")
  /\ Goto(j, IF active THEN "known" ELSE "fail")
  /\ UNCHANGED <<serverVars, clock, held, spent, revoked, joined, faults, acts>>

FindDevice(j) ==
  /\ At(j, "login", "known")
  /\ Goto(j, IF device[Slot[job[j].p]] # 0 THEN "upsert" ELSE "count")
  /\ UNCHANGED <<serverVars, clock, held, spent, revoked, joined, faults, acts>>

CountDevices(j) ==
  /\ At(j, "login", "count")
  /\ Goto(j, IF Cardinality(Devices) < MaxDevices THEN "upsert" ELSE "fail")
  /\ UNCHANGED <<serverVars, clock, held, spent, revoked, joined, faults, acts>>

UpsertDevice(j) ==
  LET n == Slot[job[j].p]
      d == IF device[n] = 0 THEN ids + 1 ELSE device[n]
  IN  /\ At(j, "login", "upsert") /\ d <= MaxRows
      /\ device' = [device EXCEPT ![n] = d]
      /\ ids' = IF device[n] = 0 THEN ids + 1 ELSE ids
      /\ job' = [job EXCEPT ![j].pc = "purge", ![j].id = d]
      /\ UNCHANGED <<active, stored, saves, clock, held, spent, revoked, joined, faults, acts>>

\* The tokens signed before are deleted, then the new one is signed.
PurgeTokens(j) ==
  /\ At(j, "login", "purge")
  /\ stored' = stored \ OfDevice(job[j].id)
  /\ job' = [job EXCEPT ![j].pc = "save", ![j].new = [dev |-> job[j].id, sec |-> clock]]
  /\ UNCHANGED <<active, device, ids, saves, clock, held, spent, revoked, joined, faults, acts>>

\* saveRefreshToken: the database insists on a device and on a new token string.
SaveToken(j) ==
  /\ job[j].pc = "save" /\ saves < MaxSaves
  /\ IF job[j].id \notin Devices \/ IsStored(job[j].new)
       THEN Goto(j, "fail") /\ UNCHANGED <<stored, saves>>
       ELSE /\ stored' = stored \cup {[tok |-> job[j].new, row |-> saves + 1]}
            /\ saves' = saves + 1
            /\ Goto(j, "ok")
  /\ UNCHANGED <<active, device, ids, clock, held, spent, revoked, joined, faults, acts>>

-----------------------------------------------------------------------------
(* refreshToken.                                                           *)

\* The device of the request or else the user's most recently active one, which the
\* interceptor keeps changing: any.
ChooseDevice(j) ==
  /\ At(j, "refresh", "device")
  /\ \/ /\ job[j].tok.dev \in Devices
        /\ job' = [job EXCEPT ![j].pc = "active", ![j].id = job[j].tok.dev]
     \/ /\ job[j].tok.dev \notin Devices
        /\ \E d \in Devices : job' = [job EXCEPT ![j].pc = "active", ![j].id = d]
     \/ Devices = {} /\ Goto(j, "fail")
  /\ UNCHANGED <<serverVars, clock, held, spent, revoked, joined, faults, acts>>

CheckActive(j) ==
  /\ At(j, "refresh", "active")
  /\ Goto(j, IF active THEN "match" ELSE "expel")
  /\ UNCHANGED <<serverVars, clock, held, spent, revoked, joined, faults, acts>>

MatchToken(j) ==
  /\ At(j, "refresh", "match")
  /\ LET hits == {s \in OfDevice(job[j].id) : s.tok = job[j].tok}
     IN  IF hits = {} THEN Goto(j, "expel")
         ELSE \E s \in hits : job' = [job EXCEPT ![j].pc = "rotate", ![j].row = s.row]
  /\ UNCHANGED <<serverVars, clock, held, spent, revoked, joined, faults, acts>>

\* Mutant of Rotate: deleting a row that is gone is no error.
RotateLenient(j) ==
  /\ At(j, "refresh", "rotate")
  /\ stored' = {s \in stored : s.row # job[j].row}
  /\ spent' = spent \cup {job[j].row}
  /\ job' = [job EXCEPT ![j].pc = "save", ![j].new = [dev |-> job[j].id, sec |-> clock]]
  /\ UNCHANGED <<active, device, ids, saves, clock, held, revoked, joined, faults, acts>>

\* The matched row is deleted, which fails if it is gone; then the new token is signed.
Rotate(j) ==
  /\ At(j, "refresh", "rotate")
  /\ IF \E s \in stored : s.row = job[j].row
       THEN /\ stored' = {s \in stored : s.row # job[j].row}
            /\ spent' = spent \cup {job[j].row}
            /\ job' = [job EXCEPT ![j].pc = "save",
                                  ![j].new = [dev |-> job[j].id, sec |-> clock]]
       ELSE Goto(j, "fail") /\ UNCHANGED <<stored, spent>>
  /\ UNCHANGED <<active, device, ids, saves, clock, held, revoked, joined, faults, acts>>

\* A token that does not match, or an inactive account: no token of the device is left.
Expel(j) ==
  /\ At(j, "refresh", "expel")
  /\ stored' = stored \ OfDevice(job[j].id)
  /\ Goto(j, "fail")
  /\ UNCHANGED <<active, device, ids, saves, clock, held, spent, revoked, joined, faults, acts>>

-----------------------------------------------------------------------------
(* revokeDevice and deactivateAccount.                                     *)

StartRevoke(j, d) ==
  /\ acts < MaxUser /\ acts' = acts + 1
  /\ d \in Devices
  /\ Begin(j, "revoke", "purge", "none", NoToken, d)
  /\ UNCHANGED <<serverVars, clock, held, spent, revoked, joined, faults>>

RowsOf(d) == {s.row : s \in OfDevice(d)}

RevokeTokens(j) ==
  /\ At(j, "revoke", "purge")
  /\ stored' = stored \ OfDevice(job[j].id)
  /\ revoked' = revoked \cup RowsOf(job[j].id)
  /\ Goto(j, "drop")
  /\ UNCHANGED <<active, device, ids, saves, clock, held, spent, joined, faults, acts>>

\* Mutant of DropDevice: the tokens do not go with the device.
DropDeviceOnly(j) ==
  /\ At(j, "revoke", "drop")
  /\ device' = [n \in Nums |-> IF device[n] = job[j].id THEN 0 ELSE device[n]]
  /\ Goto(j, IF job[j].id \in Devices THEN "ok" ELSE "fail")
  /\ UNCHANGED <<active, ids, stored, saves, clock, held, spent, revoked, joined, faults, acts>>

\* The row goes, and the tokens saved meanwhile go with it; while a message that the
\* device has sent is stored, the delete fails and the device stays.
DropDevice(j) ==
  /\ At(j, "revoke", "drop")
  /\ \/ /\ device' = [n \in Nums |-> IF device[n] = job[j].id THEN 0 ELSE device[n]]
        /\ stored' = stored \ OfDevice(job[j].id)
        /\ revoked' = revoked \cup RowsOf(job[j].id)
        /\ Goto(j, IF job[j].id \in Devices THEN "ok" ELSE "fail")
     \/ Goto(j, "fail") /\ UNCHANGED <<device, stored, revoked>>
  /\ UNCHANGED <<active, ids, saves, clock, held, spent, joined, faults, acts>>

StartDeactivate(j) ==
  /\ acts < MaxUser /\ acts' = acts + 1
  /\ Begin(j, "deactivate", "off", "none", NoToken, 0)
  /\ UNCHANGED <<serverVars, clock, held, spent, revoked, joined, faults>>

Deactivate(j) ==
  /\ At(j, "deactivate", "off")
  /\ active' = FALSE
  /\ Goto(j, "list")
  /\ UNCHANGED <<device, ids, stored, saves, clock, held, spent, revoked, joined, faults, acts>>

ListDevices(j) ==
  /\ At(j, "deactivate", "list")
  /\ job' = [job EXCEPT ![j].pc = "wipe", ![j].todo = Devices]
  /\ UNCHANGED <<serverVars, clock, held, spent, revoked, joined, faults, acts>>

\* The devices' tokens are deleted concurrently.
WipeDevice(j) ==
  /\ At(j, "deactivate", "wipe")
  /\ IF job[j].todo = {} THEN Goto(j, "ok") /\ UNCHANGED stored
     ELSE \E d \in job[j].todo :
            /\ stored' = stored \ OfDevice(d)
            /\ job' = [job EXCEPT ![j].todo = @ \ {d}]
  /\ UNCHANGED <<active, device, ids, saves, clock, held, spent, revoked, joined, faults, acts>>

Tick ==
  /\ clock < MaxSeconds /\ clock' = clock + 1
  /\ UNCHANGED <<serverVars, job, held, spent, revoked, joined, faults, acts>>

-----------------------------------------------------------------------------
Login(j) == FindUser(j) \/ FindDevice(j) \/ CountDevices(j) \/ UpsertDevice(j) \/ PurgeTokens(j)
Refresh(j) == ChooseDevice(j) \/ CheckActive(j) \/ MatchToken(j) \/ Rotate(j) \/ Expel(j)
Manage(j) == RevokeTokens(j) \/ DropDevice(j) \/ Deactivate(j) \/ ListDevices(j) \/ WipeDevice(j)

Next ==
  \/ \E p \in Phones, j \in Jobs : StartLogin(p, j) \/ StartRefresh(p, j)
  \/ \E p \in Phones : Logout(p)
  \/ \E j \in Jobs : Answer(j) \/ LoseAnswer(j) \/ SaveToken(j)
  \/ \E j \in Jobs : Login(j) \/ Refresh(j) \/ Manage(j)
  \/ \E j \in Jobs : StartDeactivate(j) \/ \E d \in Devices : StartRevoke(j, d)
  \/ Tick

Spec == Init /\ [][Next]_vars

-----------------------------------------------------------------------------
(* Safety.                                                                 *)

Rotates(j) == At(j, "refresh", "rotate") /\ job'[j].pc = "save"

\* However many refreshes match the same token row, one of them rotates it: a session
\* never forks.
RotatedAtMostOnce == [][\A j \in Jobs : Rotates(j) => job[j].row \notin spent]_vars

\* A token that a revocation has deleted, or whose device it has deleted, is never
\* rotated, even by a refresh that had found the device or matched the token before and
\* even when the revocation itself fails in the end.
RevokedIsRefused ==
  [][\A j \in Jobs : Rotates(j) => job[j].tok.dev \in Devices /\ job[j].row \notin revoked]_vars

\* No token is stored of a device that is gone.
NoOrphanTokens == \A s \in stored : s.tok.dev \in Devices

\* While no answer is lost, nobody logs out, revokes or deactivates and no two phones have
\* logged in with the same number, the token in a phone's storage is the one on the
\* server, unless its refresh is in flight: overlapping requests of a phone never part it
\* from its session.  All copies of the app send the number 1: README.md:22 "Multi-Device
\* Architecture" has no such condition.
Undisturbed ==
  faults = 0 /\ acts = 0 /\ \A p, q \in joined : Slot[p] = Slot[q] => p = q
HeldIsStored ==
  Undisturbed => \A p \in Phones :
    held[p] # NoToken /\ ~Awaits(p, "refresh") => IsStored(held[p])

=============================================================================
