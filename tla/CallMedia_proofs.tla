-------------------------- MODULE CallMedia_proofs --------------------------
(***************************************************************************)
(* Proofs about CallMedia: the type invariant, that the caller's           *)
(* microphone is off when the call is over, and that the lock of           *)
(* _renegotiate is held for a reason, for all values of the bounds.        *)
(* The microphone needs a strengthening (MicRight): it is off until the    *)
(* capture returns, and off when there is no connection, for startCall     *)
(* then closes only a connection that it finds open.  The lock needs the   *)
(* whole negotiation (Good): it is at one place at a time, so no two runs  *)
(* meet on the callee's connection, where the second would fail.           *)
(***************************************************************************)
EXTENDS CallMedia, TLAPS

\* The types of a connection, of a frame and of the frames under way.
Connections == [open : BOOLEAN, sig : {"stable", "local", "remote"}, pend : Nat, cur : Nat,
                set : BOOLEAN, queue : Nat, lock : BOOLEAN, mic : BOOLEAN, camera : BOOLEAN]
Frames == [k : Kinds, n : Nat]
Links == [Phones -> Seq(Frames)]
Sessions == {"none", "ringing", "connected", "ended"}

\* The type invariant in three parts: the calls, the runs, and the net with the counters.
CallsTyped ==
  /\ session \in [Phones -> Sessions]
  /\ rtc \in [Phones -> Connections]
  /\ handled \subseteq Phones /\ sdp \in Nat
  /\ video \in [Phones -> BOOLEAN] /\ asked \in [Phones -> BOOLEAN]

RunsTyped ==
  /\ start \in {"idle", "capture", "offer", "done"}
  /\ handling \subseteq Runs /\ applying \subseteq Runs
  /\ upgrading \in [Phones -> SUBSET {"tap", "agreed"}] /\ reneg \in {"no", "tap", "agreed"}

NetTyped ==
  /\ dialled \in BOOLEAN /\ online \in [Phones -> BOOLEAN]
  /\ link \in Links
  /\ offers \in Nat /\ gathered \in [Phones -> Nat]
  /\ toggles \in Nat /\ drops \in Nat /\ fails \in Nat /\ ends \in Nat
  /\ missed \in BOOLEAN /\ early \in BOOLEAN

LEMMA TypeParts == TypeOK <=> CallsTyped /\ RunsTyped /\ NetTyped
<1>1. {missed, early} \subseteq BOOLEAN <=> missed \in BOOLEAN /\ early \in BOOLEAN
  OBVIOUS
<1>2. {toggles, drops, fails, ends} \subseteq Nat
      <=> toggles \in Nat /\ drops \in Nat /\ fails \in Nat /\ ends \in Nat
  OBVIOUS
<1> QED
  BY <1>1, <1>2 DEF TypeOK, CallsTyped, RunsTyped, NetTyped, Connections, Frames, Links, Sessions

\* What the phones do to connections.
LEMMA ClosedTyped == Closed \in Connections /\ ~Closed.mic /\ ~Closed.open
  BY DEF Closed, Connections

LEMMA OpenedTyped ==
  ASSUME NEW r \in Connections
  PROVE  Opened(r) \in Connections /\ (Opened(r).mic <=> r.mic)
  BY DEF Opened, Closed, Connections

LEMMA DescribedTyped ==
  ASSUME NEW r \in Connections, NEW sig \in {"stable", "local", "remote"},
         NEW pend \in Nat, NEW cur \in Nat
  PROVE  /\ Described(r, sig, pend, cur) \in Connections
         /\ (Described(r, sig, pend, cur).mic <=> r.mic)
         /\ (Described(r, sig, pend, cur).open <=> r.open)
  BY DEF Described, Connections

LEMMA EmitTyped ==
  ASSUME NEW q \in Links, NEW p \in Phones, NEW k \in Kinds, NEW n \in Nat
  PROVE  Emit(q, p, k, n) \in Links
<1>1. Other(p) \in Phones
  BY DEF Other, Phones
<1>2. [k |-> k, n |-> n] \in Frames
  BY DEF Frames
<1>3. q[Other(p)] \in Seq(Frames)
  BY <1>1 DEF Links
<1>4. Append(q[Other(p)], [k |-> k, n |-> n]) \in Seq(Frames)
  BY <1>2, <1>3
<1>5. [q EXCEPT ![Other(p)] = Append(@, [k |-> k, n |-> n])] \in Links
  BY <1>1, <1>4 DEF Links
<1> QED
  BY <1>5 DEF Emit

\* The blocks the actions are built from keep the types; what they do to the microphone is
\* part of what they say.
LEMMA DismissTyped ==
  ASSUME CallsTyped, NEW p \in Phones, Dismiss(p)
  PROVE  /\ handled' \subseteq Phones /\ session' \in [Phones -> Sessions]
         /\ rtc' \in [Phones -> Connections]
         /\ rtc' = [rtc EXCEPT ![p] = Closed]
         /\ session' = [session EXCEPT ![p] = "ended"]
  BY ClosedTyped DEF Dismiss, CallsTyped, Sessions

LEMMA HangUpTyped ==
  ASSUME CallsTyped, NetTyped, NEW p \in Phones, HangUp(p)
  PROVE  /\ handled' \subseteq Phones /\ session' \in [Phones -> Sessions]
         /\ rtc' \in [Phones -> Connections]
         /\ rtc' = [rtc EXCEPT ![p] = Closed]
         /\ session' = [session EXCEPT ![p] = "ended"]
         /\ link' \in Links
<1>1. Emit(link, p, "ended", 0) \in Links
  BY EmitTyped DEF NetTyped, Kinds
<1> QED
  BY <1>1, DismissTyped DEF HangUp

LEMMA RejectedTyped ==
  ASSUME CallsTyped, NetTyped, NEW j, Rejected(j)
  PROVE  /\ handled' \subseteq Phones /\ session' \in [Phones -> Sessions]
         /\ rtc' \in [Phones -> Connections] /\ link' \in Links
         /\ rtc'["caller"] = rtc["caller"] /\ session'["caller"] = session["caller"]
<1>1. CASE HangUp("callee")
  BY <1>1, HangUpTyped DEF CallsTyped, Phones
<1>2. CASE UNCHANGED <<session, handled, rtc, link>>
  BY <1>2 DEF CallsTyped, NetTyped
<1> QED
  BY <1>1, <1>2 DEF Rejected

LEMMA RenegotiateTyped ==
  ASSUME CallsTyped, RunsTyped, NetTyped, NEW p \in Phones, NEW why \in {"tap", "agreed"},
         NEW media \in Connections, NEW q \in Links, Renegotiate(p, why, media, q)
  PROVE  /\ rtc' \in [Phones -> Connections] /\ reneg' \in {"no", "tap", "agreed"}
         /\ early' \in BOOLEAN /\ link' \in Links
         /\ \A x \in Phones \ {p} : rtc'[x] = rtc[x]
         /\ (rtc'[p].mic <=> media.mic)
         /\ (rtc'[p].open <=> media.open)
<1> DEFINE go == p = "caller" /\ media.open /\ ~media.lock
<1>1. /\ rtc' = [rtc EXCEPT ![p] = IF go THEN [media EXCEPT !.lock = TRUE] ELSE media]
      /\ reneg' = IF go THEN why ELSE reneg
      /\ early' = (early \/ (go /\ media.cur = 0))
      /\ link' = Emit(q, p, "agree", 0) \/ link' = q
  BY DEF Renegotiate
<1>2. Emit(q, p, "agree", 0) \in Links
  BY EmitTyped DEF Kinds
<1>3. [media EXCEPT !.lock = TRUE] \in Connections
  BY DEF Connections
<1>4. early' \in BOOLEAN
  BY <1>1
<1>5. rtc' \in [Phones -> Connections]
  BY <1>1, <1>3 DEF CallsTyped
<1>6. rtc'[p] = IF go THEN [media EXCEPT !.lock = TRUE] ELSE media
  BY <1>1 DEF CallsTyped
<1>7. (rtc'[p].mic <=> media.mic) /\ (rtc'[p].open <=> media.open)
  BY <1>6 DEF Connections
<1>8. \A x \in Phones \ {p} : rtc'[x] = rtc[x]
  BY <1>1 DEF CallsTyped
<1> QED
  BY <1>1, <1>2, <1>4, <1>5, <1>7, <1>8 DEF RunsTyped

LEMMA UpgradeTyped ==
  ASSUME CallsTyped, RunsTyped, NetTyped, NEW p \in Phones, NEW why \in {"tap", "agreed"},
         NEW q \in Links, Upgrade(p, why, q)
  PROVE  /\ rtc' \in [Phones -> Connections] /\ reneg' \in {"no", "tap", "agreed"}
         /\ early' \in BOOLEAN /\ link' \in Links
         /\ upgrading' \in [Phones -> SUBSET {"tap", "agreed"}]
         /\ \A x \in Phones : (rtc'[x].mic <=> rtc[x].mic) /\ (rtc'[x].open <=> rtc[x].open)
<1>0. rtc[p] \in Connections
  BY DEF CallsTyped
<1>1. CASE rtc[p].camera
  <2>1. Renegotiate(p, why, rtc[p], q) /\ UNCHANGED upgrading
    BY <1>1 DEF Upgrade
  <2> QED
    BY <1>0, <2>1, RenegotiateTyped DEF RunsTyped
<1>2. CASE ~rtc[p].camera
  <2>1. /\ upgrading' = [upgrading EXCEPT ![p] = @ \cup {why}]
        /\ link' = q /\ UNCHANGED <<rtc, reneg, early>>
    BY <1>2 DEF Upgrade
  <2>2. upgrading' \in [Phones -> SUBSET {"tap", "agreed"}]
    BY <2>1 DEF RunsTyped
  <2>3. early' \in BOOLEAN
    BY <2>1 DEF NetTyped
  <2> QED
    BY <2>1, <2>2, <2>3 DEF CallsTyped, RunsTyped
<1> QED
  BY <1>1, <1>2

\* The strengthening: the microphone is off until the capture of startCall returns, and
\* whenever there is no connection.
MicRight ==
  /\ start \in {"idle", "capture"} => ~rtc["caller"].mic
  /\ ~rtc["caller"].open => ~rtc["caller"].mic
  /\ CallerReleasesMicrophone

Inv == CallsTyped /\ RunsTyped /\ NetTyped /\ MicRight

\* A step is harmless when the caller's connection keeps its microphone, or is closed, and
\* the caller's session does not end in it without the connection being closed.
LEMMA MicKept ==
  ASSUME MicRight, start' = start,
         \/ /\ rtc'["caller"].mic = rtc["caller"].mic
            /\ rtc'["caller"].open = rtc["caller"].open
            /\ session'["caller"] \in {"none", "ended"} => session["caller"] \in {"none", "ended"}
         \/ rtc'["caller"] = Closed
  PROVE  MicRight'
  BY ClosedTyped DEF MicRight, CallerReleasesMicrophone

\* startCall, its background part, and the ring.
LEMMA StartKeeps ==
  ASSUME Inv, StartCall \/ Ring \/ StartCaptured \/ StartOffered \/ StartFails
  PROVE  Inv'
<1> USE DEF callVars, jobVars, netVars, countVars
<1>0. /\ session \in [Phones -> Sessions] /\ rtc \in [Phones -> Connections]
      /\ link \in Links /\ offers \in Nat /\ offers + 1 \in Nat /\ fails + 1 \in Nat
      /\ {"caller", "callee"} = Phones
  BY DEF Inv, CallsTyped, NetTyped, Phones
<1>1. CASE StartCall
  <2>1. session' \in [Phones -> Sessions] /\ session'["caller"] = "ringing"
    BY <1>0, <1>1 DEF StartCall, Sessions
  <2>2. dialled' \in BOOLEAN
    BY <1>0, <1>1 DEF StartCall, Inv, NetTyped
  <2>3. CallsTyped' /\ RunsTyped'
    BY <1>1, <2>1 DEF StartCall, Inv, CallsTyped, RunsTyped
  <2>4. NetTyped'
    BY <1>1, <2>2 DEF StartCall, Inv, NetTyped
  <2>5. MicRight'
    BY <1>1, <2>1 DEF StartCall, Inv, MicRight, CallerReleasesMicrophone
  <2> QED
    BY <2>3, <2>4, <2>5 DEF Inv
<1>2. CASE Ring
  <2>1. Emit(link, "caller", "incoming", 0) \in Links /\ Emit(link, "callee", "ended", 0) \in Links
    BY <1>0, EmitTyped DEF Kinds
  <2>2. link' \in Links /\ dialled' \in BOOLEAN
    BY <1>0, <1>2, <2>1 DEF Ring
  <2>3. CallsTyped' /\ RunsTyped' /\ MicRight'
    BY <1>2 DEF Ring, Inv, CallsTyped, RunsTyped, MicRight, CallerReleasesMicrophone
  <2>4. NetTyped'
    BY <1>2, <2>2 DEF Ring, Inv, NetTyped
  <2> QED
    BY <2>3, <2>4 DEF Inv
<1>3. CASE StartCaptured
  <2> DEFINE on == [Closed EXCEPT !.mic = TRUE]
  <2>1. on \in Connections
    BY DEF Closed, Connections
  <2>2. Opened(on) \in Connections
    BY <2>1, OpenedTyped
  <2>3. Opened(on).open
    BY DEF Opened, Closed
  <2>4. rtc' \in [Phones -> Connections] /\ rtc'["caller"].open
    BY <1>0, <1>3, <2>2, <2>3 DEF StartCaptured
  <2>5. CallsTyped' /\ RunsTyped' /\ NetTyped'
    BY <1>3, <2>4 DEF StartCaptured, Inv, CallsTyped, RunsTyped, NetTyped
  <2>6. MicRight'
    BY <1>3, <2>4 DEF StartCaptured, MicRight, CallerReleasesMicrophone
  <2> QED
    BY <2>5, <2>6 DEF Inv
<1>4. CASE StartOffered
  <2>1. CASE ~rtc["caller"].open /\ session["caller"] # "none"
    <3>1. HangUp("caller") /\ UNCHANGED offers
      BY <1>4, <2>1 DEF StartOffered
    <3>2. /\ handled' \subseteq Phones /\ session' \in [Phones -> Sessions]
          /\ rtc' \in [Phones -> Connections] /\ rtc'["caller"] = Closed /\ link' \in Links
      BY <1>0, <3>1, HangUpTyped DEF Inv
    <3>3. CallsTyped' /\ RunsTyped' /\ NetTyped'
      BY <1>4, <3>1, <3>2 DEF StartOffered, Inv, CallsTyped, RunsTyped, NetTyped
    <3>4. MicRight'
      BY <3>2, ClosedTyped DEF MicRight, CallerReleasesMicrophone
    <3> QED
      BY <3>3, <3>4 DEF Inv
  <2>2. CASE ~rtc["caller"].open /\ session["caller"] = "none"
    <3>1. UNCHANGED <<session, handled, rtc, link, offers>>
      BY <1>4, <2>2 DEF StartOffered
    <3>3. CallsTyped' /\ RunsTyped' /\ NetTyped'
      BY <1>4, <3>1 DEF StartOffered, Inv, CallsTyped, RunsTyped, NetTyped
    <3>4. MicRight'
      BY <2>2, <3>1 DEF Inv, MicRight, CallerReleasesMicrophone
    <3> QED
      BY <3>3, <3>4 DEF Inv
  <2>3. CASE rtc["caller"].open /\ Live("caller")
    <3>1. /\ offers' = offers + 1 /\ UNCHANGED <<session, handled>>
          /\ rtc' = [rtc EXCEPT !["caller"].sig = "local", !["caller"].pend = offers + 1]
          /\ link' = Emit(link, "caller", "offer", offers + 1)
      BY <1>4, <2>3 DEF StartOffered
    <3>2. Emit(link, "caller", "offer", offers + 1) \in Links
      BY <1>0, EmitTyped DEF Kinds
    <3>3. rtc' \in [Phones -> Connections]
      BY <1>0, <3>1 DEF Connections
    <3>4. CallsTyped' /\ RunsTyped' /\ NetTyped'
      BY <1>0, <1>4, <3>1, <3>2, <3>3 DEF StartOffered, Inv, CallsTyped, RunsTyped, NetTyped
    <3>5. rtc'["caller"].open /\ session'["caller"] \notin {"none", "ended"}
      BY <1>0, <2>3, <3>1 DEF Live, Connections
    <3>6. MicRight'
      BY <1>4, <3>5 DEF StartOffered, MicRight, CallerReleasesMicrophone
    <3> QED
      BY <3>4, <3>6 DEF Inv
  <2>4. CASE rtc["caller"].open /\ ~Live("caller")
    <3>1. /\ offers' = offers + 1 /\ UNCHANGED <<session, handled, link>>
          /\ rtc' = [rtc EXCEPT !["caller"] = Closed]
      BY <1>4, <2>4 DEF StartOffered
    <3>2. rtc' \in [Phones -> Connections] /\ rtc'["caller"] = Closed
      BY <1>0, <3>1, ClosedTyped
    <3>3. CallsTyped' /\ RunsTyped' /\ NetTyped'
      BY <1>0, <1>4, <3>1, <3>2 DEF StartOffered, Inv, CallsTyped, RunsTyped, NetTyped
    <3>4. MicRight'
      BY <3>2, ClosedTyped DEF MicRight, CallerReleasesMicrophone
    <3> QED
      BY <3>3, <3>4 DEF Inv
  <2> QED
    BY <2>1, <2>2, <2>3, <2>4
<1>5. CASE StartFails
  <2>1. CASE session["caller"] # "none"
    <3>1. HangUp("caller")
      BY <1>5, <2>1 DEF StartFails
    <3>2. /\ handled' \subseteq Phones /\ session' \in [Phones -> Sessions]
          /\ rtc' \in [Phones -> Connections] /\ rtc'["caller"] = Closed /\ link' \in Links
      BY <1>0, <3>1, HangUpTyped DEF Inv
    <3>3. CallsTyped' /\ RunsTyped' /\ NetTyped'
      BY <1>0, <1>5, <3>2 DEF StartFails, Inv, CallsTyped, RunsTyped, NetTyped
    <3>4. MicRight'
      BY <3>2, ClosedTyped DEF MicRight, CallerReleasesMicrophone
    <3> QED
      BY <3>3, <3>4 DEF Inv
  <2>2. CASE session["caller"] = "none"
    <3>1. UNCHANGED <<session, handled, rtc, link>>
      BY <1>5, <2>2 DEF StartFails
    <3>2. CallsTyped' /\ RunsTyped' /\ NetTyped'
      BY <1>0, <1>5, <3>1 DEF StartFails, Inv, CallsTyped, RunsTyped, NetTyped
    <3>3. MicRight'
      BY <1>5, <3>1 DEF StartFails, Inv, MicRight, CallerReleasesMicrophone
    <3> QED
      BY <3>2, <3>3 DEF Inv
  <2> QED
    BY <2>1, <2>2
<1> QED
  BY <1>1, <1>2, <1>3, <1>4, <1>5

\* The end of a call, and the callee's acceptance of it.
LEMMA AcceptKeeps ==
  ASSUME Inv,
         \/ \E p \in Phones : EndCall(p) \/ Reset(p)
         \/ AcceptCall
         \/ \E j \in handling : AcceptCaptured(j) \/ AcceptFails(j) \/ OfferSet(j) \/ OfferAnswered(j)
  PROVE  Inv'
<1> USE DEF callVars, jobVars, netVars, countVars
<1>0. /\ session \in [Phones -> Sessions] /\ rtc \in [Phones -> Connections]
      /\ link \in Links /\ sdp \in Nat /\ ends + 1 \in Nat /\ fails + 1 \in Nat
      /\ Phones = {"caller", "callee"} /\ handling \subseteq Runs
      /\ rtc["callee"] \in Connections
  BY DEF Inv, CallsTyped, NetTyped, RunsTyped, Phones
<1>1. ASSUME NEW p \in Phones, EndCall(p)
      PROVE  Inv'
  <2>1. /\ handled' \subseteq Phones /\ session' \in [Phones -> Sessions]
        /\ rtc' \in [Phones -> Connections] /\ rtc' = [rtc EXCEPT ![p] = Closed]
        /\ session' = [session EXCEPT ![p] = "ended"] /\ link' \in Links
    BY <1>1, HangUpTyped DEF EndCall, Inv
  <2>2. CallsTyped' /\ RunsTyped' /\ NetTyped'
    BY <1>0, <1>1, <2>1 DEF EndCall, Inv, CallsTyped, RunsTyped, NetTyped
  <2>3. MicRight'
    BY <1>0, <1>1, <2>1, MicKept DEF EndCall, Inv
  <2> QED
    BY <2>2, <2>3 DEF Inv
<1>2. ASSUME NEW p \in Phones, Reset(p)
      PROVE  Inv'
  <2>1. /\ session' \in [Phones -> Sessions]
        /\ session'["caller"] = session["caller"] \/ session["caller"] = "ended"
    BY <1>0, <1>2 DEF Reset, Sessions
  <2>2. CallsTyped' /\ RunsTyped' /\ NetTyped'
    BY <1>2, <2>1 DEF Reset, Inv, CallsTyped, RunsTyped, NetTyped
  <2>3. MicRight'
    BY <1>2, <2>1 DEF Reset, Inv, MicRight, CallerReleasesMicrophone
  <2> QED
    BY <2>2, <2>3 DEF Inv
<1>3. CASE AcceptCall
  <2>1. session' \in [Phones -> Sessions] /\ session'["caller"] = session["caller"]
    BY <1>0, <1>3 DEF AcceptCall, Sessions
  <2>2. [by |-> "accept", n |-> sdp, at |-> "capture"] \in Runs
    BY <1>0 DEF Runs
  <2>3. CallsTyped' /\ RunsTyped' /\ NetTyped'
    BY <1>3, <2>1, <2>2 DEF AcceptCall, Inv, CallsTyped, RunsTyped, NetTyped
  <2>4. MicRight'
    BY <1>3, <2>1 DEF AcceptCall, Inv, MicRight, CallerReleasesMicrophone
  <2> QED
    BY <2>3, <2>4 DEF Inv
<1>4. ASSUME NEW j \in handling, AcceptCaptured(j)
      PROVE  Inv'
  <2> DEFINE on == [rtc["callee"] EXCEPT !.mic = TRUE, !.camera = FALSE]
             gone == session["callee"] = "none"
  <2>1. /\ rtc' = [rtc EXCEPT !["callee"] = IF gone THEN on ELSE Opened(on)]
        /\ handling' = (handling \ {j})
                         \cup (IF gone \/ j.n = 0 THEN {} ELSE {[j EXCEPT !.at = "set"]})
        /\ link' = Emit(link, "callee", "accepted", 0) \/ link' = link
    BY <1>4 DEF AcceptCaptured
  <2>2. on \in Connections
    BY <1>0 DEF Connections
  <2>3. Opened(on) \in Connections
    BY <2>2, OpenedTyped
  <2>4. rtc' \in [Phones -> Connections] /\ rtc'["caller"] = rtc["caller"]
    BY <1>0, <2>1, <2>2, <2>3
  <2>5. [j EXCEPT !.at = "set"] \in Runs
    BY <1>0 DEF Runs
  <2>6. handling' \subseteq Runs
    BY <1>0, <2>1, <2>5
  <2>7. link' \in Links
    BY <1>0, <2>1, EmitTyped DEF Kinds
  <2>8. CallsTyped' /\ RunsTyped' /\ NetTyped'
    BY <1>4, <2>4, <2>6, <2>7 DEF AcceptCaptured, Inv, CallsTyped, RunsTyped, NetTyped
  <2>9. MicRight'
    BY <1>4, <2>4 DEF AcceptCaptured, Inv, MicRight, CallerReleasesMicrophone
  <2> QED
    BY <2>8, <2>9 DEF Inv
<1>5. ASSUME NEW j \in handling, AcceptFails(j)
      PROVE  Inv'
  <2>1. /\ handled' \subseteq Phones /\ session' \in [Phones -> Sessions]
        /\ rtc' \in [Phones -> Connections] /\ link' \in Links
        /\ rtc'["caller"] = rtc["caller"] /\ session'["caller"] = session["caller"]
    BY <1>5, RejectedTyped DEF AcceptFails, Inv
  <2>2. CallsTyped' /\ RunsTyped' /\ NetTyped'
    BY <1>0, <1>5, <2>1 DEF AcceptFails, Inv, CallsTyped, RunsTyped, NetTyped
  <2>3. MicRight'
    BY <1>5, <2>1 DEF AcceptFails, Inv, MicRight, CallerReleasesMicrophone
  <2> QED
    BY <2>2, <2>3 DEF Inv
<1>6. ASSUME NEW j \in handling, OfferSet(j)
      PROVE  Inv'
  <2>1. CASE rtc["callee"].open
    <3>1. /\ rtc' = [rtc EXCEPT !["callee"] = Described(rtc["callee"], "remote", j.n,
                                                        rtc["callee"].cur)]
          /\ handling' = (handling \ {j}) \cup {[j EXCEPT !.at = "answer"]}
          /\ UNCHANGED <<session, handled, link>>
      BY <1>6, <2>1 DEF OfferSet
    <3>2. j.n \in Nat /\ rtc["callee"].cur \in Nat /\ [j EXCEPT !.at = "answer"] \in Runs
      BY <1>0 DEF Runs, Connections
    <3>3. Described(rtc["callee"], "remote", j.n, rtc["callee"].cur) \in Connections
      BY <1>0, <3>2, DescribedTyped
    <3>4. rtc' \in [Phones -> Connections] /\ rtc'["caller"] = rtc["caller"]
      BY <1>0, <3>1, <3>3
    <3>5. CallsTyped' /\ RunsTyped' /\ NetTyped'
      BY <1>0, <1>6, <3>1, <3>2, <3>4 DEF OfferSet, Inv, CallsTyped, RunsTyped, NetTyped
    <3>6. MicRight'
      BY <1>6, <3>1, <3>4 DEF OfferSet, Inv, MicRight, CallerReleasesMicrophone
    <3> QED
      BY <3>5, <3>6 DEF Inv
  <2>2. CASE ~rtc["callee"].open
    <3>1. handling' = handling \ {j} /\ Rejected(j)
      BY <1>6, <2>2 DEF OfferSet
    <3>2. /\ handled' \subseteq Phones /\ session' \in [Phones -> Sessions]
          /\ rtc' \in [Phones -> Connections] /\ link' \in Links
          /\ rtc'["caller"] = rtc["caller"] /\ session'["caller"] = session["caller"]
      BY <3>1, RejectedTyped DEF Inv
    <3>3. CallsTyped' /\ RunsTyped' /\ NetTyped'
      BY <1>0, <1>6, <3>1, <3>2 DEF OfferSet, Inv, CallsTyped, RunsTyped, NetTyped
    <3>4. MicRight'
      BY <1>6, <3>2 DEF OfferSet, Inv, MicRight, CallerReleasesMicrophone
    <3> QED
      BY <3>3, <3>4 DEF Inv
  <2> QED
    BY <2>1, <2>2
<1>7. ASSUME NEW j \in handling, OfferAnswered(j)
      PROVE  Inv'
  <2> DEFINE r == rtc["callee"]
  <2>1. CASE r.open /\ r.sig = "remote"
    <3>1. /\ rtc' = [rtc EXCEPT !["callee"].sig = "stable", !["callee"].cur = r.pend]
          /\ \/ link' = Emit(link, "callee", "reAnswer", r.pend)
             \/ link' = Emit(link, "callee", "accepted", r.pend)
             \/ link' = link
          /\ UNCHANGED <<session, handled>> /\ handling' = handling \ {j}
      BY <1>7, <2>1 DEF OfferAnswered
    <3>2. r.pend \in Nat
      BY <1>0 DEF Connections
    <3>3. link' \in Links
      BY <1>0, <3>1, <3>2, EmitTyped DEF Kinds
    <3>4. rtc' \in [Phones -> Connections] /\ rtc'["caller"] = rtc["caller"]
      BY <1>0, <3>1, <3>2 DEF Connections
    <3>5. CallsTyped' /\ RunsTyped' /\ NetTyped'
      BY <1>0, <1>7, <3>1, <3>3, <3>4 DEF OfferAnswered, Inv, CallsTyped, RunsTyped, NetTyped
    <3>6. MicRight'
      BY <1>7, <3>1, <3>4 DEF OfferAnswered, Inv, MicRight, CallerReleasesMicrophone
    <3> QED
      BY <3>5, <3>6 DEF Inv
  <2>2. CASE ~(r.open /\ r.sig = "remote")
    <3>1. handling' = handling \ {j} /\ Rejected(j)
      BY <1>7, <2>2 DEF OfferAnswered
    <3>2. /\ handled' \subseteq Phones /\ session' \in [Phones -> Sessions]
          /\ rtc' \in [Phones -> Connections] /\ link' \in Links
          /\ rtc'["caller"] = rtc["caller"] /\ session'["caller"] = session["caller"]
      BY <3>1, RejectedTyped DEF Inv
    <3>3. CallsTyped' /\ RunsTyped' /\ NetTyped'
      BY <1>0, <1>7, <3>1, <3>2 DEF OfferAnswered, Inv, CallsTyped, RunsTyped, NetTyped
    <3>4. MicRight'
      BY <1>7, <3>2 DEF OfferAnswered, Inv, MicRight, CallerReleasesMicrophone
    <3> QED
      BY <3>3, <3>4 DEF Inv
  <2> QED
    BY <2>1, <2>2
<1> QED
  BY <1>1, <1>2, <1>3, <1>4, <1>5, <1>6, <1>7

\* The caller applies the answers, and the phones turn to video.
LEMMA AnswerKeeps ==
  ASSUME Inv,
         \/ \E j \in applying : Wake(j) \/ AnswerSet(j)
         \/ \E p \in Phones : \/ Toggle(p) \/ Gather(p)
                              \/ \E why \in {"tap", "agreed"} :
                                   CameraCaptured(p, why) \/ CameraFails(p, why)
         \/ Renegotiated
  PROVE  Inv'
<1> USE DEF callVars, jobVars, netVars, countVars
<1>0. /\ session \in [Phones -> Sessions] /\ rtc \in [Phones -> Connections]
      /\ link \in Links /\ toggles + 1 \in Nat /\ fails + 1 \in Nat /\ offers + 1 \in Nat
      /\ Phones = {"caller", "callee"} /\ applying \subseteq Runs
      /\ rtc["caller"] \in Connections /\ CallsTyped /\ RunsTyped /\ NetTyped /\ MicRight
  BY DEF Inv, CallsTyped, NetTyped, RunsTyped, Phones
<1>1. ASSUME NEW j \in applying, Wake(j)
      PROVE  Inv'
  <2> DEFINE gone == session["caller"] = "none"
  <2>1. /\ session' = IF gone THEN session ELSE [session EXCEPT !["caller"] = "connected"]
        /\ applying' = (applying \ {j})
                         \cup (IF gone \/ j.n = 0 \/ ~rtc["caller"].open THEN {}
                               ELSE {[j EXCEPT !.at = "set"]})
    BY <1>1 DEF Wake
  <2>2. [j EXCEPT !.at = "set"] \in Runs
    BY <1>0 DEF Runs
  <2>3. /\ session' \in [Phones -> Sessions] /\ applying' \subseteq Runs
        /\ session'["caller"] \in {"none", "ended"} => session["caller"] \in {"none", "ended"}
    BY <1>0, <2>1, <2>2 DEF Sessions
  <2>4. CallsTyped' /\ RunsTyped' /\ NetTyped'
    BY <1>0, <1>1, <2>3 DEF Wake, CallsTyped, RunsTyped, NetTyped
  <2>5. MicRight'
    BY <1>0, <1>1, <2>3 DEF Wake, MicRight, CallerReleasesMicrophone
  <2> QED
    BY <2>4, <2>5 DEF Inv
<1>2. ASSUME NEW j \in applying, AnswerSet(j)
      PROVE  Inv'
  <2> DEFINE r == rtc["caller"]
             d == Described(r, "stable", 0, j.n)
  <2>1. j.n \in Nat
    BY <1>0 DEF Runs
  <2>2. d \in Connections /\ (d.mic <=> r.mic) /\ (d.open <=> r.open)
    BY <1>0, <2>1, DescribedTyped
  <2>3. \E x \in {r, d} :
          rtc' = [rtc EXCEPT !["caller"] = x]
          \/ rtc' = [rtc EXCEPT !["caller"] = [x EXCEPT !.lock = FALSE]]
    BY <1>0, <1>2 DEF AnswerSet
  <2>4. \A x \in {r, d} :
          /\ x \in Connections /\ (x.mic <=> r.mic) /\ (x.open <=> r.open)
          /\ [x EXCEPT !.lock = FALSE] \in Connections
          /\ ([x EXCEPT !.lock = FALSE].mic <=> x.mic)
          /\ ([x EXCEPT !.lock = FALSE].open <=> x.open)
    BY <1>0, <2>2 DEF Connections
  <2> HIDE DEF d
  <2>5. /\ rtc' \in [Phones -> Connections]
        /\ (rtc'["caller"].mic <=> r.mic) /\ (rtc'["caller"].open <=> r.open)
    BY <1>0, <2>3, <2>4
  <2>6. CallsTyped' /\ RunsTyped' /\ NetTyped'
    BY <1>0, <1>2, <2>5 DEF AnswerSet, CallsTyped, RunsTyped, NetTyped
  <2>7. MicRight'
    BY <1>0, <1>2, <2>5 DEF AnswerSet, MicRight, CallerReleasesMicrophone
  <2> QED
    BY <2>6, <2>7 DEF Inv
<1>3. ASSUME NEW p \in Phones, Toggle(p)
      PROVE  Inv'
  <2> DEFINE on == asked[p] \/ ~video[p]
  <2>1. /\ on \in BOOLEAN /\ FALSE \in BOOLEAN
        /\ video' = [video EXCEPT ![p] = on] /\ asked' = [asked EXCEPT ![p] = FALSE]
    BY <1>3 DEF Toggle
  <2>2. video' \in [Phones -> BOOLEAN] /\ asked' \in [Phones -> BOOLEAN]
    BY <1>0, <2>1 DEF CallsTyped
  <2>3. \/ Upgrade(p, "agreed", link)
        \/ Upgrade(p, "tap", Emit(link, p, "request", 0))
        \/ /\ link' = Emit(link, p, "refuse", 0)
           /\ UNCHANGED <<rtc, upgrading, reneg, early>>
    BY <1>3 DEF Toggle
  <2>4. Emit(link, p, "request", 0) \in Links /\ Emit(link, p, "refuse", 0) \in Links
    BY <1>0, EmitTyped DEF Kinds
  <2>5. /\ rtc' \in [Phones -> Connections] /\ reneg' \in {"no", "tap", "agreed"}
        /\ early' \in BOOLEAN /\ link' \in Links
        /\ upgrading' \in [Phones -> SUBSET {"tap", "agreed"}]
        /\ \A x \in Phones : (rtc'[x].mic <=> rtc[x].mic) /\ (rtc'[x].open <=> rtc[x].open)
    <3>1. CASE \/ Upgrade(p, "agreed", link)
               \/ Upgrade(p, "tap", Emit(link, p, "request", 0))
      BY <1>0, <2>4, <3>1, UpgradeTyped
    <3>2. CASE /\ link' = Emit(link, p, "refuse", 0)
               /\ UNCHANGED <<rtc, upgrading, reneg, early>>
      BY <1>0, <2>4, <3>2 DEF RunsTyped, NetTyped
    <3> QED
      BY <2>3, <3>1, <3>2
  <2>6. CallsTyped' /\ RunsTyped' /\ NetTyped'
    BY <1>0, <1>3, <2>2, <2>5 DEF Toggle, CallsTyped, RunsTyped, NetTyped
  <2>7. MicRight'
    BY <1>0, <1>3, <2>5 DEF Toggle, MicRight, CallerReleasesMicrophone
  <2> QED
    BY <2>6, <2>7 DEF Inv
<1>4. ASSUME NEW p \in Phones, Gather(p)
      PROVE  Inv'
  <2>0. gathered \in [Phones -> Nat] /\ gathered[p] + 1 \in Nat
    BY <1>0 DEF NetTyped
  <2>a. gathered' \in [Phones -> Nat]
    BY <1>4, <2>0 DEF Gather
  <2>b. Emit(link, p, "candidate", 0) \in Links
    BY <1>0, EmitTyped DEF Kinds
  <2>1. gathered' \in [Phones -> Nat] /\ link' \in Links
    BY <1>4, <2>a, <2>b DEF Gather
  <2>2. CallsTyped' /\ RunsTyped' /\ NetTyped'
    BY <1>0, <1>4, <2>1 DEF Gather, CallsTyped, RunsTyped, NetTyped
  <2>3. MicRight'
    BY <1>0, <1>4 DEF Gather, MicRight, CallerReleasesMicrophone
  <2> QED
    BY <2>2, <2>3 DEF Inv
<1>5. ASSUME NEW p \in Phones, NEW why \in {"tap", "agreed"}, CameraCaptured(p, why)
      PROVE  Inv'
  <2> DEFINE media == [rtc[p] EXCEPT !.camera = TRUE]
  <2>1. media \in Connections /\ (media.mic <=> rtc[p].mic) /\ (media.open <=> rtc[p].open)
    BY <1>0 DEF Connections
  <2>2. Renegotiate(p, why, media, link)
    BY <1>5 DEF CameraCaptured
  <2> HIDE DEF media
  <2>3. /\ rtc' \in [Phones -> Connections] /\ reneg' \in {"no", "tap", "agreed"}
        /\ early' \in BOOLEAN /\ link' \in Links
        /\ \A x \in Phones \ {p} : rtc'[x] = rtc[x]
        /\ (rtc'[p].mic <=> media.mic) /\ (rtc'[p].open <=> media.open)
    BY <1>0, <2>1, <2>2, RenegotiateTyped
  <2>4. upgrading' \in [Phones -> SUBSET {"tap", "agreed"}]
    BY <1>0, <1>5 DEF CameraCaptured, RunsTyped
  <2>5. CallsTyped' /\ RunsTyped' /\ NetTyped'
    BY <1>0, <1>5, <2>3, <2>4 DEF CameraCaptured, CallsTyped, RunsTyped, NetTyped
  <2>6. (rtc'["caller"].mic <=> rtc["caller"].mic) /\ (rtc'["caller"].open <=> rtc["caller"].open)
    BY <1>0, <2>1, <2>3
  <2>7. MicRight'
    BY <1>0, <1>5, <2>6 DEF CameraCaptured, MicRight, CallerReleasesMicrophone
  <2> QED
    BY <2>5, <2>7 DEF Inv
<1>6. ASSUME NEW p \in Phones, NEW why \in {"tap", "agreed"}, CameraFails(p, why)
      PROVE  Inv'
  <2>1. Emit(link, p, "agree", 0) \in Links
    BY <1>0, EmitTyped DEF Kinds
  <2>2. upgrading' \in [Phones -> SUBSET {"tap", "agreed"}] /\ link' \in Links
    BY <1>0, <1>6, <2>1 DEF CameraFails, RunsTyped
  <2>3. CallsTyped' /\ RunsTyped' /\ NetTyped'
    BY <1>0, <1>6, <2>2 DEF CameraFails, CallsTyped, RunsTyped, NetTyped
  <2>4. MicRight'
    BY <1>0, <1>6 DEF CameraFails, MicRight, CallerReleasesMicrophone
  <2> QED
    BY <2>3, <2>4 DEF Inv
<1>7. CASE Renegotiated
  <2> DEFINE r == rtc["caller"]
             sent == IF r.open THEN Emit(link, "caller", "reOffer", offers + 1) ELSE link
  <2>1. /\ rtc' = [rtc EXCEPT !["caller"] =
                     IF r.open THEN [r EXCEPT !.sig = "local", !.pend = offers + 1, !.set = FALSE]
                     ELSE [r EXCEPT !.lock = FALSE]]
        /\ offers' = IF r.open THEN offers + 1 ELSE offers
        /\ link' = Emit(sent, "caller", "agree", 0) \/ link' = sent
    BY <1>7 DEF Renegotiated
  <2>2. sent \in Links
    BY <1>0, EmitTyped DEF Kinds
  <2>3. link' \in Links
    BY <1>0, <2>1, <2>2, EmitTyped DEF Kinds
  <2>4. /\ rtc' \in [Phones -> Connections]
        /\ (rtc'["caller"].mic <=> r.mic) /\ (rtc'["caller"].open <=> r.open)
    BY <1>0, <2>1 DEF Connections
  <2>5. offers' \in Nat
    BY <1>0, <2>1 DEF NetTyped
  <2>6. CallsTyped' /\ RunsTyped' /\ NetTyped'
    BY <1>0, <1>7, <2>3, <2>4, <2>5 DEF Renegotiated, CallsTyped, RunsTyped, NetTyped
  <2>7. MicRight'
    BY <1>0, <1>7, <2>4 DEF Renegotiated, MicRight, CallerReleasesMicrophone
  <2> QED
    BY <2>6, <2>7 DEF Inv
<1> QED
  BY <1>1, <1>2, <1>3, <1>4, <1>5, <1>6, <1>7

\* The frames, and the connections they travel on.
LEMMA FramesKeep ==
  ASSUME Inv, NEW p \in Phones, Receive(p) \/ Disconnect(p) \/ Reconnect(p)
  PROVE  Inv'
<1> USE DEF callVars, jobVars, netVars, countVars
<1>0. /\ session \in [Phones -> Sessions] /\ rtc \in [Phones -> Connections]
      /\ link \in Links /\ drops + 1 \in Nat /\ Phones = {"caller", "callee"}
      /\ rtc[p] \in Connections /\ online \in [Phones -> BOOLEAN]
      /\ CallsTyped /\ RunsTyped /\ NetTyped /\ MicRight
  BY DEF Inv, CallsTyped, NetTyped, Phones
<1>1. CASE Receive(p)
  <2> DEFINE f == Head(link[p])
             rest == [link EXCEPT ![p] = Tail(@)]
  <2>0. link[p] \in Seq(Frames) /\ link[p] # <<>>
    BY <1>0, <1>1 DEF Receive, Links
  <2>a. f \in Frames /\ Tail(link[p]) \in Seq(Frames)
    BY <2>0
  <2>b. f.n \in Nat /\ rest \in Links
    BY <1>0, <2>a DEF Frames, Links
  <2>1. /\ \/ OnSwitch(p, f, rest)
           \/ /\ OnOffer(f) \/ OnReOffer(f)
              /\ link' = rest
              /\ UNCHANGED <<session, handled, video, asked, rtc, applying, upgrading, reneg, early>>
           \/ OnAnswer(f) /\ link' = rest
           \/ OnCandidate(p) /\ link' = rest
           \/ OnCall(p, f) /\ link' = rest
        /\ UNCHANGED <<start, netVars, offers, gathered, toggles, fails, ends>>
    BY <1>1 DEF Receive
  <2> HIDE DEF f, rest
  <2>2. CASE OnSwitch(p, f, rest)
    <3>1. CASE session[p] = "none"
      <4>1. link' = rest /\ UNCHANGED <<video, asked, rtc, upgrading, reneg, early>>
        BY <2>2, <3>1 DEF OnSwitch
      <4>2. CallsTyped' /\ RunsTyped' /\ NetTyped'
        BY <1>0, <2>1, <2>2, <2>b, <4>1 DEF OnSwitch, CallsTyped, RunsTyped, NetTyped
      <4>3. MicRight'
        BY <1>0, <2>1, <2>2, <4>1 DEF OnSwitch, MicRight, CallerReleasesMicrophone
      <4> QED
        BY <4>2, <4>3 DEF Inv
    <3>2. CASE session[p] # "none"
      <4>1. /\ asked' = [asked EXCEPT ![p] = f.k = "request"]
            /\ video' = IF f.k = "request" THEN video ELSE [video EXCEPT ![p] = f.k = "agree"]
            /\ \/ Upgrade(p, "tap", rest)
               \/ link' = rest /\ UNCHANGED <<rtc, upgrading, reneg, early>>
        BY <2>2, <3>2 DEF OnSwitch
      <4>2. (f.k = "request") \in BOOLEAN /\ (f.k = "agree") \in BOOLEAN
        OBVIOUS
      <4>3. asked' \in [Phones -> BOOLEAN] /\ video' \in [Phones -> BOOLEAN]
        BY <1>0, <4>1, <4>2 DEF CallsTyped
      <4>4. /\ rtc' \in [Phones -> Connections] /\ reneg' \in {"no", "tap", "agreed"}
            /\ early' \in BOOLEAN /\ link' \in Links
            /\ upgrading' \in [Phones -> SUBSET {"tap", "agreed"}]
            /\ \A x \in Phones : (rtc'[x].mic <=> rtc[x].mic) /\ (rtc'[x].open <=> rtc[x].open)
        <5>1. CASE Upgrade(p, "tap", rest)
          BY <1>0, <2>b, <5>1, UpgradeTyped
        <5>2. CASE link' = rest /\ UNCHANGED <<rtc, upgrading, reneg, early>>
          BY <1>0, <2>b, <5>2 DEF RunsTyped, NetTyped
        <5> QED
          BY <4>1, <5>1, <5>2
      <4>5. CallsTyped' /\ RunsTyped' /\ NetTyped'
        BY <1>0, <2>1, <2>2, <4>3, <4>4 DEF OnSwitch, CallsTyped, RunsTyped, NetTyped
      <4>6. MicRight'
        BY <1>0, <2>1, <2>2, <4>4 DEF OnSwitch, MicRight, CallerReleasesMicrophone
      <4> QED
        BY <4>5, <4>6 DEF Inv
    <3> QED
      BY <3>1, <3>2
  <2>3. CASE /\ OnOffer(f) \/ OnReOffer(f)
             /\ link' = rest
             /\ UNCHANGED <<session, handled, video, asked, rtc, applying, upgrading, reneg, early>>
    <3>1. [by |-> "re", n |-> f.n, at |-> "set"] \in Runs
      BY <2>b DEF Runs
    <3>2. sdp' \in Nat /\ handling' \subseteq Runs
      BY <1>0, <2>3, <2>b, <3>1 DEF OnOffer, OnReOffer, CallsTyped, RunsTyped
    <3>3. missed' \in BOOLEAN
      BY <2>3 DEF OnOffer, OnReOffer
    <3>4. CallsTyped' /\ RunsTyped' /\ NetTyped'
      BY <1>0, <2>1, <2>3, <2>b, <3>2, <3>3 DEF CallsTyped, RunsTyped, NetTyped
    <3>5. MicRight'
      BY <1>0, <2>1, <2>3 DEF MicRight, CallerReleasesMicrophone
    <3> QED
      BY <3>4, <3>5 DEF Inv
  <2>4. CASE OnAnswer(f) /\ link' = rest
    <3>1. applying' \subseteq Runs
      BY <1>0, <2>4, <2>b DEF OnAnswer, RunsTyped, Runs
    <3>2. CallsTyped' /\ RunsTyped' /\ NetTyped'
      BY <1>0, <2>1, <2>4, <2>b, <3>1 DEF OnAnswer, CallsTyped, RunsTyped, NetTyped
    <3>3. MicRight'
      BY <1>0, <2>1, <2>4 DEF OnAnswer, MicRight, CallerReleasesMicrophone
    <3> QED
      BY <3>2, <3>3 DEF Inv
  <2>5. CASE OnCandidate(p) /\ link' = rest
    <3>1. rtc' = [rtc EXCEPT ![p].queue = rtc[p].queue + 1] \/ rtc' = rtc
      BY <2>5 DEF OnCandidate
    <3>2. rtc[p].queue + 1 \in Nat
      BY <1>0 DEF Connections
    <3>3. /\ rtc' \in [Phones -> Connections]
          /\ \A x \in Phones : (rtc'[x].mic <=> rtc[x].mic) /\ (rtc'[x].open <=> rtc[x].open)
      BY <1>0, <3>1, <3>2 DEF Connections
    <3>4. CallsTyped' /\ RunsTyped' /\ NetTyped'
      BY <1>0, <2>1, <2>5, <2>b, <3>3 DEF OnCandidate, CallsTyped, RunsTyped, NetTyped
    <3>5. MicRight'
      BY <1>0, <2>1, <2>5, <3>3 DEF OnCandidate, MicRight, CallerReleasesMicrophone
    <3> QED
      BY <3>4, <3>5 DEF Inv
  <2>6. CASE OnCall(p, f) /\ link' = rest
    <3>1. /\ handled' \subseteq Phones /\ session' \in [Phones -> Sessions]
          /\ rtc' \in [Phones -> Connections]
          /\ \/ /\ rtc'["caller"] = rtc["caller"]
                /\ session'["caller"] \in {"none", "ended"} => session["caller"] \in {"none", "ended"}
             \/ rtc'["caller"] = Closed
      <4>1. CASE /\ session' = [session EXCEPT ![p] = IF Live(p) THEN @ ELSE "ringing"]
                 /\ UNCHANGED <<handled, rtc>>
        BY <1>0, <4>1 DEF CallsTyped, Sessions
      <4>2. CASE Dismiss(p)
        BY <1>0, <4>2, DismissTyped
      <4>3. CASE UNCHANGED <<session, handled, rtc>>
        BY <1>0, <4>3 DEF CallsTyped
      <4> QED
        BY <2>6, <4>1, <4>2, <4>3 DEF OnCall
    <3>2. CallsTyped' /\ RunsTyped' /\ NetTyped'
      BY <1>0, <2>1, <2>6, <2>b, <3>1 DEF OnCall, CallsTyped, RunsTyped, NetTyped
    <3>3. MicRight'
      BY <1>0, <2>1, <3>1, MicKept
    <3> QED
      BY <3>2, <3>3 DEF Inv
  <2> QED
    BY <2>1, <2>2, <2>3, <2>4, <2>5, <2>6
<1>2. CASE Disconnect(p)
  <2>1. PICK n \in 0..Len(link[Other(p)]) :
          link' = [link EXCEPT ![p] = <<>>, ![Other(p)] = SubSeq(@, 1, n)]
    BY <1>2 DEF Disconnect
  <2>2. Other(p) \in Phones /\ Other(p) # p
    BY DEF Other, Phones
  <2>3. link[Other(p)] \in Seq(Frames) /\ <<>> \in Seq(Frames)
    BY <1>0, <2>2 DEF Links
  <2>4. SubSeq(link[Other(p)], 1, n) \in Seq(Frames)
    BY <2>1, <2>3
  <2>5. link' \in Links
    BY <1>0, <2>1, <2>2, <2>3, <2>4 DEF Links
  <2>6. drops' \in Nat /\ online' \in [Phones -> BOOLEAN]
    BY <1>0, <1>2 DEF Disconnect
  <2>7. CallsTyped' /\ RunsTyped' /\ NetTyped'
    BY <1>0, <1>2, <2>5, <2>6 DEF Disconnect, CallsTyped, RunsTyped, NetTyped
  <2>8. MicRight'
    BY <1>0, <1>2 DEF Disconnect, MicRight, CallerReleasesMicrophone
  <2> QED
    BY <2>7, <2>8 DEF Inv
<1>3. CASE Reconnect(p)
  <2>1. online' \in [Phones -> BOOLEAN]
    BY <1>0, <1>3 DEF Reconnect
  <2>2. CallsTyped' /\ RunsTyped' /\ NetTyped'
    BY <1>0, <1>3, <2>1 DEF Reconnect, CallsTyped, RunsTyped, NetTyped
  <2>3. MicRight'
    BY <1>0, <1>3 DEF Reconnect, MicRight, CallerReleasesMicrophone
  <2> QED
    BY <2>2, <2>3 DEF Inv
<1> QED
  BY <1>1, <1>2, <1>3

-----------------------------------------------------------------------------
\* The inductive invariant holds in every reachable state.
LEMMA Invariance == Spec => []Inv
<1>1. Init => Inv
  <2>1. ASSUME Init
        PROVE  CallsTyped /\ RunsTyped
    BY <2>1, ClosedTyped DEF Init, CallsTyped, RunsTyped, Sessions
  <2>2. ASSUME Init
        PROVE  NetTyped
    <3>1. link \in Links
      BY <2>2 DEF Init, Links
    <3> QED
      BY <2>2, <3>1 DEF Init, NetTyped
  <2>3. ASSUME Init
        PROVE  MicRight
    BY <2>3 DEF Init, MicRight, CallerReleasesMicrophone, Closed, Phones
  <2> QED
    BY <2>1, <2>2, <2>3 DEF Inv
<1>2. Inv /\ [Next]_vars => Inv'
  <2> SUFFICES ASSUME Inv, [Next]_vars
               PROVE  Inv'
    OBVIOUS
  <2>1. CASE StartCall \/ Ring \/ StartFails \/ StartCaptured \/ StartOffered
    BY <2>1, StartKeeps
  <2>2. CASE \/ \E p \in Phones : EndCall(p) \/ Reset(p)
             \/ AcceptCall \/ Answering \/ \E j \in handling : AcceptFails(j)
    BY <2>2, AcceptKeeps DEF Answering
  <2>3. CASE \/ Applying \/ Renegotiated
             \/ \E p \in Phones : \/ Toggle(p) \/ Gather(p) \/ Camera(p)
                                  \/ \E why \in {"tap", "agreed"} : CameraFails(p, why)
    BY <2>3, AnswerKeeps DEF Applying, Camera
  <2>4. CASE \E p \in Phones : Receive(p) \/ Disconnect(p) \/ Reconnect(p)
    BY <2>4, FramesKeep
  <2>5. CASE UNCHANGED vars
    BY <2>5 DEF vars, callVars, jobVars, netVars, countVars, Inv, CallsTyped, RunsTyped, NetTyped,
                MicRight, CallerReleasesMicrophone
  <2> QED
    BY <2>1, <2>2, <2>3, <2>4, <2>5 DEF Next, Caller
<1> QED
  BY <1>1, <1>2, PTL DEF Spec

\* Sessions, connections, runs and frames are always of their types, for any bounds.
THEOREM TypeCorrect == Spec => []TypeOK
<1>1. Inv => TypeOK
  BY TypeParts DEF Inv
<1> QED
  BY <1>1, Invariance, PTL

\* Whatever order the capture, the end of the call and the background part of startCall take,
\* the caller's microphone is off once both the call and that part are over.
THEOREM MicrophoneIsReleased == Spec => []CallerReleasesMicrophone
<1>1. Inv => CallerReleasesMicrophone
  BY DEF Inv, MicRight
<1> QED
  BY <1>1, Invariance, PTL

-----------------------------------------------------------------------------
(* The lock of _renegotiate.  While no offer is lost and nothing fails, the negotiation is  *)
(* at one place at a time: an offer is being made, under way, stored, handled, or its       *)
(* answer is under way or being applied.  So no two runs meet on the callee's connection,   *)
(* where the second would fail and leave the caller's lock held.                            *)

\* Frames that the argument follows.
OfferFrames == {f \in Frames : f.k \in {"offer", "reOffer"}}
ReOfferFrames == {f \in Frames : f.k = "reOffer"}
AnswerFrames == {f \in Frames : f.k = "reAnswer" \/ (f.k = "accepted" /\ f.n > 0)}
ReAnswerFrames == {f \in Frames : f.k = "reAnswer"}
RingFrames == {f \in Frames : f.k = "incoming"}
WorkFrames == OfferFrames \cup AnswerFrames
Followed == RingFrames \cup WorkFrames

Has(q, K) == \E n \in DOMAIN q : q[n] \in K
Once(q, K) == \A m, n \in DOMAIN q : q[m] \in K /\ q[n] \in K => m = n

LEMMA AppendedFrames ==
  ASSUME NEW q \in Seq(Frames), NEW f \in Frames, NEW K
  PROVE  /\ Has(Append(q, f), K) <=> Has(q, K) \/ f \in K
         /\ Once(q, K) /\ (f \in K => ~Has(q, K)) => Once(Append(q, f), K)
<1> DEFINE r == Append(q, f)
<1>1. /\ Len(q) \in Nat /\ DOMAIN q = 1..Len(q) /\ DOMAIN r = 1..(Len(q) + 1)
      /\ \A n \in 1..Len(q) : r[n] = q[n]
      /\ r[Len(q) + 1] = f
  OBVIOUS
<1> HIDE DEF r
<1>2. Has(r, K) <=> Has(q, K) \/ f \in K
  BY <1>1 DEF Has
<1>3. Once(q, K) /\ (f \in K => ~Has(q, K)) => Once(r, K)
  BY <1>1 DEF Has, Once
<1> QED
  BY <1>2, <1>3 DEF r

LEMMA TakenFrames ==
  ASSUME NEW q \in Seq(Frames), q # <<>>, NEW K
  PROVE  /\ Has(Tail(q), K) => Has(q, K)
         /\ Head(q) \in K => Has(q, K)
         /\ Head(q) \notin K => (Has(Tail(q), K) <=> Has(q, K))
         /\ Once(q, K) => Once(Tail(q), K)
         /\ Once(q, K) /\ Head(q) \in K => ~Has(Tail(q), K)
<1> DEFINE r == Tail(q)
<1>1. /\ Len(q) \in Nat \ {0} /\ DOMAIN q = 1..Len(q) /\ DOMAIN r = 1..(Len(q) - 1)
      /\ \A n \in 1..(Len(q) - 1) : r[n] = q[n + 1]
      /\ Head(q) = q[1]
  OBVIOUS
<1> HIDE DEF r
<1>2. \A n \in 1..Len(q) : n = 1 \/ (n - 1 \in 1..(Len(q) - 1) /\ q[n] = r[n - 1])
  BY <1>1
<1>3. Has(r, K) => Has(q, K)
  BY <1>1 DEF Has
<1>4. Head(q) \in K => Has(q, K)
  BY <1>1 DEF Has
<1>5. Head(q) \notin K => (Has(r, K) <=> Has(q, K))
  BY <1>1, <1>2, <1>3 DEF Has
<1>6. Once(q, K) => Once(r, K)
  <2> SUFFICES ASSUME Once(q, K), NEW m \in DOMAIN r, NEW n \in DOMAIN r, r[m] \in K, r[n] \in K
               PROVE  m = n
    BY DEF Once
  <2>1. m + 1 \in DOMAIN q /\ n + 1 \in DOMAIN q /\ q[m + 1] \in K /\ q[n + 1] \in K
    BY <1>1
  <2>2. m + 1 = n + 1
    BY <2>1 DEF Once
  <2> QED
    BY <1>1, <2>2
<1>7. Once(q, K) /\ Head(q) \in K => ~Has(r, K)
  <2> SUFFICES ASSUME Once(q, K), Head(q) \in K, NEW n \in DOMAIN r, r[n] \in K
               PROVE  FALSE
    BY DEF Has
  <2>1. n + 1 \in DOMAIN q /\ 1 \in DOMAIN q /\ q[n + 1] \in K /\ q[1] \in K
    BY <1>1
  <2>2. n + 1 = 1
    BY <2>1 DEF Once
  <2> QED
    BY <1>1, <2>2
<1> QED
  BY <1>3, <1>4, <1>5, <1>6, <1>7 DEF r

\* Of the frames in F, r has those of q.
Keeps(q, r, F) ==
  \A p \in Phones : \A K \in SUBSET F :
    /\ Has(r[p], K) <=> Has(q[p], K)
    /\ Once(q[p], K) => Once(r[p], K)

LEMMA EmitKeeps ==
  ASSUME NEW q \in Links, NEW p \in Phones, NEW k \in Kinds, NEW n \in Nat, NEW F,
         [k |-> k, n |-> n] \notin F
  PROVE  Keeps(q, Emit(q, p, k, n), F)
<1>1. Other(p) \in Phones /\ [k |-> k, n |-> n] \in Frames
  BY DEF Other, Phones, Frames
<1> DEFINE f == [k |-> k, n |-> n]
           r == [q EXCEPT ![Other(p)] = Append(@, f)]
<1>2. ASSUME NEW x \in Phones, NEW K \in SUBSET F
      PROVE  (Has(r[x], K) <=> Has(q[x], K)) /\ (Once(q[x], K) => Once(r[x], K))
  <2>1. CASE x = Other(p)
    <3>1. r[x] = Append(q[x], f) /\ q[x] \in Seq(Frames) /\ f \notin K /\ f \in Frames
      BY <1>1, <2>1 DEF Links
    <3> HIDE DEF f, r
    <3> QED
      BY <3>1, AppendedFrames
  <2>2. CASE x # Other(p)
    BY <2>2 DEF Links
  <2> QED
    BY <2>1, <2>2
<1> QED
  BY <1>2 DEF Keeps, Emit

LEMMA TakeKeeps ==
  ASSUME NEW q \in Links, NEW p \in Phones, q[p] # <<>>, NEW F, Head(q[p]) \notin F
  PROVE  [q EXCEPT ![p] = Tail(@)] \in Links /\ Keeps(q, [q EXCEPT ![p] = Tail(@)], F)
<1> DEFINE r == [q EXCEPT ![p] = Tail(@)]
<1>1. q[p] \in Seq(Frames) /\ Tail(q[p]) \in Seq(Frames)
  BY DEF Links
<1>2. r[p] = Tail(q[p]) /\ \A x \in Phones \ {p} : r[x] = q[x]
  BY DEF Links
<1>3. r \in Links
  BY <1>1 DEF Links
<1> HIDE DEF r
<1>4. ASSUME NEW x \in Phones, NEW K \in SUBSET F
      PROVE  (Has(r[x], K) <=> Has(q[x], K)) /\ (Once(q[x], K) => Once(r[x], K))
  <2>1. CASE x = p
    BY <1>1, <1>2, <2>1, TakenFrames
  <2>2. CASE x # p
    BY <1>2, <2>2
  <2> QED
    BY <2>1, <2>2
<1> QED
  BY <1>3, <1>4 DEF Keeps, r

LEMMA KeepsOn ==
  ASSUME NEW q, NEW r, NEW s, NEW F, Keeps(q, r, F), Keeps(r, s, F)
  PROVE  Keeps(q, s, F)
BY DEF Keeps

\* Without a connection there is nothing to answer and no lock.
CloseRight == ~rtc["caller"].open => rtc["caller"].cur = 0 /\ ~rtc["caller"].lock

\* The phone of the callee rings once: the call has not been made, its lookups run, it rings
\* over the link, or it has rung.
RingPlaces == {"idle", "dial", "ring", "rung"}
RingAt(x) ==
  \/ x = "idle" /\ start = "idle"
  \/ x = "dial" /\ dialled
  \/ x = "ring" /\ Has(link["callee"], RingFrames)
  \/ x = "rung" /\ (session["callee"] # "none" \/ "callee" \in handled)
RingRight ==
  /\ \A x, y \in RingPlaces : RingAt(x) /\ RingAt(y) => x = y
  /\ Once(link["callee"], RingFrames)
  /\ "callee" \in handled => ~Live("callee")

OnlineRight == drops = 0 => \A p \in Phones : online[p]

\* What the steps other than the ring itself do to it.
LEMMA RingStays ==
  ASSUME RingRight, Keeps(link, link', RingFrames),
         start' = start \/ (start # "idle" /\ start' # "idle"), dialled' = dialled,
         \/ session'["callee"] = session["callee"] /\ ("callee" \in handled' <=> "callee" \in handled)
         \/ session["callee"] # "none" /\ "callee" \in handled' /\ session'["callee"] = "ended"
         \/ session["callee"] = "ended" /\ session'["callee"] = "none" /\ handled' = handled
         \/ session["callee"] = "ringing" /\ session'["callee"] = "connected" /\ handled' = handled
  PROVE  RingRight'
<1>1. /\ Has(link["callee"], RingFrames)' => Has(link["callee"], RingFrames)
      /\ Once(link["callee"], RingFrames)'
  BY DEF Keeps, Phones, RingRight
<1>2. \A x \in RingPlaces : RingAt(x)' => RingAt(x)
  BY <1>1 DEF RingPlaces, RingAt
<1>3. ("callee" \in handled => ~Live("callee"))'
  BY DEF RingRight, Live
<1> QED
  BY <1>1, <1>2, <1>3 DEF RingRight

\* The places of a negotiation.
Bears(j) == j.by = "re" \/ j.n > 0
Bearing(runs) == {j \in runs : Bears(j)}
Places == {"make", "renegotiate", "offer", "store", "handle", "answer", "apply"}
WorkAt(x) ==
  \/ x = "make" /\ start # "done"
  \/ x = "renegotiate" /\ reneg # "no"
  \/ x = "offer" /\ Has(link["callee"], OfferFrames)
  \/ x = "store" /\ sdp > 0 /\ session["callee"] = "ringing"
  \/ x = "handle" /\ Bearing(handling) # {}
  \/ x = "answer" /\ Has(link["caller"], AnswerFrames)
  \/ x = "apply" /\ Bearing(applying) # {}

OnePlace == \A x, y \in Places : WorkAt(x) /\ WorkAt(y) => x = y
OneEach ==
  /\ Once(link["callee"], OfferFrames)
  /\ Once(link["caller"], AnswerFrames)
  /\ \A i, j \in handling : i = j
  /\ \A i, j \in Bearing(applying) : i = j
  /\ \A j \in Bearing(applying) : j.at = "wake" => j.by = "accept"

\* The lock has its reason, and without a lock an answered offer leaves nothing to do.
Reason ==
  \/ reneg # "no"
  \/ Has(link["callee"], ReOfferFrames)
  \/ Has(link["caller"], ReAnswerFrames)
  \/ \E j \in handling \cup applying : j.by = "re"
LockRight ==
  /\ rtc["caller"].lock => Reason
  /\ rtc["caller"].cur > 0 /\ ~rtc["caller"].lock => \A x \in Places : ~WorkAt(x)

\* The connection of the callee fits the run that works on it.
RunFits(j, c) ==
  /\ j.at = "capture" => ~c.open /\ j.by = "accept"
  /\ j.at = "set" => c.open /\ Bears(j)
  /\ j.at = "answer" => c.open /\ c.sig = "remote" /\ Bears(j)
  /\ j.at # "wake"
CalleeRight ==
  /\ session["callee"] # "ended"
  /\ session["callee"] = "none" => sdp = 0
  /\ session["callee"] \in {"none", "ringing"} => handling = {} /\ ~rtc["callee"].open
  /\ \A j \in handling : RunFits(j, rtc["callee"])

Work == OnePlace /\ OneEach /\ LockRight /\ CalleeRight

\* Nothing has gone wrong and the callee has not left.
Smooth == ~Mishap /\ "callee" \notin handled

Good == CloseRight /\ RingRight /\ OnlineRight /\ (Smooth => Work)

\* What steps may do to either phone without moving the negotiation.
CallerStill ==
  /\ rtc'["caller"].lock => rtc["caller"].lock
  /\ rtc'["caller"].cur > 0 /\ ~rtc'["caller"].lock => rtc["caller"].cur > 0 /\ ~rtc["caller"].lock
  /\ CloseRight'
CalleeStill ==
  /\ session'["callee"] = session["callee"] /\ ("callee" \in handled' <=> "callee" \in handled)
  /\ rtc'["callee"].open = rtc["callee"].open /\ rtc'["callee"].sig = rtc["callee"].sig
CalleeLeaves ==
  \/ session["callee"] # "none" /\ session'["callee"] = "ended" /\ "callee" \in handled'
  \/ session["callee"] = "ended" /\ session'["callee"] = "none" /\ handled' = handled
MishapStays == (missed => missed') /\ (early => early') /\ drops' = drops /\ online' = online

LEMMA WorkFramesKept ==
  ASSUME NEW F, WorkFrames \subseteq F, Keeps(link, link', F)
  PROVE  /\ Has(link["callee"], OfferFrames)' <=> Has(link["callee"], OfferFrames)
         /\ Has(link["callee"], ReOfferFrames)' <=> Has(link["callee"], ReOfferFrames)
         /\ Has(link["caller"], AnswerFrames)' <=> Has(link["caller"], AnswerFrames)
         /\ Has(link["caller"], ReAnswerFrames)' <=> Has(link["caller"], ReAnswerFrames)
         /\ Once(link["callee"], OfferFrames) => Once(link["callee"], OfferFrames)'
         /\ Once(link["caller"], AnswerFrames) => Once(link["caller"], AnswerFrames)'
<1>1. /\ OfferFrames \in SUBSET F /\ ReOfferFrames \in SUBSET F
      /\ AnswerFrames \in SUBSET F /\ ReAnswerFrames \in SUBSET F
  BY DEF WorkFrames, OfferFrames, ReOfferFrames, AnswerFrames, ReAnswerFrames
<1>2. "caller" \in Phones /\ "callee" \in Phones
  BY DEF Phones
<1> QED
  BY <1>1, <1>2 DEF Keeps

LEMMA FollowedKept ==
  ASSUME NEW q, NEW r, Keeps(q, r, Followed)
  PROVE  Keeps(q, r, RingFrames) /\ Keeps(q, r, WorkFrames)
BY DEF Keeps, Followed

\* Work without the step's own move.
LEMMA WorkStays ==
  ASSUME Work, Keeps(link, link', WorkFrames), start' # "done" => start # "done",
         UNCHANGED <<reneg, sdp, handling>>, Bearing(applying') = Bearing(applying),
         CallerStill, CalleeStill
  PROVE  Work'
<1>1. WorkFrames \subseteq WorkFrames
  OBVIOUS
<1>2. \A x \in Places : WorkAt(x)' => WorkAt(x)
  BY <1>1, WorkFramesKept DEF WorkAt, CalleeStill
<1>3. OnePlace'
  BY <1>2 DEF Work, OnePlace
<1>4. OneEach'
  BY <1>1, WorkFramesKept DEF Work, OneEach
<1>5. Reason => Reason'
  <2>1. ASSUME NEW j \in applying, j.by = "re" PROVE \E k \in applying' : k.by = "re"
    BY <2>1 DEF Bearing, Bears
  <2> QED
    BY <1>1, <2>1, WorkFramesKept DEF Reason
<1>6. LockRight'
  BY <1>2, <1>5 DEF Work, LockRight, CallerStill
<1>7. CalleeRight'
  BY DEF Work, CalleeRight, CalleeStill, RunFits
<1> QED
  BY <1>3, <1>4, <1>6, <1>7 DEF Work

LEMMA RestStays ==
  ASSUME Good, RingRight', Keeps(link, link', WorkFrames), start' # "done" => start # "done",
         UNCHANGED <<reneg, sdp, handling>>, Bearing(applying') = Bearing(applying),
         MishapStays, CallerStill, CalleeStill \/ CalleeLeaves
  PROVE  Good'
<1>1. OnlineRight'
  BY DEF Good, OnlineRight, MishapStays
<1>2. ASSUME Smooth'
      PROVE  Work'
  <2>1. ~Mishap
    BY <1>2 DEF Smooth, Mishap, MishapStays
  <2>2. CASE CalleeStill
    <3>1. Smooth
      BY <1>2, <2>1, <2>2 DEF Smooth, CalleeStill
    <3> QED
      BY <2>2, <3>1, WorkStays DEF Good
  <2>3. CASE CalleeLeaves
    BY <1>2, <2>1, <2>3 DEF Good, Smooth, CalleeLeaves, Work, CalleeRight
  <2> QED
    BY <2>2, <2>3
<1> QED
  BY <1>1, <1>2 DEF Good, CallerStill

\* A step that has nothing to do with the negotiation.
LEMMA QuietStep ==
  ASSUME Good, Keeps(link, link', Followed),
         start' = start \/ (start # "idle" /\ start' # "idle"), start' # "done" => start # "done",
         UNCHANGED <<dialled, reneg, sdp, handling>>, Bearing(applying') = Bearing(applying),
         MishapStays, CallerStill, CalleeStill \/ CalleeLeaves
  PROVE  Good'
<1>1. Keeps(link, link', RingFrames) /\ Keeps(link, link', WorkFrames)
  BY FollowedKept
<1>2. RingRight'
  BY <1>1, RingStays DEF Good, CalleeStill, CalleeLeaves
<1> QED
  BY <1>1, <1>2, RestStays

\* A step that moves the negotiation from a to b, or ends it at a.
LEMMA MoveStep ==
  ASSUME Work, NEW a \in Places, NEW b \in Places, WorkAt(a),
         \A x \in Places : WorkAt(x)' => WorkAt(x) \/ x = b, a # b => ~WorkAt(a)',
         OneEach', CalleeRight', CallerStill, rtc'["caller"].lock => Reason'
  PROVE  Work'
<1>1. \A x \in Places : WorkAt(x) => x = a
  BY DEF Work, OnePlace
<1>2. OnePlace'
  BY <1>1 DEF OnePlace
<1>3. LockRight'
  BY DEF LockRight, Work, CallerStill
<1> QED
  BY <1>2, <1>3 DEF Work

LEMMA KeepsSame == ASSUME NEW q, NEW F PROVE Keeps(q, q, F)
  BY DEF Keeps

LEMMA PlainFrames ==
  ASSUME NEW k \in Kinds, NEW n \in Nat,
         k \in {"candidate", "request", "agree", "refuse", "ended"} \/ (k = "accepted" /\ n = 0)
  PROVE  [k |-> k, n |-> n] \notin Followed
  BY DEF Followed, RingFrames, WorkFrames, OfferFrames, AnswerFrames

LEMMA PlainEmit ==
  ASSUME NEW q \in Links, NEW p \in Phones, NEW k \in {"candidate", "request", "agree", "refuse", "ended"}
  PROVE  Emit(q, p, k, 0) \in Links /\ Keeps(q, Emit(q, p, k, 0), Followed)
<1>1. k \in Kinds /\ 0 \in Nat
  BY DEF Kinds
<1>2. [k |-> k, n |-> 0] \notin Followed
  BY <1>1, PlainFrames
<1> QED
  BY <1>1, <1>2, EmitKeeps, EmitTyped

\* A connection that is closed.
LEMMA CloseEffect ==
  ASSUME CallsTyped, CloseRight, NEW p \in Phones, rtc' = [rtc EXCEPT ![p] = Closed]
  PROVE  CallerStill
<1>1. Closed.cur = 0 /\ ~Closed.lock /\ Closed.open = FALSE
  BY DEF Closed
<1>2. rtc'["caller"] = IF p = "caller" THEN Closed ELSE rtc["caller"]
  BY DEF CallsTyped, Phones
<1> QED
  BY <1>1, <1>2 DEF CallerStill, CloseRight

LEMMA DismissEffect ==
  ASSUME CallsTyped, CloseRight, NEW p \in Phones, Dismiss(p), session["callee"] # "none" \/ p = "caller"
  PROVE  CallerStill /\ (CalleeStill \/ CalleeLeaves)
<1>1. /\ rtc' = [rtc EXCEPT ![p] = Closed] /\ session' = [session EXCEPT ![p] = "ended"]
      /\ handled' = handled \cup {p}
  BY DEF Dismiss
<1>2. CallerStill
  BY <1>1, CloseEffect
<1>3. CASE p = "caller"
  <2>1. session'["callee"] = session["callee"] /\ rtc'["callee"] = rtc["callee"]
    BY <1>1, <1>3 DEF CallsTyped, Phones
  <2>2. "callee" \in handled' <=> "callee" \in handled
    BY <1>1, <1>3
  <2> QED
    BY <1>2, <2>1, <2>2 DEF CalleeStill
<1>4. CASE p = "callee"
  <2>1. session["callee"] # "none" /\ session'["callee"] = "ended"
    BY <1>1, <1>4 DEF CallsTyped, Phones
  <2> QED
    BY <1>1, <1>2, <1>4, <2>1 DEF CalleeLeaves
<1> QED
  BY <1>2, <1>3, <1>4 DEF Phones

LEMMA HangUpEffect ==
  ASSUME CallsTyped, NetTyped, CloseRight, NEW p \in Phones, HangUp(p),
         session["callee"] # "none" \/ p = "caller"
  PROVE  CallerStill /\ (CalleeStill \/ CalleeLeaves) /\ Keeps(link, link', Followed)
<1>1. Dismiss(p) /\ link' = Emit(link, p, "ended", 0)
  BY DEF HangUp
<1>2. Keeps(link, link', Followed)
  BY <1>1, PlainEmit DEF NetTyped
<1> QED
  BY <1>1, <1>2, DismissEffect

LEMMA RejectedEffect ==
  ASSUME CallsTyped, NetTyped, CloseRight, NEW j, Rejected(j)
  PROVE  CallerStill /\ (CalleeStill \/ CalleeLeaves) /\ Keeps(link, link', Followed)
<1>1. CASE session["callee"] # "none" /\ HangUp("callee")
  BY <1>1, HangUpEffect DEF Phones
<1>2. CASE UNCHANGED <<session, handled, rtc, link>>
  BY <1>2, KeepsSame DEF CallerStill, CalleeStill, CloseRight
<1> QED
  BY <1>1, <1>2 DEF Rejected

\* A phone's connection gets a new camera, or nothing.
LEMMA MediaEffect ==
  ASSUME CallsTyped, CloseRight, NEW p \in Phones, NEW media \in Connections,
         media.lock = rtc[p].lock, media.cur = rtc[p].cur, media.open = rtc[p].open,
         media.sig = rtc[p].sig, rtc' = [rtc EXCEPT ![p] = media],
         UNCHANGED <<session, handled>>
  PROVE  CallerStill /\ CalleeStill
<1>1. /\ rtc'["caller"] = IF p = "caller" THEN media ELSE rtc["caller"]
      /\ rtc'["callee"] = IF p = "callee" THEN media ELSE rtc["callee"]
  BY DEF CallsTyped, Phones
<1> QED
  BY <1>1 DEF CallerStill, CalleeStill, CloseRight

\* The lock is taken when no negotiation is under way: otherwise the caller's connection would
\* have no answered offer yet, and the video offer would come too early.
LEMMA RenegotiateKeepsGood ==
  ASSUME Inv, Good, NEW p \in Phones, NEW why \in {"tap", "agreed"}, NEW media \in Connections,
         media.lock = rtc[p].lock, media.cur = rtc[p].cur, media.open = rtc[p].open,
         media.sig = rtc[p].sig, NEW q \in Links, Keeps(link, q, Followed),
         Renegotiate(p, why, media, q),
         UNCHANGED <<session, handled, sdp, start, handling, applying, dialled, online, drops, missed>>
  PROVE  Good'
<1> DEFINE go == p = "caller" /\ media.open /\ ~media.lock
<1>0. CallsTyped /\ CloseRight
  BY DEF Inv, Good
<1>1. /\ rtc' = [rtc EXCEPT ![p] = IF go THEN [media EXCEPT !.lock = TRUE] ELSE media]
      /\ reneg' = IF go THEN why ELSE reneg
      /\ early' = (early \/ (go /\ media.cur = 0))
      /\ link' = Emit(q, p, "agree", 0) \/ link' = q
  BY DEF Renegotiate
<1>2. Keeps(link, link', Followed)
  BY <1>1, PlainEmit, KeepsOn
<1>3. CASE ~go
  <2>1. CallerStill /\ CalleeStill
    BY <1>0, <1>1, <1>3, MediaEffect
  <2>2. MishapStays
    BY <1>1 DEF MishapStays
  <2>3. reneg' = reneg
    BY <1>1, <1>3
  <2> QED
    BY <1>2, <2>1, <2>2, <2>3, QuietStep
<1>4. CASE go
  <2>1. /\ rtc'["caller"].lock /\ rtc'["caller"].open /\ rtc'["callee"] = rtc["callee"]
        /\ rtc["caller"].open /\ ~rtc["caller"].lock
    BY <1>0, <1>1, <1>4 DEF CallsTyped, Connections, Phones
  <2>2. RingRight'
    <3>1. Keeps(link, link', RingFrames)
      BY <1>2, FollowedKept
    <3> QED
      BY <3>1, RingStays DEF Good
  <2>3. CloseRight' /\ OnlineRight'
    BY <2>1 DEF CloseRight, OnlineRight, Good
  <2>4. ASSUME Smooth'
        PROVE  Work'
    <3>1. Smooth /\ rtc["caller"].cur # 0
      BY <1>1, <1>4, <2>4 DEF Smooth, Mishap
    <3>2. Work /\ rtc["caller"].cur \in Nat
      BY <1>0, <3>1 DEF Good, CallsTyped, Connections, Phones
    <3>3. \A x \in Places : ~WorkAt(x)
      BY <2>1, <3>1, <3>2 DEF Work, LockRight
    <3>4. Keeps(link, link', WorkFrames)
      BY <1>2, FollowedKept
    <3>5. \A x \in Places : WorkAt(x)' => x = "renegotiate"
      BY <3>3, <3>4, WorkFramesKept DEF WorkAt, Places
    <3>6. OnePlace' /\ OneEach'
      BY <3>2, <3>4, <3>5, WorkFramesKept DEF OnePlace, OneEach, Work
    <3>7. LockRight'
      BY <1>1, <1>4, <2>1 DEF LockRight, Reason
    <3>8. CalleeRight'
      BY <2>1, <3>2 DEF Work, CalleeRight, RunFits
    <3> QED
      BY <3>6, <3>7, <3>8 DEF Work
  <2> QED
    BY <2>2, <2>3, <2>4 DEF Good
<1> QED
  BY <1>3, <1>4

LEMMA UpgradeKeepsGood ==
  ASSUME Inv, Good, NEW p \in Phones, NEW why \in {"tap", "agreed"},
         NEW q \in Links, Keeps(link, q, Followed), Upgrade(p, why, q),
         UNCHANGED <<session, handled, sdp, start, handling, applying, dialled, online, drops, missed>>
  PROVE  Good'
<1>0. rtc[p] \in Connections
  BY DEF Inv, CallsTyped
<1>1. CASE rtc[p].camera
  BY <1>0, <1>1, RenegotiateKeepsGood DEF Upgrade
<1>2. CASE ~rtc[p].camera
  <2>1. link' = q /\ UNCHANGED <<rtc, reneg, early>>
    BY <1>2 DEF Upgrade
  <2>2. CallerStill /\ CalleeStill /\ MishapStays
    BY <2>1 DEF CallerStill, CalleeStill, MishapStays, CloseRight, Good
  <2> QED
    BY <2>1, <2>2, QuietStep
<1> QED
  BY <1>1, <1>2

-----------------------------------------------------------------------------
(* The steps and the lock.                                                 *)

LEMMA CallerSends ==
  ASSUME NEW q \in Links, NEW k \in Kinds, NEW n \in Nat, NEW r, r = Emit(q, "caller", k, n)
  PROVE  /\ r \in Links /\ r["caller"] = q["caller"]
         /\ \A K : /\ Has(r["callee"], K) => Has(q["callee"], K) \/ [k |-> k, n |-> n] \in K
                   /\ Has(q["callee"], K) => Has(r["callee"], K)
                   /\ Once(q["callee"], K) /\ ([k |-> k, n |-> n] \in K => ~Has(q["callee"], K))
                        => Once(r["callee"], K)
                   /\ (\A p \in Phones : online[p]) /\ [k |-> k, n |-> n] \in K => Has(r["callee"], K)
<1> DEFINE f == [k |-> k, n |-> n]
<1>1. Other("caller") = "callee" /\ Phones = {"caller", "callee"} /\ f \in Frames
  BY DEF Other, Phones, Frames
<1>2. q["callee"] \in Seq(Frames) /\ r \in Links
  BY <1>1, EmitTyped DEF Links
<1>3. /\ r["caller"] = q["caller"]
      /\ r["callee"] = q["callee"] \/ r["callee"] = Append(q["callee"], f)
      /\ (\A p \in Phones : online[p]) => r["callee"] = Append(q["callee"], f)
  BY <1>1 DEF Emit, Links
<1> HIDE DEF f
<1>4. \A K : /\ Has(Append(q["callee"], f), K) <=> Has(q["callee"], K) \/ f \in K
             /\ Once(q["callee"], K) /\ (f \in K => ~Has(q["callee"], K))
                  => Once(Append(q["callee"], f), K)
  BY <1>1, <1>2, AppendedFrames
<1>5. \A K : /\ Has(r["callee"], K) => Has(q["callee"], K) \/ f \in K
             /\ Has(q["callee"], K) => Has(r["callee"], K)
             /\ Once(q["callee"], K) /\ (f \in K => ~Has(q["callee"], K)) => Once(r["callee"], K)
             /\ (\A p \in Phones : online[p]) /\ f \in K => Has(r["callee"], K)
  BY <1>3, <1>4
<1> QED
  BY <1>2, <1>3, <1>5 DEF f

LEMMA StartGood ==
  ASSUME Inv, Good, StartCall \/ Ring \/ StartCaptured \/ StartFails
  PROVE  Good'
<1> USE DEF callVars, jobVars, netVars, countVars
<1>0. /\ CallsTyped /\ NetTyped /\ CloseRight /\ RingRight /\ link \in Links
      /\ Phones = {"caller", "callee"}
  BY DEF Inv, Good, NetTyped, Phones
<1>1. CASE StartCall
  <2>1. /\ start = "idle" /\ start' = "capture" /\ session'["callee"] = session["callee"]
        /\ UNCHANGED <<handled, rtc, link, sdp, handling, applying, reneg, online, drops, missed, early>>
    BY <1>0, <1>1 DEF StartCall, CallsTyped
  <2>2. RingRight'
    <3>1. \A x \in RingPlaces : RingAt(x) => x = "idle"
      BY <1>0, <2>1 DEF RingRight, RingPlaces, RingAt
    <3>2. \A x \in RingPlaces : RingAt(x)' => x = "dial"
      BY <2>1, <3>1 DEF RingPlaces, RingAt
    <3> QED
      BY <1>0, <2>1, <3>2 DEF RingRight, Live
  <2>3. CallerStill /\ CalleeStill /\ MishapStays /\ Keeps(link, link', WorkFrames)
    BY <1>0, <2>1, KeepsSame DEF CallerStill, CalleeStill, MishapStays, CloseRight
  <2> QED
    BY <2>1, <2>2, <2>3, RestStays
<1>2. CASE Ring
  <2>1. /\ dialled /\ ~dialled'
        /\ UNCHANGED <<session, handled, rtc, start, sdp, handling, applying, reneg, online, drops,
                       missed, early>>
    BY <1>2 DEF Ring
  <2>2. CallerStill /\ CalleeStill /\ MishapStays
    BY <1>0, <2>1 DEF CallerStill, CalleeStill, MishapStays, CloseRight
  <2>3. RingRight' /\ Keeps(link, link', WorkFrames)
    <3>1. \A x \in RingPlaces : RingAt(x) => x = "dial"
      BY <1>0, <2>1 DEF RingRight, RingPlaces, RingAt
    <3>2. ~Has(link["callee"], RingFrames)
      BY <3>1 DEF RingPlaces, RingAt
    <3>3. /\ Once(link'["callee"], RingFrames)
          /\ Keeps(link, link', WorkFrames)
      <4>1. CASE link' = Emit(link, "caller", "incoming", 0)
        <5>1. [k |-> "incoming", n |-> 0] \notin WorkFrames /\ "incoming" \in Kinds
          BY DEF WorkFrames, OfferFrames, AnswerFrames, Kinds
        <5>2. Keeps(link, link', WorkFrames)
          BY <1>0, <4>1, <5>1, EmitKeeps
        <5> QED
          BY <1>0, <3>2, <4>1, <5>1, <5>2, CallerSends DEF RingRight
      <4>2. CASE link' = Emit(link, "callee", "ended", 0)
        <5>1. Keeps(link, link', Followed)
          BY <1>0, <4>2, PlainEmit
        <5>2. Keeps(link, link', RingFrames) /\ Keeps(link, link', WorkFrames)
          BY <5>1, FollowedKept
        <5> QED
          BY <1>0, <5>2 DEF RingRight, Keeps
      <4>3. CASE link' = link
        BY <1>0, <4>3, KeepsSame DEF RingRight
      <4> QED
        BY <1>2, <4>1, <4>2, <4>3 DEF Ring
    <3>4. \A x \in RingPlaces : RingAt(x)' => x = "ring"
      BY <2>1, <3>1 DEF RingPlaces, RingAt
    <3> QED
      BY <1>0, <2>1, <3>3, <3>4 DEF RingRight, Live
  <2> QED
    BY <2>1, <2>2, <2>3, RestStays
<1>3. CASE StartCaptured
  <2> DEFINE c == Opened([Closed EXCEPT !.mic = TRUE])
  <2>1. c.open /\ ~c.lock /\ c.cur = 0
    BY DEF Opened, Closed
  <2>2. /\ rtc'["caller"] = c /\ rtc'["callee"] = rtc["callee"]
        /\ start = "capture" /\ start' = "offer"
        /\ UNCHANGED <<session, handled, link, sdp, handling, applying, reneg, dialled, online, drops,
                       missed, early>>
    BY <1>0, <1>3 DEF StartCaptured, CallsTyped
  <2> HIDE DEF c
  <2>3. CallerStill /\ CalleeStill /\ MishapStays /\ Keeps(link, link', Followed)
    BY <2>1, <2>2, KeepsSame DEF CallerStill, CalleeStill, MishapStays, CloseRight
  <2> QED
    BY <2>2, <2>3, QuietStep
<1>4. CASE StartFails
  <2>1. /\ start = "capture" /\ start' = "done"
        /\ UNCHANGED <<sdp, handling, applying, reneg, dialled, online, drops, missed, early>>
        /\ HangUp("caller") \/ UNCHANGED <<session, handled, rtc, link>>
    BY <1>4 DEF StartFails
  <2>2. CASE HangUp("caller")
    <3>1. CallerStill /\ (CalleeStill \/ CalleeLeaves) /\ Keeps(link, link', Followed)
      BY <1>0, <2>2, HangUpEffect
    <3> QED
      BY <2>1, <3>1, QuietStep DEF MishapStays
  <2>3. CASE UNCHANGED <<session, handled, rtc, link>>
    <3>1. CallerStill /\ CalleeStill /\ Keeps(link, link', Followed)
      BY <1>0, <2>3, KeepsSame DEF CallerStill, CalleeStill, CloseRight
    <3> QED
      BY <2>1, <3>1, QuietStep DEF MishapStays
  <2> QED
    BY <2>1, <2>2, <2>3
<1> QED
  BY <1>1, <1>2, <1>3, <1>4

\* An offer goes out: the first one, or that of a renegotiation.
LEMMA OfferGoesOut ==
  ASSUME Inv, Good, NEW k \in {"offer", "reOffer"}, NEW n \in Nat, NEW q,
         q = Emit(link, "caller", k, n), Keeps(q, link', Followed),
         NEW a \in {"make", "renegotiate"}, WorkAt(a), ~WorkAt(a)',
         start' = start \/ (start # "idle" /\ start' # "idle"), start' # "done" => start # "done",
         (k = "reOffer" /\ reneg' = "no") \/ reneg' = reneg,
         UNCHANGED <<session, handled, dialled, sdp, handling, applying>>,
         MishapStays, CallerStill, rtc'["callee"] = rtc["callee"]
  PROVE  Good'
<1>0. /\ CallsTyped /\ NetTyped /\ RingRight /\ link \in Links /\ k \in Kinds
      /\ Phones = {"caller", "callee"}
  BY DEF Inv, Good, NetTyped, Kinds, Phones
<1> DEFINE f == [k |-> k, n |-> n]
<1>1. /\ f \in OfferFrames /\ f \notin AnswerFrames /\ f \notin RingFrames /\ f \notin ReAnswerFrames
      /\ k = "reOffer" => f \in ReOfferFrames
  BY <1>0 DEF OfferFrames, AnswerFrames, RingFrames, ReAnswerFrames, ReOfferFrames, Frames
<1> HIDE DEF f
<1>2. /\ Keeps(link, q, RingFrames) /\ q \in Links
      /\ Keeps(q, link', RingFrames) /\ Keeps(q, link', WorkFrames)
  <2>1. Keeps(link, q, RingFrames)
    BY <1>0, <1>1, EmitKeeps DEF f
  <2> QED
    BY <1>0, <2>1, FollowedKept, EmitTyped
<1>3. RingRight'
  <2>1. Keeps(link, link', RingFrames)
    BY <1>2, KeepsOn
  <2> QED
    BY <1>0, <2>1, RingStays
<1>4. CloseRight' /\ OnlineRight'
  BY DEF Good, OnlineRight, MishapStays, CallerStill
<1>5. ASSUME Smooth'
      PROVE  Work'
  <2>1. Work /\ \A p \in Phones : online[p]
    <3>1. Smooth /\ drops = 0
      BY <1>0, <1>5 DEF Smooth, Mishap, MishapStays, NetTyped
    <3> QED
      BY <3>1 DEF Good, OnlineRight
  <2>2. \A x \in Places : WorkAt(x) => x = a
    BY <2>1 DEF Work, OnePlace, Places
  <2>3. ~Has(link["callee"], OfferFrames)
    BY <2>2 DEF WorkAt, Places
  <2>4. /\ Once(q["callee"], OfferFrames) /\ q["caller"] = link["caller"]
        /\ Has(q["callee"], ReOfferFrames) <=> Has(link["callee"], ReOfferFrames) \/ f \in ReOfferFrames
    BY <1>0, <1>1, <2>1, <2>3, CallerSends DEF Work, OneEach, f
  <2>5. /\ OfferFrames \in SUBSET WorkFrames /\ ReOfferFrames \in SUBSET WorkFrames
        /\ AnswerFrames \in SUBSET WorkFrames /\ ReAnswerFrames \in SUBSET WorkFrames
    BY DEF WorkFrames, OfferFrames, ReOfferFrames, AnswerFrames, ReAnswerFrames
  <2>6. /\ Once(link["callee"], OfferFrames)' /\ Once(link["caller"], AnswerFrames)'
        /\ Has(link["callee"], ReOfferFrames)'
              <=> Has(link["callee"], ReOfferFrames) \/ f \in ReOfferFrames
        /\ Has(link["caller"], AnswerFrames)' <=> Has(link["caller"], AnswerFrames)
        /\ Has(link["caller"], ReAnswerFrames)' <=> Has(link["caller"], ReAnswerFrames)
    BY <1>0, <1>2, <2>1, <2>4, <2>5 DEF Keeps, Work, OneEach
  <2>7. OneEach'
    BY <2>1, <2>6 DEF OneEach, Work
  <2>8. CalleeRight'
    BY <2>1 DEF Work, CalleeRight
  <2>9. rtc'["caller"].lock => Reason'
    BY <1>1, <2>1, <2>6 DEF CallerStill, Work, LockRight, Reason
  <2>10. \A x \in Places : WorkAt(x)' => WorkAt(x) \/ x = "offer"
    BY <2>6 DEF WorkAt
  <2>11. a # "offer" /\ a \in Places /\ "offer" \in Places
    BY DEF Places
  <2> QED
    BY <2>1, <2>7, <2>8, <2>9, <2>10, <2>11, MoveStep
<1> QED
  BY <1>3, <1>4, <1>5 DEF Good

LEMMA StartOfferedGood ==
  ASSUME Inv, Good, StartOffered
  PROVE  Good'
<1> USE DEF callVars, jobVars, netVars, countVars
<1>0. /\ CallsTyped /\ NetTyped /\ CloseRight /\ link \in Links /\ offers + 1 \in Nat
      /\ Phones = {"caller", "callee"} /\ rtc["caller"] \in Connections
  BY DEF Inv, Good, NetTyped, CallsTyped, Phones
<1>1. /\ start = "offer" /\ start' = "done"
      /\ UNCHANGED <<sdp, handling, applying, reneg, dialled, online, drops, missed, early>>
      /\ MishapStays
  BY DEF StartOffered, MishapStays
<1>2. CASE HangUp("caller")
  <2>1. CallerStill /\ (CalleeStill \/ CalleeLeaves) /\ Keeps(link, link', Followed)
    BY <1>0, <1>2, HangUpEffect
  <2> QED
    BY <1>1, <2>1, QuietStep
<1>3. CASE UNCHANGED <<session, handled, rtc, link>>
  <2>1. CallerStill /\ CalleeStill /\ Keeps(link, link', Followed)
    BY <1>0, <1>3, KeepsSame DEF CallerStill, CalleeStill, CloseRight
  <2> QED
    BY <1>1, <2>1, QuietStep
<1>4. CASE rtc' = [rtc EXCEPT !["caller"] = Closed] /\ UNCHANGED <<session, handled, link>>
  <2>1. CallerStill
    BY <1>0, <1>4, CloseEffect
  <2>2. CalleeStill /\ Keeps(link, link', Followed)
    BY <1>0, <1>4, KeepsSame DEF CalleeStill, CallsTyped
  <2> QED
    BY <1>1, <2>1, <2>2, QuietStep
<1>5. CASE /\ rtc["caller"].open /\ UNCHANGED <<session, handled>>
           /\ rtc' = [rtc EXCEPT !["caller"].sig = "local", !["caller"].pend = offers + 1]
           /\ link' = Emit(link, "caller", "offer", offers + 1)
  <2>1. /\ rtc'["caller"].open /\ rtc'["caller"].lock = rtc["caller"].lock
        /\ rtc'["caller"].cur = rtc["caller"].cur /\ rtc'["callee"] = rtc["callee"]
    BY <1>0, <1>5 DEF CallsTyped, Connections
  <2>2. CallerStill
    BY <1>0, <1>5, <2>1 DEF CallerStill, CloseRight
  <2>3. WorkAt("make") /\ ~WorkAt("make")'
    BY <1>1 DEF WorkAt
  <2>4. Keeps(link', link', Followed)
    BY KeepsSame
  <2> QED
    BY <1>0, <1>1, <1>5, <2>1, <2>2, <2>3, <2>4, OfferGoesOut
<1> QED
  BY <1>2, <1>3, <1>4, <1>5 DEF StartOffered

LEMMA RenegotiatedGood ==
  ASSUME Inv, Good, Renegotiated
  PROVE  Good'
<1> USE DEF callVars, jobVars, netVars, countVars
<1> DEFINE r == rtc["caller"]
           q == IF r.open THEN Emit(link, "caller", "reOffer", offers + 1) ELSE link
<1>0. /\ CallsTyped /\ NetTyped /\ CloseRight /\ link \in Links /\ offers + 1 \in Nat
      /\ Phones = {"caller", "callee"} /\ r \in Connections
  BY DEF Inv, Good, NetTyped, CallsTyped, Phones
<1>1. /\ reneg # "no" /\ reneg' = "no"
      /\ UNCHANGED <<session, handled, sdp, start, handling, applying, dialled, online, drops, missed,
                     early>>
      /\ rtc' = [rtc EXCEPT !["caller"] =
                   IF r.open THEN [r EXCEPT !.sig = "local", !.pend = offers + 1, !.set = FALSE]
                   ELSE [r EXCEPT !.lock = FALSE]]
      /\ link' = q \/ link' = Emit(q, "caller", "agree", 0)
  BY DEF Renegotiated
<1>2. MishapStays /\ WorkAt("renegotiate") /\ ~WorkAt("renegotiate")'
  BY <1>1 DEF MishapStays, WorkAt
<1>3. q \in Links /\ Keeps(q, link', Followed)
  <2>1. q \in Links
    BY <1>0, EmitTyped DEF Kinds
  <2> HIDE DEF q
  <2> QED
    BY <1>0, <1>1, <2>1, PlainEmit, KeepsSame
<1>4. rtc'["callee"] = rtc["callee"] /\ CallerStill /\ (r.open \/ ~rtc'["caller"].lock)
  BY <1>0, <1>1 DEF CallerStill, CloseRight, CallsTyped, Connections
<1>5. CASE r.open
  BY <1>0, <1>1, <1>2, <1>3, <1>4, <1>5, OfferGoesOut
<1>6. CASE ~r.open
  <2>1. Keeps(link, link', Followed)
    BY <1>3, <1>6
  <2>2. Keeps(link, link', RingFrames) /\ Keeps(link, link', WorkFrames)
    BY <2>1, FollowedKept
  <2>3. RingRight' /\ CloseRight' /\ OnlineRight'
    BY <1>1, <1>4, <2>2, RingStays DEF Good, OnlineRight, CallerStill
  <2>4. ASSUME Smooth'
        PROVE  Work'
    <3>1. Work
      BY <1>1, <2>4 DEF Good, Smooth, Mishap
    <3>2. \A x \in Places : WorkAt(x)' => WorkAt(x)
      BY <1>1, <2>2, WorkFramesKept DEF WorkAt
    <3>3. OneEach' /\ CalleeRight'
      BY <1>1, <1>4, <2>2, <3>1, WorkFramesKept DEF OneEach, CalleeRight, Work
    <3>4. "renegotiate" \in Places
      BY DEF Places
    <3> QED
      BY <1>2, <1>4, <1>6, <3>1, <3>2, <3>3, <3>4, MoveStep
  <2> QED
    BY <2>3, <2>4 DEF Good
<1> QED
  BY <1>5, <1>6

LEMMA StillStep ==
  ASSUME Work, \A x \in Places : WorkAt(x)' => WorkAt(x),
         OneEach', CalleeRight', CallerStill, rtc'["caller"].lock => Reason'
  PROVE  Work'
<1>1. OnePlace' /\ LockRight'
  BY DEF OnePlace, LockRight, Work, CallerStill
<1> QED
  BY <1>1 DEF Work

LEMMA CalleeSends ==
  ASSUME NEW q \in Links, NEW k \in Kinds, NEW n \in Nat, NEW r, r = Emit(q, "callee", k, n)
  PROVE  /\ r \in Links /\ r["callee"] = q["callee"]
         /\ \A K : /\ Has(r["caller"], K) => Has(q["caller"], K) \/ [k |-> k, n |-> n] \in K
                   /\ Has(q["caller"], K) => Has(r["caller"], K)
                   /\ Once(q["caller"], K) /\ ([k |-> k, n |-> n] \in K => ~Has(q["caller"], K))
                        => Once(r["caller"], K)
                   /\ (\A p \in Phones : online[p]) /\ [k |-> k, n |-> n] \in K => Has(r["caller"], K)
<1> DEFINE f == [k |-> k, n |-> n]
<1>1. Other("callee") = "caller" /\ Phones = {"caller", "callee"} /\ f \in Frames
  BY DEF Other, Phones, Frames
<1>2. q["caller"] \in Seq(Frames) /\ r \in Links
  BY <1>1, EmitTyped DEF Links
<1>3. /\ r["callee"] = q["callee"]
      /\ r["caller"] = q["caller"] \/ r["caller"] = Append(q["caller"], f)
      /\ (\A p \in Phones : online[p]) => r["caller"] = Append(q["caller"], f)
  BY <1>1 DEF Emit, Links
<1> HIDE DEF f
<1>4. \A K : /\ Has(Append(q["caller"], f), K) <=> Has(q["caller"], K) \/ f \in K
             /\ Once(q["caller"], K) /\ (f \in K => ~Has(q["caller"], K))
                  => Once(Append(q["caller"], f), K)
  BY <1>1, <1>2, AppendedFrames
<1>5. \A K : /\ Has(r["caller"], K) => Has(q["caller"], K) \/ f \in K
             /\ Has(q["caller"], K) => Has(r["caller"], K)
             /\ Once(q["caller"], K) /\ (f \in K => ~Has(q["caller"], K)) => Once(r["caller"], K)
             /\ (\A p \in Phones : online[p]) /\ f \in K => Has(r["caller"], K)
  BY <1>3, <1>4
<1> QED
  BY <1>2, <1>3, <1>5 DEF f

\* The end of a call, and the callee's acceptance.
LEMMA EndGood ==
  ASSUME Inv, Good, NEW p \in Phones, EndCall(p) \/ Reset(p)
  PROVE  Good'
<1> USE DEF callVars, jobVars, netVars, countVars
<1>0. CallsTyped /\ NetTyped /\ CloseRight /\ Phones = {"caller", "callee"}
  BY DEF Inv, Good, Phones
<1>1. /\ UNCHANGED <<start, sdp, handling, applying, reneg, dialled, online, drops, missed, early>>
      /\ MishapStays
  BY DEF EndCall, Reset, MishapStays
<1>2. CASE EndCall(p)
  <2>1. HangUp(p) /\ (session["callee"] # "none" \/ p = "caller")
    BY <1>0, <1>2 DEF EndCall, Live
  <2>2. CallerStill /\ (CalleeStill \/ CalleeLeaves) /\ Keeps(link, link', Followed)
    BY <1>0, <2>1, HangUpEffect
  <2> QED
    BY <1>1, <2>2, QuietStep
<1>3. CASE Reset(p)
  <2>1. /\ session[p] = "ended" /\ session' = [session EXCEPT ![p] = "none"]
        /\ UNCHANGED <<handled, rtc, link>>
    BY <1>3 DEF Reset
  <2>2. CallerStill /\ Keeps(link, link', Followed)
    BY <1>0, <2>1, KeepsSame DEF CallerStill, CloseRight
  <2>3. CASE p = "caller"
    <3>1. session'["callee"] = session["callee"]
      BY <1>0, <2>1, <2>3 DEF CallsTyped
    <3>2. CalleeStill
      BY <2>1, <3>1 DEF CalleeStill
    <3> QED
      BY <1>1, <2>2, <3>2, QuietStep
  <2>4. CASE p = "callee"
    <3>1. session["callee"] = "ended" /\ session'["callee"] = "none"
      BY <1>0, <2>1, <2>4 DEF CallsTyped
    <3>2. CalleeLeaves
      BY <2>1, <3>1 DEF CalleeLeaves
    <3> QED
      BY <1>1, <2>2, <3>2, QuietStep
  <2> QED
    BY <1>0, <2>3, <2>4
<1> QED
  BY <1>2, <1>3

LEMMA AcceptCallGood ==
  ASSUME Inv, Good, AcceptCall
  PROVE  Good'
<1> USE DEF callVars, jobVars, netVars, countVars
<1> DEFINE j == [by |-> "accept", n |-> sdp, at |-> "capture"]
<1>0. CallsTyped /\ CloseRight /\ Phones = {"caller", "callee"} /\ sdp \in Nat
  BY DEF Inv, Good, Phones, CallsTyped
<1>1. /\ session["callee"] = "ringing" /\ session'["callee"] = "connected"
      /\ handling' = handling \cup {j}
      /\ UNCHANGED <<handled, sdp, rtc, start, applying, reneg, dialled, online, drops, link, missed, early>>
  BY <1>0 DEF AcceptCall, CallsTyped
<1>2. j.by = "accept" /\ j.n = sdp /\ j.at = "capture"
  OBVIOUS
<1> HIDE DEF j
<1>3. RingRight' /\ CloseRight' /\ OnlineRight' /\ CallerStill
  <2>1. Keeps(link, link', RingFrames)
    BY <1>1, KeepsSame
  <2>2. RingRight'
    BY <1>1, <2>1, RingStays DEF Good
  <2> QED
    BY <1>0, <1>1, <2>2 DEF Good, CloseRight, OnlineRight, CallerStill
<1>4. ASSUME Smooth'
      PROVE  Work'
  <2>1. Work /\ handling = {} /\ ~rtc["callee"].open
    BY <1>1, <1>4 DEF Good, Smooth, Mishap, Work, CalleeRight
  <2>2. handling' = {j} /\ (Bears(j) <=> sdp > 0)
    BY <1>1, <1>2, <2>1 DEF Bears
  <2>3. CalleeRight'
    BY <1>1, <1>2, <2>1, <2>2 DEF CalleeRight, RunFits
  <2>4. OneEach'
    BY <1>1, <2>1, <2>2 DEF OneEach, Work
  <2>5. rtc'["caller"].lock => Reason'
    BY <1>1, <2>1, <2>2 DEF Work, LockRight, Reason
  <2>6. "store" \in Places /\ "handle" \in Places
    BY DEF Places
  <2>7. \A x \in Places : WorkAt(x)' => WorkAt(x) \/ (x = "handle" /\ sdp > 0)
    BY <1>1, <2>2 DEF WorkAt, Bearing
  <2>8. sdp > 0 => WorkAt("store") /\ ~WorkAt("store")'
    BY <1>1 DEF WorkAt
  <2> QED
    BY <1>3, <2>1, <2>3, <2>4, <2>5, <2>6, <2>7, <2>8, MoveStep, StillStep
<1> QED
  BY <1>3, <1>4 DEF Good

\* A run fails, and the callee leaves the call; under a smooth negotiation none fails.
LEMMA RejectedGood ==
  ASSUME Inv, Good, NEW j \in handling, Rejected(j), handling' = handling \ {j},
         UNCHANGED <<sdp, start, applying, reneg, dialled, online, drops, missed, early>>,
         \/ j.at = "capture"
         \/ j.at = "set" /\ ~rtc["callee"].open
         \/ j.at = "answer" /\ ~(rtc["callee"].open /\ rtc["callee"].sig = "remote")
  PROVE  Good'
<1>1. CallsTyped /\ NetTyped /\ CloseRight
  BY DEF Inv, Good
<1>2. CallerStill /\ (CalleeStill \/ CalleeLeaves) /\ Keeps(link, link', Followed)
  BY <1>1, RejectedEffect
<1>3. Keeps(link, link', RingFrames)
  BY <1>2, FollowedKept
<1>4. RingRight' /\ CloseRight' /\ OnlineRight'
  BY <1>2, <1>3, RingStays DEF Good, OnlineRight, CallerStill, CalleeStill, CalleeLeaves
<1>5. ASSUME Smooth'
      PROVE  FALSE
  <2>1. ~Mishap /\ "callee" \notin handled'
    BY <1>5 DEF Smooth, Mishap
  <2>2. "callee" \notin handled
    BY <1>2, <2>1 DEF CalleeStill, CalleeLeaves
  <2>3. Work
    BY <2>1, <2>2 DEF Good, Smooth
  <2>4. session["callee"] # "none" /\ RunFits(j, rtc["callee"])
    BY <2>3 DEF Work, CalleeRight
  <2>5. j.at = "capture" /\ j.by = "accept"
    BY <2>4 DEF RunFits
  <2>6. HangUp("callee")
    BY <2>4, <2>5 DEF Rejected
  <2> QED
    BY <2>1, <2>6 DEF HangUp, Dismiss
<1> QED
  BY <1>4, <1>5 DEF Good
\* A run of the callee stops, or goes on to its next step with the same offer.
LEMMA HandlingStep ==
  ASSUME Inv, Good, NEW j \in handling, NEW R, handling' = (handling \ {j}) \cup R,
         \A k \in R : (Bears(k) => Bears(j)) /\ k.by = j.by,
         \A k, i \in R : k = i,
         j.by = "re" => R # {},
         Keeps(link, link', Followed), rtc'["caller"] = rtc["caller"], MishapStays,
         UNCHANGED <<session, handled, start, dialled, reneg, sdp, applying>>,
         Smooth /\ Work /\ handling = {j} => CalleeRight'
  PROVE  Good'
<1>1. Keeps(link, link', RingFrames) /\ Keeps(link, link', WorkFrames)
  BY FollowedKept
<1>2. RingRight' /\ CloseRight' /\ OnlineRight' /\ CallerStill
  BY <1>1, RingStays DEF Good, CloseRight, OnlineRight, MishapStays, CallerStill
<1>3. ASSUME Smooth'
      PROVE  Work'
  <2>1. Smooth /\ Work
    BY <1>3 DEF Good, Smooth, Mishap, MishapStays
  <2>2. handling = {j} /\ handling' = R
    BY <2>1 DEF Work, OneEach
  <2>3. OneEach' /\ CalleeRight'
    BY <1>1, <2>1, <2>2, WorkFramesKept DEF Work, OneEach
  <2>4. WorkAt("handle")' => WorkAt("handle")
    BY <2>2 DEF WorkAt, Bearing
  <2>5. \A x \in Places : WorkAt(x)' => WorkAt(x)
    BY <1>1, <2>4, WorkFramesKept DEF WorkAt
  <2>6. Reason => Reason'
    BY <1>1, <2>2, WorkFramesKept DEF Reason
  <2> QED
    BY <1>2, <2>1, <2>3, <2>5, <2>6, StillStep DEF Work, LockRight
<1> QED
  BY <1>2, <1>3 DEF Good

LEMMA AcceptCapturedGood ==
  ASSUME Inv, Good, NEW j \in handling, AcceptCaptured(j)
  PROVE  Good'
<1> USE DEF callVars, netVars, countVars
<1> DEFINE on == [rtc["callee"] EXCEPT !.mic = TRUE, !.camera = FALSE]
           gone == session["callee"] = "none"
           c == IF gone THEN on ELSE Opened(on)
           R == IF gone \/ j.n = 0 THEN {} ELSE {[j EXCEPT !.at = "set"]}
<1>0. /\ CallsTyped /\ NetTyped /\ link \in Links /\ Phones = {"caller", "callee"} /\ j \in Runs
  BY DEF Inv, NetTyped, RunsTyped, Phones
<1>1. /\ j.at = "capture" /\ handling' = (handling \ {j}) \cup R
      /\ rtc' = [rtc EXCEPT !["callee"] = c]
      /\ link' = Emit(link, "callee", "accepted", 0) \/ link' = link
      /\ UNCHANGED <<session, handled, sdp, start, applying, reneg, dialled>> /\ MishapStays
  BY DEF AcceptCaptured, MishapStays
<1>2. Keeps(link, link', Followed)
  <2>1. "callee" \in Phones /\ "accepted" \in Kinds /\ [k |-> "accepted", n |-> 0] \notin Followed
    BY PlainFrames DEF Phones, Kinds
  <2> QED
    BY <1>0, <1>1, <2>1, EmitKeeps, KeepsSame
<1>3. /\ \A k \in R : (Bears(k) => Bears(j)) /\ k.by = j.by /\ k.at = "set" /\ Bears(k)
      /\ \A k, i \in R : k = i
  BY <1>0 DEF Runs, Bears
<1>4. rtc'["caller"] = rtc["caller"] /\ rtc'["callee"] = c
  BY <1>0, <1>1 DEF CallsTyped
<1>5. ~gone => c.open
  BY DEF Opened, Closed
<1> HIDE DEF c
<1>6. ASSUME Smooth, Work, handling = {j}
      PROVE  j.by = "accept" /\ CalleeRight'
  <2>1. /\ session["callee"] \notin {"none", "ringing"} /\ session["callee"] # "ended" /\ j.by = "accept"
    BY <1>1, <1>6 DEF Work, CalleeRight, RunFits
  <2>2. handling' = R /\ c.open
    BY <1>1, <1>5, <1>6, <2>1
  <2> HIDE DEF R
  <2> QED
    BY <1>1, <1>3, <1>4, <2>1, <2>2 DEF CalleeRight, RunFits
<1> HIDE DEF R
<1>7. CASE ~Smooth \/ j.by = "accept"
  <2>1. CASE j.by = "accept"
    BY <1>1, <1>2, <1>3, <1>4, <1>6, <2>1, HandlingStep
  <2>2. CASE ~Smooth
    <3>1. ~Smooth'
      BY <1>1, <2>2 DEF Smooth, Mishap, MishapStays
    <3>2. RingRight' /\ CloseRight' /\ OnlineRight'
      BY <1>1, <1>2, <1>4, FollowedKept, RingStays DEF Good, CloseRight, OnlineRight, MishapStays
    <3> QED
      BY <3>1, <3>2 DEF Good
  <2> QED
    BY <1>7, <2>1, <2>2
<1>8. CASE Smooth
  BY <1>6, <1>7, <1>8 DEF Good, Work, OneEach
<1> QED
  BY <1>7, <1>8

LEMMA OfferSetGood ==
  ASSUME Inv, Good, NEW j \in handling, OfferSet(j)
  PROVE  Good'
<1> USE DEF netVars, countVars
<1> DEFINE c == Described(rtc["callee"], "remote", j.n, rtc["callee"].cur)
           k == [j EXCEPT !.at = "answer"]
<1>0. CallsTyped /\ Phones = {"caller", "callee"} /\ j \in Runs /\ rtc["callee"] \in Connections
  BY DEF Inv, CallsTyped, RunsTyped, Phones
<1>1. /\ j.at = "set"
      /\ UNCHANGED <<sdp, start, applying, reneg, dialled, online, drops, missed, early>> /\ MishapStays
  BY DEF OfferSet, MishapStays
<1>2. CASE ~rtc["callee"].open
  <2>1. Rejected(j) /\ handling' = handling \ {j}
    BY <1>2 DEF OfferSet
  <2> QED
    BY <1>1, <1>2, <2>1, RejectedGood
<1>3. CASE rtc["callee"].open
  <2>1. /\ rtc' = [rtc EXCEPT !["callee"] = c] /\ handling' = (handling \ {j}) \cup {k}
        /\ UNCHANGED <<session, handled, link>>
    BY <1>3 DEF OfferSet
  <2>2. c.open /\ c.sig = "remote" /\ k.by = j.by /\ k.n = j.n /\ k.at = "answer"
    BY <1>0, <1>3 DEF Described, Connections, Runs
  <2>3. rtc'["caller"] = rtc["caller"] /\ rtc'["callee"] = c
    BY <1>0, <2>1 DEF CallsTyped
  <2> HIDE DEF c, k
  <2>4. ASSUME Work, handling = {j}
        PROVE  CalleeRight'
    <3>1. handling' = {k}
      BY <2>1, <2>4
    <3> QED
      BY <1>1, <2>1, <2>2, <2>3, <2>4, <3>1 DEF Work, CalleeRight, RunFits, Bears
  <2>5. Bears(k) <=> Bears(j)
    BY <2>2 DEF Bears
  <2> DEFINE R == {k}
  <2>6. /\ \A i \in R : (Bears(i) => Bears(j)) /\ i.by = j.by
        /\ \A i, l \in R : i = l
        /\ R # {} /\ Keeps(link, link', Followed)
    BY <2>1, <2>2, <2>5, KeepsSame
  <2>7. handling' = (handling \ {j}) \cup R
    BY <2>1
  <2> HIDE DEF R
  <2> QED
    BY <1>1, <2>1, <2>3, <2>4, <2>6, <2>7, HandlingStep
<1> QED
  BY <1>2, <1>3

\* The answer goes out: the negotiation moves from the callee's run to the link.
LEMMA AnswerGoesOut ==
  ASSUME Inv, Good, NEW j \in handling, j.at = "answer", handling' = handling \ {j},
         rtc["callee"].open, rtc["callee"].sig = "remote",
         rtc' = [rtc EXCEPT !["callee"].sig = "stable", !["callee"].cur = rtc["callee"].pend],
         NEW n \in Nat,
         \/ j.by = "re" /\ link' = Emit(link, "callee", "reAnswer", n)
         \/ /\ j.by = "accept"
            /\ link' = Emit(link, "callee", "accepted", n)
         \/ /\ j.by = "accept" /\ session["callee"] = "none"
            /\ link' = link,
         UNCHANGED <<session, handled, start, dialled, reneg, sdp, applying>>, MishapStays
  PROVE  Good'
<1>0. /\ CallsTyped /\ link \in Links /\ Phones = {"caller", "callee"}
      /\ {"reAnswer", "accepted"} \subseteq Kinds
  BY DEF Inv, NetTyped, Phones, Kinds
<1>1. rtc'["caller"] = rtc["caller"] /\ rtc'["callee"].open
  BY <1>0 DEF CallsTyped, Connections
<1>2. /\ [k |-> "reAnswer", n |-> n] \in ReAnswerFrames \cap AnswerFrames
      /\ [k |-> "accepted", n |-> n] \notin ReAnswerFrames
      /\ \A k \in {"reAnswer", "accepted"} :
           [k |-> k, n |-> n] \notin RingFrames \cup OfferFrames \cup ReOfferFrames
  BY <1>0 DEF ReAnswerFrames, AnswerFrames, RingFrames, OfferFrames, ReOfferFrames, Frames
<1>3. CASE link' = link /\ session["callee"] = "none"
  <2>1. ~Smooth'
    <3>1. ASSUME Smooth PROVE FALSE
      BY <1>3, <3>1 DEF Good, Work, CalleeRight
    <3> QED
      BY <3>1 DEF Smooth, Mishap, MishapStays
  <2>2. RingRight' /\ CloseRight' /\ OnlineRight'
    BY <1>1, <1>3, KeepsSame, RingStays DEF Good, CloseRight, OnlineRight, MishapStays
  <2> QED
    BY <2>1, <2>2 DEF Good
<1>4. ASSUME NEW k \in {"reAnswer", "accepted"}, link' = Emit(link, "callee", k, n),
             k = "reAnswer" <=> j.by = "re"
      PROVE  Good'
  <2> DEFINE f == [k |-> k, n |-> n]
  <2>1. /\ link'["callee"] = link["callee"]
        /\ \A K : /\ Has(link'["caller"], K) => Has(link["caller"], K) \/ f \in K
                  /\ Has(link["caller"], K) => Has(link'["caller"], K)
                  /\ Once(link["caller"], K) /\ (f \in K => ~Has(link["caller"], K))
                       => Once(link'["caller"], K)
                  /\ (\A p \in Phones : online[p]) /\ f \in K => Has(link'["caller"], K)
    BY <1>0, <1>4, CalleeSends
  <2>2. Keeps(link, link', RingFrames) /\ (k = "reAnswer" => f \in ReAnswerFrames)
    BY <1>0, <1>2, <1>4, EmitKeeps
  <2> HIDE DEF f
  <2>3. RingRight' /\ CloseRight' /\ OnlineRight' /\ CallerStill
    BY <1>1, <2>2, RingStays DEF Good, CloseRight, OnlineRight, MishapStays, CallerStill
  <2>4. ASSUME Smooth'
        PROVE  Work'
    <3>1. Smooth /\ drops = 0
      BY <2>4 DEF Smooth, Mishap, MishapStays, Inv, NetTyped
    <3>2. Work /\ (\A p \in Phones : online[p])
      BY <3>1 DEF Good, OnlineRight
    <3>3. handling = {j} /\ handling' = {} /\ Bears(j)
      BY <3>2 DEF Work, OneEach, CalleeRight, RunFits
    <3>4. WorkAt("handle") /\ ~WorkAt("handle")'
      BY <3>3 DEF WorkAt, Bearing
    <3>5. ~Has(link["caller"], AnswerFrames)
      BY <3>2, <3>4 DEF Work, OnePlace, WorkAt, Places
    <3>6. OneEach'
      BY <2>1, <3>2, <3>3, <3>5 DEF Work, OneEach
    <3>7. CalleeRight'
      BY <1>1, <3>2, <3>3 DEF Work, CalleeRight
    <3>8. \A x \in Places : WorkAt(x)' => WorkAt(x) \/ x = "answer"
      BY <2>1, <3>4 DEF WorkAt
    <3>9. Reason => Reason'
      BY <1>4, <2>1, <2>2, <3>2, <3>3 DEF Reason
    <3>10. "handle" \in Places /\ "answer" \in Places
      BY DEF Places
    <3> QED
      BY <2>3, <3>2, <3>4, <3>6, <3>7, <3>8, <3>9, <3>10, MoveStep DEF Work, LockRight, CallerStill
  <2> QED
    BY <2>3, <2>4 DEF Good
<1> QED
  BY <1>3, <1>4

LEMMA OfferAnsweredGood ==
  ASSUME Inv, Good, NEW j \in handling, OfferAnswered(j)
  PROVE  Good'
<1> USE DEF netVars, countVars
<1>0. rtc["callee"] \in Connections /\ j \in Runs
  BY DEF Inv, CallsTyped, RunsTyped, Phones
<1>1. /\ j.at = "answer" /\ handling' = handling \ {j} /\ j.by \in {"accept", "re"}
      /\ UNCHANGED <<sdp, start, applying, reneg, dialled, online, drops, missed, early>> /\ MishapStays
      /\ rtc["callee"].pend \in Nat
  BY <1>0 DEF OfferAnswered, MishapStays, Runs, Connections
<1>2. CASE rtc["callee"].open /\ rtc["callee"].sig = "remote"
  <2> DEFINE n == rtc["callee"].pend
  <2>1. /\ rtc' = [rtc EXCEPT !["callee"].sig = "stable", !["callee"].cur = n]
        /\ UNCHANGED <<session, handled>>
        /\ \/ j.by = "re" /\ link' = Emit(link, "callee", "reAnswer", n)
           \/ j.by = "accept" /\ link' = Emit(link, "callee", "accepted", n)
           \/ j.by = "accept" /\ session["callee"] = "none" /\ link' = link
    BY <1>1, <1>2 DEF OfferAnswered
  <2> QED
    BY <1>1, <1>2, <2>1, AnswerGoesOut
<1>3. CASE ~(rtc["callee"].open /\ rtc["callee"].sig = "remote")
  <2>1. Rejected(j)
    BY <1>3 DEF OfferAnswered
  <2> QED
    BY <1>1, <1>3, <2>1, RejectedGood
<1> QED
  BY <1>2, <1>3

LEMMA AcceptFailsGood ==
  ASSUME Inv, Good, NEW j \in handling, AcceptFails(j)
  PROVE  Good'
<1>1. /\ j.at = "capture" /\ handling' = handling \ {j} /\ Rejected(j)
      /\ UNCHANGED <<sdp, start, applying, reneg, dialled, online, drops, missed, early>>
  BY DEF AcceptFails, netVars
<1> QED
  BY <1>1, RejectedGood

\* The caller wakes up for an answer, and applies it.
LEMMA WakeGood ==
  ASSUME Inv, Good, NEW j \in applying, Wake(j)
  PROVE  Good'
<1> USE DEF netVars, countVars
<1> DEFINE R == IF session["caller"] = "none" \/ j.n = 0 \/ ~rtc["caller"].open THEN {}
                ELSE {[j EXCEPT !.at = "set"]}
<1>0. CallsTyped /\ Phones = {"caller", "callee"} /\ j \in Runs
  BY DEF Inv, RunsTyped, Phones
<1>1. /\ j.at = "wake" /\ applying' = (applying \ {j}) \cup R
      /\ UNCHANGED <<handled, sdp, rtc, start, handling, reneg, dialled, online, drops, link, missed, early>>
      /\ session'["callee"] = session["callee"] /\ MishapStays
  BY <1>0 DEF Wake, MishapStays, CallsTyped
<1>2. \A k \in R : Bears(k) /\ (k.by = "re" <=> j.by = "re") /\ (Bears(k) => Bears(j)) /\ k.at = "set"
  BY <1>0 DEF Runs, Bears
<1>3. \A k, i \in R : k = i
  OBVIOUS
<1>4. ~Bears(j) => R = {}
  BY <1>2
<1> HIDE DEF R
<1>5. /\ CallerStill /\ CalleeStill /\ Keeps(link, link', Followed)
      /\ Keeps(link, link', RingFrames) /\ Keeps(link, link', WorkFrames)
  BY <1>1, KeepsSame, FollowedKept DEF CallerStill, CalleeStill, Good, CloseRight
<1>6. CASE ~Bears(j)
  <2>1. Bearing(applying') = Bearing(applying)
    BY <1>1, <1>4, <1>6 DEF Bearing
  <2> QED
    BY <1>1, <1>5, <2>1, QuietStep
<1>7. CASE Bears(j)
  <2>1. RingRight' /\ CloseRight' /\ OnlineRight'
    BY <1>1, <1>5, RingStays DEF Good, OnlineRight, MishapStays, CallerStill
  <2>2. ASSUME Smooth'
        PROVE  Work'
    <3>1. Work
      BY <1>1, <2>2 DEF Good, Smooth, Mishap
    <3>2. /\ j \in Bearing(applying) /\ j.by = "accept"
          /\ \A i \in applying : Bears(i) => i = j
      BY <1>1, <1>7, <3>1 DEF Work, OneEach, Bearing
    <3>3. \A i \in applying' : i \in R \/ ~Bears(i)
      BY <1>1, <3>2
    <3>4. OneEach'
      BY <1>1, <1>2, <1>3, <3>1, <3>3 DEF Work, OneEach, Bearing
    <3>5. \A x \in Places : WorkAt(x)' => WorkAt(x)
      BY <1>1, <3>2 DEF WorkAt
    <3>6. Reason => Reason'
      BY <1>1, <3>2 DEF Reason, Bears
    <3>7. CalleeRight'
      BY <1>1, <3>1 DEF Work, CalleeRight
    <3> QED
      BY <1>1, <1>5, <3>1, <3>4, <3>5, <3>6, <3>7, StillStep DEF Work, LockRight
  <2> QED
    BY <2>1, <2>2 DEF Good
<1> QED
  BY <1>6, <1>7

LEMMA AnswerSetGood ==
  ASSUME Inv, Good, NEW j \in applying, AnswerSet(j)
  PROVE  Good'
<1> USE DEF callVars, netVars, countVars
<1> DEFINE r == rtc["caller"]
<1>0. CallsTyped /\ Phones = {"caller", "callee"} /\ j \in Runs /\ r \in Connections
  BY DEF Inv, RunsTyped, CallsTyped, Phones
<1>1. /\ j.at = "set" /\ applying' = applying \ {j}
      /\ UNCHANGED <<session, handled, sdp, start, handling, reneg, dialled, online, drops, link, missed,
                     early>>
      /\ MishapStays
  BY DEF AnswerSet, MishapStays
<1>2. PICK x \in Connections :
        /\ rtc' = [rtc EXCEPT !["caller"] = x]
        /\ x.lock = IF j.by = "re" THEN FALSE ELSE r.lock
        /\ \/ x.open /\ x.cur = j.n
           \/ x.open = r.open /\ x.cur = r.cur
  <2> DEFINE d == Described(r, "stable", 0, j.n)
             Freed(c) == IF j.by = "re" THEN [c EXCEPT !.lock = FALSE] ELSE c
  <2>1. d \in Connections /\ d.cur = j.n /\ d.open = r.open /\ d.lock = r.lock
    BY <1>0 DEF Described, Connections, Runs
  <2>2. /\ r.open /\ rtc' = [rtc EXCEPT !["caller"] = Freed(d)]
        \/ rtc' = [rtc EXCEPT !["caller"] = Freed(r)]
    BY DEF AnswerSet
  <2> HIDE DEF d
  <2>3. \A c \in Connections : /\ Freed(c) \in Connections /\ Freed(c).open = c.open
                               /\ Freed(c).cur = c.cur
                               /\ Freed(c).lock = IF j.by = "re" THEN FALSE ELSE c.lock
    BY DEF Connections
  <2> HIDE DEF Freed
  <2>4. CASE r.open /\ rtc' = [rtc EXCEPT !["caller"] = Freed(d)]
    <3>1. Freed(d).open /\ Freed(d).cur = j.n
      BY <2>1, <2>3, <2>4
    <3> QED
      BY <2>1, <2>3, <2>4, <3>1
  <2>5. CASE rtc' = [rtc EXCEPT !["caller"] = Freed(r)]
    BY <1>0, <2>3, <2>5
  <2> QED
    BY <2>2, <2>4, <2>5
<1>3. rtc'["caller"] = x /\ rtc'["callee"] = rtc["callee"]
  BY <1>0, <1>2 DEF CallsTyped
<1>4. /\ CloseRight' /\ CalleeStill /\ Keeps(link, link', Followed)
      /\ Keeps(link, link', RingFrames)
  BY <1>1, <1>2, <1>3, KeepsSame DEF CalleeStill, Good, CloseRight
<1>5. CASE ~Bears(j)
  <2>1. Bearing(applying') = Bearing(applying)
    BY <1>1, <1>5 DEF Bearing
  <2>2. j.by # "re" /\ j.n = 0
    BY <1>0, <1>5 DEF Bears, Runs
  <2>3. CallerStill
    BY <1>2, <1>3, <1>4, <2>2 DEF CallerStill
  <2> QED
    BY <1>1, <1>4, <2>1, <2>3, QuietStep
<1>6. CASE Bears(j)
  <2>1. RingRight' /\ CloseRight' /\ OnlineRight'
    BY <1>1, <1>4, RingStays DEF Good, OnlineRight, MishapStays
  <2>2. ASSUME Smooth'
        PROVE  Work'
    <3>1. Work
      BY <1>1, <2>2 DEF Good, Smooth, Mishap
    <3>2. \A i \in applying : Bears(i) => i = j
      BY <1>6, <3>1 DEF Work, OneEach, Bearing
    <3>3. WorkAt("apply")
      BY <1>6 DEF WorkAt, Bearing
    <3>4. \A y \in Places : WorkAt(y) => y = "apply"
      BY <3>1, <3>3 DEF Work, OnePlace, Places
    <3>5. Bearing(applying') = {}
      BY <1>1, <3>2 DEF Bearing
    <3>6. \A y \in Places : ~WorkAt(y)'
      BY <1>1, <3>4, <3>5 DEF WorkAt
    <3>7. OnePlace' /\ OneEach'
      BY <1>1, <3>1, <3>5, <3>6 DEF OnePlace, OneEach, Work
    <3>8. CalleeRight'
      BY <1>1, <1>3, <3>1 DEF Work, CalleeRight
    <3>9. ~x.lock
      <4> SUFFICES ASSUME r.lock, j.by # "re" PROVE FALSE
        BY <1>2
      <4>1. Reason
        BY <3>1 DEF Work, LockRight
      <4>2. ~WorkAt("renegotiate") /\ ~WorkAt("offer") /\ ~WorkAt("handle") /\ ~WorkAt("answer")
        BY <3>4 DEF Places
      <4>3. /\ reneg = "no" /\ Bearing(handling) = {}
            /\ ~Has(link["callee"], ReOfferFrames) /\ ~Has(link["caller"], ReAnswerFrames)
        BY <4>2 DEF WorkAt, Has, OfferFrames, ReOfferFrames, AnswerFrames, ReAnswerFrames
      <4>4. PICK i \in applying : i.by = "re"
        BY <4>1, <4>3 DEF Reason, Bearing, Bears
      <4> QED
        BY <3>2, <4>4 DEF Bears
    <3>10. LockRight'
      BY <1>3, <3>6, <3>9 DEF LockRight
    <3> QED
      BY <3>7, <3>8, <3>10 DEF Work
  <2> QED
    BY <2>1, <2>2 DEF Good
<1> QED
  BY <1>5, <1>6

\* Video, candidates, and the connections to the gateway.
LEMMA VideoGood ==
  ASSUME Inv, Good, NEW p \in Phones,
         \/ Toggle(p) \/ Gather(p)
         \/ \E why \in {"tap", "agreed"} : CameraCaptured(p, why) \/ CameraFails(p, why)
  PROVE  Good'
<1> USE DEF callVars, jobVars, netVars, countVars
<1>0. CallsTyped /\ link \in Links /\ CloseRight /\ rtc[p] \in Connections
  BY DEF Inv, NetTyped, Good, CallsTyped
<1>1. /\ \A k \in {"request", "refuse", "agree", "candidate"} :
           Emit(link, p, k, 0) \in Links /\ Keeps(link, Emit(link, p, k, 0), Followed)
      /\ Keeps(link, link, Followed)
  BY <1>0, PlainEmit, KeepsSame
<1>2. CASE Toggle(p)
  <2>1. UNCHANGED <<session, handled, sdp, start, handling, applying, dialled, online, drops, missed>>
    BY <1>2 DEF Toggle
  <2>2. CASE Upgrade(p, "agreed", link)
    BY <1>0, <1>1, <2>1, <2>2, UpgradeKeepsGood
  <2>3. CASE Upgrade(p, "tap", Emit(link, p, "request", 0))
    <3> DEFINE q == Emit(link, p, "request", 0)
    <3>1. q \in Links /\ Keeps(link, q, Followed) /\ Upgrade(p, "tap", q)
      BY <1>1, <2>3
    <3> HIDE DEF q
    <3> QED
      BY <2>1, <3>1, UpgradeKeepsGood
  <2>4. CASE link' = Emit(link, p, "refuse", 0) /\ UNCHANGED <<rtc, upgrading, reneg, early>>
    <3>1. CallerStill /\ CalleeStill /\ MishapStays /\ Keeps(link, link', Followed)
      BY <1>0, <1>1, <2>1, <2>4 DEF CallerStill, CalleeStill, MishapStays, CloseRight
    <3> QED
      BY <2>1, <2>4, <3>1, QuietStep
  <2> QED
    BY <1>2, <2>2, <2>3, <2>4 DEF Toggle
<1>3. CASE Gather(p)
  <2>1. /\ link' = Emit(link, p, "candidate", 0)
        /\ UNCHANGED <<session, handled, rtc, sdp, start, handling, applying, reneg, dialled, online,
                       drops, missed, early>>
    BY <1>3 DEF Gather
  <2>2. CallerStill /\ CalleeStill /\ MishapStays /\ Keeps(link, link', Followed)
    BY <1>0, <1>1, <2>1 DEF CallerStill, CalleeStill, MishapStays, CloseRight
  <2> QED
    BY <2>1, <2>2, QuietStep
<1>4. ASSUME NEW why \in {"tap", "agreed"}, CameraCaptured(p, why)
      PROVE  Good'
  <2> DEFINE media == [rtc[p] EXCEPT !.camera = TRUE]
  <2>1. /\ Renegotiate(p, why, media, link)
        /\ UNCHANGED <<session, handled, sdp, start, handling, applying, dialled, online, drops, missed>>
    BY <1>4 DEF CameraCaptured
  <2>2. /\ media \in Connections /\ media.lock = rtc[p].lock /\ media.cur = rtc[p].cur
        /\ media.open = rtc[p].open /\ media.sig = rtc[p].sig
    BY <1>0 DEF Connections
  <2> HIDE DEF media
  <2> QED
    BY <1>0, <1>1, <2>1, <2>2, RenegotiateKeepsGood
<1>5. ASSUME NEW why \in {"tap", "agreed"}, CameraFails(p, why)
      PROVE  Good'
  <2>1. /\ link' = Emit(link, p, "agree", 0) \/ link' = link
        /\ UNCHANGED <<session, handled, rtc, sdp, start, handling, applying, reneg, dialled, online,
                       drops, missed, early>>
    BY <1>5 DEF CameraFails
  <2>2. CallerStill /\ CalleeStill /\ MishapStays /\ Keeps(link, link', Followed)
    BY <1>0, <1>1, <2>1 DEF CallerStill, CalleeStill, MishapStays, CloseRight
  <2> QED
    BY <2>1, <2>2, QuietStep
<1> QED
  BY <1>2, <1>3, <1>4, <1>5

LEMMA ConnectionGood ==
  ASSUME Inv, Good, NEW p \in Phones, Disconnect(p) \/ Reconnect(p)
  PROVE  Good'
<1> USE DEF callVars, jobVars, countVars
<1>0. link \in Links /\ drops \in Nat /\ Phones = {"caller", "callee"} /\ online \in [Phones -> BOOLEAN]
  BY DEF Inv, NetTyped, Phones
<1>1. UNCHANGED <<session, handled, rtc, sdp, start, handling, applying, reneg, dialled, missed, early>>
  BY DEF Disconnect, Reconnect
<1>2. CASE Reconnect(p)
  <2>1. link' = link /\ drops' = drops /\ drops # 0
    BY <1>0, <1>2 DEF Reconnect, Good, OnlineRight
  <2>2. Keeps(link, link', Followed) /\ ~Smooth' /\ OnlineRight'
    BY <1>0, <2>1, KeepsSame DEF OnlineRight, Smooth, Mishap
  <2>3. RingRight'
    BY <1>1, <2>2, FollowedKept, RingStays DEF Good
  <2> QED
    BY <1>1, <2>2, <2>3 DEF Good, CloseRight
<1>3. CASE Disconnect(p)
  <2>1. drops' = drops + 1 /\ drops' > 0
    BY <1>0, <1>3 DEF Disconnect
  <2>2. OnlineRight' /\ ~Smooth'
    BY <1>0, <2>1 DEF OnlineRight, Smooth, Mishap
  <2>3. \A x \in Phones : \E n \in 0..Len(link[x]) :
          link'[x] = <<>> \/ link'[x] = SubSeq(link[x], 1, n)
    <3>1. PICK n \in 0..Len(link[Other(p)]) :
            link' = [link EXCEPT ![p] = <<>>, ![Other(p)] = SubSeq(@, 1, n)]
      BY <1>3 DEF Disconnect
    <3>2. p # Other(p) /\ Phones = {p, Other(p)}
      BY <1>0 DEF Other
    <3>3. link'[p] = <<>> /\ link'[Other(p)] = SubSeq(link[Other(p)], 1, n)
      BY <1>0, <3>1, <3>2 DEF Links
    <3>4. 0 \in 0..Len(link[p])
      BY <1>0 DEF Links
    <3> QED
      BY <3>2, <3>3, <3>4
  <2>4. \A m \in DOMAIN link'["callee"] : m \in DOMAIN link["callee"] /\ link'["callee"][m] = link["callee"][m]
    <3>1. link["callee"] \in Seq(Frames)
      BY <1>0 DEF Links
    <3>2. PICK n \in 0..Len(link["callee"]) :
            link'["callee"] = <<>> \/ link'["callee"] = SubSeq(link["callee"], 1, n)
      BY <1>0, <2>3
    <3>3. CASE link'["callee"] = <<>>
      BY <3>3
    <3>4. CASE link'["callee"] = SubSeq(link["callee"], 1, n)
      BY <3>1, <3>2, <3>4
    <3> QED
      BY <3>2, <3>3, <3>4
  <2>5. /\ Has(link'["callee"], RingFrames) => Has(link["callee"], RingFrames)
        /\ Once(link["callee"], RingFrames) => Once(link'["callee"], RingFrames)
    BY <2>4 DEF Has, Once
  <2>6. \A x \in RingPlaces : RingAt(x)' => RingAt(x)
    BY <1>1, <2>5 DEF RingAt
  <2>7. RingRight'
    BY <1>1, <2>5, <2>6 DEF Good, RingRight, Live
  <2> QED
    BY <1>1, <2>2, <2>7 DEF Good, CloseRight
<1> QED
  BY <1>2, <1>3

\* Rings and offers go to the callee only, answers to the caller only.
Astray(p) ==
  {f \in Frames : f.k \in IF p = "caller" THEN {"incoming", "offer", "reOffer"}
                                          ELSE {"accepted", "reAnswer"}}
Sided(q) == q \in Links /\ \A p \in Phones : ~Has(q[p], Astray(p))

LEMMA EmitSided ==
  ASSUME NEW q, Sided(q), NEW p \in Phones, NEW k \in Kinds, NEW n \in Nat,
         \/ k \in {"candidate", "request", "agree", "refuse", "ended"}
         \/ p = "caller" /\ k \in {"incoming", "offer", "reOffer"}
         \/ p = "callee" /\ k \in {"accepted", "reAnswer"}
  PROVE  Sided(Emit(q, p, k, n))
<1> DEFINE f == [k |-> k, n |-> n]
           r == [q EXCEPT ![Other(p)] = Append(@, f)]
<1>1. Other(p) \in Phones /\ f \in Frames /\ q \in Links /\ f \notin Astray(Other(p))
  BY DEF Other, Phones, Frames, Sided, Astray
<1>2. r \in Links
  BY <1>1 DEF Links
<1>3. ASSUME NEW x \in Phones
      PROVE  ~Has(r[x], Astray(x))
  <2>1. CASE x = Other(p)
    <3>1. r[x] = Append(q[x], f) /\ q[x] \in Seq(Frames) /\ ~Has(q[x], Astray(x)) /\ f \notin Astray(x)
      BY <1>1, <2>1 DEF Links, Sided
    <3> HIDE DEF f, r
    <3> QED
      BY <1>1, <3>1, AppendedFrames
  <2>2. CASE x # Other(p)
    BY <1>1, <2>2 DEF Links, Sided
  <2> QED
    BY <2>1, <2>2
<1> QED
  BY <1>2, <1>3 DEF Sided, Emit

LEMMA TakeSided ==
  ASSUME NEW q, Sided(q), NEW p \in Phones, q[p] # <<>>
  PROVE  Sided([q EXCEPT ![p] = Tail(@)]) /\ Head(q[p]) \in Frames /\ Head(q[p]) \notin Astray(p)
<1> DEFINE r == [q EXCEPT ![p] = Tail(@)]
<1>1. q[p] \in Seq(Frames) /\ Tail(q[p]) \in Seq(Frames) /\ Head(q[p]) \in Frames
  BY DEF Sided, Links
<1>2. r[p] = Tail(q[p]) /\ (\A x \in Phones \ {p} : r[x] = q[x]) /\ r \in Links
  BY <1>1 DEF Sided, Links
<1>3. ~Has(Tail(q[p]), Astray(p)) /\ Head(q[p]) \notin Astray(p)
  BY <1>1, TakenFrames DEF Sided
<1> HIDE DEF r
<1>4. Sided(r)
  BY <1>2, <1>3 DEF Sided
<1> QED
  BY <1>1, <1>3, <1>4 DEF r

LEMMA UpgradeSided ==
  ASSUME NEW q, Sided(q), NEW p \in Phones, NEW why, NEW media,
         Renegotiate(p, why, media, q) \/ Upgrade(p, why, q)
  PROVE  Sided(link')
<1>1. Sided(Emit(q, p, "agree", 0))
  BY EmitSided DEF Kinds
<1> QED
  BY <1>1 DEF Renegotiate, Upgrade

LEMMA HangUpSided ==
  ASSUME Sided(link), NEW p \in Phones, HangUp(p)
  PROVE  Sided(link')
<1>1. Sided(Emit(link, p, "ended", 0))
  BY EmitSided DEF Kinds
<1> QED
  BY <1>1 DEF HangUp

LEMMA SidedStep ==
  ASSUME Inv, Sided(link), [Next]_vars
  PROVE  Sided(link')
<1>0. /\ offers + 1 \in Nat /\ rtc["callee"].pend \in Nat /\ "caller" \in Phones /\ "callee" \in Phones
      /\ 0 \in Nat
  BY DEF Inv, NetTyped, CallsTyped, Connections, Phones
<1>1. /\ \A p \in Phones : \A k \in {"candidate", "request", "agree", "refuse", "ended"} :
           Sided(Emit(link, p, k, 0))
      /\ \A k \in {"incoming", "offer", "reOffer"} : \A n \in Nat : Sided(Emit(link, "caller", k, n))
      /\ \A k \in {"accepted", "reAnswer"} : \A n \in Nat : Sided(Emit(link, "callee", k, n))
  BY <1>0, EmitSided DEF Kinds
<1>2. CASE StartCall \/ StartCaptured \/ AcceptCall \/ (\E p \in Phones : Reset(p) \/ Reconnect(p))
           \/ Applying \/ UNCHANGED vars
  BY <1>2 DEF StartCall, StartCaptured, AcceptCall, Reset, Reconnect, Applying, Wake, AnswerSet, vars
<1>3. CASE Ring \/ StartOffered \/ StartFails
  BY <1>0, <1>1, <1>3, HangUpSided DEF Ring, StartOffered, StartFails
<1>4. CASE Renegotiated
  <2> DEFINE sent == IF rtc["caller"].open THEN Emit(link, "caller", "reOffer", offers + 1) ELSE link
  <2>1. Sided(sent)
    BY <1>0, <1>1
  <2>2. link' = Emit(sent, "caller", "agree", 0) \/ link' = sent
    BY <1>4 DEF Renegotiated
  <2> HIDE DEF sent
  <2> QED
    BY <1>0, <2>1, <2>2, EmitSided DEF Kinds
<1>5. CASE Answering \/ \E j \in handling : AcceptFails(j)
  BY <1>0, <1>1, <1>5, HangUpSided
     DEF Answering, AcceptCaptured, OfferSet, OfferAnswered, AcceptFails, Rejected
<1>6. ASSUME NEW p \in Phones,
             EndCall(p) \/ Toggle(p) \/ Gather(p) \/ Camera(p)
               \/ \E why \in {"tap", "agreed"} : CameraFails(p, why)
      PROVE  Sided(link')
  <2>1. CASE EndCall(p)
    BY <2>1, HangUpSided DEF EndCall
  <2>2. CASE Toggle(p)
    BY <1>1, <2>2, UpgradeSided DEF Toggle
  <2>3. CASE Gather(p) \/ \E why \in {"tap", "agreed"} : CameraFails(p, why)
    BY <1>1, <2>3 DEF Gather, CameraFails
  <2>4. CASE Camera(p)
    BY <2>4, UpgradeSided DEF Camera, CameraCaptured
  <2> QED
    BY <1>6, <2>1, <2>2, <2>3, <2>4
<1>7. ASSUME NEW p \in Phones, Receive(p)
      PROVE  Sided(link')
  <2> DEFINE rest == [link EXCEPT ![p] = Tail(@)]
  <2>1. link[p] # <<>> /\ Sided(rest)
    <3>1. link[p] # <<>>
      BY <1>7 DEF Receive
    <3> QED
      BY <3>1, TakeSided
  <2>2. link' = rest \/ OnSwitch(p, Head(link[p]), rest)
    BY <1>7 DEF Receive
  <2> HIDE DEF rest
  <2> QED
    BY <2>1, <2>2, UpgradeSided DEF OnSwitch
<1>8. ASSUME NEW p \in Phones, Disconnect(p)
      PROVE  Sided(link')
  <2>0. link \in Links /\ Phones = {"caller", "callee"}
    BY DEF Sided, Phones
  <2>1. PICK n \in 0..Len(link[Other(p)]) :
          link' = [link EXCEPT ![p] = <<>>, ![Other(p)] = SubSeq(@, 1, n)]
    BY <1>8 DEF Disconnect
  <2>2. p # Other(p) /\ Phones = {p, Other(p)}
    BY <2>0 DEF Other
  <2>3. link[Other(p)] \in Seq(Frames)
    BY <2>0, <2>2 DEF Links
  <2>4. /\ link'[p] = <<>> /\ link'[Other(p)] = SubSeq(link[Other(p)], 1, n)
        /\ SubSeq(link[Other(p)], 1, n) \in Seq(Frames) /\ <<>> \in Seq(Frames)
    <3>1. SubSeq(link[Other(p)], 1, n) \in Seq(Frames) /\ <<>> \in Seq(Frames)
      BY <2>1, <2>3
    <3>2. link'[p] = <<>> /\ link'[Other(p)] = SubSeq(link[Other(p)], 1, n)
      BY <2>0, <2>1, <2>2 DEF Links
    <3> QED
      BY <3>1, <3>2
  <2>5. link' \in Links
    BY <2>0, <2>1, <2>2, <2>4 DEF Links
  <2>6. \A m \in DOMAIN SubSeq(link[Other(p)], 1, n) :
          m \in DOMAIN link[Other(p)] /\ SubSeq(link[Other(p)], 1, n)[m] = link[Other(p)][m]
    BY <2>3
  <2>7. ~Has(link'[Other(p)], Astray(Other(p))) /\ ~Has(link'[p], Astray(p))
    BY <2>2, <2>4, <2>6 DEF Sided, Has
  <2> QED
    BY <2>2, <2>5, <2>7 DEF Sided
<1> QED
  BY <1>2, <1>3, <1>4, <1>5, <1>6, <1>7, <1>8 DEF Next, Caller

\* A frame is taken from the link.  An offer: it is stored while the phone rings, handled by a
\* run of its own when there is a connection, and otherwise missed.
LEMMA OfferTaken ==
  ASSUME Inv, Good, Sided(link), link["callee"] # <<>>, NEW f, f = Head(link["callee"]),
         \/ f.k = "offer" /\ OnOffer(f)
         \/ f.k = "reOffer" /\ OnReOffer(f),
         link' = [link EXCEPT !["callee"] = Tail(@)],
         UNCHANGED <<session, handled, rtc, start, applying, reneg, dialled, early>>, MishapStays
  PROVE  Good'
<1> DEFINE run == [by |-> "re", n |-> f.n, at |-> "set"]
           now == rtc["callee"].open /\ (f.k = "offer" => session["callee"] = "connected")
           kept == f.k = "offer" /\ session["callee"] \in {"ringing", "ended"}
<1>0. /\ CallsTyped /\ RunsTyped /\ link \in Links /\ Phones = {"caller", "callee"}
      /\ link["callee"] \in Seq(Frames)
  BY DEF Inv, Sided, Phones, Links
<1>1. f \in Frames
  BY <1>0, TakeSided
<1>2. /\ handling' = IF now THEN handling \cup {run} ELSE handling
      /\ sdp' = IF kept THEN f.n ELSE sdp
      /\ ~now /\ ~(f.k = "offer" /\ session["callee"] = "ringing") /\ session["callee"] # "ended"
           => missed'
      /\ kept => ~now
  <2>1. session["callee"] \in {"none", "ringing", "connected", "ended"}
    BY <1>0 DEF CallsTyped, Sessions
  <2>2. CASE f.k = "offer" /\ OnOffer(f)
    BY <2>1, <2>2 DEF OnOffer
  <2>3. CASE f.k = "reOffer" /\ OnReOffer(f)
    BY <2>1, <2>3 DEF OnReOffer
  <2> QED
    BY <2>2, <2>3
<1>3. /\ f \in OfferFrames /\ f \notin RingFrames
      /\ f.k = "offer" => f \notin ReOfferFrames
  BY <1>1 DEF OfferFrames, RingFrames, ReOfferFrames
<1>4. /\ link'["callee"] = Tail(link["callee"]) /\ link'["caller"] = link["caller"]
      /\ Keeps(link, link', RingFrames)
  BY <1>0, <1>3, TakeKeeps DEF Links
<1>5. RingRight' /\ CloseRight' /\ OnlineRight' /\ CallerStill
  BY <1>4, RingStays DEF Good, CloseRight, OnlineRight, MishapStays, CallerStill
<1>6. run.by = "re" /\ run.at = "set" /\ Bears(run)
  BY DEF Bears
<1> HIDE DEF run, now, kept
<1>7. ASSUME Smooth'
      PROVE  Work'
  <2>1. Work /\ ~missed'
    BY <1>7 DEF Good, Smooth, Mishap, MishapStays
  <2>2. /\ Has(link["callee"], OfferFrames) /\ ~Has(link'["callee"], OfferFrames)
        /\ Once(link'["callee"], OfferFrames)
        /\ f \notin ReOfferFrames => (Has(link'["callee"], ReOfferFrames) <=> Has(link["callee"], ReOfferFrames))
    BY <1>0, <1>3, <1>4, <2>1, TakenFrames DEF Work, OneEach
  <2>3. WorkAt("offer") /\ ~WorkAt("offer")' /\ "offer" \in Places
    BY <2>2 DEF WorkAt, Places
  <2>4. \A x \in Places : WorkAt(x) => x = "offer"
    BY <2>1, <2>3 DEF Work, OnePlace
  <2>5. session["callee"] # "ended" /\ Bearing(handling) = {}
    BY <2>1, <2>4 DEF Work, CalleeRight, WorkAt, Places
  <2>6. CASE now
    <3>1. rtc["callee"].open /\ session["callee"] \notin {"none", "ringing"} /\ ~kept
      BY <1>2, <2>1, <2>6 DEF now, Work, CalleeRight
    <3>2. handling = {}
      <4> SUFFICES ASSUME NEW j \in handling PROVE FALSE
        OBVIOUS
      <4>1. RunFits(j, rtc["callee"]) /\ ~Bears(j) /\ j \in Runs
        BY <1>0, <2>1, <2>5 DEF Work, CalleeRight, Bearing, RunsTyped
      <4> QED
        BY <3>1, <4>1 DEF RunFits, Runs
    <3>3. handling' = {run} /\ sdp' = sdp
      BY <1>2, <2>6, <3>1, <3>2
    <3>4. \A x \in Places : WorkAt(x)' => WorkAt(x) \/ x = "handle"
      BY <1>4, <2>3, <3>3 DEF WorkAt
    <3>5. OneEach'
      BY <1>4, <2>1, <2>2, <3>3 DEF Work, OneEach
    <3>6. CalleeRight'
      BY <1>6, <2>1, <3>1, <3>3 DEF Work, CalleeRight, RunFits
    <3>7. Reason' /\ "handle" \in Places
      BY <1>6, <3>3 DEF Reason, Places
    <3> QED
      BY <1>5, <2>1, <2>3, <3>4, <3>5, <3>6, <3>7, MoveStep
  <2>7. CASE ~now
    <3>1. f.k = "offer" /\ session["callee"] = "ringing" /\ handling' = handling
      BY <1>2, <2>1, <2>5, <2>7
    <3>2. \A x \in Places : WorkAt(x)' => WorkAt(x) \/ x = "store"
      BY <1>4, <2>3, <3>1 DEF WorkAt
    <3>3. OneEach'
      BY <1>4, <2>1, <2>2, <3>1 DEF Work, OneEach
    <3>4. CalleeRight'
      BY <2>1, <3>1 DEF Work, CalleeRight
    <3>5. Reason => Reason'
      BY <1>3, <1>4, <2>2, <3>1 DEF Reason
    <3>6. "store" \in Places
      BY DEF Places
    <3> QED
      BY <1>5, <2>1, <2>3, <3>2, <3>3, <3>4, <3>5, <3>6, MoveStep DEF Work, LockRight
  <2> QED
    BY <2>6, <2>7
<1> QED
  BY <1>5, <1>7 DEF Good

\* An answer starts a run of the caller; one that finds no connection finds no lock either.
LEMMA AnswerTaken ==
  ASSUME Inv, Good, Sided(link), link["caller"] # <<>>, NEW f, f = Head(link["caller"]),
         f.k \in {"accepted", "reAnswer"}, OnAnswer(f),
         link' = [link EXCEPT !["caller"] = Tail(@)],
         UNCHANGED <<start, dialled>>, MishapStays
  PROVE  Good'
<1> DEFINE run == IF f.k = "accepted" THEN [by |-> "accept", n |-> f.n, at |-> "wake"]
                                      ELSE [by |-> "re", n |-> f.n, at |-> "set"]
           on == IF f.k = "accepted" THEN session["caller"] # "none" ELSE rtc["caller"].open
<1>0. link \in Links /\ Phones = {"caller", "callee"} /\ link["caller"] \in Seq(Frames)
  BY DEF Sided, Phones, Links
<1>1. f \in Frames
  BY <1>0, TakeSided
<1>2. /\ applying' = IF on THEN applying \cup {run} ELSE applying
      /\ UNCHANGED <<session, handled, sdp, rtc, handling, reneg, missed, early>>
  BY DEF OnAnswer, callVars
<1>3. /\ run.by = "re" <=> f.k = "reAnswer"
      /\ run.at = "wake" => run.by = "accept"
      /\ run.n = f.n
  BY DEF Bears
<1>4. /\ f \notin RingFrames /\ f \notin OfferFrames /\ f \notin ReOfferFrames
      /\ f \in ReAnswerFrames <=> f.k = "reAnswer"
      /\ f \in AnswerFrames <=> f.k = "reAnswer" \/ f.n > 0
  BY <1>1 DEF RingFrames, OfferFrames, ReOfferFrames, ReAnswerFrames, AnswerFrames
<1>5. /\ link'["caller"] = Tail(link["caller"]) /\ link'["callee"] = link["callee"]
      /\ Keeps(link, link', RingFrames)
  BY <1>0, <1>4, TakeKeeps DEF Links
<1>6. RingRight' /\ CloseRight' /\ OnlineRight' /\ CallerStill /\ CalleeStill
  BY <1>2, <1>5, RingStays DEF Good, CloseRight, OnlineRight, MishapStays, CallerStill, CalleeStill
<1>7. f \in AnswerFrames <=> Bears(run)
  BY <1>3, <1>4 DEF Bears
<1>8. f.k = "reAnswer" /\ ~on => ~rtc["caller"].open
  OBVIOUS
<1> HIDE DEF run, on
<1>9. ASSUME Smooth'
      PROVE  Work'
  <2>1. Work
    BY <1>2, <1>9 DEF Good, Smooth, Mishap, MishapStays
  <2>2. CASE f \notin AnswerFrames
    <3>1. f \notin WorkFrames
      BY <1>4, <2>2 DEF WorkFrames
    <3>2. Keeps(link, link', WorkFrames)
      BY <1>0, <3>1, TakeKeeps
    <3>3. Bearing(applying') = Bearing(applying)
      BY <1>2, <1>7, <2>2 DEF Bearing
    <3> QED
      BY <1>2, <1>6, <2>1, <3>2, <3>3, WorkStays
  <2>3. CASE f \in AnswerFrames
    <3>1. /\ Has(link["caller"], AnswerFrames) /\ ~Has(link'["caller"], AnswerFrames)
          /\ Once(link'["caller"], AnswerFrames)
          /\ f \notin ReAnswerFrames
               => (Has(link'["caller"], ReAnswerFrames) <=> Has(link["caller"], ReAnswerFrames))
      BY <1>0, <1>5, <2>1, <2>3, TakenFrames DEF Work, OneEach
    <3>2. WorkAt("answer") /\ ~WorkAt("answer")' /\ "answer" \in Places /\ "apply" \in Places
      BY <3>1 DEF WorkAt, Places
    <3>3. Bearing(applying) = {}
      BY <2>1, <3>2 DEF Work, OnePlace, WorkAt, Places
    <3>4. \A i \in Bearing(applying') : i = run
      BY <1>2, <3>3 DEF Bearing
    <3>5. OneEach'
      BY <1>2, <1>3, <1>5, <2>1, <3>1, <3>4 DEF Work, OneEach
    <3>6. CalleeRight'
      BY <1>2, <2>1 DEF Work, CalleeRight
    <3>7. \A x \in Places : WorkAt(x)' => WorkAt(x) \/ x = "apply"
      BY <1>2, <1>5, <3>2 DEF WorkAt
    <3>8. rtc'["caller"].lock => Reason'
      <4>1. CASE f.k = "reAnswer" /\ on
        BY <1>2, <1>3, <4>1 DEF Reason
      <4>2. CASE f.k = "reAnswer" /\ ~on
        BY <1>2, <1>8, <4>2 DEF Good, CloseRight
      <4>3. CASE f.k # "reAnswer"
        BY <1>2, <1>4, <1>5, <2>1, <3>1, <4>3 DEF Work, LockRight, Reason
      <4> QED
        BY <4>1, <4>2, <4>3
    <3> QED
      BY <1>6, <2>1, <3>2, <3>5, <3>6, <3>7, <3>8, MoveStep
  <2> QED
    BY <2>2, <2>3
<1> QED
  BY <1>6, <1>9 DEF Good

\* The ring, the end of the call, a candidate, and what the other side says of its camera.
LEMMA RingTaken ==
  ASSUME Inv, Good, Sided(link), link["callee"] # <<>>, Head(link["callee"]).k = "incoming",
         link' = [link EXCEPT !["callee"] = Tail(@)],
         session' = [session EXCEPT !["callee"] = IF Live("callee") THEN @ ELSE "ringing"],
         UNCHANGED <<handled, rtc, sdp, start, handling, applying, reneg, dialled, early>>, MishapStays
  PROVE  Good'
<1> DEFINE f == Head(link["callee"])
<1>0. /\ CallsTyped /\ link \in Links /\ Phones = {"caller", "callee"} /\ link["callee"] \in Seq(Frames)
  BY DEF Inv, Sided, Phones, Links
<1>1. f \in RingFrames /\ f \notin WorkFrames
  BY <1>0, TakeSided DEF RingFrames, WorkFrames, OfferFrames, AnswerFrames
<1>2. link'["callee"] = Tail(link["callee"]) /\ Keeps(link, link', WorkFrames)
  BY <1>0, <1>1, TakeKeeps DEF Links
<1> HIDE DEF f
<1>3. /\ Has(link["callee"], RingFrames) /\ ~Has(link'["callee"], RingFrames)
      /\ Once(link'["callee"], RingFrames)
  BY <1>0, <1>1, <1>2, TakenFrames DEF Good, RingRight, f
<1>4. \A x \in RingPlaces : RingAt(x) => x = "ring"
  BY <1>3 DEF Good, RingRight, RingPlaces, RingAt
<1>5. session["callee"] = "none" /\ "callee" \notin handled /\ session'["callee"] = "ringing"
  BY <1>0, <1>4 DEF RingPlaces, RingAt, Live, CallsTyped
<1>6. \A x \in RingPlaces : RingAt(x)' => x = "rung"
  BY <1>3, <1>4 DEF RingPlaces, RingAt
<1>7. RingRight' /\ CloseRight' /\ OnlineRight' /\ CallerStill
  BY <1>3, <1>5, <1>6 DEF Good, RingRight, CloseRight, OnlineRight, MishapStays, CallerStill
<1>8. ASSUME Smooth'
      PROVE  Work'
  <2>1. Work
    BY <1>8 DEF Good, Smooth, Mishap, MishapStays
  <2>2. CalleeRight' /\ sdp = 0
    BY <1>5, <2>1 DEF Work, CalleeRight
  <2>3. /\ Has(link["callee"], OfferFrames)' <=> Has(link["callee"], OfferFrames)
        /\ Has(link["callee"], ReOfferFrames)' <=> Has(link["callee"], ReOfferFrames)
        /\ Has(link["caller"], AnswerFrames)' <=> Has(link["caller"], AnswerFrames)
        /\ Has(link["caller"], ReAnswerFrames)' <=> Has(link["caller"], ReAnswerFrames)
        /\ Once(link["callee"], OfferFrames) => Once(link["callee"], OfferFrames)'
        /\ Once(link["caller"], AnswerFrames) => Once(link["caller"], AnswerFrames)'
    BY <1>2, WorkFramesKept
  <2>4. \A x \in Places : WorkAt(x)' => WorkAt(x)
    BY <2>2, <2>3 DEF WorkAt
  <2>5. OneEach' /\ (Reason => Reason')
    BY <2>1, <2>3 DEF Work, OneEach, Reason
  <2> QED
    BY <1>7, <2>1, <2>2, <2>4, <2>5, StillStep DEF Work, LockRight
<1> QED
  BY <1>7, <1>8 DEF Good

LEMMA ReceiveGood ==
  ASSUME Inv, Good, Sided(link), NEW p \in Phones, Receive(p)
  PROVE  Good'
<1> USE DEF netVars
<1> DEFINE f == Head(link[p])
           rest == [link EXCEPT ![p] = Tail(@)]
<1>0. /\ CallsTyped /\ link \in Links /\ Phones = {"caller", "callee"} /\ CloseRight /\ link[p] # <<>>
      /\ UNCHANGED <<start, dialled, online, drops>>
  BY DEF Inv, Sided, Phones, Good, Receive
<1>1. f \in Frames /\ f \notin Astray(p)
  BY <1>0, TakeSided
<1>2. ASSUME f.k \in {"request", "agree", "refuse", "candidate", "ended"}
      PROVE  rest \in Links /\ Keeps(link, rest, Followed)
  <2>1. f \notin Followed
    BY <1>2 DEF Followed, RingFrames, WorkFrames, OfferFrames, AnswerFrames
  <2> QED
    BY <1>0, <2>1, TakeKeeps
<1>3. CASE f.k \in {"request", "agree", "refuse"} /\ OnSwitch(p, f, rest)
  <2> HIDE DEF f, rest
  <2>1. UNCHANGED <<session, handled, sdp, handling, applying, missed>>
    BY <1>3 DEF OnSwitch
  <2>2. CASE Upgrade(p, "tap", rest)
    BY <1>0, <1>2, <1>3, <2>1, <2>2, UpgradeKeepsGood
  <2>3. CASE link' = rest /\ UNCHANGED <<rtc, upgrading, reneg, early>>
    <3>1. CallerStill /\ CalleeStill /\ MishapStays /\ Keeps(link, link', Followed)
      BY <1>0, <1>2, <1>3, <2>1, <2>3 DEF CallerStill, CalleeStill, MishapStays, CloseRight
    <3> QED
      BY <1>0, <2>1, <2>3, <3>1, QuietStep
  <2> QED
    BY <1>3, <2>2, <2>3 DEF OnSwitch
<1>4. CASE /\ f.k \in {"offer", "reOffer"} /\ (IF f.k = "offer" THEN OnOffer(f) ELSE OnReOffer(f))
           /\ link' = rest
           /\ UNCHANGED <<session, handled, video, asked, rtc, applying, upgrading, reneg, early>>
  <2>1. p = "callee"
    BY <1>0, <1>1, <1>4 DEF Astray
  <2>2. MishapStays
    BY <1>0, <1>4 DEF MishapStays, OnOffer, OnReOffer
  <2> QED
    BY <1>0, <1>4, <2>1, <2>2, OfferTaken
<1>5. CASE f.k \in {"accepted", "reAnswer"} /\ OnAnswer(f) /\ link' = rest
  <2>1. p = "caller"
    BY <1>0, <1>1, <1>5 DEF Astray
  <2>2. MishapStays
    BY <1>0, <1>5 DEF MishapStays, OnAnswer
  <2> QED
    BY <1>0, <1>5, <2>1, <2>2, AnswerTaken
<1>6. CASE f.k = "candidate" /\ OnCandidate(p) /\ link' = rest
  <2> HIDE DEF f, rest
  <2>1. /\ UNCHANGED <<session, handled, sdp, handling, applying, reneg, missed, early>>
        /\ rtc' = [rtc EXCEPT ![p].queue = @ + 1] \/ rtc' = rtc
    BY <1>6 DEF OnCandidate, callVars
  <2>2. CallerStill /\ CalleeStill
    <3>1. /\ \A x \in Phones : /\ rtc'[x].open = rtc[x].open /\ rtc'[x].sig = rtc[x].sig
                               /\ rtc'[x].lock = rtc[x].lock /\ rtc'[x].cur = rtc[x].cur
      BY <1>0, <2>1 DEF CallsTyped, Connections
    <3> QED
      BY <1>0, <2>1, <3>1 DEF CallerStill, CalleeStill, CloseRight
  <2>3. MishapStays /\ Keeps(link, link', Followed)
    BY <1>0, <1>2, <1>6, <2>1 DEF MishapStays
  <2> QED
    BY <1>0, <2>1, <2>2, <2>3, QuietStep
<1>7. CASE f.k \in {"incoming", "ended"} /\ OnCall(p, f) /\ link' = rest
  <2>1. UNCHANGED <<sdp, handling, applying, reneg, missed, early>> /\ MishapStays
    BY <1>0, <1>7 DEF OnCall, MishapStays
  <2>2. CASE f.k = "incoming"
    <3>1. p = "callee"
      BY <1>0, <1>1, <2>2 DEF Astray
    <3>2. /\ session' = [session EXCEPT ![p] = IF Live(p) THEN @ ELSE "ringing"]
          /\ UNCHANGED <<handled, rtc>>
      BY <1>7, <2>2 DEF OnCall
    <3> QED
      BY <1>0, <1>7, <2>1, <2>2, <3>1, <3>2, RingTaken
  <2>3. CASE f.k = "ended"
    <3> HIDE DEF f, rest
    <3>1. Keeps(link, link', Followed)
      BY <1>2, <1>7, <2>3
    <3>2. CASE Live(p) /\ Dismiss(p)
      <4>1. CallerStill /\ (CalleeStill \/ CalleeLeaves)
        BY <1>0, <3>2, DismissEffect DEF Live
      <4> QED
        BY <1>0, <2>1, <3>1, <4>1, QuietStep
    <3>3. CASE UNCHANGED <<session, handled, rtc>>
      <4>1. CallerStill /\ CalleeStill
        BY <1>0, <3>3 DEF CallerStill, CalleeStill, CloseRight
      <4> QED
        BY <1>0, <2>1, <3>1, <4>1, QuietStep
    <3> QED
      BY <1>7, <2>3, <3>2, <3>3 DEF OnCall
  <2> QED
    BY <1>7, <2>2, <2>3
<1> QED
  BY <1>3, <1>4, <1>5, <1>6, <1>7 DEF Receive

LEMMA GoodAtStart ==
  ASSUME Init
  PROVE  Good /\ Sided(link)
<1>1. /\ link = [p \in Phones |-> <<>>] /\ Phones = {"caller", "callee"}
      /\ rtc["caller"] = Closed /\ rtc["callee"] = Closed
      /\ start = "idle" /\ handled = {} /\ session["callee"] = "none" /\ sdp = 0
      /\ handling = {} /\ applying = {} /\ reneg = "no" /\ ~dialled
      /\ \A p \in Phones : online[p]
  BY DEF Init, Phones
<1>2. ~Closed.open /\ Closed.cur = 0 /\ ~Closed.lock
  BY DEF Closed
<1>3. \A p \in Phones : \A K : ~Has(link[p], K) /\ Once(link[p], K)
  BY <1>1 DEF Has, Once
<1>4. Sided(link)
  <2>1. link \in Links
    BY <1>1 DEF Links
  <2> QED
    BY <1>3, <2>1 DEF Sided
<1>5. CloseRight /\ OnlineRight
  BY <1>1, <1>2 DEF CloseRight, OnlineRight
<1>6. RingRight
  <2>1. \A x \in RingPlaces : RingAt(x) => x = "idle"
    BY <1>1, <1>3 DEF RingPlaces, RingAt
  <2> QED
    BY <1>1, <1>3, <2>1 DEF RingRight
<1>7. Work
  <2>1. \A x \in Places : WorkAt(x) => x = "make"
    BY <1>1, <1>3 DEF Places, WorkAt, Bearing
  <2> QED
    BY <1>1, <1>2, <1>3, <2>1 DEF Work, OnePlace, OneEach, LockRight, CalleeRight, Bearing
<1> QED
  BY <1>4, <1>5, <1>6, <1>7 DEF Good

LEMMA GoodStep ==
  ASSUME Inv, Good, Sided(link), [Next]_vars
  PROVE  Good'
<1>1. CASE StartCall \/ Ring \/ StartCaptured \/ StartFails
  BY <1>1, StartGood
<1>2. CASE StartOffered \/ Renegotiated
  BY <1>2, StartOfferedGood, RenegotiatedGood
<1>3. CASE \E p \in Phones : EndCall(p) \/ Reset(p)
  BY <1>3, EndGood
<1>4. CASE AcceptCall \/ Answering \/ \E j \in handling : AcceptFails(j)
  BY <1>4, AcceptCallGood, AcceptCapturedGood, OfferSetGood, OfferAnsweredGood, AcceptFailsGood
     DEF Answering
<1>5. CASE Applying
  BY <1>5, WakeGood, AnswerSetGood DEF Applying
<1>6. ASSUME NEW p \in Phones,
             \/ Toggle(p) \/ Gather(p) \/ Camera(p)
             \/ \E why \in {"tap", "agreed"} : CameraFails(p, why)
      PROVE  Good'
  BY <1>6, VideoGood DEF Camera
<1>7. ASSUME NEW p \in Phones, Receive(p) \/ Disconnect(p) \/ Reconnect(p)
      PROVE  Good'
  BY <1>7, ReceiveGood, ConnectionGood
<1>8. CASE UNCHANGED vars
  <2>1. /\ UNCHANGED <<session, handled, rtc, sdp, start, handling, applying, reneg, dialled, link>>
        /\ MishapStays
    BY <1>8 DEF vars, callVars, jobVars, netVars, countVars, MishapStays
  <2>2. Keeps(link, link', Followed) /\ CallerStill /\ CalleeStill
    BY <2>1, KeepsSame DEF CallerStill, CalleeStill, Good, CloseRight
  <2> QED
    BY <2>1, <2>2, QuietStep
<1> QED
  BY <1>1, <1>2, <1>3, <1>4, <1>5, <1>6, <1>7, <1>8 DEF Next, Caller

\* As long as no offer and no frame was lost, no video offer came before the first answer, and
\* both are in the call, whatever the order of ring, offers, acceptance and video, and whoever
\* fails: the lock of _renegotiate is held only by a negotiation that is still on its way.
THEOREM LockHasReason == Spec => []LockIsHeldForAReason
<1>1. Init => Good /\ Sided(link)
  BY GoodAtStart
<1>2. Inv /\ (Good /\ Sided(link)) /\ [Next]_vars => (Good /\ Sided(link))'
  BY GoodStep, SidedStep
<1>3. Good => LockIsHeldForAReason
  <2> SUFFICES ASSUME Good, rtc["caller"].lock, \A p \in Phones : Live(p), ~Mishap
               PROVE  \/ reneg # "no"
                      \/ \E n \in DOMAIN link["callee"] : link["callee"][n].k = "reOffer"
                      \/ \E n \in DOMAIN link["caller"] : link["caller"][n].k = "reAnswer"
                      \/ \E j \in handling \cup applying : j.by = "re"
    BY DEF LockIsHeldForAReason
  <2>1. Smooth
    BY DEF Good, RingRight, Smooth, Phones
  <2>2. Reason
    BY <2>1 DEF Good, Work, LockRight
  <2> QED
    BY <2>2 DEF Reason, Has, ReOfferFrames, ReAnswerFrames
<1> QED
  BY <1>1, <1>2, <1>3, Invariance, PTL DEF Spec

=============================================================================
