------------------------------ MODULE CallMedia ------------------------------
(***************************************************************************)
(* The media of one call: webrtcService.ts, and the parts of callService.ts *)
(* that drive it, on the phones of the caller and of the callee.           *)
(*                                                                         *)
(* The phone rings before the offer is made, so the offer may reach the    *)
(* callee before, during or after its acceptCall; a video upgrade sends    *)
(* further offers, also while the phone still rings.  Every handler awaits *)
(* the native layer and then goes on with whatever connection there is.    *)
(* Offers are numbered and an answer carries the number of its offer.      *)
(* The gateway relays in order, except the ring, which awaits its lookups. *)
(***************************************************************************)
EXTENDS Naturals, Sequences, FiniteSets

CONSTANTS
  MaxCandidates,  \* bound: ICE candidates that a phone finds
  MaxToggles,     \* bound: taps on the video button
  MaxDrops,       \* bound: lost connections
  MaxFails,       \* bound: captures that fail
  MaxEnds         \* bound: calls ended or rejected by a user or a timer

ASSUME MediaAssumption == {MaxCandidates, MaxToggles, MaxDrops, MaxFails, MaxEnds} \subseteq Nat

VARIABLES
  session,    \* callService.currentSession
  rtc,        \* the fields of webrtcService, see Closed
  handled,    \* phones whose handledEndedCallIds has the call
  sdp,        \* currentSession.sdp of the callee: an offer, or 0
  video,      \* currentSession.isVideoEnabled
  asked,      \* currentSession.videoSwitchPending
  start,      \* the background part of startCall
  handling,   \* runs of acceptCall and handleRenegotiationOffer on the callee's phone
  applying,   \* runs that apply an answer on the caller's phone
  upgrading,  \* runs of upgradeToVideo that await the camera
  reneg,      \* the run of _renegotiate that awaits its offer
  dialled,    \* the gateway's handleCallInitiate awaits its lookups
  online,     \* the phone's socket is connected
  link,       \* frames on their way to a phone
  offers,     \* offers made
  gathered,   \* candidates found
  toggles, drops, fails, ends,
  missed,     \* history: an offer reached the callee and was dropped
  early       \* history: a video offer was made before the call's first offer was answered

callVars == <<session, handled, sdp, video, asked>>
jobVars == <<start, handling, applying, upgrading, reneg>>
netVars == <<dialled, online, drops>>
countVars == <<offers, gathered, toggles, fails, ends, missed, early>>
vars == <<callVars, rtc, jobVars, netVars, link, countVars>>

Phones == {"caller", "callee"}
Other(p) == IF p = "caller" THEN "callee" ELSE "caller"

\* The state after closeSession.  "set" is isRemoteDescriptionSet, "queue" counts
\* pendingIceCandidates, "lock" is _isRenegotiating; "pend" is the offer that awaits its
\* answer and "cur" the last one answered.
Closed == [open |-> FALSE, sig |-> "stable", pend |-> 0, cur |-> 0, set |-> FALSE,
           queue |-> 0, lock |-> FALSE, mic |-> FALSE, camera |-> FALSE]

Kinds == {"incoming", "offer", "accepted", "reOffer", "reAnswer", "candidate",
          "request", "agree", "refuse", "ended"}
Runs == [by : {"accept", "re"}, n : Nat, at : {"capture", "wake", "set", "answer"}]

TypeOK ==
  /\ session \in [Phones -> {"none", "ringing", "connected", "ended"}]
  /\ rtc \in [Phones -> [open : BOOLEAN, sig : {"stable", "local", "remote"}, pend : Nat,
                         cur : Nat, set : BOOLEAN, queue : Nat, lock : BOOLEAN,
                         mic : BOOLEAN, camera : BOOLEAN]]
  /\ handled \subseteq Phones /\ sdp \in Nat
  /\ video \in [Phones -> BOOLEAN] /\ asked \in [Phones -> BOOLEAN]
  /\ start \in {"idle", "capture", "offer", "done"}
  /\ handling \subseteq Runs /\ applying \subseteq Runs
  /\ upgrading \in [Phones -> SUBSET {"tap", "agreed"}] /\ reneg \in {"no", "tap", "agreed"}
  /\ dialled \in BOOLEAN /\ online \in [Phones -> BOOLEAN]
  /\ link \in [Phones -> Seq([k : Kinds, n : Nat])]
  /\ offers \in Nat /\ gathered \in [Phones -> Nat]
  /\ {toggles, drops, fails, ends} \subseteq Nat /\ {missed, early} \subseteq BOOLEAN

Init ==
  /\ session = [p \in Phones |-> "none"]
  /\ rtc = [p \in Phones |-> Closed]
  /\ handled = {} /\ sdp = 0
  /\ video = [p \in Phones |-> FALSE] /\ asked = [p \in Phones |-> FALSE]
  /\ start = "idle" /\ handling = {} /\ applying = {}
  /\ upgrading = [p \in Phones |-> {}] /\ reneg = "no"
  /\ dialled = FALSE /\ online = [p \in Phones |-> TRUE]
  /\ link = [p \in Phones |-> <<>>]
  /\ offers = 0 /\ gathered = [p \in Phones |-> 0]
  /\ toggles = 0 /\ drops = 0 /\ fails = 0 /\ ends = 0
  /\ missed = FALSE /\ early = FALSE

-----------------------------------------------------------------------------
(* Building blocks.                                                        *)

Live(p) == session[p] \in {"ringing", "connected"}

\* socketService.emit and the relay of the gateway: nothing without a connection.
Emit(q, p, k, n) ==
  IF online["caller"] /\ online["callee"]
    THEN [q EXCEPT ![Other(p)] = Append(@, [k |-> k, n |-> n])] ELSE q

\* initPeerConnection: a new connection with the tracks captured so far.
Opened(r) == [Closed EXCEPT !.open = TRUE, !.mic = r.mic, !.camera = r.camera]

\* Mutant of Described: the queued candidates stay where they are.
DescribedUnflushed(r, sig, pend, cur) ==
  [r EXCEPT !.sig = sig, !.pend = pend, !.cur = cur, !.set = TRUE]

\* setRemoteDescription has returned: the flag is set and the queue is flushed.
Described(r, sig, pend, cur) ==
  [r EXCEPT !.sig = sig, !.pend = pend, !.cur = cur, !.set = TRUE, !.queue = 0]

\* What endCall, rejectCall and handleRemoteEnd do.
Dismiss(p) ==
  /\ handled' = handled \cup {p}
  /\ session' = [session EXCEPT ![p] = "ended"]
  /\ rtc' = [rtc EXCEPT ![p] = Closed]

\* endCall and rejectCall: the other side is told.
HangUp(p) == Dismiss(p) /\ link' = Emit(link, p, "ended", 0)

\* _renegotiate up to its first await: only the caller, and one at a time.  The run of
\* acceptVideoSwitch that awaits it then tells the other side.
Renegotiate(p, why, media, q) ==
  LET go == p = "caller" /\ media.open /\ ~media.lock
  IN  /\ rtc' = [rtc EXCEPT ![p] = IF go THEN [media EXCEPT !.lock = TRUE] ELSE media]
      /\ reneg' = IF go THEN why ELSE reneg
      /\ early' = (early \/ (go /\ media.cur = 0))
      /\ link' = IF ~go /\ why = "agreed" /\ session[p] # "none" THEN Emit(q, p, "agree", 0)
                                                                 ELSE q

\* upgradeToVideo up to its first await.
Upgrade(p, why, q) ==
  IF rtc[p].camera
    THEN Renegotiate(p, why, rtc[p], q) /\ UNCHANGED upgrading
    ELSE /\ upgrading' = [upgrading EXCEPT ![p] = @ \cup {why}]
         /\ link' = q /\ UNCHANGED <<rtc, reneg, early>>

-----------------------------------------------------------------------------
(* Making and ending the call.                                             *)

\* startCall rings at once; microphone, connection and offer follow in the background.
StartCall ==
  /\ start = "idle"
  /\ start' = "capture"
  /\ session' = [session EXCEPT !["caller"] = "ringing"]
  /\ dialled' = online["caller"]
  /\ UNCHANGED <<handled, sdp, video, asked, rtc, handling, applying, upgrading, reneg, online,
                 drops, link, countVars>>

\* handleCallInitiate after its lookups: a call that has ended does not ring, unless the
\* end was lost; nor does a blocked caller's.
Ring ==
  /\ dialled
  /\ dialled' = FALSE
  /\ \/ /\ Live("caller") \/ drops > 0
        /\ link' = Emit(link, "caller", "incoming", 0)
     \/ ~Live("caller") /\ link' = Emit(link, "callee", "ended", 0)
     \/ UNCHANGED link
  /\ UNCHANGED <<callVars, rtc, jobVars, online, drops, countVars>>

\* getUserMedia has returned; nobody asks whether the call still exists.
StartCaptured ==
  /\ start = "capture"
  /\ start' = "offer"
  /\ rtc' = [rtc EXCEPT !["caller"] = Opened([Closed EXCEPT !.mic = TRUE])]
  /\ UNCHANGED <<callVars, handling, applying, upgrading, reneg, netVars, link, countVars>>

\* Mutant of StartOffered: a call that is over is given up without closing the session.
StartOfferedUnclosed ==
  /\ start = "offer"
  /\ start' = "done"
  /\ IF ~rtc["caller"].open
       THEN /\ IF session["caller"] # "none" THEN HangUp("caller")
                                             ELSE UNCHANGED <<session, handled, rtc, link>>
            /\ UNCHANGED offers
       ELSE /\ offers' = offers + 1
            /\ UNCHANGED <<session, handled>>
            /\ rtc' = [rtc EXCEPT !["caller"].sig = "local", !["caller"].pend = offers + 1]
            /\ link' = IF Live("caller") THEN Emit(link, "caller", "offer", offers + 1) ELSE link
  /\ UNCHANGED <<sdp, video, asked, handling, applying, upgrading, reneg, netVars, gathered,
                 toggles, fails, ends, missed, early>>

\* createOffer has returned: the offer is sent, or the session of a call that is over is
\* closed.  On a connection that was closed meanwhile it fails, and the catch ends the call.
StartOffered ==
  /\ start = "offer"
  /\ start' = "done"
  /\ IF ~rtc["caller"].open
       THEN /\ IF session["caller"] # "none" THEN HangUp("caller")
                                             ELSE UNCHANGED <<session, handled, rtc, link>>
            /\ UNCHANGED offers
       ELSE /\ offers' = offers + 1
            /\ UNCHANGED <<session, handled>>
            /\ IF Live("caller")
                 THEN /\ rtc' = [rtc EXCEPT !["caller"].sig = "local",
                                            !["caller"].pend = offers + 1]
                      /\ link' = Emit(link, "caller", "offer", offers + 1)
                 ELSE rtc' = [rtc EXCEPT !["caller"] = Closed] /\ UNCHANGED link
  /\ UNCHANGED <<sdp, video, asked, handling, applying, upgrading, reneg, netVars, gathered,
                 toggles, fails, ends, missed, early>>

\* Neither microphone nor camera: the catch ends the call.
StartFails ==
  /\ start = "capture" /\ fails < MaxFails
  /\ fails' = fails + 1
  /\ start' = "done"
  /\ IF session["caller"] # "none" THEN HangUp("caller")
                                   ELSE UNCHANGED <<session, handled, rtc, link>>
  /\ UNCHANGED <<sdp, video, asked, handling, applying, upgrading, reneg, netVars, offers,
                 gathered, toggles, ends, missed, early>>

\* endCall, rejectCall, or the 45 s timer.
EndCall(p) ==
  /\ Live(p) /\ ends < MaxEnds
  /\ ends' = ends + 1
  /\ HangUp(p)
  /\ UNCHANGED <<sdp, video, asked, jobVars, netVars, offers, gathered, toggles, fails,
                 missed, early>>

\* 350 or 400 ms after the end.
Reset(p) ==
  /\ session[p] = "ended"
  /\ session' = [session EXCEPT ![p] = "none"]
  /\ UNCHANGED <<handled, sdp, video, asked, rtc, jobVars, netVars, link, countVars>>

-----------------------------------------------------------------------------
(* The callee accepts.                                                     *)

\* acceptCall up to its first await: CONNECTED at once, with the offer there is by now.
AcceptCall ==
  /\ session["callee"] = "ringing"
  /\ session' = [session EXCEPT !["callee"] = "connected"]
  /\ handling' = handling \cup {[by |-> "accept", n |-> sdp, at |-> "capture"]}
  /\ UNCHANGED <<handled, sdp, video, asked, rtc, start, applying, upgrading, reneg, netVars, link,
                 countVars>>

\* The microphone is on: without a session the run stops, without an offer it answers with
\* none, else it goes on to the offer.
AcceptCaptured(j) ==
  /\ j \in handling /\ j.at = "capture"
  /\ LET on == [rtc["callee"] EXCEPT !.mic = TRUE, !.camera = FALSE]
         gone == session["callee"] = "none"
     IN  /\ rtc' = [rtc EXCEPT !["callee"] = IF gone THEN on ELSE Opened(on)]
         /\ handling' = (handling \ {j})
                          \cup (IF gone \/ j.n = 0 THEN {} ELSE {[j EXCEPT !.at = "set"]})
         /\ link' = IF ~gone /\ j.n = 0 THEN Emit(link, "callee", "accepted", 0) ELSE link
  /\ UNCHANGED <<callVars, start, applying, upgrading, reneg, netVars, countVars>>

\* The catch of acceptCall rejects the call; the catch of handleRenegotiationOffer logs.
Rejected(j) ==
  IF j.by = "accept" /\ session["callee"] # "none" THEN HangUp("callee")
                                                   ELSE UNCHANGED <<session, handled, rtc, link>>

AcceptFails(j) ==
  /\ j \in handling /\ j.at = "capture" /\ fails < MaxFails
  /\ fails' = fails + 1
  /\ handling' = handling \ {j}
  /\ Rejected(j)
  /\ UNCHANGED <<sdp, video, asked, start, applying, upgrading, reneg, netVars, offers,
                 gathered, toggles, ends, missed, early>>

\* The native layer works through its queue: a later run's call waits for an earlier one's.
First(j, runs) == \A k \in runs : k.at = j.at => j.n <= k.n

\* setRemoteDescription of the offer; an offer in progress is rolled back first.
OfferSet(j) ==
  /\ j \in handling /\ j.at = "set" /\ First(j, handling)
  /\ IF rtc["callee"].open
       THEN /\ rtc' = [rtc EXCEPT !["callee"] = Described(@, "remote", j.n, @.cur)]
            /\ handling' = (handling \ {j}) \cup {[j EXCEPT !.at = "answer"]}
            /\ UNCHANGED <<session, handled, link>>
       ELSE handling' = handling \ {j} /\ Rejected(j)
  /\ UNCHANGED <<sdp, video, asked, start, applying, upgrading, reneg, netVars, countVars>>

\* createAnswer and setLocalDescription answer the offer that is set by now, whosever run
\* set it, and fail when that one is answered already.
OfferAnswered(j) ==
  /\ j \in handling /\ j.at = "answer" /\ First(j, handling)
  /\ handling' = handling \ {j}
  /\ LET r == rtc["callee"]
     IN  IF r.open /\ r.sig = "remote"
           THEN /\ rtc' = [rtc EXCEPT !["callee"].sig = "stable", !["callee"].cur = r.pend]
                /\ link' = IF j.by = "re" THEN Emit(link, "callee", "reAnswer", r.pend)
                           ELSE IF session["callee"] # "none"
                                  THEN Emit(link, "callee", "accepted", r.pend)
                           ELSE link
                /\ UNCHANGED <<session, handled>>
           ELSE Rejected(j)
  /\ UNCHANGED <<sdp, video, asked, start, applying, upgrading, reneg, netVars, countVars>>

-----------------------------------------------------------------------------
(* The caller applies the answers.                                         *)

\* call:accepted has stopped the sounds: connected, and on to the answer it brought.
Wake(j) ==
  /\ j \in applying /\ j.at = "wake"
  /\ LET gone == session["caller"] = "none"
     IN  /\ session' = IF gone THEN session ELSE [session EXCEPT !["caller"] = "connected"]
         /\ applying' = (applying \ {j})
                          \cup (IF gone \/ j.n = 0 \/ ~rtc["caller"].open THEN {}
                                ELSE {[j EXCEPT !.at = "set"]})
  /\ UNCHANGED <<handled, sdp, video, asked, rtc, start, handling, upgrading, reneg, netVars, link,
                 countVars>>

\* Mutant of AnswerSet: the answer is applied and the lock is kept.
AnswerSetLocked(j) ==
  /\ j \in applying /\ j.at = "set" /\ First(j, applying)
  /\ applying' = applying \ {j}
  /\ LET r == rtc["caller"]
     IN  rtc' = IF r.open /\ r.sig = "local" /\ r.pend = j.n
                  THEN [rtc EXCEPT !["caller"] = Described(r, "stable", 0, j.n)] ELSE rtc
  /\ UNCHANGED <<callVars, start, handling, upgrading, reneg, netVars, link, countVars>>

\* setRemoteDescription of an answer fails unless an offer awaits one; an answer to an
\* earlier offer fails if the media sections differ.  handleRenegotiationAnswer then
\* releases the lock in any case, handleIncomingAnswer never.
AnswerSet(j) ==
  /\ j \in applying /\ j.at = "set" /\ First(j, applying)
  /\ applying' = applying \ {j}
  /\ LET r == rtc["caller"]
         Freed(x) == IF j.by = "re" THEN [x EXCEPT !.lock = FALSE] ELSE x
     IN  \/ /\ r.open /\ r.sig = "local"
            /\ rtc' = [rtc EXCEPT !["caller"] = Freed(Described(r, "stable", 0, j.n))]
         \/ /\ ~(r.open /\ r.sig = "local" /\ r.pend = j.n)
            /\ rtc' = [rtc EXCEPT !["caller"] = Freed(r)]
  /\ UNCHANGED <<callVars, start, handling, upgrading, reneg, netVars, link, countVars>>

-----------------------------------------------------------------------------
(* Video.                                                                  *)

\* toggleVideoSwitch: accept what the other side asked for, or ask, or switch off.
Toggle(p) ==
  /\ Live(p) /\ toggles < MaxToggles
  /\ toggles' = toggles + 1
  /\ LET on == asked[p] \/ ~video[p]
     IN  /\ video' = [video EXCEPT ![p] = on]
         /\ asked' = [asked EXCEPT ![p] = FALSE]
         /\ \/ asked[p] /\ Upgrade(p, "agreed", link)
            \/ ~asked[p] /\ on /\ Upgrade(p, "tap", Emit(link, p, "request", 0))
            \/ /\ ~on
               /\ link' = Emit(link, p, "refuse", 0)
               /\ UNCHANGED <<rtc, upgrading, reneg, early>>
  /\ UNCHANGED <<session, handled, sdp, start, handling, applying, netVars, offers, gathered, fails,
                 ends, missed>>

\* The camera is on; nobody asks whether the call still exists.
CameraCaptured(p, why) ==
  /\ why \in upgrading[p]
  /\ upgrading' = [upgrading EXCEPT ![p] = @ \ {why}]
  /\ Renegotiate(p, why, [rtc[p] EXCEPT !.camera = TRUE], link)
  /\ UNCHANGED <<callVars, start, handling, applying, netVars, offers, gathered, toggles,
                 fails, ends, missed>>

\* No camera: acceptVideoSwitch agrees all the same.
CameraFails(p, why) ==
  /\ why \in upgrading[p] /\ fails < MaxFails
  /\ fails' = fails + 1
  /\ upgrading' = [upgrading EXCEPT ![p] = @ \ {why}]
  /\ link' = IF why = "agreed" /\ session[p] # "none" THEN Emit(link, p, "agree", 0) ELSE link
  /\ UNCHANGED <<callVars, rtc, start, handling, applying, reneg, netVars, offers, gathered,
                 toggles, ends, missed, early>>

\* _renegotiate has its offer: candidates wait for the answer from now on.
Renegotiated ==
  /\ reneg # "no"
  /\ reneg' = "no"
  /\ LET r == rtc["caller"]
         sent == IF r.open THEN Emit(link, "caller", "reOffer", offers + 1) ELSE link
     IN  /\ rtc' = [rtc EXCEPT !["caller"] =
                      IF r.open THEN [r EXCEPT !.sig = "local", !.pend = offers + 1, !.set = FALSE]
                      ELSE [r EXCEPT !.lock = FALSE]]
         /\ offers' = IF r.open THEN offers + 1 ELSE offers
         /\ link' = IF reneg = "agreed" /\ session["caller"] # "none"
                      THEN Emit(sent, "caller", "agree", 0) ELSE sent
  /\ UNCHANGED <<callVars, start, handling, applying, upgrading, netVars, gathered, toggles,
                 fails, ends, missed, early>>

\* onicecandidate, once there is a local description.
Gather(p) ==
  /\ rtc[p].sig = "local" \/ rtc[p].cur > 0
  /\ gathered[p] < MaxCandidates
  /\ gathered' = [gathered EXCEPT ![p] = @ + 1]
  /\ link' = Emit(link, p, "candidate", 0)
  /\ UNCHANGED <<callVars, rtc, jobVars, netVars, offers, toggles, fails, ends, missed, early>>

-----------------------------------------------------------------------------
(* The frames that reach a phone.                                          *)

\* Mutant of OnOffer: an offer is only stored, as it was before renegotiation was added.
OnOfferStored(f) ==
  /\ sdp' = IF session["callee"] # "none" THEN f.n ELSE sdp
  /\ UNCHANGED <<handling, missed>>

\* webrtc:offer.  Before the call is accepted the offer is stored; afterwards it is handled
\* at once, which does nothing as long as acceptCall has no connection yet.
OnOffer(f) ==
  LET now == session["callee"] = "connected" /\ rtc["callee"].open
  IN  /\ sdp' = IF session["callee"] \in {"ringing", "ended"} THEN f.n ELSE sdp
      /\ handling' = IF now THEN handling \cup {[by |-> "re", n |-> f.n, at |-> "set"]}
                            ELSE handling
      /\ missed' = (missed \/ (~now /\ session["callee"] \in {"none", "connected"}))

\* webrtc:renegotiate-offer, for the call webrtcService has a connection for.
OnReOffer(f) ==
  /\ handling' = IF rtc["callee"].open
                   THEN handling \cup {[by |-> "re", n |-> f.n, at |-> "set"]} ELSE handling
  /\ missed' = (missed \/ ~rtc["callee"].open)
  /\ UNCHANGED sdp

\* A candidate waits until there is a remote description; without a connection it is dropped.
OnCandidate(p) ==
  /\ rtc' = IF rtc[p].open /\ ~rtc[p].set THEN [rtc EXCEPT ![p].queue = @ + 1] ELSE rtc
  /\ UNCHANGED <<callVars, handling, applying, upgrading, reneg, missed, early>>

\* call:incoming and the end of the call.
OnCall(p, f) ==
  /\ \/ f.k = "incoming" /\ session' = [session EXCEPT ![p] = IF Live(p) THEN @ ELSE "ringing"]
                         /\ UNCHANGED <<handled, rtc>>
     \/ f.k = "ended" /\ Live(p) /\ p \notin handled /\ Dismiss(p)
     \/ f.k = "ended" /\ (~Live(p) \/ p \in handled) /\ UNCHANGED <<session, handled, rtc>>
  /\ UNCHANGED <<sdp, video, asked, handling, applying, upgrading, reneg, missed, early>>

OnAnswer(f) ==
  LET run == IF f.k = "accepted" THEN [by |-> "accept", n |-> f.n, at |-> "wake"]
                                 ELSE [by |-> "re", n |-> f.n, at |-> "set"]
      on == IF f.k = "accepted" THEN session["caller"] # "none" ELSE rtc["caller"].open
  IN  /\ applying' = IF on THEN applying \cup {run} ELSE applying
      /\ UNCHANGED <<callVars, rtc, handling, upgrading, reneg, missed, early>>

\* call:switch-to-video: the other side asks, agrees or refuses.
OnSwitch(p, f, rest) ==
  /\ IF session[p] = "none"
       THEN link' = rest /\ UNCHANGED <<video, asked, rtc, upgrading, reneg, early>>
       ELSE /\ asked' = [asked EXCEPT ![p] = f.k = "request"]
            /\ video' = IF f.k = "request" THEN video ELSE [video EXCEPT ![p] = f.k = "agree"]
            /\ IF f.k = "agree" THEN Upgrade(p, "tap", rest)
                                ELSE link' = rest /\ UNCHANGED <<rtc, upgrading, reneg, early>>
  /\ UNCHANGED <<session, handled, sdp, handling, applying, missed>>

Receive(p) ==
  /\ link[p] # <<>>
  /\ LET f == Head(link[p])
         rest == [link EXCEPT ![p] = Tail(@)]
     IN  \/ f.k \in {"request", "agree", "refuse"} /\ OnSwitch(p, f, rest)
         \/ /\ f.k \in {"offer", "reOffer"}
            /\ IF f.k = "offer" THEN OnOffer(f) ELSE OnReOffer(f)
            /\ link' = rest
            /\ UNCHANGED <<session, handled, video, asked, rtc, applying, upgrading, reneg, early>>
         \/ f.k \in {"accepted", "reAnswer"} /\ OnAnswer(f) /\ link' = rest
         \/ f.k = "candidate" /\ OnCandidate(p) /\ link' = rest
         \/ f.k \in {"incoming", "ended"} /\ OnCall(p, f) /\ link' = rest
  /\ UNCHANGED <<start, netVars, offers, gathered, toggles, fails, ends>>

\* With the connection go the frames to the phone and the last ones from it.
Disconnect(p) ==
  /\ online[p] /\ drops < MaxDrops
  /\ drops' = drops + 1
  /\ online' = [online EXCEPT ![p] = FALSE]
  /\ \E n \in 0..Len(link[Other(p)]) :
       link' = [link EXCEPT ![p] = <<>>, ![Other(p)] = SubSeq(@, 1, n)]
  /\ UNCHANGED <<callVars, rtc, jobVars, dialled, countVars>>

Reconnect(p) ==
  /\ ~online[p]
  /\ online' = [online EXCEPT ![p] = TRUE]
  /\ UNCHANGED <<callVars, rtc, jobVars, dialled, drops, link, countVars>>

-----------------------------------------------------------------------------
Caller == StartCaptured \/ StartOffered \/ Renegotiated
Answering == \E j \in handling : AcceptCaptured(j) \/ OfferSet(j) \/ OfferAnswered(j)
Applying == \E j \in applying : Wake(j) \/ AnswerSet(j)
Camera(p) == \E why \in {"tap", "agreed"} : CameraCaptured(p, why)

Next ==
  \/ StartCall \/ Ring \/ Caller \/ StartFails \/ AcceptCall \/ Answering \/ Applying
  \/ \E j \in handling : AcceptFails(j)
  \/ \E p \in Phones : \/ EndCall(p) \/ Reset(p) \/ Toggle(p) \/ Camera(p) \/ Gather(p)
                       \/ \E why \in {"tap", "agreed"} : CameraFails(p, why)
                       \/ Receive(p) \/ Disconnect(p) \/ Reconnect(p)

Spec == Init /\ [][Next]_vars

(* Frames are handled and the native layer answers; the users do nothing,  *)
(* and a phone may stay offline.                                           *)
Fairness ==
  /\ WF_vars(Ring) /\ WF_vars(StartCaptured) /\ WF_vars(StartOffered) /\ WF_vars(Renegotiated)
  /\ WF_vars(Answering) /\ WF_vars(Applying)
  /\ \A p \in Phones : WF_vars(Receive(p)) /\ WF_vars(Camera(p)) /\ WF_vars(Reset(p))

FairSpec == Spec /\ Fairness

-----------------------------------------------------------------------------
(* Properties.                                                             *)

Mishap == missed \/ early \/ drops > 0
BothIn == \A p \in Phones : session[p] = "connected"

Agreed == /\ rtc["caller"].cur > 0 /\ rtc["caller"].cur = rtc["callee"].cur
          /\ \A p \in Phones : rtc[p].open /\ rtc[p].sig = "stable"

\* Whatever the order of ring, offer and acceptance, and whoever switches to video meanwhile,
\* two phones that are connected come to agree on an offer, unless an offer or a frame was
\* lost or the call ends.
AcceptedIsNegotiated == (BothIn /\ ~Mishap) ~> (Agreed \/ ~BothIn \/ Mishap)

\* While both are in the call, the glare guard of _renegotiate is held only as long as an
\* offer is being made or answered: a lock that stays behind would silently skip every
\* later upgrade of the call.
LockIsHeldForAReason ==
  rtc["caller"].lock /\ (\A p \in Phones : Live(p)) /\ ~Mishap =>
    \/ reneg # "no"
    \/ \E n \in DOMAIN link["callee"] : link["callee"][n].k = "reOffer"
    \/ \E n \in DOMAIN link["caller"] : link["caller"][n].k = "reAnswer"
    \/ \E j \in handling \cup applying : j.by = "re"

\* No candidate stays in the queue: the description it waits for comes, and flushes it.
QueueIsFlushed ==
  \A p \in Phones : (BothIn /\ rtc[p].queue > 0) ~> (rtc[p].queue = 0 \/ ~BothIn \/ Mishap)

\* When the caller's session is over and startCall's background part is done, the
\* microphone is off, however the end and the part overlapped.
CallerReleasesMicrophone ==
  session["caller"] \in {"none", "ended"} /\ start = "done" => ~rtc["caller"].mic

=============================================================================
