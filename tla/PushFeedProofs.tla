---------------------------- MODULE PushFeedProofs ----------------------------
(***************************************************************************)
(* Proofs about PushFeed, for any number of desk requests at once, any     *)
(* number of changes, tokens and faults, and channels of any size.         *)
(***************************************************************************)
EXTENDS PushFeed, TLAPS

Places == {"idle", "commit", "flush", "claimed", "send", "forget", "rehold", "fan"}

Request == [at : Places, then : {"fan", "done"}, ver : Nat, tok : Nat]

\* The types the arguments need; what sendPush read of the vaults row is not newer than
\* the row, nor is what the phone knows.
Types ==
    /\ latest \in Nat /\ known \in Nat /\ known <= latest
    /\ token \in Nat /\ issued \in Nat \ {0}
    /\ pushes \in Nat
    /\ req \in [Desks -> Request]
    /\ \A d \in Desks : req[d].ver <= latest

\* One claim at most stands: the request between its claim and its push is the one
\* lastSent names, and nothing went out since.
Claims ==
    /\ pushes <= 1
    /\ lastSent = NoOne => pushes = 0
    /\ \A d \in Desks :
           req[d].at \in {"claimed", "send", "rehold"} => lastSent = d /\ pushes = 0

IInv == Types /\ Claims /\ NoChangeLost

(* A request's record after each kind of update.                           *)
LEMMA RequestUpdates ==
    ASSUME NEW r \in Request, NEW p \in Places, NEW v \in Nat, NEW t \in Nat,
           NEW n \in {"fan", "done"}
    PROVE  /\ Idle \in Request /\ [Idle EXCEPT !.at = p] \in Request
           /\ [r EXCEPT !.at = p] \in Request
           /\ [r EXCEPT !.at = p, !.then = n] \in Request
           /\ [r EXCEPT !.at = p, !.ver = v] \in Request
           /\ [r EXCEPT !.at = p, !.ver = v, !.tok = t] \in Request
BY DEF Request, Idle, NoToken, Places

(* What Return leaves in the table of requests.                            *)
LEMMA Returned ==
    ASSUME Types, NEW d \in Desks, Return(d)
    PROVE  /\ req' \in [Desks -> Request]
           /\ req'[d].at \in {"idle", "fan"} /\ req'[d].ver = 0
           /\ \A e \in Desks \ {d} : req'[e] = req[e]
<1>1. "fan" \in Places
  BY DEF Places
<1>2. req[d] \in Request /\ Idle \in Request /\ [Idle EXCEPT !.at = "fan"] \in Request
  <2>1. req[d] \in Request
    BY DEF Types
  <2>. QED
    BY <1>1, <2>1, RequestUpdates
<1>. QED
  BY <1>2 DEF Types, Return, Idle

(* What GoTo leaves in the table of requests.                              *)
LEMMA Gone ==
    ASSUME Types, NEW d \in Desks, NEW p \in Places, GoTo(d, p)
    PROVE  /\ req' \in [Desks -> Request]
           /\ req'[d].at = p /\ req'[d].ver = req[d].ver
           /\ \A e \in Desks \ {d} : req'[e] = req[e]
<1>1. req[d] \in Request
  BY DEF Types
<1>2. [req[d] EXCEPT !.at = p] \in Request
  BY <1>1, RequestUpdates
<1>3. req' = [req EXCEPT ![d] = [req[d] EXCEPT !.at = p]]
  BY DEF GoTo
<1>. QED
  BY <1>1, <1>2, <1>3 DEF Types, Request

(* The first state.                                                        *)
LEMMA InvInit == Init => IInv
<1>. SUFFICES ASSUME Init PROVE IInv
  OBVIOUS
<1>1. Idle \in Request
  BY DEF Idle, Request, Places, NoToken
<1>2. Types
  BY <1>1 DEF Init, Types, Idle
<1>3. Claims
  BY DEF Init, Claims, Idle
<1>. QED
  BY <1>2, <1>3 DEF IInv, Init, NoChangeLost, Knows

(* The desk's commit.                                                      *)
LEMMA InvCommit == ASSUME IInv, NEW d \in Desks, DeskCommit(d) PROVE IInv'
<1>1. req[d] \in Request /\ "commit" \in Places
  BY DEF IInv, Types, Places
<1>2. /\ req' \in [Desks -> Request]
      /\ req'[d].at = "commit" /\ req'[d].ver = req[d].ver
      /\ \A e \in Desks \ {d} : req'[e] = req[e]
  <2>1. [req[d] EXCEPT !.at = "commit", !.then = "fan"] \in Request
    BY <1>1, RequestUpdates
  <2>2. req' = [req EXCEPT ![d] = [req[d] EXCEPT !.at = "commit", !.then = "fan"]]
    BY DEF DeskCommit
  <2>. QED
    BY <1>1, <2>1, <2>2 DEF IInv, Types, Request
<1>3. Types'
  <2>1. \A e \in Desks : req'[e].ver = req[e].ver /\ req[e].ver \in Nat
    BY <1>2 DEF IInv, Types, Request
  <2>. QED
    BY <1>2, <2>1 DEF IInv, Types, DeskCommit
<1>4. Claims'
  BY <1>2 DEF IInv, Claims, DeskCommit
<1>5. NoChangeLost'
  BY <1>2 DEF NoChangeLost, InHand
<1>. QED
  BY <1>3, <1>4, <1>5 DEF IInv

(* A poll.                                                                 *)
LEMMA InvPoll == ASSUME IInv, NEW d \in Desks, DeskPoll(d) PROVE IInv'
<1>1. /\ req' \in [Desks -> Request]
      /\ req'[d].at = "flush" /\ req'[d].ver = req[d].ver
      /\ \A e \in Desks \ {d} : req'[e] = req[e]
  BY Gone DEF IInv, DeskPoll, Places
<1>2. Types'
  BY <1>1 DEF IInv, Types, DeskPoll
<1>3. Claims'
  BY <1>1 DEF IInv, Claims, DeskPoll
<1>4. NoChangeLost'
  BY <1>1 DEF IInv, NoChangeLost, InHand, Knows, DeskPoll
<1>. QED
  BY <1>2, <1>3, <1>4 DEF IInv

(* nudge: the change is in the coalescer's hand.                           *)
LEMMA InvNudge == ASSUME IInv, NEW d \in Desks, Nudge(d) PROVE IInv'
<1>1. /\ req' \in [Desks -> Request]
      /\ req'[d].at = "flush" /\ req'[d].ver = req[d].ver
      /\ \A e \in Desks \ {d} : req'[e] = req[e]
  BY Gone DEF IInv, Nudge, Places
<1>2. Types'
  BY <1>1 DEF IInv, Types, Nudge
<1>3. Claims'
  BY <1>1 DEF IInv, Claims, Nudge
<1>4. NoChangeLost'
  BY DEF NoChangeLost, InHand, Nudge
<1>. QED
  BY <1>2, <1>3, <1>4 DEF IInv

(* flush: a claim is taken only when none stands.                          *)
LEMMA InvFlush == ASSUME IInv, NEW d \in Desks, Flush(d) PROVE IInv'
<1>1. CASE held /\ lastSent = NoOne
  <2>1. /\ req' \in [Desks -> Request]
        /\ req'[d].at = "claimed" /\ req'[d].ver = req[d].ver
        /\ \A e \in Desks \ {d} : req'[e] = req[e]
    BY <1>1, Gone DEF IInv, Flush, Places
  <2>2. Types'
    BY <2>1 DEF IInv, Types, Flush
  <2>3. Claims'
    <3>1. pushes = 0 /\ pushes' = 0 /\ lastSent' = d
      BY <1>1 DEF IInv, Claims, Flush
    <3>2. \A e \in Desks : req[e].at \notin {"claimed", "send", "rehold"}
      BY <1>1, PushAssumption DEF IInv, Claims
    <3>. QED
      BY <2>1, <3>1, <3>2, PushAssumption DEF Claims
  <2>4. NoChangeLost'
    BY <2>1 DEF NoChangeLost, InHand
  <2>. QED
    BY <2>2, <2>3, <2>4 DEF IInv
<1>2. CASE ~(held /\ lastSent = NoOne)
  <2>1. /\ req' \in [Desks -> Request]
        /\ req'[d].at \in {"idle", "fan"} /\ req'[d].ver = 0
        /\ \A e \in Desks \ {d} : req'[e] = req[e]
    BY <1>2, Returned DEF IInv, Flush
  <2>2. Types'
    BY <2>1 DEF IInv, Types, Flush
  <2>3. Claims'
    BY <1>2, <2>1 DEF IInv, Claims, Flush
  <2>4. NoChangeLost'
    BY <1>2, <2>1 DEF IInv, NoChangeLost, InHand, Knows, Flush
  <2>. QED
    BY <2>2, <2>3, <2>4 DEF IInv
<1>. QED
  BY <1>1, <1>2

(* sendPush up to the push.                                                *)
LEMMA InvSendPush == ASSUME IInv, NEW d \in Desks, SendPush(d) PROVE IInv'
<1>1. CASE GoTo(d, "rehold") /\ UNCHANGED excuse
  <2>1. /\ req' \in [Desks -> Request]
        /\ req'[d].at = "rehold" /\ req'[d].ver = req[d].ver
        /\ \A e \in Desks \ {d} : req'[e] = req[e]
    BY <1>1, Gone DEF IInv, Places
  <2>2. Types'
    BY <2>1 DEF IInv, Types, SendPush
  <2>3. Claims'
    BY <2>1 DEF IInv, Claims, SendPush
  <2>4. NoChangeLost'
    BY <2>1 DEF NoChangeLost, InHand
  <2>. QED
    BY <2>2, <2>3, <2>4 DEF IInv
<1>2. CASE Return(d) /\ Dropped
  <2>1. /\ req' \in [Desks -> Request]
        /\ req'[d].at \in {"idle", "fan"} /\ req'[d].ver = 0
        /\ \A e \in Desks \ {d} : req'[e] = req[e]
    BY <1>2, Returned DEF IInv
  <2>2. Types'
    BY <2>1 DEF IInv, Types, SendPush
  <2>3. Claims'
    BY <2>1 DEF IInv, Claims, SendPush
  <2>4. NoChangeLost'
    BY <1>2 DEF NoChangeLost, InHand, Dropped, SendPush
  <2>. QED
    BY <2>2, <2>3, <2>4 DEF IInv
<1>3. CASE /\ req' = [req EXCEPT ![d].at = "send", ![d].ver = latest, ![d].tok = token]
           /\ UNCHANGED excuse
  <2>1. /\ req' \in [Desks -> Request]
        /\ req'[d].at = "send" /\ req'[d].ver = latest
        /\ \A e \in Desks \ {d} : req'[e] = req[e]
    <3>1. req[d] \in Request /\ "send" \in Places /\ latest \in Nat /\ token \in Nat
      BY DEF IInv, Types, Places
    <3>2. [req[d] EXCEPT !.at = "send", !.ver = latest, !.tok = token] \in Request
      BY <3>1, RequestUpdates
    <3>3. req' = [req EXCEPT ![d] = [req[d] EXCEPT !.at = "send", !.ver = latest, !.tok = token]]
      BY <1>3
    <3>. QED
      BY <3>1, <3>2, <3>3 DEF IInv, Types, Request
  <2>2. Types'
    BY <2>1 DEF IInv, Types, SendPush
  <2>3. Claims'
    BY <2>1 DEF IInv, Claims, SendPush
  <2>4. NoChangeLost'
    BY <2>1 DEF NoChangeLost, InHand, SendPush
  <2>. QED
    BY <2>2, <2>3, <2>4 DEF IInv
<1>. QED
  BY <1>1, <1>2, <1>3 DEF SendPush

(* The push: the only one since the claim.                                 *)
LEMMA InvPush == ASSUME IInv, NEW d \in Desks, Push(d) PROVE IInv'
<1>1. lastSent = d /\ lastSent # NoOne /\ pushes = 0 /\ pushes' = 1 /\ lastSent' = lastSent
  BY PushAssumption DEF IInv, Claims, Push
<1>2. \A e \in Desks \ {d} : req[e].at \notin {"claimed", "send", "rehold"}
  BY <1>1 DEF IInv, Claims
<1>3. req[d].ver \in Nat /\ req[d].ver <= latest
  BY DEF IInv, Types, Request
<1>4. /\ req' \in [Desks -> Request]
      /\ req'[d].at \in {"idle", "fan", "forget"} /\ req'[d].ver = 0
      /\ \A e \in Desks \ {d} : req'[e] = req[e]
  <2>1. CASE Return(d)
    BY <2>1, Returned DEF IInv
  <2>2. CASE req' = [req EXCEPT ![d].at = "forget", ![d].ver = 0]
    <3>1. req[d] \in Request /\ "forget" \in Places
      BY DEF IInv, Types, Places
    <3>2. [req[d] EXCEPT !.at = "forget", !.ver = 0] \in Request
      BY <3>1, RequestUpdates
    <3>3. req' = [req EXCEPT ![d] = [req[d] EXCEPT !.at = "forget", !.ver = 0]]
      BY <2>2
    <3>. QED
      BY <3>1, <3>2, <3>3 DEF IInv, Types, Request
  <2>. QED
    BY <2>1, <2>2 DEF Push
<1>5. known' \in Nat /\ known' <= latest /\ (known' = known \/ known' = Larger(known, req[d].ver))
  BY <1>3 DEF IInv, Types, Push, Larger
<1>6. Types'
  BY <1>1, <1>4, <1>5 DEF IInv, Types, Push
<1>7. Claims'
  BY <1>1, <1>2, <1>4 DEF Claims
<1>8. NoChangeLost'
  <2>1. CASE known' = Larger(known, req[d].ver) /\ UNCHANGED excuse
    <3>1. CASE req[d].ver = latest
      BY <2>1, <3>1 DEF IInv, Types, NoChangeLost, Knows, Larger, Push
    <3>2. CASE req[d].ver # latest
      <4>1. Knows => Knows'
        BY <2>1, <1>3 DEF IInv, Types, Knows, Larger, Push
      <4>2. InHand => InHand'
        BY <1>2, <1>4, <3>2 DEF InHand, Push
      <4>. QED
        BY <2>1, <4>1, <4>2 DEF IInv, NoChangeLost
    <3>. QED
      BY <3>1, <3>2
  <2>2. CASE Dropped
    BY <2>2 DEF Dropped, NoChangeLost, InHand, Push
  <2>. QED
    BY <2>1, <2>2 DEF Push
<1>. QED
  BY <1>6, <1>7, <1>8 DEF IInv

(* forgetAPNSToken.                                                        *)
LEMMA InvForget == ASSUME IInv, NEW d \in Desks, ForgetToken(d) PROVE IInv'
<1>1. /\ req' \in [Desks -> Request]
      /\ req'[d].at \in {"idle", "fan"} /\ req'[d].ver = 0
      /\ \A e \in Desks \ {d} : req'[e] = req[e]
  BY Returned DEF IInv, ForgetToken
<1>2. Types'
  BY <1>1 DEF IInv, Types, ForgetToken, NoToken
<1>3. Claims'
  BY <1>1 DEF IInv, Claims, ForgetToken
<1>4. NoChangeLost'
  BY <1>1 DEF IInv, NoChangeLost, InHand, Knows, ForgetToken
<1>. QED
  BY <1>2, <1>3, <1>4 DEF IInv

(* The tail of flush: nothing was sent under the claim given back.         *)
LEMMA InvRehold == ASSUME IInv, NEW d \in Desks, Rehold(d) PROVE IInv'
<1>1. /\ req' \in [Desks -> Request]
      /\ req'[d].at \in {"idle", "fan"} /\ req'[d].ver = 0
      /\ \A e \in Desks \ {d} : req'[e] = req[e]
  BY Returned DEF IInv, Rehold
<1>2. Types'
  BY <1>1 DEF IInv, Types, Rehold
<1>3. Claims'
  <2>1. lastSent = d /\ pushes = 0 /\ pushes' = 0
    BY DEF IInv, Claims, Rehold
  <2>2. \A e \in Desks \ {d} : req[e].at \notin {"claimed", "send", "rehold"}
    BY <2>1 DEF IInv, Claims
  <2>. QED
    BY <1>1, <2>1, <2>2 DEF Claims
<1>4. NoChangeLost'
  BY DEF NoChangeLost, InHand, Rehold
<1>. QED
  BY <1>2, <1>3, <1>4 DEF IInv

(* The fan-out.                                                            *)
LEMMA InvFanOut == ASSUME IInv, NEW d \in Desks, FanOut(d) PROVE IInv'
<1>1. /\ req' \in [Desks -> Request]
      /\ req'[d].at = "flush" /\ req'[d].ver = req[d].ver
      /\ \A e \in Desks \ {d} : req'[e] = req[e]
  BY Gone DEF IInv, FanOut, Places
<1>2. Types'
  BY <1>1 DEF IInv, Types, FanOut
<1>3. Claims'
  BY <1>1 DEF IInv, Claims, FanOut
<1>4. NoChangeLost'
  BY <1>1 DEF IInv, NoChangeLost, InHand, Knows, FanOut
<1>. QED
  BY <1>2, <1>3, <1>4 DEF IInv

(* A step of the phone, its stream or the clock that leaves the requests,  *)
(* the claims and the changes alone and keeps what is held, or names why   *)
(* it is not.                                                              *)
LEMMA InvAside ==
    ASSUME IInv, UNCHANGED <<latest, req, lastSent, known, pushes>>,
           token' \in Nat, issued' \in Nat \ {0},
           Clear \/ UNCHANGED <<held, excuse>>
    PROVE  IInv'
<1>1. Types'
  BY DEF IInv, Types
<1>2. Claims'
  BY DEF IInv, Claims
<1>3. NoChangeLost'
  <2>1. CASE Clear /\ held
    BY <2>1 DEF Clear, NoChangeLost
  <2>2. CASE UNCHANGED <<held, excuse>> \/ (Clear /\ ~held)
    BY <2>2 DEF Clear, IInv, NoChangeLost, InHand, Knows
  <2>. QED
    BY <2>1, <2>2
<1>. QED
  BY <1>1, <1>2, <1>3 DEF IInv

(* The round's reading of the last page.                                   *)
LEMMA InvPullRead == ASSUME IInv, PullRead PROVE IInv'
<1>1. Types'
  BY DEF IInv, Types, PullRead, desk
<1>2. Claims'
  BY DEF IInv, Claims, PullRead, desk
<1>3. NoChangeLost'
  BY DEF NoChangeLost, Knows, PullRead, desk
<1>. QED
  BY <1>1, <1>2, <1>3 DEF IInv

(* The phone's and the clock's other steps.                                *)
LEMMA InvPhone ==
    ASSUME IInv,
           \/ PullCall \/ StatusCall \/ StatusRead \/ RoundFails \/ FeedSteps
           \/ StreamEnds \/ UserSteps \/ StaleCut
    PROVE  IInv'
<1>1. token \in Nat /\ issued \in Nat \ {0}
  BY DEF IInv, Types
<1>2. CASE Register
  BY <1>1, <1>2, InvAside DEF Register, desk
<1>3. CASE PullCall \/ StatusCall \/ FeedCall
  BY <1>1, <1>3, InvAside DEF PullCall, StatusCall, FeedCall, desk
<1>4. CASE StatusRead \/ RoundFails \/ Subscribe \/ TakeEvent \/ StreamEnds \/ StaleCut
  BY <1>1, <1>4, InvAside
     DEF StatusRead, RoundFails, Subscribe, TakeEvent, StreamEnds, StaleCut, desk
<1>5. CASE OpenApp \/ Wake \/ CloseApp \/ KillApp
  BY <1>1, <1>5, InvAside DEF OpenApp, Wake, CloseApp, KillApp, desk
<1>. QED
  BY <1>2, <1>3, <1>4, <1>5 DEF FeedSteps, UserSteps

(* The spacing passes: no request holds a claim.                           *)
LEMMA InvSpacing == ASSUME IInv, SpacingPasses PROVE IInv'
<1>1. Types'
  BY DEF IInv, Types, SpacingPasses, desk
<1>2. Claims'
  BY DEF IInv, Claims, SpacingPasses, desk
<1>3. NoChangeLost'
  BY DEF IInv, NoChangeLost, InHand, Knows, SpacingPasses, desk
<1>. QED
  BY <1>1, <1>2, <1>3 DEF IInv

(* A new instance.                                                         *)
LEMMA InvCold == ASSUME IInv, ColdInstance PROVE IInv'
<1>1. Idle \in Request
  BY DEF Idle, Request, Places, NoToken
<1>2. Types'
  BY <1>1 DEF IInv, Types, ColdInstance, Idle
<1>3. Claims'
  BY DEF Claims, ColdInstance, Idle
<1>4. NoChangeLost'
  BY DEF NoChangeLost, ColdInstance
<1>. QED
  BY <1>2, <1>3, <1>4 DEF IInv

(* Every step keeps the invariant.                                         *)
LEMMA InvStep == IInv /\ [Next]_vars => IInv'
<1>. SUFFICES ASSUME IInv, [Next]_vars PROVE IInv'
  OBVIOUS
<1>1. ASSUME NEW d \in Desks, DeskCommit(d) \/ DeskPoll(d) \/ DeskSteps(d) PROVE IInv'
  BY <1>1, InvCommit, InvPoll, InvNudge, InvFlush, InvSendPush, InvPush, InvForget, InvRehold,
     InvFanOut DEF DeskSteps
<1>2. CASE RoundSteps \/ RoundFails \/ FeedSteps \/ StreamEnds \/ UserSteps \/ StaleCut
  BY <1>2, InvPullRead, InvPhone DEF RoundSteps
<1>3. CASE SpacingPasses
  BY <1>3, InvSpacing
<1>4. CASE ColdInstance
  BY <1>4, InvCold
<1>5. CASE UNCHANGED vars
  <2>1. token' \in Nat /\ issued' \in Nat \ {0}
    BY <1>5 DEF IInv, Types, vars
  <2>. QED
    BY <1>5, <2>1, InvAside DEF vars
<1>. QED
  BY <1>1, <1>2, <1>3, <1>4, <1>5 DEF Next

(* So it always holds.                                                    *)
LEMMA InvAlways == Spec => []IInv
BY InvInit, InvStep, PTL DEF Spec

(* A change of the desk is read by the phone, pushed to it or still in the *)
(* server's hand, unless one of the named reasons dropped it (nudge, flush *)
(* and clear of feed.go), however many desk requests run at once.          *)
THEOREM ChangeKept == Spec => []NoChangeLost
<1>1. IInv => NoChangeLost
  BY DEF IInv
<1>. QED
  BY <1>1, InvAlways, PTL

(* At most one push goes out per spacing, however many requests flush at   *)
(* once: the claim of flush is taken under the lock, before the send.      *)
THEOREM OnePushPerSpacing == Spec => []PushesSpaced
<1>1. IInv => PushesSpaced
  BY DEF IInv, Claims, PushesSpaced
<1>. QED
  BY <1>1, InvAlways, PTL

(* Only a token APNs called gone is taken from the phone's row             *)
(* (forgetAPNSToken), whatever the phone registers while a push is out.    *)
THEOREM RegisteredTokenKept == Spec => OnlyGoneForgotten
<1>. DEFINE Forgets == token' # token /\ token' = NoToken =>
                           \E d \in Desks : req[d].at = "forget" /\ req[d].tok = token
<1>1. ASSUME IInv, [Next]_vars PROVE Forgets
  <2>1. ASSUME NEW d \in Desks, ForgetToken(d) PROVE Forgets
    BY <2>1 DEF ForgetToken
  <2>2. CASE Register
    BY <1>1, <2>2 DEF Register, IInv, Types, NoToken
  <2>3. CASE UNCHANGED token
    BY <2>3
  <2>4. ASSUME NEW d \in Desks, DeskCommit(d) \/ DeskPoll(d) \/ DeskSteps(d)
        PROVE  ForgetToken(d) \/ UNCHANGED token
    BY <2>4 DEF DeskSteps, DeskCommit, DeskPoll, Nudge, Flush, SendPush, Push, Rehold, FanOut
  <2>5. ASSUME \/ RoundSteps \/ RoundFails \/ FeedSteps \/ StreamEnds \/ UserSteps
               \/ StaleCut \/ SpacingPasses \/ ColdInstance
        PROVE  Register \/ UNCHANGED token
    BY <2>5 DEF RoundSteps, RoundFails, FeedSteps, StreamEnds, UserSteps, StaleCut,
       SpacingPasses, ColdInstance, PullCall, PullRead, StatusCall, StatusRead, FeedCall,
       Subscribe, TakeEvent, OpenApp, Wake, CloseApp, KillApp
  <2>6. CASE UNCHANGED vars
    BY <2>3, <2>6 DEF vars
  <2>7. CASE \E d \in Desks : DeskCommit(d) \/ DeskPoll(d) \/ DeskSteps(d)
    BY <2>1, <2>3, <2>4, <2>7
  <2>8. CASE \/ RoundSteps \/ RoundFails \/ FeedSteps \/ StreamEnds \/ UserSteps
             \/ StaleCut \/ SpacingPasses \/ ColdInstance
    BY <2>2, <2>3, <2>5, <2>8
  <2>. QED
    BY <1>1, <2>6, <2>7, <2>8 DEF Next
<1>. QED
  BY <1>1, InvAlways, PTL DEF Spec, OnlyGoneForgotten
===============================================================================
