------------------------------- MODULE PushFeed -------------------------------
(***************************************************************************)
(* How the phone hears of a change at the desk: the change feed and the    *)
(* push coalescer of feed.go, sendPush and withVault of vault.go, and the  *)
(* phone's loop that syncs and then holds the feed (start, handle and sync *)
(* of SyncEngine.swift).                                                   *)
(*                                                                         *)
(* One vault.  A desk request runs its handler, which may commit a change  *)
(* and publish it, and flushes the held push before it answers; every      *)
(* phone request clears the held push before its handler reads.  Several   *)
(* requests run at once, each lock region and database call is a step.     *)
(*                                                                         *)
(* lastSent is kept as the request whose claim set it, NoOne once the      *)
(* spacing has passed: flush claims only then, so the older time it puts   *)
(* back never blocks a push.  A change is its number; an ack's event is    *)
(* pushed like a file's.  The answer to APNs is an outcome.  Left out: the *)
(* ping's credential check, vault and device events, the deleted vault.    *)
(***************************************************************************)
EXTENDS Naturals

CONSTANTS
    Desks,       \* desk requests that may run at once
    NoOne,       \* no claim stands: a push may go out
    MaxChanges,  \* bound on the desk's changes
    MaxTokens,   \* bound on the push tokens the phone gets from iOS
    Slots,       \* events a stream's channel holds
    MaxFaults    \* bound on refused pushes, failed rounds and cold instances

ASSUME PushAssumption ==
    /\ NoOne \notin Desks
    /\ MaxChanges \in Nat /\ MaxTokens \in Nat \ {0}
    /\ Slots \in Nat \ {0} /\ MaxFaults \in Nat

NoToken == 0

VARIABLES
    latest,    \* the desk's changes so far, counted in the vaults row
    token,     \* the apns_token of the phone's row
    held,      \* the coalescer's held flag
    lastSent,  \* whose claim stands within the spacing
    req,       \* each desk request: where it is and the locals of sendPush
    stale,     \* a stream a killed app left behind is still subscribed
    queue,     \* events in the channel of the phone's own stream
    loop,      \* the phone's feed loop
    round,     \* the phone's sync round
    again,     \* the engine's again flag
    issued,    \* the newest token iOS gave the phone
    \* history and bounds
    known,     \* the newest change the phone has read or APNs took a push of
    excuse,    \* why the newest change is neither held nor under way, if so
    pushes,    \* pushes sent within the spacing
    faults

desk  == <<latest, req>>
phone == <<loop, round, again>>
vars  == <<latest, token, held, lastSent, req, stale, queue, loop, round, again, issued,
           known, excuse, pushes, faults>>

Idle == [at |-> "idle", then |-> "done", ver |-> 0, tok |-> NoToken]

Init ==
    /\ latest = 0 /\ known = 0
    /\ token = 1 /\ issued = 1
    /\ held = FALSE /\ lastSent = NoOne
    /\ req = [d \in Desks |-> Idle]
    /\ stale = FALSE /\ queue = 0
    /\ loop = "off" /\ round = "idle" /\ again = FALSE
    /\ excuse = "none" /\ pushes = 0 /\ faults = 0

Larger(a, b) == IF a > b THEN a ELSE b

\* phoneListening: any subscriber with the phone's role counts.
PhoneListening == stale \/ loop \in {"listen", "handle"}

\* flush returns into publish, which fans out, or into withVault, which answers.
Return(d) ==
    req' = [req EXCEPT ![d] = IF req[d].then = "fan" THEN [Idle EXCEPT !.at = "fan"] ELSE Idle]

GoTo(d, step) == req' = [req EXCEPT ![d].at = step]

\* A push that will not be tried again: nothing else carries the change.
Dropped == excuse' = IF held THEN excuse ELSE "failed"

Fault == faults < MaxFaults /\ faults' = faults + 1
-------------------------------------------------------------------------------
(* The desk's requests. *)

\* A commit, a deletion or an ack: its transaction, then publish.
DeskCommit(d) ==
    /\ req[d].at = "idle" /\ latest < MaxChanges
    /\ latest' = latest + 1
    /\ req' = [req EXCEPT ![d].at = "commit", ![d].then = "fan"]
    /\ UNCHANGED <<token, held, lastSent, stale, queue, phone, issued, known, excuse, pushes,
                   faults>>

\* Mutant: withVault flushes only after the requests that publish.
PollUnflushed(d) == req[d].at = "idle" /\ UNCHANGED vars

\* A request that changes nothing, the minute's GET /v1/vault/writes above all.
DeskPoll(d) ==
    /\ req[d].at = "idle"
    /\ GoTo(d, "flush")
    /\ UNCHANGED <<latest, token, held, lastSent, stale, queue, phone, issued, known, excuse,
                   pushes, faults>>

\* nudge, called by publish before the fan-out.
Nudge(d) ==
    /\ req[d].at = "commit"
    /\ held' = TRUE
    /\ excuse' = "none"
    /\ GoTo(d, "flush")
    /\ UNCHANGED <<latest, token, lastSent, stale, queue, phone, issued, known, pushes, faults>>

\* Mutant: the slot is claimed by the flag alone, lastSent is left for later.
FlushUnclaimed(d) ==
    /\ req[d].at = "flush"
    /\ IF held /\ lastSent = NoOne
       THEN GoTo(d, "claimed") /\ held' = FALSE
       ELSE Return(d) /\ UNCHANGED held
    /\ UNCHANGED <<latest, token, lastSent, stale, queue, phone, issued, known, excuse,
                   pushes, faults>>

\* flush up to its unlock: the slot is claimed before anything is sent.
Flush(d) ==
    /\ req[d].at = "flush"
    /\ IF held /\ lastSent = NoOne
       THEN GoTo(d, "claimed") /\ held' = FALSE /\ lastSent' = d
       ELSE Return(d) /\ UNCHANGED <<held, lastSent>>
    /\ UNCHANGED <<latest, token, stale, queue, phone, issued, known, excuse, pushes, faults>>

\* sendPush up to the push: the listening test, then the vault's and the phone's row.
SendPush(d) ==
    /\ req[d].at = "claimed"
    /\ CASE PhoneListening -> GoTo(d, "rehold") /\ UNCHANGED excuse
         [] ~PhoneListening /\ token = NoToken -> Return(d) /\ Dropped
         [] OTHER -> /\ req' = [req EXCEPT ![d].at = "send", ![d].ver = latest,
                                           ![d].tok = token]
                     /\ UNCHANGED excuse
    /\ UNCHANGED <<latest, token, held, lastSent, stale, queue, phone, issued, known, pushes,
                   faults>>

\* APNs takes the push, refuses it or cannot be reached, or says the token is gone.
Push(d) ==
    /\ req[d].at = "send"
    /\ pushes' = pushes + 1
    /\ \/ /\ known' = Larger(known, req[d].ver)
          /\ Return(d)
          /\ UNCHANGED <<excuse, faults>>
       \/ /\ Fault /\ Dropped
          /\ Return(d)
          /\ UNCHANGED known
       \/ \* iOS replaced the token, or the app is removed
          /\ IF req[d].tok < issued THEN UNCHANGED faults ELSE Fault
          /\ Dropped
          /\ req' = [req EXCEPT ![d].at = "forget", ![d].ver = 0]
          /\ UNCHANGED known
    /\ UNCHANGED <<latest, token, held, lastSent, stale, queue, phone, issued>>

\* Mutant: the row's token is cleared without looking which one it is.
ForgetAnyToken(d) ==
    /\ req[d].at = "forget"
    /\ token' = NoToken
    /\ Return(d)
    /\ UNCHANGED <<latest, held, lastSent, stale, queue, phone, issued, known, excuse, pushes,
                   faults>>

\* forgetAPNSToken: only if it is still the token that failed.
ForgetToken(d) ==
    /\ req[d].at = "forget"
    /\ token' = IF token = req[d].tok THEN NoToken ELSE token
    /\ Return(d)
    /\ UNCHANGED <<latest, held, lastSent, stale, queue, phone, issued, known, excuse, pushes,
                   faults>>

\* Mutant: a push a listening phone made unnecessary is not held again.
NoRehold(d) ==
    /\ req[d].at = "rehold"
    /\ lastSent' = IF lastSent = d THEN NoOne ELSE lastSent
    /\ Return(d)
    /\ UNCHANGED <<latest, token, held, stale, queue, phone, issued, known, excuse, pushes,
                   faults>>

\* The tail of flush when a phone listens: held again, the claim given back.
Rehold(d) ==
    /\ req[d].at = "rehold"
    /\ held' = TRUE
    /\ lastSent' = IF lastSent = d THEN NoOne ELSE lastSent
    /\ excuse' = "none"
    /\ Return(d)
    /\ UNCHANGED <<latest, token, stale, queue, phone, issued, known, pushes, faults>>

\* The fan-out of publish: a full channel loses the event.  withVault flushes next.
FanOut(d) ==
    /\ req[d].at = "fan"
    /\ queue' = IF loop \in {"listen", "handle"} /\ queue < Slots THEN queue + 1 ELSE queue
    /\ GoTo(d, "flush")
    /\ UNCHANGED <<latest, token, held, lastSent, stale, phone, issued, known, excuse, pushes,
                   faults>>
-------------------------------------------------------------------------------
(* The phone. *)

\* withVault, before the handler of a phone's request.
Clear ==
    /\ held' = FALSE
    /\ excuse' = IF held THEN "cleared" ELSE excuse

\* sync: start a round, or ask the running one to go again.
Sync ==
    IF round = "idle" THEN round' = "pull" /\ UNCHANGED again
                      ELSE again' = TRUE /\ UNCHANGED round

\* The end of a round: once more if asked, else those who wait go on.
RoundEnds ==
    /\ round' = IF again THEN "pull" ELSE "idle"
    /\ again' = FALSE
    /\ loop' = IF again THEN loop
               ELSE CASE loop = "sync" -> "connect" [] loop = "handle" -> "listen"
                      [] OTHER -> loop

\* start: the app comes to the foreground.
OpenApp ==
    /\ loop = "off"
    /\ loop' = "sync"
    /\ Sync
    /\ UNCHANGED <<desk, token, held, lastSent, stale, queue, issued, known, excuse, pushes,
                   faults>>

\* A silent push, a watch request or a local write asks for a round (one that comes
\* during a round is no different from OpenApp's or TakeEvent's).
Wake ==
    /\ round = "idle"
    /\ Sync
    /\ UNCHANGED <<desk, token, held, lastSent, stale, queue, loop, issued, known, excuse,
                   pushes, faults>>

\* The writes and the pages of the list are requested: each request clears.
PullCall ==
    /\ round = "pull"
    /\ Clear
    /\ round' = "pulling"
    /\ UNCHANGED <<desk, token, lastSent, stale, queue, loop, again, issued, known, pushes,
                   faults>>

\* The last page is read.
PullRead ==
    /\ round = "pulling"
    /\ known' = latest
    /\ excuse' = "none"
    /\ round' = "status"
    /\ UNCHANGED <<desk, token, held, lastSent, stale, queue, loop, again, issued, pushes,
                   faults>>

\* GET /v1/vault, the last request of a round, clears too and reads no file.
StatusCall ==
    /\ round = "status"
    /\ Clear
    /\ round' = "asking"
    /\ UNCHANGED <<desk, token, lastSent, stale, queue, loop, again, issued, known, pushes,
                   faults>>

StatusRead ==
    /\ round = "asking"
    /\ RoundEnds
    /\ UNCHANGED <<desk, token, held, lastSent, stale, queue, issued, known, excuse, pushes,
                   faults>>

\* A request of the round fails; what the round cleared stays cleared.
RoundFails ==
    /\ round # "idle" /\ Fault
    /\ RoundEnds
    /\ UNCHANGED <<desk, token, held, lastSent, stale, queue, issued, known, excuse, pushes>>

\* The feed request is let in: clear, and only then subscribe.
FeedCall ==
    /\ loop = "connect"
    /\ Clear
    /\ loop' = "admitted"
    /\ UNCHANGED <<desk, token, lastSent, stale, queue, round, again, issued, known, pushes,
                   faults>>

Subscribe ==
    /\ loop = "admitted"
    /\ loop' = "listen"
    /\ queue' = 0
    /\ UNCHANGED <<desk, token, held, lastSent, stale, round, again, issued, known, excuse,
                   pushes, faults>>

\* handle: a file or ack event asks for a round and waits for it.
TakeEvent ==
    /\ loop = "listen" /\ queue > 0
    /\ queue' = queue - 1
    /\ loop' = "handle"
    /\ Sync
    /\ UNCHANGED <<desk, token, held, lastSent, stale, issued, known, excuse, pushes, faults>>

\* maxAge passes or the connection breaks: the loop syncs and connects again.
StreamEnds ==
    /\ loop \in {"admitted", "listen", "handle"}
    /\ loop' = "sync"
    /\ queue' = 0
    /\ Sync
    /\ UNCHANGED <<desk, token, held, lastSent, stale, issued, known, excuse, pushes, faults>>

\* stop: the app leaves the foreground and closes its stream, unread events go.
CloseApp ==
    /\ loop # "off"
    /\ loop' = "off"
    /\ queue' = 0
    /\ UNCHANGED <<desk, token, held, lastSent, stale, round, again, issued, known, excuse,
                   pushes, faults>>

\* The app is killed: its stream stays subscribed, its round is over.
KillApp ==
    /\ loop # "off" \/ round # "idle"
    /\ stale' = (stale \/ loop \in {"listen", "handle"})
    /\ loop' = "off" /\ queue' = 0
    /\ round' = "idle" /\ again' = FALSE
    /\ UNCHANGED <<desk, token, held, lastSent, issued, known, excuse, pushes, faults>>

\* updatePushToken: the PATCH clears like any phone request and sets the row's token.
Register ==
    /\ Clear
    /\ \E new \in {issued, issued + 1} :
           /\ new <= MaxTokens /\ new # token
           /\ issued' = new /\ token' = new
    /\ UNCHANGED <<desk, lastSent, stale, queue, phone, known, pushes, faults>>
-------------------------------------------------------------------------------
(* Time and the instance. *)

\* maxAge passes on the stream nobody reads.
StaleCut ==
    /\ stale
    /\ stale' = FALSE
    /\ UNCHANGED <<desk, token, held, lastSent, queue, phone, issued, known, excuse, pushes,
                   faults>>

\* Ten minutes after the last claim.  A claim is in flight for five seconds at most.
SpacingPasses ==
    /\ lastSent # NoOne \/ pushes > 0
    /\ \A d \in Desks : req[d].at \notin {"claimed", "send", "forget", "rehold"}
    /\ lastSent' = NoOne /\ pushes' = 0
    /\ UNCHANGED <<desk, token, held, stale, queue, phone, issued, known, excuse, faults>>

\* A new instance (max-instances is 1): the maps of feed.go and what ran are gone.
ColdInstance ==
    /\ Fault
    /\ held' = FALSE /\ lastSent' = NoOne /\ pushes' = 0
    /\ req' = [d \in Desks |-> Idle]
    /\ stale' = FALSE /\ queue' = 0
    /\ IF loop \in {"admitted", "listen", "handle"}
       THEN loop' = "sync" /\ Sync
       ELSE UNCHANGED <<loop, round, again>>
    /\ excuse' = "failed"
    /\ UNCHANGED <<latest, token, issued, known>>

DeskSteps(d) ==
    \/ Nudge(d) \/ Flush(d) \/ SendPush(d) \/ Push(d) \/ ForgetToken(d)
    \/ Rehold(d) \/ FanOut(d)
RoundSteps == PullCall \/ PullRead \/ StatusCall \/ StatusRead
FeedSteps  == FeedCall \/ Subscribe \/ TakeEvent
UserSteps  == OpenApp \/ Wake \/ CloseApp \/ KillApp \/ Register

Next ==
    \/ \E d \in Desks : DeskCommit(d) \/ DeskPoll(d) \/ DeskSteps(d)
    \/ RoundSteps \/ RoundFails \/ FeedSteps \/ StreamEnds \/ UserSteps
    \/ StaleCut \/ SpacingPasses \/ ColdInstance

\* The desk is open: its requests end and it polls.  A phone that runs, runs its
\* round and its loop.  Time passes.  Nothing is asked of the user.
Fairness ==
    /\ \A d \in Desks : WF_vars(DeskPoll(d) \/ DeskSteps(d))
    /\ WF_vars(RoundSteps) /\ WF_vars(FeedSteps)
    /\ WF_vars(StreamEnds) /\ WF_vars(StaleCut) /\ WF_vars(SpacingPasses)

Spec == Init /\ [][Next]_vars /\ Fairness
-------------------------------------------------------------------------------
\* The phone knows of the newest change, from its own reading or from a push.
Knows == latest = known

\* The server has the change in hand: held, or in a desk request that will hold it, push
\* it or hold it again.
InHand ==
    \/ held
    \/ \E d \in Desks : \/ req[d].at \in {"commit", "claimed", "rehold"}
                        \/ req[d].at = "send" /\ req[d].ver = latest

\* The server keeps a change in hand until the phone has read it or APNs took a push of it,
\* unless a phone's request cleared it, its push was refused or had no token, or the
\* instance went: whatever desk requests, claims, streams and rounds do to each other,
\* none of them loses it, and no event in a stream is relied on (nudge, flush, clear).
NoChangeLost == Knows \/ InHand \/ excuse # "none"

\* However many desk requests flush at once, one push goes out per spacing: the claim of
\* flush is taken before the send and given back only when nothing was sent.
PushesSpaced == pushes <= 1

\* A token APNs called gone is forgotten, one the phone registered meanwhile is not
\* (forgetAPNSToken after a push that took its time).
OnlyGoneForgotten == [][token' # token /\ token' = NoToken =>
                           \E d \in Desks : req[d].at = "forget" /\ req[d].tok = token]_vars

\* While the desk is open, a change the phone missed is read or pushed in the end, or it
\* was dropped for one of the named reasons: flush after every desk request, the cut of
\* stale streams and the claim given back leave no push held for ever.
ChangeArrives == [](~Knows => <>(Knows \/ excuse # "none"))
===============================================================================
