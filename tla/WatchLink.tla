------------------------------ MODULE WatchLink -------------------------------
(***************************************************************************)
(* The watch's requests to the phone: the outbox of WatchOutbox.swift, the *)
(* two transports of WatchConnection in WatchModel.swift, the phone's      *)
(* answers in PhoneWatchLink.swift, AppModel.receive and                   *)
(* VaultSession.handle, and its table watch_requests.                      *)
(*                                                                         *)
(* A request is numbered by its id and stands for what the person asked    *)
(* for, its words; Try again sends the same words under a new id.  A       *)
(* message (sendMessage) can fail or lose its reply, and falls back on the *)
(* queue (transferUserInfo) after ten seconds; the queue outlives either   *)
(* app, and loses a request only in a re-pair.  Neither keeps an order     *)
(* here.  A message sent again while it is in the air is merged with it.   *)
(*                                                                         *)
(* The handler is one step: it runs on the main actor from the look-up to  *)
(* the record.  Every change of the outbox is persisted in the handler     *)
(* that makes it, so memory and file differ only in their dates, which the *)
(* files and the wire keep in whole seconds (.iso8601); the app may be     *)
(* killed between the hand-over to the queue and the mark, or with an      *)
(* answer in hand.  The phone's clock and the watch's agree.  Left out:    *)
(* the draft, days asked for, refreshes, an app that speaks another        *)
(* version of the link, the month after which a handled id is forgotten, a *)
(* disk that refuses the watch's own files.                                *)
(***************************************************************************)
EXTENDS Naturals, Sequences, FiniteSets

CONSTANTS
    Kinds,         \* what a request may be: "capture", "tick"
    MaxWords,      \* bound on the captures and ticks the person makes
    MaxRequests,   \* bound on the request ids the watch makes, retries included
    MaxSnapshots,  \* bound on the snapshots the phone sends
    MaxSeconds,    \* bound on the whole seconds that dates fall in
    MaxFaults      \* bound on lost messages, crashes, re-pairs and store errors

ASSUME WatchAssumption ==
    /\ Kinds \subseteq {"capture", "tick"}
    /\ MaxWords \in Nat /\ MaxRequests \in Nat /\ MaxFaults \in Nat
    /\ MaxSnapshots \in Nat /\ MaxSeconds \in Nat

Ids == 1..MaxRequests

VARIABLES
    asked,    \* every request made: its words and its kind, indexed by its id
    items,    \* outbox.json: each id's state, transferred mark and saved date
    watch,    \* the watch's app: down, starting (not activated yet) or up
    air,      \* messages on their way to the phone
    queued,   \* the watch's outstandingUserInfoTransfers: how many hold each id
    phase,    \* the phone's app: ready, or welcome where its store did not open
    handled,  \* watch_requests: the outcome recorded of each id
    replies,  \* replies to messages, on their way to the watch
    acks,     \* answers the phone queued for the watch
    snaps,    \* each snapshot sent: the words whose write it shows, and its date
    shown,    \* which of them the watch has
    \* history and bounds
    wrote,       \* how often the phone wrote each words to its store
    unrecorded,  \* ids the phone answered or wrote without recording it
    dropped,     \* words the person deleted, and ticks refused
    cut,         \* how often the watch was killed having handed an id over unmarked
    faults

link    == <<air, queued>>
phone   == <<phase, handled, wrote, unrecorded>>
answers == <<replies, acks>>
reading == <<snaps, shown>>
vars    == <<asked, items, watch, link, phone, answers, reading, dropped, cut, faults>>

NoItem == [state |-> "none", transferred |-> FALSE, at |-> 0]
Item   == [state |-> "waiting", transferred |-> FALSE, at |-> 0]

Words(id)  == asked[id].words
IdsOf(w)   == {id \in DOMAIN asked : Words(id) = w}
AllWords   == {Words(id) : id \in DOMAIN asked}
Shown      == {w \in AllWords : wrote[w] > 0}   \* what a snapshot made now would show

\* Dates, in half seconds: an even one is a whole second, an odd one an instant within it.
Within(s) == 2 * s + 1
Whole(t)  == t - (t % 2)   \* a date once written and read by .iso8601

\* Time shows in dates only: an event may fall in any second that no date held is after.
NoDateAfter(s) ==
    /\ \A id \in Ids : items[id].at <= Within(s)
    /\ \A n \in DOMAIN snaps : snaps[n].madeAt <= Within(s)

Init ==
    /\ asked = <<>> /\ items = [id \in Ids |-> NoItem]
    /\ watch = "starting"
    /\ air = {} /\ queued = [id \in Ids |-> 0]
    /\ phase = "ready" /\ handled = [id \in Ids |-> "none"]
    /\ replies = {} /\ acks = {}
    /\ snaps = <<>> /\ shown = 0
    /\ wrote = [w \in Ids |-> 0] /\ unrecorded = {} /\ dropped = {}
    /\ cut = [id \in Ids |-> 0] /\ faults = 0

Fault == faults < MaxFaults /\ faults' = faults + 1

-------------------------------------------------------------------------------
(* The watch's outbox and its two transports.                              *)

Waits(its, id) == its[id].state = "waiting" /\ ~its[id].transferred

\* transfer: the queue takes each of ids that still waits and is not marked, and marks it.
Transfer(its, ids) ==
    LET take == {id \in ids : Waits(its, id)}
    IN  /\ items'  = [id \in Ids |-> IF id \in take THEN [its[id] EXCEPT !.transferred = TRUE]
                                     ELSE its[id]]
        /\ queued' = [id \in Ids |-> IF id \in take THEN queued[id] + 1 ELSE queued[id]]

\* send: nothing before activation; a message with its timer in reach, else the queue.
Send(its, ids) ==
    \/ watch = "starting" /\ items' = its /\ UNCHANGED link
    \/ watch = "up" /\ Transfer(its, ids) /\ UNCHANGED air
    \/ /\ watch = "up" /\ items' = its
       /\ air' = air \cup ids /\ UNCHANGED queued

\* save and toggle, both through enqueue.
Enqueue(kind) ==
    LET id == Len(asked) + 1
    IN  /\ id \in Ids /\ Cardinality(AllWords) < MaxWords
        /\ watch # "down"
        /\ asked' = Append(asked, [words |-> id, kind |-> kind])
        /\ Send([items EXCEPT ![id] = Item], {id})
        /\ UNCHANGED <<watch, phone, answers, reading, dropped, cut, faults>>

\* resendWaiting, when the app becomes active or the phone comes back in reach.
ResendWaiting ==
    LET ids == {id \in Ids : Waits(items, id)}
    IN  /\ watch = "up" /\ ids # {}
        /\ Send(items, ids)
        /\ UNCHANGED <<asked, watch, phone, answers, reading, dropped, cut, faults>>

\* Ten seconds without an answer.  While the watch is up, a request that waits unmarked was
\* sent as a message since activation, so its timer runs; the timers of others do nothing.
TimerFires(id) ==
    /\ watch = "up" /\ Waits(items, id)
    /\ Transfer(items, {id})
    /\ UNCHANGED <<asked, watch, air, phone, answers, reading, dropped, cut, faults>>

\* The errorHandler: the message never arrived, or its reply did not.
MessageFails(id) ==
    /\ Fault /\ id \in air /\ air' = air \ {id}
    /\ Transfer(items, {id})
    /\ UNCHANGED <<asked, watch, phone, answers, reading, dropped, cut>>

ReplyFails(ack) ==
    /\ Fault /\ ack \in replies /\ replies' = replies \ {ack}
    /\ Transfer(items, {ack.id})
    /\ UNCHANGED <<asked, watch, air, phone, acks, reading, dropped, cut>>

\* Try again on a refused request: the same words under a new id, sent afresh.
Retry(id) ==
    LET new == Len(asked) + 1
    IN  /\ new \in Ids /\ watch # "down" /\ items[id].state = "refused"
        /\ asked' = Append(asked, asked[id])
        /\ Send([items EXCEPT ![id] = NoItem, ![new] = Item], {new})
        /\ UNCHANGED <<watch, phone, answers, reading, dropped, cut, faults>>

\* Delete, offered on a refused request and on one that waits.
Delete(id) ==
    /\ watch # "down" /\ items[id].state \in {"waiting", "refused"}
    /\ items' = [items EXCEPT ![id] = NoItem]
    /\ dropped' = dropped \cup {Words(id)}
    /\ UNCHANGED <<asked, watch, link, phone, answers, reading, cut, faults>>

\* Mutant: a refused capture leaves the outbox as a refused tick does.
ApplyDropped(ack, date) ==
    [items EXCEPT ![ack.id] =
        IF @.state = "none" THEN @
        ELSE IF ack.outcome = "saved"
             THEN [@ EXCEPT !.state = "saved", !.at = date]
             ELSE NoItem]

\* apply: an answer to nothing changes nothing; a refused tick is dropped.
Apply(ack, date) ==
    [items EXCEPT ![ack.id] =
        IF @.state = "none" THEN @
        ELSE IF ack.outcome = "saved"
             THEN [@ EXCEPT !.state = "saved", !.at = date]
             ELSE IF asked[ack.id].kind = "tick" THEN NoItem ELSE [@ EXCEPT !.state = "refused", !.at = 0]]

\* settle, of a reply or of an answer the phone queued.
Settle(ack) ==
    /\ watch = "up"
    /\ \/ ack \in replies /\ replies' = replies \ {ack} /\ UNCHANGED acks
       \/ ack \in acks /\ acks' = acks \ {ack} /\ UNCHANGED replies
    /\ \E s \in 0..MaxSeconds : NoDateAfter(s) /\ items' = Apply(ack, Within(s))
    /\ dropped' = IF ack.outcome = "refused" /\ asked[ack.id].kind = "tick"
                  THEN dropped \cup {Words(ack.id)} ELSE dropped
    /\ UNCHANGED <<asked, watch, link, phone, reading, cut, faults>>

\* Mutant: every saved request is forgotten with the next snapshot that arrives.
ForgetAllSaved(date) ==
    [id \in Ids |-> IF items[id].state = "saved" THEN NoItem ELSE items[id]]

ForgetSaved(date) ==
    [id \in Ids |-> IF items[id].state = "saved" /\ items[id].at <= date THEN NoItem
                    ELSE items[id]]

\* take: the context or a complication's copy; one older than the watch's is ignored.
Take(n) ==
    /\ watch = "up" /\ n \in DOMAIN snaps
    /\ shown # 0 => snaps[n].madeAt >= snaps[shown].madeAt
    /\ shown' = n /\ items' = ForgetSaved(snaps[n].madeAt)
    /\ UNCHANGED <<asked, watch, link, phone, answers, snaps, dropped, cut, faults>>

KillWatch ==
    /\ watch # "down" /\ watch' = "down"
    /\ air' = {} /\ replies' = {}
    /\ UNCHANGED <<asked, items, queued, phone, acks, reading, dropped, cut, faults>>

\* Killed in transfer: the system has the request, the outbox file has no mark of it.
KillInTransfer(id) ==
    /\ Fault /\ watch = "up" /\ Waits(items, id)
    /\ queued' = [queued EXCEPT ![id] = @ + 1]
    /\ cut' = [cut EXCEPT ![id] = @ + 1]
    /\ watch' = "down" /\ air' = {} /\ replies' = {}
    /\ UNCHANGED <<asked, items, phone, acks, reading, dropped>>

\* Killed in settle: the system delivered the answer, the outbox file does not have it.
KillInSettle(ack) ==
    /\ Fault /\ watch = "up" /\ ack \in acks /\ acks' = acks \ {ack}
    /\ watch' = "down" /\ air' = {} /\ replies' = {}
    /\ UNCHANGED <<asked, items, queued, phone, reading, dropped, cut>>

\* A re-pair or a reinstall loses what the system queued for the phone.
RePair ==
    /\ Fault /\ \E id \in Ids : queued[id] > 0
    /\ queued' = [id \in Ids |-> 0]
    /\ watch' = "down" /\ air' = {} /\ replies' = {}
    /\ UNCHANGED <<asked, items, phone, acks, reading, dropped, cut>>

\* The outbox is read from its file, its dates in whole seconds.
Launch ==
    /\ watch = "down" /\ watch' = "starting"
    /\ items' = [id \in Ids |-> [items[id] EXCEPT !.at = Whole(@)]]
    /\ UNCHANGED <<asked, link, phone, answers, reading, dropped, cut, faults>>

\* Mutant: every waiting request's mark is taken back, the queue's own among them.
ReconcileAll ==
    [id \in Ids |-> IF items[id].state = "waiting" THEN [items[id] EXCEPT !.transferred = FALSE]
                    ELSE items[id]]

\* reconcile: a waiting request the system no longer holds may go again.
Reconcile ==
    [id \in Ids |-> IF items[id].state = "waiting" /\ queued[id] = 0
                    THEN [items[id] EXCEPT !.transferred = FALSE] ELSE items[id]]

\* Mutant: activation sends what waits unmarked and reconciles nothing.
ActivatedUnreconciled ==
    /\ watch = "starting" /\ watch' = "up"
    /\ LET ids == {id \in Ids : Waits(items, id)}
       IN  \/ Transfer(items, ids) /\ UNCHANGED air
           \/ items' = items /\ air' = ids /\ UNCHANGED queued
    /\ UNCHANGED <<asked, phone, answers, reading, dropped, cut, faults>>

\* activationDidCompleteWith: reconcileTransfers, then resendWaiting.
Activated ==
    /\ watch = "starting" /\ watch' = "up"
    /\ LET its == Reconcile
           ids == {id \in Ids : Waits(its, id)}
       IN  \/ Transfer(its, ids) /\ UNCHANGED air
           \/ items' = its /\ air' = ids /\ UNCHANGED queued
    /\ UNCHANGED <<asked, phone, answers, reading, dropped, cut, faults>>

-------------------------------------------------------------------------------
(* The phone.                                                              *)

\* A delivery leaves the transport it came by; the answer goes back the same way.
Deliver(id, answer) ==
    \/ /\ id \in air /\ air' = air \ {id} /\ replies' = replies \cup answer
       /\ UNCHANGED <<queued, acks>>
    \/ /\ queued[id] > 0 /\ queued' = [queued EXCEPT ![id] = @ - 1] /\ acks' = acks \cup answer
       /\ UNCHANGED <<air, replies>>

Answer(id, outcome) == {[id |-> id, outcome |-> outcome]}

\* receive and handle: the phone that is not ready refuses.
NotReady(id) ==
    /\ phase = "welcome"
    /\ Deliver(id, Answer(id, "refused"))
    /\ unrecorded' = unrecorded \cup {id}
    /\ UNCHANGED <<asked, items, watch, phase, handled, wrote, reading, dropped, cut, faults>>

\* A handled id is answered as it was then, and writes nothing.
Repeat(id) ==
    /\ phase = "ready" /\ handled[id] # "none"
    /\ Deliver(id, Answer(id, handled[id]))
    /\ UNCHANGED <<asked, items, watch, phone, reading, dropped, cut, faults>>

LookupFails(id) ==
    /\ Fault /\ phase = "ready"
    /\ Deliver(id, Answer(id, "refused"))
    /\ unrecorded' = unrecorded \cup {id}
    /\ UNCHANGED <<asked, items, watch, phase, handled, wrote, reading, dropped, cut>>

Performed(id, outcome) ==
    wrote' = [wrote EXCEPT ![Words(id)] = IF outcome = "saved" THEN @ + 1 ELSE @]

\* Mutant: a request the table holds is run again.
PerformAgain(id, outcome) ==
    /\ phase = "ready"
    /\ Deliver(id, Answer(id, outcome)) /\ Performed(id, outcome)
    /\ handled' = [handled EXCEPT ![id] = outcome]
    /\ UNCHANGED <<asked, items, watch, phase, unrecorded, reading, dropped, cut, faults>>

\* The write is done or refused, and its outcome recorded under the id.
Perform(id, outcome) ==
    /\ phase = "ready" /\ handled[id] = "none"
    /\ Deliver(id, Answer(id, outcome)) /\ Performed(id, outcome)
    /\ handled' = [handled EXCEPT ![id] = outcome]
    /\ UNCHANGED <<asked, items, watch, phase, unrecorded, reading, dropped, cut, faults>>

\* The write stands and the record fails: the answer goes out all the same.
RecordFails(id, outcome) ==
    /\ Fault /\ phase = "ready" /\ handled[id] = "none"
    /\ Deliver(id, Answer(id, outcome)) /\ Performed(id, outcome)
    /\ unrecorded' = unrecorded \cup {id}
    /\ UNCHANGED <<asked, items, watch, phase, handled, reading, dropped, cut>>

\* The app dies with the request in hand, while its notebook opens.
PhoneDiesFirst(id) ==
    /\ Fault /\ Deliver(id, {})
    /\ UNCHANGED <<asked, items, watch, phone, reading, dropped, cut>>

\* The app dies after the write, before or after the record; nothing is answered.
PhoneDies(id, recorded) ==
    /\ Fault /\ phase = "ready" /\ handled[id] = "none"
    /\ Deliver(id, {}) /\ Performed(id, "saved")
    /\ handled' = IF recorded THEN [handled EXCEPT ![id] = "saved"] ELSE handled
    /\ unrecorded' = IF recorded THEN unrecorded ELSE unrecorded \cup {id}
    /\ UNCHANGED <<asked, items, watch, phase, reading, dropped, cut>>

\* boot: the next process opens the store, or does not (the phone is still locked).
PhoneLaunch(opened) ==
    /\ IF opened THEN UNCHANGED faults ELSE Fault
    /\ phase' = IF opened THEN "ready" ELSE "welcome"
    /\ phase' # phase
    /\ UNCHANGED <<asked, items, watch, link, handled, wrote, unrecorded, answers, reading,
                   dropped, cut>>

\* scheduleWatchSnapshot and send, by application context.
SendSnapshot ==
    /\ phase = "ready" /\ Len(snaps) < MaxSnapshots
    /\ \E s \in 0..MaxSeconds :
           /\ NoDateAfter(s)
           /\ snaps' = Append(snaps, [shows |-> Shown, madeAt |-> Whole(Within(s))])
    /\ UNCHANGED <<asked, items, watch, link, phone, answers, shown, dropped, cut, faults>>

Handle(id) ==
    \/ NotReady(id) \/ Repeat(id)
    \/ \E outcome \in {"saved", "refused"} : Perform(id, outcome)

HandleBadly(id) ==
    \/ LookupFails(id) \/ PhoneDiesFirst(id)
    \/ \E outcome \in {"saved", "refused"} : RecordFails(id, outcome)
    \/ \E recorded \in BOOLEAN : PhoneDies(id, recorded)

Next ==
    \/ \E kind \in Kinds : Enqueue(kind)
    \/ ResendWaiting \/ KillWatch \/ RePair \/ Launch \/ Activated \/ SendSnapshot
    \/ \E id \in Ids : \/ TimerFires(id) \/ MessageFails(id) \/ Retry(id) \/ Delete(id)
                       \/ KillInTransfer(id) \/ Handle(id) \/ HandleBadly(id)
    \/ \E ack \in replies : ReplyFails(ack)
    \/ \E ack \in replies \cup acks : Settle(ack) \/ KillInSettle(ack)
    \/ \E n \in 1..MaxSnapshots : Take(n)
    \/ \E opened \in BOOLEAN : PhoneLaunch(opened)

\* The watch's app is launched again and activates, and is ended again in time; the system
\* delivers what it queued and what it sent, timers run out, the phone's store opens.
Fairness ==
    /\ WF_vars(Launch) /\ SF_vars(Activated) /\ WF_vars(KillWatch)
    /\ WF_vars(PhoneLaunch(TRUE))
    /\ WF_vars(\E id \in Ids : Handle(id))
    /\ SF_vars(\E id \in Ids : TimerFires(id))
    /\ SF_vars(\E ack \in replies \cup acks : Settle(ack))

Spec == Init /\ [][Next]_vars /\ Fairness

-------------------------------------------------------------------------------
(* Properties.                                                             *)

\* Exactly once (V48 6.3): whatever the two transports repeat, lose or reorder, the phone
\* writes the same words twice only where it answered or wrote one of their ids without
\* recording it in watch_requests.
WrittenOnce == \A w \in AllWords : wrote[w] > 1 => IdsOf(w) \cap unrecorded # {}

\* What the person said is never lost: until the phone has written it, it stands in the
\* outbox, waiting or refused, unless the person deleted it or the phone refused a tick.
NothingLost ==
    \A w \in AllWords \ dropped :
        wrote[w] > 0 \/ \E id \in IdsOf(w) : items[id].state \in {"waiting", "refused"}

\* The system holds a request for delivery once (transfer, markTransferred, reconcile), and
\* once more only for each time the watch was killed between the hand-over and the mark:
\* no timer, failed message, return of the phone or ordinary restart hands it over again.
HandedOverOnce == \A id \in Ids : queued[id] <= 1 + cut[id]

\* What the comments say: "it is never handed over again", "so it never goes twice".
NeverHandedTwice == \A id \in Ids : queued[id] <= 1

\* A saved request leaves the outbox only for a snapshot that shows its write, so one made
\* before the phone wrote it and arriving after its answer does not undraw it; or for a
\* refusal the phone did not record, of an id it had written before; or for a snapshot of
\* the very second the outbox's file kept for it.
ForgetsOnlyShown ==
    [][\A id \in Ids : items[id].state = "saved" /\ items'[id].state = "none"
                       => \/ id \in unrecorded \/ Words(id) \in snaps[shown'].shows
                          \/ items[id].at = snaps[shown'].madeAt]_vars

\* What forgetSaved says of what it removes: "Saved requests a snapshot made after them
\* already shows."  A snapshot that forgets one shows its write.
SnapshotShowsForgotten ==
    [][\A id \in Ids : items[id].state = "saved" /\ items'[id].state = "none" /\ shown' # shown
                       => Words(id) \in snaps[shown'].shows]_vars

\* Every request that waits is answered or deleted in the end, through failed messages, lost
\* replies, re-pairs and the death of either app.
EventuallyAnswered ==
    \A id \in Ids : []<>(items[id].state # "waiting")
===============================================================================
