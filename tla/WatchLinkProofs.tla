---------------------------- MODULE WatchLinkProofs ---------------------------
(***************************************************************************)
(* Proofs about WatchLink, for any number of requests, retries, snapshots  *)
(* and faults.                                                             *)
(***************************************************************************)
EXTENDS WatchLink, TLAPS

Asked    == DOMAIN asked
Outcomes == {"saved", "refused"}
Snapshot == [shows : SUBSET Ids, madeAt : Nat]
ItemRow  == [state : {"none", "waiting"} \cup Outcomes, transferred : BOOLEAN, at : Nat]

\* The types, and that only what was asked for is in an outbox, on its way or handled.
Types ==
    /\ asked \in Seq([words : Ids, kind : Kinds]) /\ Len(asked) <= MaxRequests
    /\ \A id \in Asked : Words(id) <= id
    /\ items \in [Ids -> ItemRow]
    /\ \A id \in Ids : items[id].state # "none" => id \in Asked
    /\ air \subseteq Asked
    /\ handled \in [Ids -> {"none"} \cup Outcomes]
    /\ \A id \in Ids : handled[id] # "none" => id \in Asked
    /\ wrote \in [Ids -> Nat]
    /\ replies \cup acks \subseteq [id : Asked, outcome : Outcomes]
    /\ snaps \in Seq(Snapshot)

\* The phone answered id with this outcome and recorded it, or recorded nothing.
Stands(id, outcome) == handled[id] = outcome \/ id \in unrecorded

\* What was written was written once, by an id recorded as saved, or under an id
\* something went unrecorded of.
Once ==
    \A w \in Ids : wrote[w] > 0 =>
        \E id \in Asked : /\ Words(id) = w
                          /\ id \in unrecorded \/ (handled[id] = "saved" /\ wrote[w] = 1)

\* A request recorded or answered as saved was written.
Recorded == \A id \in Asked : handled[id] = "saved" => wrote[Words(id)] > 0

Answered ==
    \A ack \in replies \cup acks :
        /\ Stands(ack.id, ack.outcome)
        /\ ack.outcome = "saved" => wrote[Words(ack.id)] > 0

\* The queue holds what was asked for, a request at most once more than the watch was killed
\* having handed it over, and one that may still be handed over once less than that.
Queues ==
    /\ queued \in [Ids -> Nat] /\ cut \in [Ids -> Nat]
    /\ \A id \in Ids : /\ queued[id] > 0 => id \in Asked
                       /\ queued[id] <= 1 + cut[id]
                       /\ Waits(items, id) => queued[id] <= cut[id]

\* A snapshot's date is a whole second.
Dated == \A n \in DOMAIN snaps : snaps[n].madeAt % 2 = 0

\* The saved request's write is in every snapshot dated after it.
Shows(id, at) == \A n \in DOMAIN snaps : at < snaps[n].madeAt => Words(id) \in snaps[n].shows

\* What the outbox holds as answered was; a saved request is in every later snapshot.
Held ==
    \A id \in Asked :
        /\ items[id].state \in Outcomes => Stands(id, items[id].state)
        /\ items[id].state = "saved" =>
               wrote[Words(id)] > 0 /\ Shows(id, items[id].at)

\* Try again leaves one id of the same words in the outbox, and only after a refusal.
Superseded ==
    \A old, new \in Asked : Words(old) = Words(new) /\ old < new =>
        items[old].state = "none" /\ Stands(old, "refused")

IInv == Types /\ Queues /\ Dated /\ Once /\ Recorded /\ Answered /\ Held /\ Superseded
              /\ NothingLost

(* The records the outbox holds.                                           *)
LEMMA ItemRows ==
    ASSUME NEW r \in ItemRow, NEW o \in Outcomes, NEW n \in Nat
    PROVE  /\ NoItem \in ItemRow /\ Item \in ItemRow
           /\ [r EXCEPT !.transferred = TRUE] \in ItemRow
           /\ [r EXCEPT !.transferred = FALSE] \in ItemRow
           /\ [r EXCEPT !.state = o] \in ItemRow
           /\ [r EXCEPT !.state = o, !.at = n] \in ItemRow
BY DEF ItemRow, NoItem, Item, Outcomes

(* Dates: an instant is written as the second it is within, and a whole    *)
(* second after the date a file keeps is after the exact date too.         *)
LEMMA WholeSeconds ==
    ASSUME NEW sec \in Nat, NEW t \in Nat, NEW m \in Nat, m % 2 = 0
    PROVE  /\ 2 * sec + 1 \in Nat /\ Whole(2 * sec + 1) = 2 * sec /\ (2 * sec) % 2 = 0
           /\ Whole(t) \in Nat /\ (Whole(t) < m => t < m)
BY DEF Whole

(* What was asked for is numbered from one.                                *)
LEMMA AskedIds == Types => /\ Len(asked) \in Nat /\ Asked = 1..Len(asked)
                           /\ Asked \subseteq Ids /\ MaxRequests \in Nat
<1>. SUFFICES ASSUME Types PROVE /\ Len(asked) \in Nat /\ Asked = 1..Len(asked)
                                 /\ Asked \subseteq Ids /\ MaxRequests \in Nat
  OBVIOUS
<1>1. Len(asked) \in Nat /\ Asked = 1..Len(asked) /\ Len(asked) <= MaxRequests
  BY DEF Types, Asked
<1>2. MaxRequests \in Nat
  BY WatchAssumption
<1>. QED
  BY <1>1, <1>2 DEF Ids

(* An element of a sequence is of the sequence's set.                      *)
LEMMA InSeq ==
    ASSUME NEW S, NEW seq \in Seq(S), NEW n \in 1..Len(seq) PROVE seq[n] \in S
OBVIOUS

(* What was asked for has words, those of its own id or of an older one.   *)
LEMMA AskedWords ==
    ASSUME Types, NEW id \in Asked
    PROVE  /\ asked[id] \in [words : Ids, kind : Kinds] /\ asked[id].words = Words(id)
           /\ Words(id) \in Ids /\ Words(id) <= id
<1>1. asked \in Seq([words : Ids, kind : Kinds]) /\ id \in 1..Len(asked)
  BY AskedIds DEF Types
<1>2. asked[id] \in [words : Ids, kind : Kinds]
  BY <1>1, InSeq
<1>3. asked[id].words = Words(id)
  BY DEF Words
<1>. QED
  BY <1>2, <1>3 DEF Types

(* The first state.                                                        *)
LEMMA InvInit == Init => IInv
<1>. SUFFICES ASSUME Init PROVE IInv
  OBVIOUS
<1>1. Asked = {}
  BY DEF Init, Asked
<1>2. Types
  <2>1. NoItem \in ItemRow /\ NoItem.state = "none"
    BY DEF NoItem, ItemRow
  <2>2. asked \in Seq([words : Ids, kind : Kinds]) /\ Len(asked) <= MaxRequests
    BY WatchAssumption DEF Init
  <2>3. snaps \in Seq(Snapshot)
    BY DEF Init
  <2>. QED
    BY <1>1, <2>1, <2>2, <2>3 DEF Init, Types
<1>3. Once /\ Recorded /\ Answered /\ Held /\ Superseded
  BY <1>1 DEF Init, Once, Recorded, Answered, Held, Superseded
<1>4. NothingLost /\ Dated
  BY <1>1 DEF Init, NothingLost, Dated, AllWords, Asked
<1>5. Queues
  BY DEF Init, Queues
<1>. QED
  BY <1>2, <1>3, <1>4, <1>5 DEF IInv

(* What the outbox knows of an item but its mark; the file keeps its date  *)
(* in whole seconds.                                                       *)
Same(id) == /\ items'[id].state = items[id].state
            /\ items'[id].at = items[id].at \/ items'[id].at = Whole(items[id].at)

(* A step of the watch that moves requests between its outbox and the two  *)
(* transports, loses messages or replies or reads the outbox's file.       *)
LEMMA InvMoves ==
    ASSUME IInv, UNCHANGED <<asked, handled, wrote, unrecorded, snaps, dropped>>,
           items' \in [Ids -> ItemRow], \A id \in Ids : Same(id),
           air' \subseteq Asked, Queues',
           replies' \subseteq replies, acks' \subseteq acks
    PROVE  IInv'
<1>1. Asked' = Asked /\ Asked \subseteq Ids
  BY AskedIds DEF IInv, Asked
<1>2. \A id : Words(id)' = Words(id)
  BY DEF Words
<1>3. \A id, o : Stands(id, o)' = Stands(id, o)
  BY DEF Stands
<1>4. Types'
  <2>1. \A id \in Ids : items'[id].state = items[id].state
    BY DEF Same
  <2>. QED
    BY <1>1, <1>2, <2>1 DEF IInv, Types
<1>5. Once' /\ Recorded'
  BY <1>1, <1>2 DEF IInv, Once, Recorded
<1>6. Answered'
  BY <1>2, <1>3 DEF IInv, Answered
<1>7. Held'
  <2>1. \A n \in DOMAIN snaps : snaps[n] \in Snapshot
    BY DEF IInv, Types
  <2>2. \A n \in DOMAIN snaps : snaps[n].madeAt \in Nat /\ snaps[n].madeAt % 2 = 0
    BY <2>1 DEF IInv, Dated, Snapshot
  <2>3. \A id \in Asked : items[id].at \in Nat
    BY <1>1 DEF IInv, Types, ItemRow
  <2>4. ASSUME NEW id \in Asked, Shows(id, items[id].at) PROVE Shows(id, items[id].at)'
    <3>1. \A n \in DOMAIN snaps :
              items'[id].at < snaps[n].madeAt => items[id].at < snaps[n].madeAt
      BY <1>1, <2>2, <2>3, WholeSeconds DEF Same
    <3>. QED
      BY <1>2, <2>4, <3>1 DEF Shows
  <2>. QED
    BY <1>1, <1>2, <1>3, <2>4 DEF IInv, Held, Same
<1>8. Superseded'
  BY <1>1, <1>2, <1>3 DEF IInv, Superseded, Same
<1>9. NothingLost'
  BY <1>1, <1>2 DEF IInv, NothingLost, AllWords, IdsOf, Same, Asked
<1>10. Dated'
  BY DEF IInv, Dated
<1>. QED
  BY <1>4, <1>5, <1>6, <1>7, <1>8, <1>9, <1>10 DEF IInv

(* transfer counts what it hands over and marks it.                        *)
LEMMA Transfers ==
    ASSUME NEW its \in [Ids -> ItemRow], NEW ids \in SUBSET Ids,
           queued \in [Ids -> Nat], cut \in [Ids -> Nat], UNCHANGED cut,
           \A id \in Ids : /\ its[id].state # "none" \/ queued[id] > 0 => id \in Asked'
                           /\ queued[id] <= 1 + cut[id]
                           /\ Waits(its, id) => queued[id] <= cut[id],
           Transfer(its, ids)
    PROVE  /\ items' \in [Ids -> ItemRow]
           /\ \A id \in Ids : items'[id].state = its[id].state /\ items'[id].at = its[id].at
           /\ Queues'
<1>1. PICK take \in SUBSET Ids :
          /\ take = {id \in ids : Waits(its, id)}
          /\ items' = [id \in Ids |-> IF id \in take THEN [its[id] EXCEPT !.transferred = TRUE]
                                      ELSE its[id]]
          /\ queued' = [id \in Ids |-> IF id \in take THEN queued[id] + 1 ELSE queued[id]]
  BY DEF Transfer
<1>2. \A id \in Ids : /\ [its[id] EXCEPT !.transferred = TRUE] \in ItemRow
                      /\ [its[id] EXCEPT !.transferred = TRUE].state = its[id].state
                      /\ [its[id] EXCEPT !.transferred = TRUE].at = its[id].at
                      /\ [its[id] EXCEPT !.transferred = TRUE].transferred
  BY DEF ItemRow
<1>3. items' \in [Ids -> ItemRow]
  BY <1>1, <1>2
<1>4. \A id \in Ids : items'[id].state = its[id].state /\ items'[id].at = its[id].at
  BY <1>1, <1>2
<1>5. queued' \in [Ids -> Nat] /\ cut' \in [Ids -> Nat]
  BY <1>1
<1>6. ASSUME NEW id \in Ids
      PROVE  /\ queued'[id] > 0 => id \in Asked'
             /\ queued'[id] <= 1 + cut'[id]
             /\ Waits(items', id) => queued'[id] <= cut'[id]
  <2>1. queued[id] \in Nat /\ cut[id] \in Nat /\ cut'[id] = cut[id]
    OBVIOUS
  <2>2. CASE id \in take
    <3>1. Waits(its, id) /\ queued'[id] = queued[id] + 1 /\ items'[id].transferred
      BY <1>1, <1>2, <2>2
    <3>. QED
      BY <2>1, <3>1 DEF Waits
  <2>3. CASE id \notin take
    <3>1. queued'[id] = queued[id] /\ items'[id] = its[id]
      BY <1>1, <2>3
    <3>. QED
      BY <2>1, <3>1 DEF Waits
  <2>. QED
    BY <2>2, <2>3
<1>7. Queues'
  BY <1>5, <1>6 DEF Queues
<1>. QED
  BY <1>3, <1>4, <1>7

(* Resending, timers and failed messages.                                  *)
LEMMA InvTransfer ==
    ASSUME IInv, NEW ids \in SUBSET Ids, Transfer(items, ids), air' \subseteq Asked,
           replies' \subseteq replies, acks' \subseteq acks,
           UNCHANGED <<asked, handled, wrote, unrecorded, snaps, dropped, cut>>
    PROVE  IInv'
<1>1. Asked' = Asked
  BY DEF Asked
<1>2. /\ items' \in [Ids -> ItemRow] /\ Queues'
      /\ \A id \in Ids : items'[id].state = items[id].state /\ items'[id].at = items[id].at
  BY <1>1, Transfers DEF IInv, Types, Queues
<1>. QED
  BY <1>2, InvMoves DEF Same

(* A step that leaves the outbox alone and hands nothing over.             *)
LEMMA InvLink ==
    ASSUME IInv, UNCHANGED items, air' \subseteq Asked, queued' \in [Ids -> Nat],
           \A id \in Ids : queued'[id] <= queued[id],
           replies' \subseteq replies, acks' \subseteq acks,
           UNCHANGED <<asked, handled, wrote, unrecorded, snaps, dropped, cut>>
    PROVE  IInv'
<1>1. Queues'
  BY DEF IInv, Queues, Waits, Asked
<1>2. items' \in [Ids -> ItemRow] /\ \A id \in Ids : Same(id)
  BY DEF IInv, Types, Same
<1>. QED
  BY <1>1, <1>2, InvMoves

(* Killed having handed a request over.                                    *)
LEMMA InvKillInTransfer == ASSUME IInv, NEW id \in Ids, KillInTransfer(id) PROVE IInv'
<1>1. id \in Asked
  BY DEF IInv, Types, KillInTransfer, Waits
<1>2. /\ queued' = [queued EXCEPT ![id] = @ + 1] /\ cut' = [cut EXCEPT ![id] = @ + 1]
      /\ UNCHANGED <<asked, items>> /\ Waits(items, id)
  BY DEF KillInTransfer
<1>3. Queues'
  BY <1>1, <1>2 DEF IInv, Queues, Waits, Asked
<1>4. items' \in [Ids -> ItemRow] /\ \A i \in Ids : Same(i)
  BY <1>2 DEF IInv, Types, Same
<1>. QED
  BY <1>3, <1>4, InvMoves DEF KillInTransfer, phone, reading

(* The outbox read from its file.                                          *)
LEMMA InvLaunch == ASSUME IInv, Launch PROVE IInv'
<1>1. \A id \in Ids : items[id] \in ItemRow /\ items[id].at \in Nat
  BY DEF IInv, Types, ItemRow
<1>2. \A id \in Ids : Whole(items[id].at) \in Nat
  BY <1>1, WholeSeconds
<1>3. \A id \in Ids : /\ items'[id] \in ItemRow /\ items'[id].state = items[id].state
                      /\ items'[id].transferred = items[id].transferred
                      /\ items'[id].at = Whole(items[id].at)
  <2>1. \A id \in Ids : items'[id] = [items[id] EXCEPT !.at = Whole(items[id].at)]
    BY DEF Launch
  <2>. QED
    BY <1>1, <1>2, <2>1 DEF ItemRow
<1>4. items' \in [Ids -> ItemRow]
  BY <1>3 DEF Launch
<1>5. UNCHANGED <<asked, link, phone, answers, reading, dropped, cut>>
  BY DEF Launch
<1>6. Queues'
  BY <1>3, <1>5 DEF IInv, Queues, Waits, Asked, link
<1>. QED
  BY <1>3, <1>4, <1>5, <1>6, InvMoves DEF IInv, Types, Same, link, phone, answers, reading, Asked

(* reconcileTransfers, then resendWaiting.                                 *)
LEMMA InvActivated == ASSUME IInv, Activated PROVE IInv'
<1>. DEFINE its == Reconcile
            ids == {id \in Ids : Waits(its, id)}
<1>1. Asked \subseteq Ids /\ Asked' = Asked
  BY AskedIds DEF IInv, Activated, Asked
<1>2. \A id \in Ids : /\ [items[id] EXCEPT !.transferred = FALSE] \in ItemRow
                      /\ [items[id] EXCEPT !.transferred = FALSE].state = items[id].state
                      /\ [items[id] EXCEPT !.transferred = FALSE].at = items[id].at
  BY DEF IInv, Types, ItemRow
<1>3. /\ its \in [Ids -> ItemRow]
      /\ \A id \in Ids : /\ its[id].state = items[id].state /\ its[id].at = items[id].at
                         /\ its[id] = items[id] \/ queued[id] = 0
      /\ \A id \in Ids : its[id].state # "none" => id \in Asked
  BY <1>1, <1>2 DEF IInv, Types, Reconcile
<1>4. ids \subseteq Asked /\ ids \in SUBSET Ids
  BY <1>3 DEF Waits
<1>5. UNCHANGED <<asked, handled, wrote, unrecorded, replies, acks, snaps, dropped, cut>>
  BY DEF Activated, phone, answers, reading
<1>9. \/ Transfer(its, ids) /\ UNCHANGED air
      \/ items' = its /\ air' = ids /\ UNCHANGED queued
  BY DEF Activated
<1>. HIDE DEF its, ids
<1>6. /\ queued \in [Ids -> Nat] /\ cut \in [Ids -> Nat]
      /\ \A id \in Ids : /\ its[id].state # "none" \/ queued[id] > 0 => id \in Asked'
                         /\ queued[id] <= 1 + cut[id]
                         /\ Waits(its, id) => queued[id] <= cut[id]
  BY <1>1, <1>3 DEF IInv, Queues, Waits
<1>7. CASE Transfer(its, ids) /\ UNCHANGED air
  <2>1. its \in [Ids -> ItemRow] /\ ids \in SUBSET Ids /\ UNCHANGED cut /\ Transfer(its, ids)
    BY <1>3, <1>4, <1>5, <1>7
  <2>2. /\ items' \in [Ids -> ItemRow] /\ Queues'
        /\ \A id \in Ids : items'[id].state = its[id].state /\ items'[id].at = its[id].at
    BY <1>6, <2>1, Transfers
  <2>. QED
    BY <1>3, <1>5, <1>7, <2>2, InvMoves DEF IInv, Types, Same
<1>8. CASE items' = its /\ air' = ids /\ UNCHANGED queued
  <2>1. \A id \in Ids : Waits(items', id) = Waits(its, id)
    BY <1>8 DEF Waits
  <2>2. Queues'
    BY <1>5, <1>6, <1>8, <2>1 DEF Queues
  <2>. QED
    BY <1>3, <1>4, <1>5, <1>8, <2>2, InvMoves DEF Same
<1>. QED
  BY <1>7, <1>8, <1>9

(* enqueue and Try again: a new id, of words no other id still carries.    *)
LEMMA InvNew ==
    ASSUME IInv, NEW new \in Ids, new = Len(asked) + 1,
           NEW q \in [words : Ids, kind : Kinds], q.words <= new, asked' = Append(asked, q),
           NEW its \in [Ids -> ItemRow], its[new] = Item,
           \A id \in Ids \ {new} :
               its[id] = items[id] \/ (its[id] = NoItem /\ id \in Asked /\ Words(id) = q.words),
           \A id \in Asked : Words(id) = q.words =>
               its[id].state = "none" /\ Stands(id, "refused"),
           Send(its, {new}),
           UNCHANGED <<phone, answers, reading, dropped, cut>>
    PROVE  IInv'
<1>1. /\ Len(asked) \in Nat /\ Asked = 1..Len(asked) /\ Asked \subseteq Ids
      /\ new \notin Asked /\ MaxRequests \in Nat
  BY AskedIds DEF IInv
<1>2. asked \in Seq([words : Ids, kind : Kinds])
  BY DEF IInv, Types
<1>3. /\ asked' \in Seq([words : Ids, kind : Kinds]) /\ Len(asked') = new
      /\ asked'[new] = q /\ \A id \in Asked : asked'[id] = asked[id]
  BY <1>1, <1>2
<1>4. Asked' = Asked \cup {new} /\ Asked' \subseteq Ids
  <2>1. Asked' = 1..new
    BY <1>3 DEF Asked
  <2>. QED
    BY <1>1, <2>1
<1>5. Words(new)' = q.words /\ \A id \in Asked : Words(id)' = Words(id)
  BY <1>3 DEF Words
<1>6. /\ its[new].state = "waiting" /\ its[new].transferred = FALSE
      /\ \A id \in Ids \ {new} : its[id].state = items[id].state \/ its[id].state = "none"
  BY DEF Item, NoItem
<1>7. /\ \A id \in Ids : its[id].state # "none" => id \in Asked'
      /\ \A id \in Ids : /\ queued[id] > 0 => id \in Asked'
                         /\ queued[id] <= 1 + cut[id]
                         /\ Waits(its, id) => queued[id] <= cut[id]
  <2>1. \A id \in Ids : its[id].state # "none" => id \in Asked'
    BY <1>4, <1>6 DEF IInv, Types
  <2>2. \A id \in Ids : queued[id] \in Nat /\ cut[id] \in Nat /\ queued[id] <= 1 + cut[id]
                        /\ (queued[id] > 0 => id \in Asked)
    BY DEF IInv, Queues
  <2>3. ASSUME NEW id \in Ids, Waits(its, id) PROVE queued[id] <= cut[id]
    <3>1. CASE id = new
      BY <1>1, <2>2, <3>1
    <3>2. CASE id # new
      <4>1. its[id] = items[id]
        BY <2>3, <3>2 DEF NoItem, Waits
      <4>. QED
        BY <2>3, <4>1 DEF IInv, Queues, Waits
    <3>. QED
      BY <3>1, <3>2
  <2>. QED
    BY <1>4, <2>1, <2>2, <2>3
<1>8. queued \in [Ids -> Nat] /\ cut \in [Ids -> Nat] /\ air \subseteq Asked'
  BY <1>4 DEF IInv, Types, Queues
<1>9. /\ items' \in [Ids -> ItemRow]
      /\ \A id \in Ids : items'[id].state = its[id].state /\ items'[id].at = its[id].at
      /\ air' \subseteq Asked'
      /\ Queues'
  <2>1. CASE items' = its /\ queued' = queued /\ (air' = air \/ air' = air \cup {new})
    <3>1. \A id \in Ids : Waits(items', id) = Waits(its, id)
      BY <2>1 DEF Waits
    <3>2. Queues'
      BY <1>7, <1>8, <2>1, <3>1 DEF Queues
    <3>. QED
      BY <1>4, <1>8, <2>1, <3>2
  <2>2. CASE Transfer(its, {new}) /\ UNCHANGED air
    BY <1>7, <1>8, <2>2, Transfers
  <2>. QED
    BY <2>1, <2>2 DEF Send, link
<1>10. UNCHANGED <<handled, wrote, unrecorded, replies, acks, snaps, dropped>>
  BY DEF phone, answers, reading
<1>11. \A id, o : Stands(id, o)' = Stands(id, o)
  BY <1>10 DEF Stands
<1>12. Types'
  <2>1. Len(asked') <= MaxRequests
    BY <1>1, <1>3 DEF Ids
  <2>2. \A id \in Asked' : Words(id)' <= id
    BY <1>4, <1>5 DEF IInv, Types
  <2>3. \A id \in Ids : items'[id].state # "none" => id \in Asked'
    BY <1>7, <1>9
  <2>4. \A id \in Ids : handled'[id] # "none" => id \in Asked'
    BY <1>4, <1>10 DEF IInv, Types
  <2>5. (replies \cup acks)' \subseteq [id : Asked', outcome : Outcomes]
    BY <1>4, <1>10 DEF IInv, Types
  <2>6. handled' \in [Ids -> {"none"} \cup Outcomes] /\ wrote' \in [Ids -> Nat]
        /\ snaps' \in Seq(Snapshot)
    BY <1>10 DEF IInv, Types
  <2>. QED
    BY <1>3, <1>9, <2>1, <2>2, <2>3, <2>4, <2>5, <2>6 DEF Types
<1>13. Once'
  BY <1>4, <1>5, <1>10 DEF IInv, Once
<1>14. Recorded'
  <2>1. handled[new] = "none"
    BY <1>1 DEF IInv, Types
  <2>. QED
    BY <1>4, <1>5, <1>10, <2>1 DEF IInv, Recorded
<1>15. Answered'
  <2>1. \A ack \in replies \cup acks : ack.id \in Asked
    BY DEF IInv, Types
  <2>. QED
    BY <1>5, <1>10, <1>11, <2>1 DEF IInv, Answered
<1>16. Held'
  <2>1. ASSUME NEW id \in Asked' PROVE Held!(id)'
    <3>1. CASE items'[id].state = "none" \/ id = new
      BY <1>6, <1>9, <2>1, <3>1 DEF Outcomes
    <3>2. CASE items'[id].state # "none" /\ id # new
      <4>1. id \in Asked /\ id \in Ids /\ its[id] = items[id]
        BY <1>1, <1>4, <1>9, <3>2 DEF NoItem
      <4>. QED
        BY <1>5, <1>9, <1>10, <1>11, <4>1 DEF IInv, Held, Shows
    <3>. QED
      BY <3>1, <3>2
  <2>. QED
    BY <2>1 DEF Held
<1>17. Superseded'
  <2>. SUFFICES ASSUME NEW old \in Asked', NEW later \in Asked',
                       Words(old)' = Words(later)', old < later
                PROVE  items'[old].state = "none" /\ Stands(old, "refused")'
    BY DEF Superseded
  <2>1. old \in Asked /\ old \in Ids
    BY <1>1, <1>4
  <2>2. CASE later = new
    BY <1>5, <1>9, <1>11, <2>1, <2>2
  <2>3. CASE later \in Asked
    <3>1. items[old].state = "none" /\ Stands(old, "refused")
      BY <1>5, <2>1, <2>3 DEF IInv, Superseded
    <3>2. its[old].state = "none"
      BY <1>1, <1>6, <2>1, <3>1
    <3>. QED
      BY <1>9, <1>11, <2>1, <3>1, <3>2
  <2>. QED
    BY <1>4, <2>2, <2>3
<1>18. NothingLost'
  <2>. SUFFICES ASSUME NEW at \in Asked', Words(at)' \notin dropped, ~(wrote[Words(at)'] > 0)
                PROVE  \E id \in Asked' : /\ Words(id)' = Words(at)'
                                          /\ items'[id].state \in {"waiting", "refused"}
    BY <1>10 DEF NothingLost, AllWords, IdsOf, Asked
  <2>1. CASE Words(at)' = q.words
    BY <1>4, <1>5, <1>6, <1>9, <2>1
  <2>2. CASE Words(at)' # q.words
    <3>1. at \in Asked /\ Words(at)' = Words(at)
      BY <1>4, <1>5, <2>2
    <3>2. PICK id \in Asked : Words(id) = Words(at) /\ items[id].state \in {"waiting", "refused"}
      BY <3>1 DEF IInv, NothingLost, AllWords, IdsOf, Asked
    <3>3. id \in Ids \ {new} /\ its[id] = items[id]
      BY <1>1, <2>2, <3>1, <3>2
    <3>. QED
      BY <1>4, <1>5, <1>9, <3>1, <3>2, <3>3
  <2>. QED
    BY <2>1, <2>2
<1>19. Dated'
  BY <1>10 DEF IInv, Dated
<1>. QED
  BY <1>9, <1>12, <1>13, <1>14, <1>15, <1>16, <1>17, <1>18, <1>19 DEF IInv

(* save and toggle.                                                        *)
LEMMA InvEnqueue == ASSUME IInv, NEW kind \in Kinds, Enqueue(kind) PROVE IInv'
<1>1. PICK new \in Ids : new = Len(asked) + 1
  BY DEF Enqueue
<1>2. PICK q : q = [words |-> new, kind |-> kind]
  OBVIOUS
<1>3. q \in [words : Ids, kind : Kinds] /\ q.words = new /\ q.words <= new
  BY <1>1, <1>2 DEF Ids
<1>4. PICK its : its = [items EXCEPT ![new] = Item]
  OBVIOUS
<1>5. /\ its \in [Ids -> ItemRow] /\ its[new] = Item
      /\ \A id \in Ids \ {new} : its[id] = items[id]
  BY <1>1, <1>4 DEF IInv, Types, Item, ItemRow
<1>6. Len(asked) \in Nat /\ \A id \in Asked : id <= Len(asked) /\ id \in Nat
  BY AskedIds DEF IInv
<1>7. \A id \in Asked : Words(id) <= id /\ Words(id) \in Ids
  BY AskedWords DEF IInv
<1>8. \A id \in Asked : Words(id) # q.words
  BY <1>1, <1>3, <1>6, <1>7 DEF Ids
<1>9. /\ asked' = Append(asked, q) /\ Send(its, {new})
      /\ UNCHANGED <<phone, answers, reading, dropped, cut>>
  BY <1>1, <1>2, <1>4 DEF Enqueue
<1>. QED
  BY <1>1, <1>3, <1>5, <1>8, <1>9, InvNew

(* Try again.                                                              *)
LEMMA InvRetry == ASSUME IInv, NEW id \in Ids, Retry(id) PROVE IInv'
<1>1. PICK new \in Ids : new = Len(asked) + 1
  BY DEF Retry
<1>2. id \in Asked /\ items[id].state = "refused" /\ new \notin Asked /\ id < new
      /\ Asked \subseteq Ids
  BY <1>1, AskedIds DEF IInv, Types, Retry
<1>3. PICK q : q = asked[id]
  OBVIOUS
<1>4. q \in [words : Ids, kind : Kinds] /\ q.words = Words(id) /\ q.words <= new
  <2>1. q \in [words : Ids, kind : Kinds] /\ q.words = Words(id) /\ Words(id) <= id
    BY <1>2, <1>3, AskedWords DEF IInv
  <2>. QED
    BY <1>2, <2>1 DEF Ids
<1>5. PICK its : its = [items EXCEPT ![id] = NoItem, ![new] = Item]
  OBVIOUS
<1>6. NoItem \in ItemRow /\ Item \in ItemRow
  BY DEF NoItem, Item, ItemRow
<1>7. /\ its \in [Ids -> ItemRow] /\ its[new] = Item /\ its[id] = NoItem
      /\ \A other \in Ids \ {id, new} : its[other] = items[other]
  BY <1>1, <1>2, <1>5, <1>6 DEF IInv, Types
<1>8. ASSUME NEW other \in Asked, Words(other) = q.words
      PROVE  its[other].state = "none" /\ Stands(other, "refused")
  <2>1. CASE other = id
    BY <1>2, <1>7, <2>1 DEF IInv, Held, NoItem, Outcomes
  <2>2. CASE other # id
    <3>1. other \in Nat /\ id \in Nat
      BY <1>2 DEF Ids
    <3>2. ~(id < other)
      BY <1>2, <1>4, <1>8 DEF IInv, Superseded
    <3>3. other < id
      BY <2>2, <3>1, <3>2
    <3>4. items[other].state = "none" /\ Stands(other, "refused")
      BY <1>2, <1>4, <1>8, <3>3 DEF IInv, Superseded
    <3>. QED
      BY <1>2, <1>7, <2>2, <3>4
  <2>. QED
    BY <2>1, <2>2
<1>9. /\ asked' = Append(asked, q) /\ Send(its, {new})
      /\ UNCHANGED <<phone, answers, reading, dropped, cut>>
  BY <1>1, <1>3, <1>5 DEF Retry
<1>10. \A other \in Ids \ {new} :
           its[other] = items[other]
           \/ (its[other] = NoItem /\ other \in Asked /\ Words(other) = q.words)
  BY <1>2, <1>4, <1>7
<1>. QED
  BY <1>1, <1>4, <1>7, <1>8, <1>9, <1>10, InvNew

(* A step that changes what one item of the outbox stands for, or drops    *)
(* its words.                                                              *)
LEMMA InvItem ==
    ASSUME IInv, NEW id \in Asked, NEW item \in ItemRow,
           items' = [items EXCEPT ![id] = item],
           items[id].state = "none" => item = items[id],
           item = items[id] \/ item.state # "waiting",
           item.state \in Outcomes => Stands(id, item.state),
           item.state = "saved" => wrote[Words(id)] > 0 /\ Shows(id, item.at),
           dropped' = dropped \/ dropped' = dropped \cup {Words(id)},
           \/ items[id].state = "saved" \/ wrote[Words(id)] > 0
           \/ Words(id) \in dropped' \/ item.state = "refused" \/ item = items[id],
           replies' \subseteq replies, acks' \subseteq acks,
           UNCHANGED <<asked, link, phone, snaps, cut>>
    PROVE  IInv'
<1>1. Asked' = Asked /\ Asked \subseteq Ids
  BY AskedIds DEF IInv, Asked
<1>2. UNCHANGED <<air, queued, handled, wrote, unrecorded>>
  BY DEF link, phone
<1>3. \A i : Words(i)' = Words(i)
  BY DEF Words
<1>4. \A i, o : Stands(i, o)' = Stands(i, o)
  BY <1>2 DEF Stands
<1>5. /\ items' \in [Ids -> ItemRow] /\ items'[id] = item
      /\ \A i \in Ids \ {id} : items'[i] = items[i]
  BY <1>1 DEF IInv, Types
<1>6. Types'
  BY <1>1, <1>2, <1>3, <1>5 DEF IInv, Types
<1>7. Once' /\ Recorded'
  BY <1>1, <1>2, <1>3 DEF IInv, Once, Recorded
<1>8. Answered'
  BY <1>2, <1>3, <1>4 DEF IInv, Answered
<1>9. Held'
  <2>1. \A i, at : Shows(i, at)' = Shows(i, at)
    BY <1>3 DEF Shows
  <2>. QED
    BY <1>1, <1>2, <1>3, <1>4, <1>5, <2>1 DEF IInv, Held
<1>10. Superseded'
  BY <1>1, <1>3, <1>4, <1>5 DEF IInv, Superseded
<1>11. Queues' /\ Dated'
  BY <1>1, <1>2, <1>5 DEF IInv, Types, Queues, Dated, Waits
<1>12. NothingLost'
  <2>. SUFFICES ASSUME NEW w \in AllWords \ dropped', ~(wrote[w] > 0)
                PROVE  \E i \in IdsOf(w) : items'[i].state \in {"waiting", "refused"}
    BY <1>2 DEF NothingLost, AllWords, IdsOf, Words
  <2>1. PICK i \in Asked : Words(i) = w /\ items[i].state \in {"waiting", "refused"}
    BY DEF IInv, NothingLost, AllWords, IdsOf, Asked
  <2>2. CASE i # id
    BY <1>1, <1>5, <2>1, <2>2 DEF IdsOf, Asked
  <2>3. CASE i = id
    <3>1. item.state = "refused" \/ item = items[id]
      BY <2>1, <2>3 DEF IInv, Held
    <3>. QED
      BY <1>5, <2>1, <2>3, <3>1 DEF IdsOf, Asked
  <2>. QED
    BY <2>2, <2>3
<1>. QED
  BY <1>6, <1>7, <1>8, <1>9, <1>10, <1>11, <1>12 DEF IInv

(* Delete.                                                                 *)
LEMMA InvDelete == ASSUME IInv, NEW id \in Ids, Delete(id) PROVE IInv'
<1>1. id \in Asked /\ items[id].state # "none"
  BY DEF IInv, Types, Delete
<1>2. NoItem \in ItemRow /\ NoItem.state = "none"
  BY DEF NoItem, ItemRow
<1>. QED
  BY <1>1, <1>2, InvItem DEF Delete, answers, reading, Outcomes

(* settle.                                                                 *)
LEMMA InvSettle == ASSUME IInv, NEW ack \in replies \cup acks, Settle(ack) PROVE IInv'
<1>0. PICK s \in 0..MaxSeconds : NoDateAfter(s) /\ items' = Apply(ack, Within(s))
  BY DEF Settle
<1>. DEFINE old == items[ack.id]
            tick == asked[ack.id].kind = "tick"
            item == IF old.state = "none" THEN old
                    ELSE IF ack.outcome = "saved"
                         THEN [old EXCEPT !.state = "saved", !.at = Within(s)]
                         ELSE IF tick THEN NoItem ELSE [old EXCEPT !.state = "refused", !.at = 0]
<1>1. ack.id \in Asked /\ ack.outcome \in Outcomes /\ ack.id \in Ids
  BY AskedIds DEF IInv, Types
<1>2. Stands(ack.id, ack.outcome) /\ (ack.outcome = "saved" => wrote[Words(ack.id)] > 0)
  BY DEF IInv, Answered
<1>3. old \in ItemRow
  BY <1>1 DEF IInv, Types
<1>4. /\ Within(s) \in Nat
      /\ \A n \in DOMAIN snaps : snaps[n].madeAt \in Nat /\ snaps[n].madeAt <= Within(s)
  <2>1. \A n \in DOMAIN snaps : snaps[n] \in Snapshot
    BY DEF IInv, Types
  <2>2. MaxSeconds \in Nat
    BY WatchAssumption
  <2>. QED
    BY <1>0, <2>1, <2>2 DEF NoDateAfter, Within, Snapshot
<1>5. items' = [items EXCEPT ![ack.id] = item]
  BY <1>0 DEF Apply
<1>6. CASE item = old
  <2>1. /\ old.state \in Outcomes => Stands(ack.id, old.state)
        /\ old.state = "saved" => wrote[Words(ack.id)] > 0 /\ Shows(ack.id, old.at)
    BY <1>1 DEF IInv, Held
  <2>2. items' = [items EXCEPT ![ack.id] = old]
    BY <1>5, <1>6
  <2>3. /\ dropped' = dropped \/ dropped' = dropped \cup {Words(ack.id)}
        /\ replies' \subseteq replies /\ acks' \subseteq acks
        /\ UNCHANGED <<asked, link, phone, snaps, cut>>
    BY DEF Settle, reading
  <2>. QED
    BY <1>1, <1>3, <2>1, <2>2, <2>3, InvItem
<1>7. CASE old.state # "none" /\ ack.outcome = "saved"
  <2>1. PICK new \in ItemRow : new = [old EXCEPT !.state = "saved", !.at = Within(s)]
    <3>1. Within(s) \in Nat /\ "saved" \in Outcomes
      BY <1>4 DEF Outcomes
    <3>. QED
      BY <1>3, <3>1, ItemRows
  <2>2. new.state = "saved" /\ new.at = Within(s)
    BY <1>3, <2>1 DEF ItemRow
  <2>3. items' = [items EXCEPT ![ack.id] = new]
    BY <1>5, <1>7, <2>1
  <2>4. Shows(ack.id, new.at)
    BY <1>4, <2>2 DEF Shows
  <2>5. dropped' = dropped
    BY <1>7 DEF Settle
  <2>. QED
    BY <1>1, <1>2, <1>7, <2>1, <2>2, <2>3, <2>4, <2>5, InvItem DEF Settle, reading
<1>8. CASE old.state # "none" /\ ack.outcome = "refused" /\ tick
  <2>1. NoItem \in ItemRow /\ NoItem.state = "none"
    BY DEF NoItem, ItemRow
  <2>2. items' = [items EXCEPT ![ack.id] = NoItem] /\ dropped' = dropped \cup {Words(ack.id)}
    BY <1>5, <1>8 DEF Settle
  <2>. QED
    BY <1>1, <1>8, <2>1, <2>2, InvItem DEF Settle, reading, Outcomes
<1>9. CASE old.state # "none" /\ ack.outcome = "refused" /\ ~tick
  <2>1. PICK new \in ItemRow : new = [old EXCEPT !.state = "refused", !.at = 0]
    BY <1>3 DEF ItemRow, Outcomes
  <2>2. new.state = "refused"
    BY <1>3, <2>1 DEF ItemRow
  <2>3. items' = [items EXCEPT ![ack.id] = new] /\ dropped' = dropped
    BY <1>5, <1>9, <2>1 DEF Settle
  <2>. QED
    BY <1>1, <1>2, <1>9, <2>1, <2>2, <2>3, InvItem DEF Settle, reading
<1>. QED
  BY <1>1, <1>6, <1>7, <1>8, <1>9 DEF Outcomes

(* take: only what is saved leaves the outbox.                             *)
LEMMA InvTake == ASSUME IInv, NEW n \in Nat, Take(n) PROVE IInv'
<1>1. Asked' = Asked /\ Asked \subseteq Ids
  BY AskedIds DEF IInv, Asked, Take
<1>2. UNCHANGED <<air, queued, cut, handled, wrote, unrecorded, replies, acks, snaps, dropped>>
  BY DEF Take, link, phone, answers
<1>3. \A id : Words(id)' = Words(id)
  BY DEF Words, Take
<1>4. \A id, o : Stands(id, o)' = Stands(id, o)
  BY <1>2 DEF Stands
<1>5. NoItem \in ItemRow /\ NoItem.state = "none"
  BY DEF NoItem, ItemRow
<1>6. /\ items' \in [Ids -> ItemRow]
      /\ \A id \in Ids : \/ items'[id] = items[id]
                         \/ items[id].state = "saved" /\ items'[id] = NoItem
  BY <1>5 DEF IInv, Types, Take, ForgetSaved
<1>7. Types'
  BY <1>1, <1>2, <1>3, <1>5, <1>6 DEF IInv, Types, Take
<1>8. Once' /\ Recorded'
  BY <1>1, <1>2, <1>3 DEF IInv, Once, Recorded
<1>9. Answered'
  BY <1>2, <1>3, <1>4 DEF IInv, Answered
<1>10. Held'
  BY <1>1, <1>2, <1>3, <1>4, <1>5, <1>6 DEF IInv, Held, Outcomes, Shows
<1>11. Superseded'
  BY <1>1, <1>3, <1>4, <1>5, <1>6 DEF IInv, Superseded
<1>12. Queues' /\ Dated'
  BY <1>1, <1>2, <1>5, <1>6 DEF IInv, Types, Queues, Dated, Waits
<1>13. NothingLost'
  BY <1>1, <1>2, <1>3, <1>6 DEF IInv, NothingLost, AllWords, IdsOf, Asked
<1>. QED
  BY <1>7, <1>8, <1>9, <1>10, <1>11, <1>12, <1>13 DEF IInv

(* A snapshot made now shows everything written.                           *)
LEMMA InvSnapshot == ASSUME IInv, SendSnapshot PROVE IInv'
<1>1. UNCHANGED <<asked, items, air, queued, cut, handled, wrote, unrecorded, replies, acks,
                  dropped>>
  BY DEF SendSnapshot, link, phone, answers
<1>2. Asked' = Asked /\ (\A id : Words(id)' = Words(id))
      /\ (\A id, o : Stands(id, o)' = Stands(id, o))
  BY <1>1 DEF Asked, Words, Stands
<1>3. \A id \in Asked : Words(id) \in Ids
  BY AskedWords DEF IInv
<1>4. Shown \in SUBSET Ids
  BY <1>3 DEF Shown, AllWords, Asked
<1>5. PICK snap \in Snapshot :
          /\ snap.shows = Shown /\ snap.madeAt % 2 = 0
          /\ snaps' \in Seq(Snapshot) /\ DOMAIN snaps' = DOMAIN snaps \cup {Len(snaps) + 1}
          /\ snaps'[Len(snaps) + 1] = snap /\ \A n \in DOMAIN snaps : snaps'[n] = snaps[n]
  <2>1. snaps \in Seq(Snapshot)
    BY DEF IInv, Types
  <2>2. PICK sec \in Nat : snaps' = Append(snaps, [shows |-> Shown, madeAt |-> Whole(Within(sec))])
    BY WatchAssumption DEF SendSnapshot
  <2>3. PICK snap : snap = [shows |-> Shown, madeAt |-> 2 * sec]
    OBVIOUS
  <2>4. snap \in Snapshot /\ snap.shows = Shown /\ snap.madeAt % 2 = 0
    BY <1>4, <2>3 DEF Snapshot
  <2>5. snaps' = Append(snaps, snap)
    BY <2>2, <2>3, WholeSeconds DEF Within
  <2>6. /\ snaps' \in Seq(Snapshot) /\ DOMAIN snaps' = DOMAIN snaps \cup {Len(snaps) + 1}
        /\ snaps'[Len(snaps) + 1] = snap /\ \A n \in DOMAIN snaps : snaps'[n] = snaps[n]
    BY <2>1, <2>4, <2>5
  <2>. QED
    BY <2>2, <2>4, <2>6
<1>6. Types'
  BY <1>1, <1>2, <1>5 DEF IInv, Types
<1>7. Once' /\ Recorded' /\ Answered' /\ Superseded'
  BY <1>1, <1>2 DEF IInv, Once, Recorded, Answered, Superseded
<1>8. Held'
  <2>1. \A id \in Asked : wrote[Words(id)] > 0 => Words(id) \in Shown
    BY DEF Shown, AllWords, Asked
  <2>2. ASSUME NEW id \in Asked, wrote[Words(id)] > 0, Shows(id, items[id].at)
        PROVE  Shows(id, items[id].at)'
    BY <1>1, <1>2, <1>5, <2>1, <2>2 DEF Shows
  <2>. QED
    BY <1>1, <1>2, <2>2 DEF IInv, Held
<1>9. NothingLost' /\ Queues'
  BY <1>1, <1>2 DEF IInv, NothingLost, AllWords, IdsOf, Queues, Waits
<1>10. Dated'
  BY <1>1, <1>5 DEF IInv, Dated
<1>. QED
  BY <1>6, <1>7, <1>8, <1>9, <1>10 DEF IInv

(* What the phone's records and its store may do to what stood before.     *)
LEMMA InvHandled ==
    ASSUME IInv, NEW id \in Asked, NEW answer,
           answer \subseteq [id : {id}, outcome : Outcomes], Deliver(id, answer),
           handled' \in [Ids -> {"none"} \cup Outcomes],
           \A i \in Ids \ {id} : handled'[i] = handled[i],
           handled[id] # "none" => handled'[id] = handled[id],
           wrote' \in [Ids -> Nat], \A w \in Ids : wrote[w] <= wrote'[w],
           unrecorded \subseteq unrecorded',
           handled'[id] = "saved" => wrote'[Words(id)] > 0,
           \A ack \in answer : /\ Stands(id, ack.outcome)'
                               /\ ack.outcome = "saved" => wrote'[Words(id)] > 0,
           Once',
           UNCHANGED <<asked, items, snaps, dropped, cut>>
    PROVE  IInv'
<1>1. Asked' = Asked /\ Asked \subseteq Ids
  BY AskedIds DEF IInv, Asked
<1>2. \A i : Words(i)' = Words(i)
  BY DEF Words
<1>3. \A i \in Asked : Words(i) \in Ids /\ (wrote[Words(i)] > 0 => wrote'[Words(i)] > 0)
  <2>1. \A i \in Asked : Words(i) \in Ids
    BY AskedWords DEF IInv
  <2>2. \A w \in Ids : wrote[w] \in Nat /\ wrote'[w] \in Nat
    BY DEF IInv, Types
  <2>. QED
    BY <2>1, <2>2
<1>4. \A i \in Asked, o \in Outcomes : Stands(i, o) => Stands(i, o)'
  BY <1>1 DEF Stands, Outcomes
<1>5. /\ air' \subseteq air
      /\ replies' \cup acks' \subseteq (replies \cup acks) \cup answer
  BY DEF Deliver
<1>6. Types'
  BY <1>1, <1>2, <1>5 DEF IInv, Types
<1>7. Recorded'
  BY <1>1, <1>2, <1>3 DEF IInv, Recorded
<1>8. Answered'
  <2>1. \A ack \in replies \cup acks : ack.id \in Asked /\ ack.outcome \in Outcomes
    BY DEF IInv, Types
  <2>2. \A ack \in answer : ack.id = id
    OBVIOUS
  <2>. QED
    BY <1>2, <1>3, <1>4, <1>5, <2>1, <2>2 DEF IInv, Answered
<1>9. Held'
  BY <1>1, <1>2, <1>3, <1>4 DEF IInv, Held, Shows
<1>10. Superseded'
  BY <1>1, <1>2, <1>4 DEF IInv, Superseded, Outcomes
<1>11. Queues' /\ Dated'
  <2>1. queued' \in [Ids -> Nat] /\ \A i \in Ids : queued'[i] <= queued[i]
    BY <1>1 DEF IInv, Queues, Deliver
  <2>. QED
    BY <1>1, <2>1 DEF IInv, Queues, Dated, Waits
<1>12. NothingLost'
  <2>1. AllWords' = AllWords /\ (\A w : IdsOf(w)' = IdsOf(w))
    BY <1>2 DEF AllWords, IdsOf
  <2>2. \A w \in AllWords : wrote[w] > 0 => wrote'[w] > 0
    BY <1>3 DEF AllWords, Asked
  <2>. QED
    BY <2>1, <2>2 DEF IInv, NothingLost
<1>. QED
  BY <1>6, <1>7, <1>8, <1>9, <1>10, <1>11, <1>12 DEF IInv

(* What is delivered was asked for.                                        *)
LEMMA Delivered ==
    ASSUME IInv, NEW id \in Ids, NEW answer, Deliver(id, answer)
    PROVE  id \in Asked /\ id \in Ids /\ Words(id) \in Ids
<1>1. id \in Asked
  BY DEF IInv, Types, Queues, Deliver
<1>. QED
  BY <1>1, AskedIds, AskedWords DEF IInv

(* An answer that writes nothing.                                          *)
LEMMA InvAnswer ==
    ASSUME IInv, NEW id \in Ids, NEW outcome \in Outcomes, Deliver(id, Answer(id, outcome)),
           Stands(id, outcome)', outcome = "saved" => handled[id] = "saved",
           unrecorded \subseteq unrecorded',
           UNCHANGED <<asked, items, snaps, dropped, cut, handled, wrote>>
    PROVE  IInv'
<1>1. id \in Asked
  BY Delivered
<1>2. handled[id] = "saved" => wrote[Words(id)] > 0
  BY <1>1 DEF IInv, Recorded
<1>3. /\ Answer(id, outcome) \subseteq [id : {id}, outcome : Outcomes]
      /\ \A ack \in Answer(id, outcome) : ack.outcome = outcome
  BY DEF Answer
<1>4. Once'
  BY DEF IInv, Once, Asked, Words
<1>5. /\ handled \in [Ids -> {"none"} \cup Outcomes] /\ wrote \in [Ids -> Nat]
      /\ \A w \in Ids : wrote[w] <= wrote[w]
  BY DEF IInv, Types
<1>. QED
  BY <1>1, <1>2, <1>3, <1>4, <1>5, InvHandled

(* The write, done or refused, with its record or without.                 *)
LEMMA InvPerform ==
    ASSUME IInv, NEW id \in Ids, NEW outcome \in Outcomes, handled[id] = "none",
           NEW answer \in SUBSET Answer(id, outcome), Deliver(id, answer),
           Performed(id, outcome),
           \/ handled' = [handled EXCEPT ![id] = outcome] /\ unrecorded' = unrecorded
           \/ handled' = handled /\ unrecorded' = unrecorded \cup {id},
           UNCHANGED <<asked, items, snaps, dropped, cut>>
    PROVE  IInv'
<1>1. id \in Asked /\ Words(id) \in Ids /\ Asked \subseteq Ids
  BY Delivered, AskedIds DEF IInv
<1>2. /\ handled' \in [Ids -> {"none"} \cup Outcomes]
      /\ \A i \in Ids \ {id} : handled'[i] = handled[i]
      /\ handled'[id] = outcome \/ (handled'[id] = "none" /\ id \in unrecorded')
  BY DEF IInv, Types
<1>3. /\ wrote' \in [Ids -> Nat] /\ \A w \in Ids : wrote[w] \in Nat
      /\ \A w \in Ids \ {Words(id)} : wrote'[w] = wrote[w]
      /\ wrote'[Words(id)] = IF outcome = "saved" THEN wrote[Words(id)] + 1
                                                  ELSE wrote[Words(id)]
  BY <1>1 DEF IInv, Types, Performed
<1>4. Asked' = Asked /\ \A i : Words(i)' = Words(i)
  BY DEF Asked, Words
<1>5. ASSUME NEW w \in Ids, wrote'[w] > 0
      PROVE  \E i \in Asked : /\ Words(i) = w
                              /\ i \in unrecorded' \/ (handled'[i] = "saved" /\ wrote'[w] = 1)
  <2>1. CASE id \in unrecorded' /\ w = Words(id)
    BY <1>1, <2>1
  <2>2. CASE wrote'[w] = wrote[w]
    <3>1. PICK i \in Asked : /\ Words(i) = w
                             /\ i \in unrecorded \/ (handled[i] = "saved" /\ wrote[w] = 1)
      BY <1>5, <2>2 DEF IInv, Once
    <3>2. i \in unrecorded' \/ (i \in Ids \ {id} /\ handled[i] = "saved" /\ wrote[w] = 1)
      BY <1>1, <3>1
    <3>. QED
      BY <1>2, <2>2, <3>1, <3>2
  <2>3. CASE id \notin unrecorded' /\ w = Words(id) /\ outcome = "saved"
    <3>1. handled'[id] = "saved" /\ wrote'[w] = wrote[w] + 1
      BY <1>2, <1>3, <2>3
    <3>2. CASE wrote[w] = 0
      BY <1>1, <2>3, <3>1, <3>2
    <3>3. CASE wrote[w] > 0
      <4>1. PICK i \in Asked : Words(i) = w /\ (i \in unrecorded \/ handled[i] = "saved")
        BY <3>3 DEF IInv, Once
      <4>2. CASE i \in unrecorded
        BY <4>1, <4>2
      <4>3. CASE handled[i] = "saved"
        <5>1. i # id /\ i \in Nat /\ id \in Nat
          BY <1>1, <4>3 DEF Ids
        <5>2. CASE i < id
          BY <1>1, <2>3, <4>1, <4>3, <5>2 DEF IInv, Superseded, Stands
        <5>3. CASE id < i
          BY <1>1, <2>3, <4>1, <5>3 DEF IInv, Superseded, Stands
        <5>. QED
          BY <5>1, <5>2, <5>3
      <4>. QED
        BY <4>1, <4>2, <4>3
    <3>. QED
      BY <1>3, <3>2, <3>3
  <2>. QED
    BY <1>3, <2>1, <2>2, <2>3 DEF Outcomes
<1>6. Once'
  BY <1>4, <1>5 DEF Once
<1>7. /\ answer \subseteq [id : {id}, outcome : Outcomes]
      /\ \A ack \in answer : ack.outcome = outcome
  BY DEF Answer
<1>8. outcome = "saved" => wrote'[Words(id)] > 0
  BY <1>1, <1>3
<1>9. \A w \in Ids : wrote[w] <= wrote'[w]
  BY <1>3
<1>10. Stands(id, outcome)' /\ (handled'[id] = "saved" => outcome = "saved")
  BY <1>2 DEF Stands
<1>. QED
  BY <1>1, <1>2, <1>3, <1>6, <1>7, <1>8, <1>9, <1>10, InvHandled

(* receive and handle, whatever the phone's state.                         *)
LEMMA InvHandle == ASSUME IInv, NEW id \in Ids, Handle(id) \/ HandleBadly(id) PROVE IInv'
<1>1. CASE NotReady(id) \/ LookupFails(id)
  <2>1. "refused" \in Outcomes /\ Stands(id, "refused")'
    BY <1>1 DEF Outcomes, Stands, NotReady, LookupFails
  <2>. QED
    BY <1>1, <2>1, InvAnswer DEF NotReady, LookupFails, reading
<1>2. CASE Repeat(id)
  <2>1. handled[id] \in Outcomes /\ Stands(id, handled[id])'
    BY <1>2 DEF IInv, Types, Stands, Repeat, phone
  <2>. QED
    BY <1>2, <2>1, InvAnswer DEF Repeat, reading, phone
<1>3. ASSUME NEW outcome \in {"saved", "refused"}, Perform(id, outcome) PROVE IInv'
  BY <1>3, InvPerform DEF Perform, reading, Outcomes
<1>4. ASSUME NEW outcome \in {"saved", "refused"}, RecordFails(id, outcome) PROVE IInv'
  BY <1>4, InvPerform DEF RecordFails, reading, Outcomes
<1>5. ASSUME NEW recorded \in BOOLEAN, PhoneDies(id, recorded) PROVE IInv'
  <2>1. /\ {} \in SUBSET Answer(id, "saved") /\ "saved" \in Outcomes
        /\ \/ handled' = [handled EXCEPT ![id] = "saved"] /\ unrecorded' = unrecorded
           \/ handled' = handled /\ unrecorded' = unrecorded \cup {id}
    BY <1>5 DEF PhoneDies, Outcomes
  <2>. QED
    BY <1>5, <2>1, InvPerform DEF PhoneDies, reading
<1>6. CASE PhoneDiesFirst(id)
  <2>1. /\ Deliver(id, {})
        /\ UNCHANGED <<asked, items, snaps, dropped, cut, handled, wrote, unrecorded>>
    BY <1>6 DEF PhoneDiesFirst, phone, reading
  <2>2. /\ air' \subseteq air /\ replies' \subseteq replies /\ acks' \subseteq acks
        /\ queued' \in [Ids -> Nat] /\ \A i \in Ids : queued'[i] <= queued[i]
    BY <2>1 DEF Deliver, IInv, Queues
  <2>. QED
    BY <2>1, <2>2, InvLink DEF IInv, Types
<1>. QED
  BY <1>1, <1>2, <1>3, <1>4, <1>5, <1>6 DEF Handle, HandleBadly

(* Every step keeps the invariant.                                         *)
LEMMA InvStep == IInv /\ [Next]_vars => IInv'
<1>. SUFFICES ASSUME IInv, [Next]_vars PROVE IInv'
  OBVIOUS
<1>0. /\ Asked \subseteq Ids /\ air \subseteq Asked
      /\ queued \in [Ids -> Nat] /\ \A id \in Ids : queued[id] <= queued[id]
  <2>1. queued \in [Ids -> Nat]
    BY DEF IInv, Queues
  <2>2. \A id \in Ids : queued[id] <= queued[id]
    BY <2>1
  <2>. QED
    BY <2>1, <2>2, AskedIds DEF IInv, Types
<1>1. ASSUME NEW kind \in Kinds, Enqueue(kind) PROVE IInv'
  BY <1>1, InvEnqueue
<1>2. CASE ResendWaiting
  <2>1. PICK ids \in SUBSET Ids : ids = {id \in Ids : Waits(items, id)} /\ Send(items, ids)
    BY <1>2 DEF ResendWaiting
  <2>2. ids \subseteq Asked
    BY <2>1 DEF Waits, IInv, Types
  <2>3. CASE Transfer(items, ids) /\ UNCHANGED air
    BY <1>0, <1>2, <2>3, InvTransfer DEF ResendWaiting, phone, answers, reading
  <2>4. CASE items' = items /\ UNCHANGED queued /\ (air' = air \cup ids \/ UNCHANGED air)
    BY <1>0, <1>2, <2>2, <2>4, InvLink DEF ResendWaiting, phone, answers, reading
  <2>. QED
    BY <2>1, <2>3, <2>4 DEF Send, link
<1>3. CASE KillWatch \/ Launch
  BY <1>0, <1>3, InvLink, InvLaunch DEF KillWatch, link, phone, answers, reading
<1>13. CASE RePair
  <2>1. queued' \in [Ids -> Nat] /\ \A id \in Ids : queued'[id] <= queued[id]
    BY <1>0, <1>13 DEF RePair
  <2>. QED
    BY <1>0, <1>13, <2>1, InvLink DEF RePair, phone, reading
<1>4. CASE Activated
  BY <1>4, InvActivated
<1>5. CASE SendSnapshot
  BY <1>5, InvSnapshot
<1>6. ASSUME NEW id \in Ids, TimerFires(id) \/ MessageFails(id) PROVE IInv'
  BY <1>0, <1>6, InvTransfer DEF TimerFires, MessageFails, phone, answers, reading
<1>7. ASSUME NEW id \in Ids, \/ Retry(id) \/ Delete(id) \/ KillInTransfer(id)
                             \/ Handle(id) \/ HandleBadly(id)
      PROVE  IInv'
  BY <1>7, InvRetry, InvDelete, InvKillInTransfer, InvHandle
<1>8. ASSUME NEW ack \in replies, ReplyFails(ack) PROVE IInv'
  <2>1. {ack.id} \in SUBSET Ids
    BY <1>0 DEF IInv, Types
  <2>. QED
    BY <1>0, <1>8, <2>1, InvTransfer DEF ReplyFails, phone, reading
<1>9. ASSUME NEW ack \in replies \cup acks, Settle(ack) \/ KillInSettle(ack) PROVE IInv'
  BY <1>0, <1>9, InvSettle, InvLink DEF KillInSettle, phone, reading
<1>10. ASSUME NEW n \in 1..MaxSnapshots, Take(n) PROVE IInv'
  BY <1>10, InvTake
<1>11. ASSUME NEW opened \in BOOLEAN, PhoneLaunch(opened) PROVE IInv'
  BY <1>0, <1>11, InvLink DEF PhoneLaunch, link, answers, reading
<1>12. CASE UNCHANGED vars
  BY <1>0, <1>12, InvLink DEF vars, link, phone, answers, reading
<1>. QED
  BY <1>1, <1>2, <1>3, <1>4, <1>5, <1>6, <1>7, <1>8, <1>9, <1>10, <1>11, <1>12,
     <1>13 DEF Next

(* So it always holds.                                                    *)
LEMMA InvAlways == Spec => []IInv
BY InvInit, InvStep, PTL DEF Spec

(* Exactly once: through repeats, losses, re-pairs and restarts the phone  *)
(* writes the same words twice only where it failed to record one of their *)
(* ids in watch_requests (VaultSession.handle), retries included.          *)
THEOREM WrittenExactlyOnce == Spec => []WrittenOnce
<1>1. IInv => WrittenOnce
  <2>. SUFFICES ASSUME IInv, NEW w \in AllWords, wrote[w] > 1
                PROVE  IdsOf(w) \cap unrecorded # {}
    BY DEF WrittenOnce
  <2>1. w \in Ids /\ wrote[w] \in Nat
    BY AskedWords DEF IInv, Types, AllWords, Asked
  <2>2. PICK id \in Asked : /\ Words(id) = w
                            /\ id \in unrecorded \/ (handled[id] = "saved" /\ wrote[w] = 1)
    BY <2>1 DEF IInv, Once
  <2>. QED
    BY <2>1, <2>2 DEF IdsOf, Asked
<1>. QED
  BY <1>1, InvAlways, PTL

(* What the person said stands in the watch's outbox until the phone wrote *)
(* it, unless it was deleted or a refused tick (apply of WatchOutbox).     *)
THEOREM WordsKept == Spec => []NothingLost
<1>1. IInv => NothingLost
  BY DEF IInv
<1>. QED
  BY <1>1, InvAlways, PTL

(* transfer, markTransferred and reconcile: the system holds a request     *)
(* once, and once more for each time the watch was killed between the      *)
(* hand-over and the mark.                                                 *)
THEOREM QueuedOnce == Spec => []HandedOverOnce
<1>1. IInv => HandedOverOnce
  BY DEF IInv, Queues, HandedOverOnce
<1>. QED
  BY <1>1, InvAlways, PTL

(* transfer changes marks alone.                                           *)
LEMMA TransferMarks ==
    ASSUME NEW its \in [Ids -> ItemRow], NEW ids, Transfer(its, ids), NEW id \in Ids
    PROVE  items'[id].state = its[id].state
<1>1. [its[id] EXCEPT !.transferred = TRUE].state = its[id].state
  BY DEF ItemRow
<1>. QED
  BY <1>1 DEF Transfer

(* send keeps the state of every item.                                     *)
LEMMA SendMarks ==
    ASSUME NEW its \in [Ids -> ItemRow], NEW ids, Send(its, ids), NEW id \in Ids
    PROVE  items'[id].state = its[id].state
BY TransferMarks DEF Send

(* A saved request leaves the outbox only for a snapshot that shows its    *)
(* write or is of the very second the file kept, or for an unrecorded      *)
(* refusal (apply, forgetSaved and the dates of WatchFiles).               *)
THEOREM SavedUntilShown == Spec => ForgetsOnlyShown
<1>. DEFINE Forgets == \A id \in Ids : items[id].state = "saved" /\ items'[id].state = "none"
                           => \/ id \in unrecorded \/ Words(id) \in snaps[shown'].shows
                              \/ items[id].at = snaps[shown'].madeAt
<1>1. ASSUME IInv, [Next]_vars PROVE Forgets
  <2>. SUFFICES ASSUME NEW id \in Ids, items[id].state = "saved", items'[id].state = "none"
                PROVE  \/ id \in unrecorded \/ Words(id) \in snaps[shown'].shows
                       \/ items[id].at = snaps[shown'].madeAt
    OBVIOUS
  <2>0. /\ items \in [Ids -> ItemRow] /\ id \in Asked /\ items' # items
        /\ NoItem \in ItemRow /\ Item \in ItemRow
    BY <1>1 DEF IInv, Types, NoItem, Item, ItemRow
  <2>1. ASSUME NEW kind \in Kinds, Enqueue(kind) PROVE FALSE
    <3>1. PICK new \in Ids : new = Len(asked) + 1 /\ Send([items EXCEPT ![new] = Item], {new})
      BY <2>1 DEF Enqueue
    <3>2. items'[id].state = [items EXCEPT ![new] = Item][id].state
      BY <2>0, <3>1, SendMarks
    <3>. QED
      BY <2>0, <3>2 DEF Item
  <2>2. CASE ResendWaiting
    BY <2>0, <2>2, SendMarks DEF ResendWaiting
  <2>3. CASE Activated
    <3>1. [items[id] EXCEPT !.transferred = FALSE].state = items[id].state
      BY <2>0 DEF ItemRow
    <3>2. Reconcile \in [Ids -> ItemRow] /\ Reconcile[id].state = items[id].state
      <4>1. \A i \in Ids : [items[i] EXCEPT !.transferred = FALSE] \in ItemRow
        BY <2>0 DEF ItemRow
      <4>. QED
        BY <2>0, <3>1, <4>1 DEF Reconcile
    <3>. QED
      BY <2>3, <3>2, TransferMarks DEF Activated
  <2>4. ASSUME NEW i \in Ids, TimerFires(i) \/ MessageFails(i) PROVE FALSE
    BY <2>0, <2>4, TransferMarks DEF TimerFires, MessageFails
  <2>5. ASSUME NEW ack \in replies, ReplyFails(ack) PROVE FALSE
    BY <2>0, <2>5, TransferMarks DEF ReplyFails
  <2>6. ASSUME NEW i \in Ids, Retry(i) PROVE FALSE
    <3>1. PICK new \in Ids : Send([items EXCEPT ![i] = NoItem, ![new] = Item], {new})
      BY <2>6 DEF Retry
    <3>2. items'[id].state = [items EXCEPT ![i] = NoItem, ![new] = Item][id].state
      BY <2>0, <3>1, SendMarks
    <3>3. i # id
      BY <2>6 DEF Retry
    <3>. QED
      BY <2>0, <3>2, <3>3 DEF Item
  <2>7. ASSUME NEW i \in Ids, Delete(i) PROVE FALSE
    BY <2>0, <2>7 DEF Delete
  <2>8. ASSUME NEW ack \in replies \cup acks, Settle(ack) PROVE id \in unrecorded
    <3>1. PICK s \in 0..MaxSeconds : items' = Apply(ack, Within(s)) /\ ack.id \in Ids
      BY <1>1, <2>8, AskedIds DEF Settle, IInv, Types
    <3>2. ack.id = id
      BY <2>0, <3>1 DEF Apply
    <3>3. ack.outcome # "saved"
      BY <2>0, <3>1, <3>2 DEF Apply, ItemRow
    <3>4. Stands(id, ack.outcome) /\ Stands(id, "saved")
      BY <1>1, <2>0, <3>2 DEF IInv, Answered, Held, Outcomes
    <3>. QED
      BY <3>3, <3>4 DEF Stands
  <2>9. ASSUME NEW n \in 1..MaxSnapshots, Take(n)
        PROVE  Words(id) \in snaps[shown'].shows \/ items[id].at = snaps[shown'].madeAt
    <3>1. items[id].at <= snaps[n].madeAt /\ n \in DOMAIN snaps /\ shown' = n
      BY <2>9 DEF Take, ForgetSaved
    <3>2. snaps[n] \in Snapshot /\ items[id].at \in Nat
      BY <1>1, <2>0, <3>1 DEF IInv, Types, ItemRow
    <3>3. items[id].at < snaps[n].madeAt \/ items[id].at = snaps[n].madeAt
      BY <3>1, <3>2 DEF Snapshot
    <3>. QED
      BY <1>1, <2>0, <3>1, <3>3 DEF IInv, Held, Shows
  <2>10. ASSUME NEW i \in Ids, Handle(i) \/ HandleBadly(i) PROVE FALSE
    BY <2>0, <2>10 DEF Handle, HandleBadly, NotReady, Repeat, Perform, LookupFails, RecordFails,
       PhoneDies, PhoneDiesFirst
  <2>11. CASE \/ KillWatch \/ RePair \/ SendSnapshot \/ UNCHANGED vars
              \/ \E opened \in BOOLEAN : PhoneLaunch(opened)
              \/ \E i \in Ids : KillInTransfer(i) \/ \E ack \in replies \cup acks : KillInSettle(ack)
    BY <2>0, <2>11 DEF KillWatch, RePair, SendSnapshot, PhoneLaunch, KillInTransfer,
       KillInSettle, vars
  <2>12. CASE Launch
    <3>1. items'[id] = [items[id] EXCEPT !.at = Whole(items[id].at)]
      BY <2>12 DEF Launch
    <3>2. items'[id].state = items[id].state
      BY <2>0, <3>1 DEF ItemRow
    <3>. QED
      BY <3>2
  <2>. QED
    BY <1>1, <2>1, <2>2, <2>3, <2>4, <2>5, <2>6, <2>7, <2>8, <2>9, <2>10, <2>11, <2>12 DEF Next
<1>. QED
  BY <1>1, InvAlways, PTL DEF Spec, ForgetsOnlyShown
===============================================================================
