--------------------------- MODULE PlusAccountProofs --------------------------
(***************************************************************************)
(* Proofs about PlusAccount, for every allowance and any number of keys,   *)
(* phones, admin changes and faults.                                       *)
(***************************************************************************)
EXTENDS PlusAccount, FiniteSetTheorems, TLAPS

Row ==
    [adjust : Int, used : Nat, exhausted : BOOLEAN, over : BOOLEAN, due : BOOLEAN,
     revoked : BOOLEAN, deskBase : Int, deskLimit : Nat,
     phoneKey : Keys \cup {NoKey}, phoneBase : Nat, phoneLimit : Nat]

Table   == [Keys -> [spent : Nat, limit : Nat, off : BOOLEAN, alive : BOOLEAN]]
Holders == [Keys -> SUBSET Phones]

\* A phone gets its credential only once what was before it is dropped, and asks with it.
Credentials ==
    /\ "pair" \in drops => paired > 0
    /\ cred \subseteq 1..paired
    /\ grants \subseteq cred

\* A secret has one holder, that of the recorded key being the phone with the credential.
Secrets ==
    /\ \A k \in Keys : \A p, q \in holders[k] : p = q
    /\ \A k \in Keys : k > minted => holders[k] = {}
    /\ row.phoneKey # NoKey /\ phone \in cred => holders[row.phoneKey] \subseteq {phone}

(* What holds of a row r, the gateway ks, the holders hs of its secrets, m *)
(* keys minted, the keys torn, and the history of the spend.               *)

\* The recorded key was minted after the desk's, and neither baseline is ahead of its key.
Baselines(r, ks, m) ==
    /\ r.phoneKey # DeskKey
    /\ r.phoneKey # NoKey => r.phoneKey <= m /\ r.phoneBase <= ks[r.phoneKey].spent
    /\ r.deskBase <= ks[DeskKey].spent

Matches(r, ks, tn) ==
    ~r.revoked =>
        \A k \in ({DeskKey, r.phoneKey} \ {NoKey}) \ tn :
            /\ ks[k].off = r.exhausted
            /\ ks[k].limit = IF k = DeskKey THEN r.deskLimit ELSE r.phoneLimit

\* No key lives on that the row does not know.
Departed(r, ks) ==
    /\ \A k \in Keys : ks[k].alive => (k = DeskKey /\ ~r.revoked) \/ k = r.phoneKey
    /\ r.revoked => r.phoneKey = NoKey

Pool(r, ks) ==
    ks[DeskKey].spent - r.deskBase
    + (IF r.phoneKey = NoKey THEN 0 ELSE ks[r.phoneKey].spent - r.phoneBase)

\* Where no recount is due, the row's caps and switch are those of its balance, and a key
\* that may spend has not spent more than the allowance alone.
Settled(r, ks) ==
    ~r.due /\ ~r.over =>
        /\ r.exhausted = Empty(r)
        /\ r.deskLimit = DeskCap(r)
        /\ r.phoneKey # NoKey => r.phoneLimit = PhoneCap(r)
        /\ ~r.exhausted =>
               /\ ks[DeskKey].spent <= r.deskBase + AllowanceOf(r)
               /\ r.phoneKey # NoKey => ks[r.phoneKey].spent <= PhoneCap(r)

\* What a key may still spend before it is configured again.
Room(ks, hs, k) ==
    IF /\ k = DeskKey \/ hs[k] # {}
       /\ ks[k].alive /\ ~ks[k].off /\ ks[k].spent < ks[k].limit
    THEN ks[k].limit - ks[k].spent ELSE 0

Rooms(r, ks, hs) ==
    Room(ks, hs, DeskKey) + IF r.phoneKey = NoKey THEN 0 ELSE Room(ks, hs, r.phoneKey)

\* Where nothing failed, what was spent and what may still be is twice the allowance at most.
Ledger(r, ks, hs, m, tn, sp, pk, fl) ==
    /\ Baselines(r, ks, m)
    /\ Matches(r, ks, tn)
    /\ AllowanceOf(r) <= pk
    /\ fl = 0 => /\ tn = {}
                 /\ Departed(r, ks)
                 /\ ~r.revoked => sp = Pool(r, ks) /\ Settled(r, ks)
                 /\ sp + Rooms(r, ks, hs) <= 2 * pk

IInv == /\ TypeOK /\ Credentials /\ KeyDiesWithPhone /\ Secrets
        /\ Ledger(row, key, holders, minted, torn, spent, peak, faults)

(* The bounds are numbers, and there is a desk key and a phone.            *)
LEMMA Bounds ==
    /\ Allowance \in Nat /\ Allowance > 0 /\ MaxKeys \in Nat /\ MaxPhones \in Nat
    /\ MaxAdmin \in Nat /\ MaxFaults \in Nat
    /\ DeskKey \in Keys /\ DeskKey = 1 /\ NoKey = 0 /\ NoKey \notin Keys /\ Keys \subseteq Nat
    /\ NoPhone = 0 /\ NoPhone \notin Phones /\ Phones \subseteq Nat
BY AccountAssumption DEF Keys, Phones, DeskKey, NoKey, NoPhone

(* The type invariant in the names used here.                              *)
LEMMA Types ==
    TypeOK => /\ row \in Row /\ key \in Table /\ holders \in Holders
              /\ minted \in Keys /\ torn \subseteq Keys
              /\ spent \in Nat /\ peak \in Nat /\ faults \in Nat
BY Bounds DEF TypeOK, Row, Table, Holders

(* An allowance is a number.                                               *)
LEMMA AllowanceType ==
    ASSUME NEW r \in Row
    PROVE  /\ AllowanceOf(r) \in Nat /\ DeskCap(r) \in Nat /\ PhoneCap(r) \in Nat
           /\ Empty(r) \in BOOLEAN
<1>1. r.adjust \in Int /\ r.used \in Nat /\ r.deskBase \in Int /\ r.phoneBase \in Nat
  BY DEF Row
<1>2. AllowanceOf(r) \in Nat
  BY <1>1, Bounds DEF AllowanceOf, AtLeast0
<1>3. DeskCap(r) \in Nat /\ PhoneCap(r) \in Nat
  BY <1>1, <1>2 DEF DeskCap, PhoneCap, AtLeast0
<1>. QED
  BY <1>2, <1>3 DEF Empty

(* A roll-over keeps the row's type.                                       *)
LEMMA RollOver ==
    ASSUME NEW r \in Row, NEW a \in Int, NEW b \in Nat, NEW u \in Nat, NEW j \in Int,
           NEW o \in BOOLEAN, NEW d \in BOOLEAN
    PROVE  [r EXCEPT !.deskBase = a, !.phoneBase = b, !.used = u, !.adjust = j, !.over = o,
                     !.due = d] \in Row
BY DEF Row

(* What Counted does to a row.                                             *)
CountedTo(r, ks, c) ==
    /\ c \in Row /\ c.over = FALSE
    /\ c.phoneKey = r.phoneKey /\ c.exhausted = r.exhausted /\ c.revoked = r.revoked
    /\ c.deskLimit = r.deskLimit /\ c.phoneLimit = r.phoneLimit
    /\ r.over => /\ c.deskBase = ks[DeskKey].spent /\ c.used = 0 /\ c.adjust = 0
                 /\ c.phoneBase = Usage(ks, r.phoneKey) /\ c.due = FALSE
    /\ ~r.over => /\ c.deskBase = r.deskBase /\ c.phoneBase = r.phoneBase
                  /\ c.adjust = r.adjust
    /\ ~r.over /\ r.due => /\ c.used = AtLeast0(ks[DeskKey].spent - r.deskBase)
                                       + AtLeast0(Usage(ks, r.phoneKey) - r.phoneBase)
                           /\ c.due = FALSE
    /\ ~r.over /\ ~r.due => c = r

(* Counted does just that.                                                 *)
LEMMA CountedFields ==
    ASSUME NEW r \in Row, NEW ks \in Table, NEW c, c = Counted(r, ks)
    PROVE  CountedTo(r, ks, c)
<1>1. /\ ks[DeskKey].spent \in Nat /\ Usage(ks, r.phoneKey) \in Nat
      /\ Usage(ks, DeskKey) = ks[DeskKey].spent
  BY Bounds DEF Row, Table, Usage
<1>2. CASE r.over
  <2>1. c = [r EXCEPT !.deskBase = ks[DeskKey].spent, !.phoneBase = Usage(ks, r.phoneKey),
                      !.used = 0, !.adjust = 0, !.over = FALSE, !.due = FALSE]
    BY <1>1, <1>2 DEF Counted
  <2>2. c \in Row
    <3>1. PICK a \in Int : a = ks[DeskKey].spent
      BY <1>1
    <3>2. PICK b \in Nat : b = Usage(ks, r.phoneKey)
      BY <1>1
    <3>3. PICK none \in Nat : none = 0
      OBVIOUS
    <3>4. PICK zero \in Int : zero = 0
      OBVIOUS
    <3>5. PICK no \in BOOLEAN : no = FALSE
      OBVIOUS
    <3>6. [r EXCEPT !.deskBase = a, !.phoneBase = b, !.used = none, !.adjust = zero,
                    !.over = no, !.due = no] \in Row
      BY RollOver
    <3>. QED
      BY <2>1, <3>1, <3>2, <3>3, <3>4, <3>5, <3>6
  <2>. QED
    BY <1>2, <2>1, <2>2 DEF Row, CountedTo
<1>3. CASE ~r.over /\ r.due
  <2>. DEFINE sum == AtLeast0(ks[DeskKey].spent - r.deskBase)
                     + AtLeast0(Usage(ks, r.phoneKey) - r.phoneBase)
  <2>1. sum \in Nat
    <3>1. r.deskBase \in Int /\ r.phoneBase \in Nat
      BY DEF Row
    <3>. QED
      BY <1>1, <3>1 DEF AtLeast0
  <2>2. c = [r EXCEPT !.used = sum, !.due = FALSE]
    BY <1>1, <1>3 DEF Counted
  <2>. HIDE DEF sum
  <2>3. c \in Row /\ c.used = sum
    BY <2>1, <2>2 DEF Row
  <2>4. /\ c.due = FALSE /\ c.over = r.over
        /\ c.phoneKey = r.phoneKey /\ c.exhausted = r.exhausted /\ c.revoked = r.revoked
        /\ c.deskLimit = r.deskLimit /\ c.phoneLimit = r.phoneLimit
        /\ c.deskBase = r.deskBase /\ c.phoneBase = r.phoneBase /\ c.adjust = r.adjust
    BY <2>2 DEF Row
  <2>5. r.over = FALSE
    BY <1>3 DEF Row
  <2>. QED
    BY <1>3, <2>3, <2>4, <2>5 DEF sum, CountedTo
<1>4. CASE ~r.over /\ ~r.due
  <2>1. c = r /\ r.over = FALSE
    BY <1>4 DEF Counted, Row
  <2>. QED
    BY <1>4, <2>1 DEF CountedTo
<1>. QED
  BY <1>2, <1>3, <1>4

(* A saved row after a pass keeps the row's type.                          *)
LEMMA SavedRow ==
    ASSUME NEW r \in Row, NEW a \in Nat, NEW b \in Nat, NEW e \in BOOLEAN
    PROVE  [r EXCEPT !.deskLimit = a, !.phoneLimit = b, !.exhausted = e] \in Row
BY DEF Row

(* Which keys a pass configures, and what it saves: the caps and the       *)
(* switch of its own count, on every key of the row.                       *)
PassTo(r, ks, c, p) ==
    /\ p.configure \subseteq {DeskKey, r.phoneKey} \ {NoKey}
    /\ p.off = Empty(c)
    /\ \A k \in p.configure : p.caps[k] = IF k = DeskKey THEN DeskCap(c) ELSE PhoneCap(c)
    /\ p.row \in Row /\ p.row.exhausted = Empty(c) /\ p.row.deskLimit = DeskCap(c)
    /\ r.phoneKey # NoKey => p.row.phoneLimit = PhoneCap(c)
    /\ p.row.phoneKey = c.phoneKey /\ p.row.revoked = c.revoked
    /\ p.row.over = c.over /\ p.row.due = c.due
    /\ p.row.adjust = c.adjust /\ p.row.used = c.used
    /\ p.row.deskBase = c.deskBase /\ p.row.phoneBase = c.phoneBase
    /\ \A k \in ({DeskKey, r.phoneKey} \ {NoKey}) \ p.configure :
           /\ Empty(c) = c.exhausted
           /\ k = DeskKey => DeskCap(c) = c.deskLimit
           /\ k # DeskKey => PhoneCap(c) = c.phoneLimit

(* A pass does just that.                                                  *)
LEMMA PassFields ==
    ASSUME NEW r \in Row, NEW ks \in Table, r.phoneKey # DeskKey,
           NEW c, c = Counted(r, ks), NEW p, p = Pass(r, ks)
    PROVE  PassTo(r, ks, c, p)
<1>. DEFINE flipped == Empty(c) # c.exhausted \/ r.over
            conf == ToConfigure(c, r.over)
            dl == IF DeskKey \in conf THEN DeskCap(c) ELSE c.deskLimit
            pl == IF c.phoneKey \in conf THEN PhoneCap(c) ELSE c.phoneLimit
            ex == IF conf # {} THEN Empty(c) ELSE c.exhausted
<1>1. c \in Row /\ c.phoneKey = r.phoneKey /\ DeskKey # NoKey
  <2>1. CountedTo(r, ks, c)
    BY CountedFields
  <2>. QED
    BY <2>1 DEF CountedTo, DeskKey, NoKey
<1>2. DeskCap(c) \in Nat /\ PhoneCap(c) \in Nat /\ Empty(c) \in BOOLEAN
  BY <1>1, AllowanceType
<1>3. /\ p.configure = conf /\ p.off = Empty(c)
      /\ p.caps = [k \in conf |-> IF k = DeskKey THEN DeskCap(c) ELSE PhoneCap(c)]
      /\ p.row = [c EXCEPT !.deskLimit = dl, !.phoneLimit = pl, !.exhausted = ex]
  BY DEF Pass
<1>4. /\ DeskKey \in conf <=> (flipped \/ DeskCap(c) # c.deskLimit)
      /\ c.phoneKey # NoKey =>
             (c.phoneKey \in conf <=> (flipped \/ PhoneCap(c) # c.phoneLimit))
      /\ NoKey \notin conf /\ conf \subseteq {DeskKey, c.phoneKey} \ {NoKey}
  BY <1>1 DEF ToConfigure
<1>. HIDE DEF conf
<1>5. /\ dl = DeskCap(c) /\ ex = Empty(c)
      /\ c.phoneKey # NoKey => pl = PhoneCap(c)
  BY <1>4
<1>6. /\ c.deskLimit \in Nat /\ c.phoneLimit \in Nat /\ c.exhausted \in BOOLEAN
  BY <1>1 DEF Row
<1>7. dl \in Nat /\ pl \in Nat /\ ex \in BOOLEAN
  BY <1>2, <1>6
<1>. HIDE DEF dl, pl, ex
<1>8. p.row \in Row
  <2>1. [c EXCEPT !.deskLimit = dl, !.phoneLimit = pl, !.exhausted = ex] \in Row
    BY <1>1, <1>7, SavedRow
  <2>. QED
    BY <1>3, <2>1
<1>9. /\ p.row.deskLimit = dl /\ p.row.phoneLimit = pl /\ p.row.exhausted = ex
      /\ p.row.phoneKey = c.phoneKey /\ p.row.revoked = c.revoked
      /\ p.row.over = c.over /\ p.row.due = c.due
      /\ p.row.adjust = c.adjust /\ p.row.used = c.used
      /\ p.row.deskBase = c.deskBase /\ p.row.phoneBase = c.phoneBase
  BY <1>1, <1>3 DEF Row
<1>10. \A k \in ({DeskKey, r.phoneKey} \ {NoKey}) \ conf :
           /\ Empty(c) = c.exhausted
           /\ k = DeskKey => DeskCap(c) = c.deskLimit
           /\ k # DeskKey => PhoneCap(c) = c.phoneLimit
  BY <1>1, <1>4
<1>11. \A k \in conf : p.caps[k] = IF k = DeskKey THEN DeskCap(c) ELSE PhoneCap(c)
  BY <1>3
<1>12. /\ p.configure \subseteq {DeskKey, r.phoneKey} \ {NoKey} /\ p.off = Empty(c)
       /\ \A k \in p.configure : p.caps[k] = IF k = DeskKey THEN DeskCap(c) ELSE PhoneCap(c)
  BY <1>1, <1>3, <1>4, <1>11
<1>13. /\ p.row.exhausted = Empty(c) /\ p.row.deskLimit = DeskCap(c)
       /\ r.phoneKey # NoKey => p.row.phoneLimit = PhoneCap(c)
  BY <1>1, <1>5, <1>9
<1>14. \A k \in ({DeskKey, r.phoneKey} \ {NoKey}) \ p.configure :
           /\ Empty(c) = c.exhausted
           /\ k = DeskKey => DeskCap(c) = c.deskLimit
           /\ k # DeskKey => PhoneCap(c) = c.phoneLimit
  BY <1>3, <1>10
<1>. QED
  BY <1>8, <1>9, <1>12, <1>13, <1>14 DEF PassTo

(* What configuring some keys does to the gateway.                         *)
LEMMA ConfiguredFields ==
    ASSUME NEW ks \in Table, NEW p, NEW done \in SUBSET Keys, p.off \in BOOLEAN,
           \A k \in done : p.caps[k] \in Nat, NEW new, new = Configured(ks, p, done)
    PROVE  /\ new \in Table
           /\ \A k \in Keys : new[k].spent = ks[k].spent /\ new[k].alive = ks[k].alive
           /\ \A k \in done : new[k].limit = p.caps[k] /\ new[k].off = p.off
           /\ \A k \in Keys \ done : new[k] = ks[k]
<1>1. \A k \in done : [ks[k] EXCEPT !.limit = p.caps[k], !.off = p.off]
                      \in [spent : Nat, limit : Nat, off : BOOLEAN, alive : BOOLEAN]
  BY DEF Table
<1>. QED
  BY <1>1 DEF Configured, Table

(* The numbers of a row and of its keys.                                   *)
LEMMA Numbers ==
    ASSUME NEW r \in Row, NEW ks \in Table
    PROVE  /\ r.adjust \in Int /\ r.used \in Nat /\ r.deskBase \in Int /\ r.deskLimit \in Nat
           /\ r.phoneBase \in Nat /\ r.phoneLimit \in Nat
           /\ ks[DeskKey].spent \in Nat /\ ks[DeskKey].limit \in Nat
           /\ r.phoneKey # NoKey => /\ r.phoneKey \in Keys
                                    /\ ks[r.phoneKey].spent \in Nat
                                    /\ ks[r.phoneKey].limit \in Nat
BY Bounds DEF Row, Table

(* The room is a number.                                                   *)
LEMMA RoomsType ==
    ASSUME NEW r \in Row, NEW ks \in Table, NEW hs PROVE Rooms(r, ks, hs) \in Nat
<1>1. ASSUME NEW k \in Keys PROVE Room(ks, hs, k) \in Nat
  <2>1. ks[k].spent \in Nat /\ ks[k].limit \in Nat
    BY <1>1 DEF Table
  <2>. QED
    BY <2>1 DEF Room
<1>2. DeskKey \in Keys /\ (r.phoneKey # NoKey => r.phoneKey \in Keys)
  BY Bounds, Numbers
<1>3. Room(ks, hs, DeskKey) \in Nat /\ (r.phoneKey # NoKey => Room(ks, hs, r.phoneKey) \in Nat)
  BY <1>1, <1>2
<1>. QED
  BY <1>3 DEF Rooms

(* A key that is off, or not handed out, has no room.                      *)
LEMMA RoomOff ==
    ASSUME NEW r \in Row, NEW ks \in Table, NEW hs, ks[DeskKey].off,
           r.phoneKey # NoKey => ks[r.phoneKey].off
    PROVE  Rooms(r, ks, hs) = 0
BY DEF Rooms, Room

(* What is left under caps that are those of the balance is the allowance  *)
(* at most on each key.                                                    *)
LEMMA RoomBound ==
    ASSUME NEW r \in Row, NEW ks \in Table, NEW hs,
           ks[DeskKey].limit = DeskCap(r),
           r.phoneKey # NoKey => ks[r.phoneKey].limit = PhoneCap(r),
           ks[DeskKey].spent <= r.deskBase + AllowanceOf(r),
           r.phoneKey # NoKey => ks[r.phoneKey].spent <= PhoneCap(r)
    PROVE  Pool(r, ks) + Rooms(r, ks, hs) <= 2 * AllowanceOf(r)
<1>1. AllowanceOf(r) \in Nat
  BY AllowanceType
<1>2. Room(ks, hs, DeskKey) \in Int
      /\ Room(ks, hs, DeskKey) <= r.deskBase + AllowanceOf(r) - ks[DeskKey].spent
  BY <1>1, Numbers DEF Room, DeskCap, AtLeast0
<1>3. CASE r.phoneKey = NoKey
  BY <1>1, <1>2, <1>3, Numbers DEF Pool, Rooms
<1>4. CASE r.phoneKey # NoKey
  <2>1. /\ Room(ks, hs, r.phoneKey) \in Int
        /\ Room(ks, hs, r.phoneKey) <= r.phoneBase + AllowanceOf(r) - ks[r.phoneKey].spent
    BY <1>1, <1>4, Numbers DEF Room, PhoneCap
  <2>. QED
    BY <1>1, <1>2, <1>4, <2>1, Numbers DEF Pool, Rooms
<1>. QED
  BY <1>3, <1>4

(* A pass that saves keeps the ledger, whoever is handed a secret.         *)
LEMMA SavesLedger ==
    ASSUME TypeOK, NEW r \in Row, NEW ks \in Table, NEW hs, NEW new, NEW m \in Keys,
           ~r.revoked, Ledger(r, ks, hs, m, torn, spent, peak, faults), PassSaves(r, ks)
    PROVE  /\ row' \in Row /\ key' \in Table
           /\ spent' \in Nat /\ peak' \in Nat /\ torn' \subseteq Keys /\ faults' = faults
           /\ row'.phoneKey = r.phoneKey /\ row'.revoked = r.revoked
           /\ Ledger(row', key', new, m, torn', spent', peak', faults')
<1>1. PICK c, p : c = Counted(r, ks) /\ p = Pass(r, ks)
  OBVIOUS
<1>2. r.phoneKey # DeskKey /\ Baselines(r, ks, m) /\ Matches(r, ks, torn) /\ AllowanceOf(r) <= peak
  BY DEF Ledger, Baselines
<1>3. CountedTo(r, ks, c)
  BY <1>1, CountedFields
<1>4. PassTo(r, ks, c, p)
  BY <1>1, <1>2, PassFields
<1>5. /\ row' = p.row /\ key' = Configured(ks, p, p.configure) /\ torn' = torn \ p.configure
      /\ spent' = (IF r.over THEN 0 ELSE spent)
      /\ peak' = (IF r.over THEN AllowanceOf(row') ELSE peak)
      /\ faults' = faults
  BY <1>1 DEF PassSaves
<1>6. c \in Row /\ row' \in Row
  BY <1>3, <1>4, <1>5 DEF CountedTo, PassTo
<1>7. DeskCap(c) \in Nat /\ PhoneCap(c) \in Nat /\ Empty(c) \in BOOLEAN
      /\ AllowanceOf(row') \in Nat /\ AllowanceOf(r) \in Nat
  BY <1>6, AllowanceType
<1>8. /\ p.configure \in SUBSET Keys /\ p.off \in BOOLEAN
      /\ \A k \in p.configure : p.caps[k] \in Nat
  <2>1. {DeskKey, r.phoneKey} \ {NoKey} \subseteq Keys
    BY Bounds, Numbers
  <2>2. p.off \in BOOLEAN
    BY <1>4, <1>7 DEF PassTo
  <2>. QED
    BY <1>4, <1>7, <2>1, <2>2 DEF PassTo
<1>9. /\ key' \in Table
      /\ \A k \in Keys : key'[k].spent = ks[k].spent /\ key'[k].alive = ks[k].alive
      /\ \A k \in p.configure : key'[k].limit = p.caps[k] /\ key'[k].off = p.off
      /\ \A k \in Keys \ p.configure : key'[k] = ks[k]
  BY <1>5, <1>8, ConfiguredFields
<1>10. /\ row'.phoneKey = r.phoneKey /\ row'.revoked = r.revoked /\ row'.over = FALSE
       /\ row'.adjust = c.adjust /\ row'.used = c.used /\ row'.due = c.due
       /\ row'.deskBase = c.deskBase /\ row'.phoneBase = c.phoneBase
  BY <1>3, <1>4, <1>5 DEF CountedTo, PassTo
<1>11. /\ AllowanceOf(c) = AllowanceOf(row') /\ Empty(c) = Empty(row')
       /\ DeskCap(c) = DeskCap(row') /\ PhoneCap(c) = PhoneCap(row')
  BY <1>10 DEF AllowanceOf, Empty, DeskCap, PhoneCap
<1>12. row'.exhausted = Empty(c)
  BY <1>4, <1>5 DEF PassTo
<1>13. /\ row'.deskLimit = DeskCap(row')
       /\ r.phoneKey # NoKey => row'.phoneLimit = PhoneCap(row')
  BY <1>4, <1>5, <1>11 DEF PassTo
<1>14. /\ ks[DeskKey].spent \in Nat /\ r.deskBase \in Int /\ r.phoneBase \in Nat
       /\ r.phoneKey # NoKey => r.phoneKey \in Keys /\ ks[r.phoneKey].spent \in Nat
       /\ DeskKey \in Keys /\ key'[DeskKey].spent = ks[DeskKey].spent
       /\ r.phoneKey # NoKey => key'[r.phoneKey].spent = ks[r.phoneKey].spent
  BY <1>9, Numbers, Bounds
<1>15. Baselines(row', key', m)
  BY <1>2, <1>3, <1>10, <1>14 DEF Baselines, CountedTo, Usage
<1>16. Matches(row', key', torn')
  <2>. SUFFICES ASSUME NEW k \in ({DeskKey, r.phoneKey} \ {NoKey}) \ torn'
                PROVE  /\ key'[k].off = row'.exhausted
                       /\ key'[k].limit = IF k = DeskKey THEN row'.deskLimit
                                                         ELSE row'.phoneLimit
    BY <1>10 DEF Matches
  <2>0. k \in Keys
    BY <1>14
  <2>1. CASE k \in p.configure
    <3>1. key'[k].off = row'.exhausted
      BY <1>4, <1>9, <1>12, <2>1 DEF PassTo
    <3>2. key'[k].limit = IF k = DeskKey THEN row'.deskLimit ELSE row'.phoneLimit
      BY <1>4, <1>9, <1>11, <1>13, <2>1 DEF PassTo
    <3>. QED
      BY <3>1, <3>2
  <2>2. CASE k \notin p.configure
    <3>1. key'[k] = ks[k] /\ k \notin torn
      BY <1>5, <1>9, <2>0, <2>2
    <3>2. /\ ks[k].off = r.exhausted
          /\ ks[k].limit = IF k = DeskKey THEN r.deskLimit ELSE r.phoneLimit
      BY <1>2, <3>1 DEF Matches
    <3>3. Empty(c) = c.exhausted /\ c.exhausted = r.exhausted
      BY <1>3, <1>4, <2>2 DEF PassTo, CountedTo
    <3>4. /\ k = DeskKey => DeskCap(c) = r.deskLimit
          /\ k # DeskKey => PhoneCap(c) = r.phoneLimit
      BY <1>3, <1>4, <2>2 DEF PassTo, CountedTo
    <3>5. key'[k].off = row'.exhausted
      BY <1>12, <3>1, <3>2, <3>3
    <3>6. key'[k].limit = IF k = DeskKey THEN row'.deskLimit ELSE row'.phoneLimit
      BY <1>11, <1>13, <3>1, <3>2, <3>4
    <3>. QED
      BY <3>5, <3>6
  <2>. QED
    BY <2>1, <2>2
<1>17. AllowanceOf(row') <= peak'
  BY <1>2, <1>3, <1>5, <1>7, <1>10 DEF CountedTo, AllowanceOf
<1>18. spent' \in Nat /\ peak' \in Nat /\ torn' \subseteq Keys
  BY <1>5, <1>7, Types
<1>19. ASSUME faults = 0
       PROVE  /\ torn' = {} /\ Departed(row', key')
              /\ spent' = Pool(row', key') /\ Settled(row', key')
              /\ spent' + Rooms(row', key', new) <= 2 * peak'
  <2>1. /\ torn = {} /\ Departed(r, ks) /\ spent = Pool(r, ks) /\ Settled(r, ks)
        /\ spent + Rooms(r, ks, hs) <= 2 * peak
    BY <1>19 DEF Ledger
  <2>2. torn' = {}
    BY <1>5, <2>1
  <2>3. Departed(row', key')
    <3>1. \A k \in Keys : key'[k].alive = ks[k].alive
      BY <1>9
    <3>. QED
      BY <1>10, <2>1, <3>1 DEF Departed
  <2>4. spent' = Pool(row', key')
    BY <1>3, <1>5, <1>10, <1>14, <2>1 DEF Pool, CountedTo, Usage
  <2>5. ASSUME ~row'.exhausted
        PROVE  /\ key'[DeskKey].spent <= row'.deskBase + AllowanceOf(row')
               /\ r.phoneKey # NoKey => key'[r.phoneKey].spent <= PhoneCap(row')
    <3>1. AllowanceOf(c) - c.used > 0 /\ c.used \in Nat
      <4>1. ~Empty(c)
        BY <1>12, <2>5
      <4>2. AllowanceOf(c) \in Nat /\ c.used \in Nat
        BY <1>6, <1>7, <1>11, Numbers
      <4>. QED
        BY <4>1, <4>2 DEF Empty
    <3>2. CASE r.over
      BY <1>3, <1>7, <1>10, <1>14, <3>2 DEF CountedTo, PhoneCap, Usage
    <3>3. CASE ~r.over /\ r.due
      BY <1>2, <1>3, <1>7, <1>10, <1>11, <1>14, <3>1, <3>3
         DEF CountedTo, PhoneCap, Usage, AtLeast0, Baselines
    <3>4. CASE ~r.over /\ ~r.due
      <4>1. c = r
        BY <1>3, <3>4 DEF CountedTo
      <4>2. r.exhausted = Empty(r)
        BY <2>1, <3>4 DEF Settled
      <4>3. ~r.exhausted
        BY <1>12, <2>5, <4>1, <4>2
      <4>4. /\ ks[DeskKey].spent <= r.deskBase + AllowanceOf(r)
            /\ r.phoneKey # NoKey => ks[r.phoneKey].spent <= PhoneCap(r)
        BY <2>1, <3>4, <4>3 DEF Settled
      <4>. QED
        BY <1>10, <1>11, <1>14, <4>1, <4>4
    <3>. QED
      BY <3>2, <3>3, <3>4
  <2>6. Settled(row', key')
    <3>1. row'.exhausted = Empty(row')
      BY <1>11, <1>12
    <3>. QED
      BY <1>10, <1>13, <2>5, <3>1 DEF Settled
  <2>7. spent' + Rooms(row', key', new) <= 2 * peak'
    <3>1. /\ key'[DeskKey].off = row'.exhausted /\ key'[DeskKey].limit = DeskCap(row')
          /\ r.phoneKey # NoKey => /\ key'[r.phoneKey].off = row'.exhausted
                                   /\ key'[r.phoneKey].limit = PhoneCap(row')
      <4>1. row'.revoked = FALSE
        BY <1>10 DEF Row
      <4>2. \A k \in {DeskKey, r.phoneKey} \ {NoKey} :
                /\ key'[k].off = row'.exhausted
                /\ key'[k].limit = IF k = DeskKey THEN row'.deskLimit ELSE row'.phoneLimit
        BY <1>10, <1>16, <2>2, <4>1 DEF Matches
      <4>3. DeskKey \in {DeskKey, r.phoneKey} \ {NoKey}
        BY Bounds
      <4>. QED
        BY <1>2, <1>13, <4>2, <4>3
    <3>2. CASE row'.exhausted
      <4>1. Rooms(row', key', new) = 0
        BY <1>6, <1>9, <1>10, <3>1, <3>2, RoomOff
      <4>2. spent <= 2 * peak
        <5>1. Rooms(r, ks, hs) \in Nat
          BY RoomsType
        <5>. QED
          BY <2>1, <5>1, Types
      <4>. QED
        BY <1>5, <1>7, <4>1, <4>2, Types
    <3>3. CASE ~row'.exhausted
      <4>1. Pool(row', key') + Rooms(row', key', new) <= 2 * AllowanceOf(row')
        BY <1>6, <1>9, <1>10, <2>5, <3>1, <3>3, RoomBound
      <4>2. Pool(row', key') = spent' /\ Rooms(row', key', new) \in Nat
        BY <1>6, <1>9, <2>4, RoomsType
      <4>. QED
        BY <1>7, <1>17, <1>18, <4>1, <4>2
    <3>. QED
      BY <3>2, <3>3
  <2>. QED
    BY <2>2, <2>3, <2>4, <2>6, <2>7
<1>20. Ledger(row', key', new, m, torn', spent', peak', faults')
  BY <1>5, <1>15, <1>16, <1>17, <1>19 DEF Ledger
<1>. QED
  BY <1>5, <1>6, <1>9, <1>10, <1>18, <1>20

(* A pass that fails leaves what it configured among the torn keys.        *)
LEMMA FailsLedger ==
    ASSUME TypeOK, NEW r \in Row, NEW ks \in Table, NEW hs, NEW m \in Keys,
           Ledger(r, ks, hs, m, torn, spent, peak, faults), PassFails(r, ks)
    PROVE  /\ row' = r /\ key' \in Table
           /\ spent' \in Nat /\ peak' \in Nat /\ torn' \subseteq Keys /\ faults' \in 0..MaxFaults
           /\ Ledger(row', key', hs, m, torn', spent', peak', faults')
<1>1. PICK c, p : c = Counted(r, ks) /\ p = Pass(r, ks)
  OBVIOUS
<1>2. r.phoneKey # DeskKey /\ Baselines(r, ks, m) /\ Matches(r, ks, torn) /\ AllowanceOf(r) <= peak
  BY DEF Ledger, Baselines
<1>3. c \in Row
  <2>1. CountedTo(r, ks, c)
    BY <1>1, CountedFields
  <2>. QED
    BY <2>1 DEF CountedTo
<1>4. PassTo(r, ks, c, p)
  BY <1>1, <1>2, PassFields
<1>5. PICK done : /\ done = {} \/ done = p.configure \cap {DeskKey} \/ done = p.configure
                  /\ IF done = {} THEN UNCHANGED faults ELSE Fault
                  /\ key' = Configured(ks, p, done) /\ torn' = torn \cup done
                  /\ row' = r /\ spent' = spent /\ peak' = peak
  BY <1>1 DEF PassFails
<1>6. DeskCap(c) \in Nat /\ PhoneCap(c) \in Nat /\ Empty(c) \in BOOLEAN
  BY <1>3, AllowanceType
<1>7. /\ done \in SUBSET Keys /\ p.off \in BOOLEAN /\ \A k \in done : p.caps[k] \in Nat
  <2>1. {DeskKey, r.phoneKey} \ {NoKey} \subseteq Keys
    BY Bounds, Numbers
  <2>2. p.off \in BOOLEAN
    BY <1>4, <1>6 DEF PassTo
  <2>3. done \subseteq p.configure
    BY <1>5
  <2>. QED
    BY <1>4, <1>6, <2>1, <2>2, <2>3 DEF PassTo
<1>8. /\ key' \in Table
      /\ \A k \in Keys : key'[k].spent = ks[k].spent /\ key'[k].alive = ks[k].alive
      /\ \A k \in Keys \ done : key'[k] = ks[k]
  BY <1>5, <1>7, ConfiguredFields
<1>9. faults' \in 0..MaxFaults /\ (faults' = 0 => faults = 0 /\ done = {})
  BY <1>5, Bounds DEF TypeOK, Fault
<1>10. Baselines(row', key', m)
  <2>1. DeskKey \in Keys /\ (r.phoneKey # NoKey => r.phoneKey \in Keys)
    BY Bounds, Numbers
  <2>. QED
    BY <1>2, <1>5, <1>8, <2>1 DEF Baselines
<1>11. Matches(row', key', torn')
  <2>1. {DeskKey, r.phoneKey} \ {NoKey} \subseteq Keys
    BY Bounds, Numbers
  <2>. QED
    BY <1>2, <1>5, <1>8, <2>1 DEF Matches
<1>12. ASSUME faults' = 0 PROVE key' = ks /\ torn' = torn /\ faults = 0
  BY <1>5, <1>8, <1>9, <1>12 DEF Table
<1>13. Ledger(row', key', hs, m, torn', spent', peak', faults')
  <2>1. CASE faults' = 0
    BY <1>2, <1>5, <1>10, <1>11, <1>12, <2>1 DEF Ledger
  <2>2. CASE faults' # 0
    BY <1>2, <1>5, <1>10, <1>11, <2>2 DEF Ledger
  <2>. QED
    BY <2>1, <2>2
<1>. QED
  BY <1>5, <1>7, <1>8, <1>9, <1>13, Types

(* A recount that falls due.                                               *)
LEMMA DueLedger ==
    ASSUME NEW r \in Row, NEW ks, NEW hs, NEW m, NEW tn, NEW sp, NEW pk, NEW fl,
           Ledger(r, ks, hs, m, tn, sp, pk, fl), NEW now \in MaybeDue(r)
    PROVE  /\ now \in Row /\ now.phoneKey = r.phoneKey /\ now.revoked = r.revoked
           /\ Ledger(now, ks, hs, m, tn, sp, pk, fl)
<1>1. CASE now = r
  BY <1>1
<1>2. CASE now = [r EXCEPT !.due = TRUE]
  <2>1. /\ now \in Row /\ now.due = TRUE
        /\ now.adjust = r.adjust /\ now.used = r.used /\ now.exhausted = r.exhausted
        /\ now.over = r.over /\ now.revoked = r.revoked /\ now.deskBase = r.deskBase
        /\ now.deskLimit = r.deskLimit /\ now.phoneKey = r.phoneKey
        /\ now.phoneBase = r.phoneBase /\ now.phoneLimit = r.phoneLimit
    BY <1>2 DEF Row
  <2>2. AllowanceOf(now) = AllowanceOf(r)
    BY <2>1 DEF AllowanceOf
  <2>3. Baselines(now, ks, m) = Baselines(r, ks, m) /\ Departed(now, ks) = Departed(r, ks)
    BY <2>1 DEF Baselines, Departed
  <2>4. Matches(now, ks, tn) = Matches(r, ks, tn)
    BY <2>1 DEF Matches
  <2>5. Pool(now, ks) = Pool(r, ks) /\ Rooms(now, ks, hs) = Rooms(r, ks, hs)
    BY <2>1 DEF Pool, Rooms
  <2>6. Settled(now, ks)
    BY <2>1 DEF Settled
  <2>7. Ledger(now, ks, hs, m, tn, sp, pk, fl)
    BY <2>1, <2>2, <2>3, <2>4, <2>5, <2>6 DEF Ledger
  <2>. QED
    BY <2>1, <2>7
<1>. QED
  BY <1>1, <1>2 DEF MaybeDue

(* A recorded key keeps the row's type, and a minted one the gateway's.    *)
LEMMA MintTypes ==
    ASSUME NEW r \in Row, NEW k \in Keys, NEW b \in Nat, NEW n \in Nat, NEW e \in BOOLEAN,
           NEW z \in Nat, NEW t \in BOOLEAN
    PROVE  /\ [r EXCEPT !.phoneKey = k, !.phoneBase = b, !.phoneLimit = n] \in Row
           /\ [spent |-> z, limit |-> n, off |-> e, alive |-> t]
              \in [spent : Nat, limit : Nat, off : BOOLEAN, alive : BOOLEAN]
BY DEF Row

(* mintPhoneKey: the key is recorded as the gateway has it, and nobody     *)
(* holds its secret yet.                                                   *)
LEMMA MintLedger ==
    ASSUME TypeOK, Secrets, ~row.revoked,
           Ledger(row, key, holders, minted, torn, spent, peak, faults),
           row.phoneKey = NoKey, NEW k \in Keys, k = minted + 1, NEW r, NEW ks,
           r = [row EXCEPT !.phoneKey = k, !.phoneBase = 0, !.phoneLimit = AllowanceOf(row)],
           ks = [key EXCEPT ![k] = MintedKey]
    PROVE  /\ r \in Row /\ ks \in Table /\ r.phoneKey = k /\ r.revoked = row.revoked
           /\ Ledger(r, ks, holders, k, torn, spent, peak, faults)
<1>1. /\ row \in Row /\ key \in Table /\ holders \in Holders /\ minted \in Keys /\ minted \in Nat
      /\ spent \in Nat /\ peak \in Nat
  BY Types, Bounds
<1>2. AllowanceOf(row) \in Nat /\ row.exhausted \in BOOLEAN
  <2>1. AllowanceOf(row) \in Nat
    BY <1>1, AllowanceType
  <2>2. row.exhausted \in BOOLEAN
    BY <1>1 DEF Row
  <2>. QED
    BY <2>1, <2>2
<1>3. k # DeskKey /\ k # NoKey /\ holders[k] = {} /\ DeskKey \in Keys
  BY <1>1, Bounds DEF Secrets
<1>4. r \in Row
  <2>1. PICK none \in Nat : none = 0
    OBVIOUS
  <2>2. [row EXCEPT !.phoneKey = k, !.phoneBase = none, !.phoneLimit = AllowanceOf(row)] \in Row
    BY <1>1, <1>2, MintTypes
  <2>. QED
    BY <2>1, <2>2
<1>5. MintedKey \in [spent : Nat, limit : Nat, off : BOOLEAN, alive : BOOLEAN]
  <2>1. PICK none \in Nat : none = 0
    OBVIOUS
  <2>2. PICK yes \in BOOLEAN : yes = TRUE
    OBVIOUS
  <2>3. [spent |-> none, limit |-> AllowanceOf(row), off |-> row.exhausted, alive |-> yes]
        \in [spent : Nat, limit : Nat, off : BOOLEAN, alive : BOOLEAN]
    BY <1>1, <1>2, MintTypes
  <2>. QED
    BY <2>1, <2>2, <2>3 DEF MintedKey
<1>6. /\ ks \in Table /\ ks[k] = MintedKey
      /\ \A other \in Keys \ {k} : ks[other] = key[other]
  BY <1>1, <1>5 DEF Table
<1>7. /\ ks[k].spent = 0 /\ ks[k].limit = AllowanceOf(row) /\ ks[k].off = row.exhausted
      /\ ks[DeskKey] = key[DeskKey]
  BY <1>3, <1>6 DEF MintedKey
<1>8. /\ r.phoneKey = k /\ r.phoneBase = 0 /\ r.phoneLimit = AllowanceOf(row)
      /\ r.adjust = row.adjust /\ r.used = row.used /\ r.deskBase = row.deskBase
      /\ r.deskLimit = row.deskLimit
      /\ r.exhausted = row.exhausted /\ r.over = row.over /\ r.due = row.due
      /\ r.revoked = row.revoked
  BY <1>1 DEF Row
<1>9. AllowanceOf(r) = AllowanceOf(row) /\ Empty(r) = Empty(row) /\ DeskCap(r) = DeskCap(row)
  BY <1>8 DEF AllowanceOf, Empty, DeskCap
<1>10. PhoneCap(r) = AllowanceOf(row)
  BY <1>2, <1>8, <1>9 DEF PhoneCap
<1>11. Baselines(r, ks, k)
  BY <1>1, <1>3, <1>7, <1>8 DEF Ledger, Baselines
<1>12. Matches(r, ks, torn)
  <2>. SUFFICES ASSUME NEW n \in ({DeskKey, k} \ {NoKey}) \ torn
                PROVE  /\ ks[n].off = r.exhausted
                       /\ ks[n].limit = IF n = DeskKey THEN r.deskLimit ELSE r.phoneLimit
    BY <1>8 DEF Matches
  <2>1. CASE n = k
    BY <1>3, <1>7, <1>8, <2>1
  <2>2. CASE n = DeskKey
    <3>1. key[DeskKey].off = row.exhausted /\ key[DeskKey].limit = row.deskLimit
      BY <2>2 DEF Ledger, Matches
    <3>. QED
      BY <1>7, <1>8, <2>2, <3>1
  <2>. QED
    BY <2>1, <2>2
<1>13. ASSUME faults = 0
       PROVE  /\ torn = {} /\ Departed(r, ks) /\ spent = Pool(r, ks) /\ Settled(r, ks)
              /\ spent + Rooms(r, ks, holders) <= 2 * peak
  <2>1. /\ torn = {} /\ Departed(row, key) /\ spent = Pool(row, key) /\ Settled(row, key)
        /\ spent + Rooms(row, key, holders) <= 2 * peak
    BY <1>13 DEF Ledger
  <2>2. Departed(r, ks)
    <3>1. ASSUME NEW n \in Keys \ {k}, ks[n].alive PROVE n = DeskKey
      <4>1. key[n].alive
        BY <1>6, <3>1
      <4>. QED
        BY <2>1, <4>1, Bounds DEF Departed
    <3>2. ~r.revoked
      BY <1>8
    <3>. QED
      BY <1>8, <3>1, <3>2 DEF Departed
  <2>3. spent = Pool(r, ks)
    BY <1>1, <1>3, <1>7, <1>8, <2>1, Numbers DEF Pool
  <2>4. Settled(r, ks)
    BY <1>2, <1>3, <1>7, <1>8, <1>9, <1>10, <2>1 DEF Settled
  <2>5. Rooms(r, ks, holders) = Rooms(row, key, holders)
    <3>1. Room(ks, holders, k) = 0 /\ Room(ks, holders, DeskKey) = Room(key, holders, DeskKey)
      BY <1>3, <1>7 DEF Room
    <3>2. Room(key, holders, DeskKey) \in Int
      BY <1>1, Numbers DEF Room
    <3>. QED
      BY <1>3, <1>8, <3>1, <3>2 DEF Rooms
  <2>. QED
    BY <2>1, <2>2, <2>3, <2>4, <2>5
<1>14. AllowanceOf(r) <= peak
  BY <1>9 DEF Ledger
<1>15. Ledger(r, ks, holders, k, torn, spent, peak, faults)
  BY <1>8, <1>11, <1>12, <1>13, <1>14 DEF Ledger
<1>. QED
  BY <1>4, <1>6, <1>8, <1>15

(* The first state.                                                        *)
LEMMA InvInit == Init => IInv
<1>. SUFFICES ASSUME Init PROVE IInv
  OBVIOUS
<1>1. /\ row.adjust = 0 /\ row.used = 0 /\ row.deskBase = 0 /\ row.deskLimit = Allowance
      /\ row.phoneKey = NoKey /\ row.phoneBase = 0 /\ row.phoneLimit = 0
      /\ row.exhausted = FALSE /\ row.over = FALSE /\ row.due = FALSE /\ row.revoked = FALSE
  BY DEF Init
<1>2. \A k \in Keys : key[k].spent = 0 /\ key[k].limit = Allowance /\ key[k].off = FALSE
                      /\ key[k].alive = (k = DeskKey)
  BY DEF Init
<1>3. TypeOK
  <2>1. row \in Row
    BY Bounds DEF Init, Row
  <2>2. key \in Table
    <3>1. \A k \in Keys : (k = DeskKey) \in BOOLEAN
      OBVIOUS
    <3>. QED
      BY <3>1, Bounds DEF Init, Table
  <2>3. minted \in Keys /\ phone \in 0..paired /\ paired \in 0..MaxPhones
    BY Bounds DEF Init, DeskKey, NoPhone
  <2>4. changes \in 0..MaxAdmin /\ faults \in 0..MaxFaults /\ spent \in Nat /\ peak \in Nat
    BY Bounds DEF Init
  <2>. QED
    BY <2>1, <2>2, <2>3, <2>4 DEF Init, TypeOK, Row, Table
<1>4. Credentials /\ KeyDiesWithPhone /\ Secrets
  BY <1>1 DEF Init, Credentials, KeyDiesWithPhone, Secrets
<1>5. AllowanceOf(row) = Allowance /\ peak = Allowance /\ spent = 0 /\ torn = {}
  BY <1>1, Bounds DEF AllowanceOf, AtLeast0, Init
<1>6. Baselines(row, key, minted) /\ Matches(row, key, torn)
  <2>1. Baselines(row, key, minted)
    BY <1>1, <1>2, Bounds DEF Baselines
  <2>2. Matches(row, key, torn)
    BY <1>1, <1>2, Bounds DEF Matches
  <2>. QED
    BY <2>1, <2>2
<1>7. Departed(row, key) /\ spent = Pool(row, key)
  <2>1. \A k \in Keys : key[k].alive => k = DeskKey
    BY <1>2
  <2>. QED
    BY <1>1, <1>2, <1>5, <2>1, Bounds DEF Departed, Pool
<1>8. Settled(row, key)
  <2>1. ~Empty(row)
    BY <1>1, <1>5, Bounds DEF Empty
  <2>2. DeskCap(row) = Allowance
    BY <1>1, <1>5, Bounds DEF DeskCap, AtLeast0
  <2>3. row.exhausted = Empty(row)
    <3>1. Empty(row) \in BOOLEAN
      BY DEF Empty
    <3>. QED
      BY <1>1, <2>1, <3>1, Zenon
  <2>. QED
    BY <1>1, <1>2, <1>5, <2>2, <2>3, Bounds DEF Settled
<1>9. spent + Rooms(row, key, holders) <= 2 * peak
  BY <1>1, <1>2, <1>5, Bounds DEF Rooms, Room
<1>10. Ledger(row, key, holders, minted, torn, spent, peak, faults)
  BY <1>5, <1>6, <1>7, <1>8, <1>9, Bounds DEF Ledger
<1>. QED
  BY <1>3, <1>4, <1>10 DEF IInv

(* A fault only takes promises away.                                       *)
LEMMA LedgerFaults ==
    ASSUME NEW r, NEW ks, NEW hs, NEW m, NEW tn, NEW sp, NEW pk, NEW fl, NEW fl2,
           Ledger(r, ks, hs, m, tn, sp, pk, fl), fl2 = 0 => fl = 0
    PROVE  Ledger(r, ks, hs, m, tn, sp, pk, fl2)
BY DEF Ledger

(* A fault or none: the count stays within its bound and never goes back.  *)
LEMMA FaultCount ==
    ASSUME TypeOK, Fault \/ UNCHANGED faults
    PROVE  faults' \in 0..MaxFaults /\ (faults' = 0 => faults = 0)
BY Bounds DEF TypeOK, Fault

(* The type invariant of the next state.                                   *)
LEMMA TypesNext ==
    ASSUME row' \in Row, key' \in Table, minted' \in Keys, paired' \in 0..MaxPhones,
           phone' \in 0..paired', cred' \subseteq Phones, lapsed' \in BOOLEAN,
           admin' \in BOOLEAN, crashed' \in BOOLEAN,
           drops' \subseteq {"pair", "revoke", "lapse"}, grants' \subseteq Phones,
           holders' \in Holders, torn' \subseteq Keys, spent' \in Nat, peak' \in Nat,
           changes' \in 0..MaxAdmin, faults' \in 0..MaxFaults
    PROVE  TypeOK'
BY DEF TypeOK, Row, Table, Holders

(* A step that leaves the row, the gateway and the spend alone.            *)
LEMMA InvAside ==
    ASSUME IInv, UNCHANGED <<row, key, minted, holders, spent, peak, torn>>,
           Fault \/ UNCHANGED faults, paired' \in 0..MaxPhones, phone' \in 0..paired',
           cred' \subseteq Phones, lapsed' \in BOOLEAN, admin' \in BOOLEAN, crashed' \in BOOLEAN,
           drops' \subseteq {"pair", "revoke", "lapse"}, grants' \subseteq Phones,
           changes' \in 0..MaxAdmin, Credentials', KeyDiesWithPhone',
           phone' \in cred' => phone' = phone /\ phone \in cred
    PROVE  IInv'
<1>1. /\ row \in Row /\ key \in Table /\ holders \in Holders
      /\ minted \in Keys /\ torn \subseteq Keys /\ spent \in Nat /\ peak \in Nat
  BY Types DEF IInv
<1>2. faults' \in 0..MaxFaults /\ (faults' = 0 => faults = 0)
  BY FaultCount DEF IInv
<1>3. TypeOK'
  BY <1>1, <1>2, TypesNext
<1>4. Secrets'
  BY DEF IInv, Secrets
<1>5. Ledger(row', key', holders', minted', torn', spent', peak', faults')
  BY <1>2, LedgerFaults DEF IInv
<1>. QED
  BY <1>3, <1>4, <1>5 DEF IInv

(* The handlers that commit a change of the device or the vault, and the   *)
(* instance that goes.                                                     *)
LEMMA InvHandlers ==
    ASSUME IInv, \/ Pair \/ RevokeDevice \/ AdminLapse \/ Crash
                 \/ \E p \in Phones : GrantRequest(p)
    PROVE  IInv'
<1>1. /\ paired \in Nat /\ paired \in 0..MaxPhones /\ phone \in 0..paired /\ cred \subseteq Phones
      /\ drops \subseteq {"pair", "revoke", "lapse"} /\ grants \subseteq Phones
      /\ changes \in 0..MaxAdmin /\ Phones = 1..MaxPhones /\ MaxPhones \in Nat
  BY Bounds DEF IInv, TypeOK, Phones
<1>2. lapsed \in BOOLEAN /\ admin \in BOOLEAN /\ crashed \in BOOLEAN
  BY DEF IInv, TypeOK
<1>3. Credentials /\ KeyDiesWithPhone /\ Secrets
  BY DEF IInv
<1>4. CASE Pair
  <2>1. /\ paired' \in 0..MaxPhones /\ phone' \in 0..paired' /\ phone' \notin cred'
        /\ drops' \subseteq {"pair", "revoke", "lapse"} /\ drops' # {}
    BY <1>1, <1>3, <1>4 DEF Pair, Credentials
  <2>2. Credentials'
    BY <1>1, <1>3, <1>4 DEF Pair, Credentials
  <2>3. KeyDiesWithPhone'
    BY <2>1 DEF KeyDiesWithPhone
  <2>. QED
    BY <1>1, <1>2, <1>4, <2>1, <2>2, <2>3, InvAside DEF Pair
<1>5. CASE RevokeDevice
  <2>1. /\ phone' = 0 /\ phone' \in 0..paired' /\ phone' \notin cred'
        /\ drops' \subseteq {"pair", "revoke", "lapse"} /\ drops' # {}
    BY <1>1, <1>3, <1>5 DEF RevokeDevice, NoPhone
  <2>2. Credentials'
    BY <1>3, <1>5 DEF RevokeDevice, Credentials
  <2>3. KeyDiesWithPhone'
    BY <2>1 DEF KeyDiesWithPhone
  <2>. QED
    BY <1>1, <1>2, <1>5, <2>1, <2>2, <2>3, InvAside DEF RevokeDevice
<1>6. CASE AdminLapse
  <2>1. /\ drops' \subseteq {"pair", "revoke", "lapse"}
        /\ drops' # {} \/ (lapsed /\ drops' = drops)
    BY <1>1, <1>6 DEF AdminLapse
  <2>2. Credentials'
    BY <1>3, <1>6 DEF AdminLapse, Credentials
  <2>3. KeyDiesWithPhone'
    BY <1>3, <1>6, <2>1 DEF AdminLapse, KeyDiesWithPhone
  <2>4. changes' \in 0..MaxAdmin
    BY <1>1, <1>6, Bounds DEF AdminLapse, Change
  <2>5. lapsed' \in BOOLEAN
    BY <1>6 DEF AdminLapse
  <2>. QED
    BY <1>1, <1>2, <1>6, <2>1, <2>2, <2>3, <2>4, <2>5, InvAside DEF AdminLapse
<1>7. CASE Crash
  <2>1. Credentials' /\ crashed' \in BOOLEAN /\ admin' \in BOOLEAN
    BY <1>2, <1>3, <1>7 DEF Crash, Credentials
  <2>2. KeyDiesWithPhone'
    BY <1>3, <1>7 DEF Crash, KeyDiesWithPhone
  <2>. QED
    BY <1>1, <1>2, <1>7, <2>1, <2>2, InvAside DEF Crash
<1>8. ASSUME NEW p \in Phones, GrantRequest(p) PROVE IInv'
  <2>1. Credentials' /\ grants' \subseteq Phones
    BY <1>1, <1>3, <1>8 DEF GrantRequest, Credentials
  <2>2. KeyDiesWithPhone'
    BY <1>3, <1>8 DEF GrantRequest, KeyDiesWithPhone
  <2>. QED
    BY <1>1, <1>2, <1>8, <2>1, <2>2, InvAside DEF GrantRequest
<1>. QED
  BY <1>4, <1>5, <1>6, <1>7, <1>8

(* A step that leaves the phone's side alone and keeps the recorded key.   *)
LEMMA InvLedger ==
    ASSUME IInv, UNCHANGED <<phoneVars, holders, minted, crashed>>,
           row' \in Row, key' \in Table, torn' \subseteq Keys, spent' \in Nat, peak' \in Nat,
           changes' \in 0..MaxAdmin, faults' \in 0..MaxFaults, admin' \in BOOLEAN,
           row'.phoneKey = row.phoneKey, row'.revoked = row.revoked,
           Ledger(row', key', holders, minted, torn', spent', peak', faults')
    PROVE  IInv'
<1>1. /\ holders \in Holders /\ minted \in Keys
  BY Types DEF IInv
<1>2. /\ paired \in 0..MaxPhones /\ phone \in 0..paired /\ cred \subseteq Phones
      /\ drops \subseteq {"pair", "revoke", "lapse"} /\ grants \subseteq Phones
  BY DEF IInv, TypeOK
<1>3. lapsed \in BOOLEAN /\ crashed \in BOOLEAN
  BY DEF IInv, TypeOK
<1>4. UNCHANGED <<paired, phone, cred, lapsed, drops, grants>>
  BY DEF phoneVars
<1>5. TypeOK'
  BY <1>1, <1>2, <1>3, <1>4, TypesNext
<1>6. Credentials' /\ KeyDiesWithPhone' /\ Secrets'
  BY <1>4 DEF IInv, Credentials, KeyDiesWithPhone, Secrets
<1>. QED
  BY <1>5, <1>6 DEF IInv

(* entitlementFor, for the desk or for an admin.                           *)
LEMMA InvLoop ==
    ASSUME IInv, ~row.revoked, AllowanceLoop(row, key), admin' \in BOOLEAN,
           UNCHANGED <<minted, phoneVars, holders, crashed, changes>>
    PROVE  IInv'
<1>1. /\ TypeOK /\ row \in Row /\ key \in Table /\ minted \in Keys
      /\ changes \in 0..MaxAdmin /\ faults \in 0..MaxFaults
      /\ Ledger(row, key, holders, minted, torn, spent, peak, faults)
  BY Types DEF IInv, TypeOK
<1>2. PICK now \in MaybeDue(row) : PassSaves(now, key) \/ PassFails(now, key)
  BY DEF AllowanceLoop
<1>3. /\ now \in Row /\ now.phoneKey = row.phoneKey /\ now.revoked = row.revoked
      /\ Ledger(now, key, holders, minted, torn, spent, peak, faults)
  BY <1>1, DueLedger
<1>4. CASE PassSaves(now, key)
  <2>1. /\ row' \in Row /\ key' \in Table
        /\ spent' \in Nat /\ peak' \in Nat /\ torn' \subseteq Keys /\ faults' = faults
        /\ row'.phoneKey = now.phoneKey /\ row'.revoked = now.revoked
        /\ Ledger(row', key', holders, minted, torn', spent', peak', faults')
    BY <1>1, <1>3, <1>4, SavesLedger
  <2>. QED
    BY <1>1, <1>3, <2>1, InvLedger
<1>5. CASE PassFails(now, key)
  <2>1. /\ row' = now /\ key' \in Table
        /\ spent' \in Nat /\ peak' \in Nat /\ torn' \subseteq Keys /\ faults' \in 0..MaxFaults
        /\ Ledger(row', key', holders, minted, torn', spent', peak', faults')
    BY <1>1, <1>3, <1>5, FailsLedger
  <2>. QED
    BY <1>1, <1>3, <2>1, InvLedger
<1>. QED
  BY <1>2, <1>4, <1>5

(* A model call takes from the room of a key what it adds to the spend.    *)
LEMMA InvSpend == ASSUME IInv, NEW k \in Keys, Spend(k) PROVE IInv'
<1>1. /\ row \in Row /\ key \in Table /\ holders \in Holders /\ minted \in Keys
      /\ torn \subseteq Keys /\ spent \in Nat /\ peak \in Nat
      /\ changes \in 0..MaxAdmin /\ faults \in 0..MaxFaults
      /\ Ledger(row, key, holders, minted, torn, spent, peak, faults)
  BY Types DEF IInv, TypeOK
<1>2. /\ key' \in Table /\ key'[k].spent = key[k].spent + 1
      /\ key'[k].limit = key[k].limit /\ key'[k].off = key[k].off
      /\ key'[k].alive = key[k].alive /\ \A n \in Keys \ {k} : key'[n] = key[n]
      /\ key[k].spent \in Nat /\ key[k].limit \in Nat
  <2>1. key' = [key EXCEPT ![k] = [key[k] EXCEPT !.spent = key[k].spent + 1]]
    BY DEF Spend
  <2>2. key[k] \in [spent : Nat, limit : Nat, off : BOOLEAN, alive : BOOLEAN]
    BY <1>1 DEF Table
  <2>3. [key[k] EXCEPT !.spent = key[k].spent + 1]
        \in [spent : Nat, limit : Nat, off : BOOLEAN, alive : BOOLEAN]
    BY <2>2
  <2>. QED
    BY <1>1, <2>1, <2>2, <2>3 DEF Table
<1>3. /\ key[k].alive /\ ~key[k].off /\ key[k].spent < key[k].limit
      /\ k = DeskKey \/ holders[k] # {}
      /\ spent' = spent + 1
      /\ UNCHANGED <<row, minted, phoneVars, admin, holders, peak, torn, crashed, changes, faults>>
  BY DEF Spend
<1>4. /\ DeskKey \in Keys /\ DeskKey # NoKey /\ k # NoKey /\ row.deskBase \in Int
      /\ row.phoneBase \in Nat
      /\ key[DeskKey].spent \in Nat /\ key'[DeskKey].spent \in Nat
      /\ row.phoneKey # NoKey => /\ row.phoneKey \in Keys /\ key[row.phoneKey].spent \in Nat
                                 /\ key'[row.phoneKey].spent \in Nat
  BY <1>1, <1>2, Numbers, Bounds
<1>5. Baselines(row, key', minted)
  BY <1>1, <1>2, <1>4 DEF Ledger, Baselines
<1>6. Matches(row, key', torn)
  <2>1. \A n \in Keys : key'[n].off = key[n].off /\ key'[n].limit = key[n].limit
    BY <1>2
  <2>2. {DeskKey, row.phoneKey} \ {NoKey} \subseteq Keys
    BY <1>4
  <2>. QED
    BY <1>1, <2>1, <2>2 DEF Ledger, Matches
<1>7. ASSUME faults = 0
      PROVE  /\ torn = {} /\ Departed(row, key') /\ ~row.revoked
             /\ spent + 1 = Pool(row, key') /\ Settled(row, key')
             /\ spent + 1 + Rooms(row, key', holders) <= 2 * peak
  <2>1. /\ torn = {} /\ Departed(row, key) /\ spent + Rooms(row, key, holders) <= 2 * peak
    BY <1>1, <1>7 DEF Ledger
  <2>2. ~row.revoked /\ (k = DeskKey \/ k = row.phoneKey)
    BY <1>3, <1>4, <2>1 DEF Departed
  <2>3. spent = Pool(row, key) /\ Settled(row, key) /\ row.phoneKey # DeskKey
    BY <1>1, <1>7, <2>2 DEF Ledger, Baselines
  <2>4. Departed(row, key')
    <3>1. \A n \in Keys : key'[n].alive => key[n].alive
      BY <1>2
    <3>. QED
      BY <2>1, <3>1 DEF Departed
  <2>5. spent + 1 = Pool(row, key')
    BY <1>2, <1>4, <2>2, <2>3 DEF Pool
  <2>6. Settled(row, key')
    <3>. SUFFICES ASSUME ~row.due, ~row.over
                  PROVE  /\ row.exhausted = Empty(row)
                         /\ row.deskLimit = DeskCap(row)
                         /\ row.phoneKey # NoKey => row.phoneLimit = PhoneCap(row)
                         /\ ~row.exhausted =>
                                /\ key'[DeskKey].spent <= row.deskBase + AllowanceOf(row)
                                /\ row.phoneKey # NoKey =>
                                       key'[row.phoneKey].spent <= PhoneCap(row)
      BY DEF Settled
    <3>1. row.exhausted = Empty(row)
      BY <2>3 DEF Settled
    <3>2. /\ row.deskLimit = DeskCap(row)
          /\ row.phoneKey # NoKey => row.phoneLimit = PhoneCap(row)
          /\ ~row.exhausted =>
                 /\ key[DeskKey].spent <= row.deskBase + AllowanceOf(row)
                 /\ row.phoneKey # NoKey => key[row.phoneKey].spent <= PhoneCap(row)
      BY <2>3 DEF Settled
    <3>3. key[k].limit = IF k = DeskKey THEN row.deskLimit ELSE row.phoneLimit
      BY <1>1, <1>4, <2>1, <2>2 DEF Ledger, Matches
    <3>4. AllowanceOf(row) \in Nat /\ PhoneCap(row) \in Nat
      BY <1>1, AllowanceType
    <3>5. CASE k = DeskKey
      <4>1. key'[DeskKey].spent <= row.deskBase + AllowanceOf(row)
        BY <1>2, <1>3, <1>4, <3>2, <3>3, <3>4, <3>5 DEF DeskCap, AtLeast0
      <4>2. row.phoneKey # NoKey => key'[row.phoneKey] = key[row.phoneKey]
        BY <1>2, <1>4, <2>3, <3>5
      <4>. QED
        BY <3>1, <3>2, <4>1, <4>2
    <3>6. CASE k # DeskKey
      <4>1. k = row.phoneKey /\ key'[row.phoneKey].spent <= PhoneCap(row)
        BY <1>2, <1>3, <1>4, <2>2, <3>2, <3>3, <3>4, <3>6
      <4>2. key'[DeskKey] = key[DeskKey]
        BY <1>2, <1>4, <3>6
      <4>. QED
        BY <3>1, <3>2, <4>1, <4>2
    <3>. QED
      BY <3>5, <3>6
  <2>7. Rooms(row, key', holders) = Rooms(row, key, holders) - 1
    <3>1. Room(key, holders, k) = key[k].limit - key[k].spent
      BY <1>3 DEF Room
    <3>2. Room(key', holders, k) = key[k].limit - key[k].spent - 1
      BY <1>2, <1>3 DEF Room
    <3>3. \A n \in Keys \ {k} : Room(key', holders, n) = Room(key, holders, n)
      BY <1>2 DEF Room
    <3>4. \A n \in Keys : Room(key, holders, n) \in Int
      BY <1>1 DEF Room, Table
    <3>. QED
      BY <1>2, <1>4, <2>2, <2>3, <3>1, <3>2, <3>3, <3>4 DEF Rooms
  <2>8. Rooms(row, key, holders) \in Nat
    BY <1>1, RoomsType
  <2>. QED
    BY <1>1, <2>1, <2>2, <2>4, <2>5, <2>6, <2>7, <2>8
<1>8. Ledger(row', key', holders, minted, torn', spent', peak', faults')
  BY <1>1, <1>3, <1>5, <1>6, <1>7 DEF Ledger
<1>9. admin \in BOOLEAN
  BY DEF IInv, TypeOK
<1>. QED
  BY <1>1, <1>2, <1>3, <1>8, <1>9, InvLedger

(* A step of the row alone that ends the cycle or wants a recount, within  *)
(* the largest allowance, and counts the spend from its own baselines.     *)
LEMMA InvRecount ==
    ASSUME IInv, row' \in Row, UNCHANGED <<key, minted, phoneVars, holders, torn, crashed, faults>>,
           changes' \in 0..MaxAdmin, admin' \in BOOLEAN, spent' \in Nat, peak' \in Nat,
           row'.phoneKey = row.phoneKey, row'.revoked = row.revoked,
           row'.exhausted = row.exhausted, row'.deskLimit = row.deskLimit,
           row'.phoneLimit = row.phoneLimit, row'.over \/ row'.due,
           Baselines(row', key, minted), AllowanceOf(row') <= peak', peak <= peak',
           spent' <= spent, faults = 0 /\ ~row.revoked => spent' = Pool(row', key)
    PROVE  IInv'
<1>1. /\ row \in Row /\ key \in Table /\ holders \in Holders /\ minted \in Keys
      /\ torn \subseteq Keys /\ spent \in Nat /\ peak \in Nat
      /\ changes \in 0..MaxAdmin /\ faults \in 0..MaxFaults
      /\ Ledger(row, key, holders, minted, torn, spent, peak, faults)
  BY Types DEF IInv, TypeOK
<1>2. Matches(row', key, torn)
  BY <1>1 DEF Ledger, Matches
<1>3. ASSUME faults = 0
      PROVE  /\ torn = {} /\ Departed(row', key) /\ Settled(row', key)
             /\ spent' + Rooms(row', key, holders) <= 2 * peak'
  <2>1. torn = {} /\ Departed(row, key) /\ spent + Rooms(row, key, holders) <= 2 * peak
    BY <1>1, <1>3 DEF Ledger
  <2>2. Departed(row', key) /\ Settled(row', key)
    BY <2>1 DEF Departed, Settled
  <2>3. Rooms(row', key, holders) = Rooms(row, key, holders)
    BY DEF Rooms
  <2>4. Rooms(row, key, holders) \in Nat
    BY <1>1, RoomsType
  <2>. QED
    BY <1>1, <2>1, <2>2, <2>3, <2>4
<1>4. Ledger(row', key', holders, minted, torn', spent', peak', faults')
  BY <1>2, <1>3 DEF Ledger
<1>. QED
  BY <1>1, <1>4, InvLedger

(* The cycle comes to its end.                                             *)
LEMMA InvCycleEnds == ASSUME IInv, CycleEnds PROVE IInv'
<1>1. /\ row \in Row /\ key \in Table /\ spent \in Nat /\ peak \in Nat
      /\ changes \in 0..MaxAdmin
      /\ Ledger(row, key, holders, minted, torn, spent, peak, faults)
  BY Types DEF IInv, TypeOK
<1>2. admin \in BOOLEAN
  BY DEF IInv, TypeOK
<1>3. changes' \in 0..MaxAdmin
  BY <1>1, Bounds DEF CycleEnds, Change
<1>4. /\ row' \in Row /\ row'.over = TRUE
      /\ row'.phoneKey = row.phoneKey /\ row'.revoked = row.revoked
      /\ row'.exhausted = row.exhausted /\ row'.deskLimit = row.deskLimit
      /\ row'.phoneLimit = row.phoneLimit /\ row'.deskBase = row.deskBase
      /\ row'.phoneBase = row.phoneBase /\ row'.adjust = row.adjust
  BY <1>1 DEF CycleEnds, Row
<1>5. AllowanceOf(row') <= peak /\ Baselines(row', key, minted)
  BY <1>1, <1>4 DEF Ledger, AllowanceOf, Baselines
<1>6. faults = 0 /\ ~row.revoked => spent = Pool(row', key)
  <2>1. Pool(row', key) = Pool(row, key)
    BY <1>4 DEF Pool
  <2>. QED
    BY <1>1, <2>1 DEF Ledger
<1>7. /\ spent' = spent /\ peak' = peak /\ admin' = admin
      /\ UNCHANGED <<key, minted, phoneVars, holders, torn, crashed, faults>>
  BY DEF CycleEnds
<1>8. spent' <= spent /\ peak <= peak'
  BY <1>1, <1>7
<1>. QED
  BY <1>1, <1>2, <1>3, <1>4, <1>5, <1>6, <1>7, <1>8, InvRecount

(* changeAllowance: a reset starts the count anew, an adjustment moves the *)
(* allowance and not what was spent.                                       *)
LEMMA InvChangeAllowance == ASSUME IInv, ChangeAllowance PROVE IInv'
<1>1. /\ row \in Row /\ key \in Table /\ spent \in Nat /\ peak \in Nat
      /\ changes \in 0..MaxAdmin
      /\ Ledger(row, key, holders, minted, torn, spent, peak, faults)
  BY Types DEF IInv, TypeOK
<1>2. changes' \in 0..MaxAdmin
  BY <1>1, Bounds DEF ChangeAllowance, Change
<1>3. /\ admin' = TRUE /\ UNCHANGED <<key, minted, phoneVars, holders, torn, crashed, faults>>
  BY DEF ChangeAllowance
<1>4. admin' \in BOOLEAN
  BY <1>3
<1>5. \A a, b \in Nat : Larger(a, b) \in Nat /\ a <= Larger(a, b) /\ b <= Larger(a, b)
  BY DEF Larger
<1>6. CASE /\ row' = [row EXCEPT !.deskBase = Usage(key, DeskKey),
                                 !.phoneBase = Usage(key, row.phoneKey), !.used = 0,
                                 !.adjust = 0, !.over = FALSE, !.due = TRUE]
           /\ spent' = 0 /\ peak' = Larger(peak, AllowanceOf(row'))
  <2>1. /\ Usage(key, DeskKey) = key[DeskKey].spent /\ key[DeskKey].spent \in Nat
        /\ Usage(key, row.phoneKey) \in Nat
        /\ row.phoneKey # NoKey => Usage(key, row.phoneKey) = key[row.phoneKey].spent
    BY <1>1, Numbers, Bounds DEF Usage
  <2>2. row' \in Row
    <3>1. PICK a \in Int : a = Usage(key, DeskKey)
      BY <2>1
    <3>2. PICK b \in Nat : b = Usage(key, row.phoneKey)
      BY <2>1
    <3>3. PICK none \in Nat : none = 0
      OBVIOUS
    <3>4. PICK zero \in Int : zero = 0
      OBVIOUS
    <3>5. PICK no \in BOOLEAN : no = FALSE
      OBVIOUS
    <3>6. PICK yes \in BOOLEAN : yes = TRUE
      OBVIOUS
    <3>7. [row EXCEPT !.deskBase = a, !.phoneBase = b, !.used = none, !.adjust = zero,
                      !.over = no, !.due = yes] \in Row
      BY <1>1, RollOver
    <3>. QED
      BY <1>6, <3>1, <3>2, <3>3, <3>4, <3>5, <3>6, <3>7
  <2>3. /\ row'.phoneKey = row.phoneKey /\ row'.revoked = row.revoked /\ row'.due = TRUE
        /\ row'.exhausted = row.exhausted /\ row'.deskLimit = row.deskLimit
        /\ row'.phoneLimit = row.phoneLimit /\ row'.deskBase = Usage(key, DeskKey)
        /\ row'.phoneBase = Usage(key, row.phoneKey)
    BY <1>1, <1>6 DEF Row
  <2>4. /\ peak' \in Nat /\ peak <= peak' /\ AllowanceOf(row') <= peak'
        /\ spent' \in Nat /\ spent' <= spent
    BY <1>1, <1>5, <1>6, <2>2, AllowanceType
  <2>5. Baselines(row', key, minted)
    BY <1>1, <2>1, <2>3 DEF Ledger, Baselines
  <2>6. Pool(row', key) = 0
    BY <1>1, <2>1, <2>3, Numbers DEF Pool
  <2>. QED
    BY <1>2, <1>3, <1>4, <1>6, <2>2, <2>3, <2>4, <2>5, <2>6, InvRecount
<1>7. ASSUME NEW units \in {-1, 1},
             row' = [row EXCEPT !.adjust = @ + units, !.due = TRUE],
             peak' = Larger(peak, AllowanceOf(row')), spent' = spent
      PROVE  IInv'
  <2>1. PICK n \in Int : n = row.adjust + units
    <3>1. row.adjust \in Int
      BY <1>1, Numbers
    <3>. QED
      BY <3>1
  <2>2. row' = [row EXCEPT !.adjust = n, !.due = TRUE]
    BY <1>7, <2>1
  <2>3. /\ row' \in Row /\ row'.phoneKey = row.phoneKey /\ row'.revoked = row.revoked
        /\ row'.due = TRUE
        /\ row'.exhausted = row.exhausted /\ row'.deskLimit = row.deskLimit
        /\ row'.phoneLimit = row.phoneLimit /\ row'.deskBase = row.deskBase
        /\ row'.phoneBase = row.phoneBase
    BY <1>1, <2>2 DEF Row
  <2>4. /\ peak' \in Nat /\ peak <= peak' /\ AllowanceOf(row') <= peak'
        /\ spent' \in Nat /\ spent' <= spent
    BY <1>1, <1>5, <1>7, <2>3, AllowanceType
  <2>5. Baselines(row', key, minted) /\ Pool(row', key) = Pool(row, key)
    BY <1>1, <2>3 DEF Ledger, Baselines, Pool
  <2>6. faults = 0 /\ ~row.revoked => spent' = Pool(row', key)
    BY <1>1, <1>7, <2>5 DEF Ledger
  <2>. QED
    BY <1>2, <1>3, <1>4, <2>3, <2>4, <2>5, <2>6, InvRecount
<1>. QED
  BY <1>6, <1>7 DEF ChangeAllowance

(* handleAdminAllowance goes on.                                           *)
LEMMA InvAdminEntitlement == ASSUME IInv, AdminEntitlement PROVE IInv'
<1>1. /\ admin' = FALSE /\ UNCHANGED <<minted, phoneVars, holders, crashed, changes>>
      /\ UNCHANGED <<paired, phone, cred, lapsed, drops, grants>>
  BY DEF AdminEntitlement, phoneVars
<1>2. CASE row.revoked
  <2>1. UNCHANGED <<row, key, torn, spent, peak, faults>>
    BY <1>2 DEF AdminEntitlement
  <2>2. Credentials' /\ KeyDiesWithPhone'
    BY <1>1, <2>1 DEF IInv, Credentials, KeyDiesWithPhone
  <2>3. /\ paired \in 0..MaxPhones /\ phone \in 0..paired /\ cred \subseteq Phones
        /\ drops \subseteq {"pair", "revoke", "lapse"} /\ grants \subseteq Phones
        /\ changes \in 0..MaxAdmin
    BY DEF IInv, TypeOK
  <2>4. lapsed \in BOOLEAN /\ crashed \in BOOLEAN /\ FALSE \in BOOLEAN
    BY DEF IInv, TypeOK
  <2>. QED
    BY <1>1, <2>1, <2>2, <2>3, <2>4, InvAside
<1>3. CASE ~row.revoked
  <2>1. AllowanceLoop(row, key) /\ admin' \in BOOLEAN
    BY <1>1, <1>3 DEF AdminEntitlement
  <2>. QED
    BY <1>1, <1>3, <2>1, InvLoop
<1>. QED
  BY <1>2, <1>3

(* The locked part of handleAgentGrant: the phone that asks is the one the *)
(* row's key is for, so the secret it is handed is its own.                *)
LEMMA InvGrant == ASSUME IInv, NEW p \in Phones, Grant(p) PROVE IInv'
<1>1. /\ TypeOK /\ Secrets /\ row \in Row /\ key \in Table /\ holders \in Holders
      /\ minted \in Keys /\ minted \in Nat /\ faults \in 0..MaxFaults
      /\ Ledger(row, key, holders, minted, torn, spent, peak, faults)
  BY Types, Bounds DEF IInv, TypeOK
<1>2. /\ paired \in 0..MaxPhones /\ phone \in 0..paired /\ cred \subseteq Phones
      /\ drops \subseteq {"pair", "revoke", "lapse"} /\ grants' \subseteq Phones
      /\ changes \in 0..MaxAdmin
  BY DEF IInv, TypeOK, Grant
<1>3. lapsed \in BOOLEAN /\ crashed \in BOOLEAN /\ admin \in BOOLEAN
  BY DEF IInv, TypeOK
<1>4. /\ UNCHANGED <<paired, phone, cred, lapsed, drops, admin, crashed, changes>>
      /\ p \in cred /\ p # NoPhone /\ Credentials'
  BY Bounds DEF IInv, Grant, Credentials
<1>5. CASE UNCHANGED <<row, key, minted, holders, spent, peak, torn, faults>>
  <2>1. KeyDiesWithPhone'
    BY <1>4, <1>5 DEF IInv, KeyDiesWithPhone
  <2>. QED
    BY <1>2, <1>3, <1>4, <1>5, <2>1, InvAside
<1>6. ASSUME MayAsk(p), NEW k, NEW r, NEW ks,
             row.phoneKey = NoKey => minted < MaxKeys,
             k = (IF row.phoneKey = NoKey THEN minted + 1 ELSE row.phoneKey),
             r = (IF row.phoneKey # NoKey THEN row
                  ELSE [row EXCEPT !.phoneKey = k, !.phoneBase = 0,
                                   !.phoneLimit = AllowanceOf(row)]),
             ks = (IF row.phoneKey # NoKey THEN key ELSE [key EXCEPT ![k] = MintedKey]),
             minted' = Larger(minted, k),
             \E now \in MaybeDue(r) :
                 \/ PassSaves(now, ks) /\ holders' = [holders EXCEPT ![k] = @ \cup {p}]
                 \/ PassFails(now, ks) /\ UNCHANGED holders
      PROVE  IInv'
  <2>1. phone = p /\ ~lapsed /\ ~row.revoked
    BY <1>6 DEF MayAsk
  <2>2. /\ k \in Keys /\ k # NoKey /\ minted' \in Keys /\ k <= minted' /\ minted <= minted'
        /\ r \in Row /\ ks \in Table /\ r.phoneKey = k /\ r.revoked = row.revoked
        /\ holders[k] \subseteq {p}
        /\ Ledger(r, ks, holders, minted', torn, spent, peak, faults)
    <3>1. CASE row.phoneKey = NoKey
      <4>1. k \in Keys /\ k = minted + 1 /\ minted' = k /\ k # NoKey
        BY <1>1, <1>6, <3>1, Bounds DEF Keys, Larger
      <4>2. /\ r \in Row /\ ks \in Table /\ r.phoneKey = k /\ r.revoked = row.revoked
            /\ Ledger(r, ks, holders, k, torn, spent, peak, faults)
        BY <1>1, <1>6, <2>1, <3>1, <4>1, MintLedger
      <4>3. holders[k] = {}
        BY <1>1, <4>1 DEF Secrets
      <4>. QED
        BY <1>1, <4>1, <4>2, <4>3
    <3>2. CASE row.phoneKey # NoKey
      <4>1. k = row.phoneKey /\ r = row /\ ks = key /\ k \in Keys /\ k \in Nat /\ k <= minted
        BY <1>1, <1>6, <3>2, Numbers, Bounds DEF Ledger, Baselines
      <4>2. minted' = minted
        BY <1>1, <1>6, <4>1 DEF Larger
      <4>3. holders[k] \subseteq {p}
        BY <1>1, <1>4, <2>1, <3>2, <4>1 DEF Secrets
      <4>. QED
        BY <1>1, <3>2, <4>1, <4>2, <4>3
    <3>. QED
      BY <3>1, <3>2
  <2>3. PICK now \in MaybeDue(r) :
            \/ PassSaves(now, ks) /\ holders' = [holders EXCEPT ![k] = @ \cup {p}]
            \/ PassFails(now, ks) /\ UNCHANGED holders
    BY <1>6
  <2>4. /\ now \in Row /\ now.phoneKey = k /\ now.revoked = row.revoked
        /\ Ledger(now, ks, holders, minted', torn, spent, peak, faults)
    BY <2>2, <2>3, DueLedger
  <2>5. /\ row' \in Row /\ key' \in Table /\ spent' \in Nat /\ peak' \in Nat
        /\ torn' \subseteq Keys /\ faults' \in 0..MaxFaults
        /\ row'.phoneKey = k /\ row'.revoked = row.revoked
        /\ Ledger(row', key', holders', minted', torn', spent', peak', faults')
    <3>1. CASE PassSaves(now, ks)
      <4>1. /\ row' \in Row /\ key' \in Table
            /\ spent' \in Nat /\ peak' \in Nat /\ torn' \subseteq Keys /\ faults' = faults
            /\ row'.phoneKey = now.phoneKey /\ row'.revoked = now.revoked
            /\ Ledger(row', key', holders', minted', torn', spent', peak', faults')
        BY <1>1, <2>1, <2>2, <2>4, <3>1, SavesLedger
      <4>. QED
        BY <1>1, <2>4, <4>1
    <3>2. CASE PassFails(now, ks) /\ UNCHANGED holders
      <4>1. /\ row' = now /\ key' \in Table /\ spent' \in Nat /\ peak' \in Nat
            /\ torn' \subseteq Keys /\ faults' \in 0..MaxFaults
            /\ Ledger(row', key', holders, minted', torn', spent', peak', faults')
        BY <1>1, <2>2, <2>4, <3>2, FailsLedger
      <4>. QED
        BY <2>4, <3>2, <4>1
    <3>. QED
      BY <2>3, <3>1, <3>2
  <2>6. /\ holders' \in Holders /\ holders'[k] \subseteq {p}
        /\ \A n \in Keys \ {k} : holders'[n] = holders[n]
    BY <1>1, <2>2, <2>3 DEF Holders
  <2>7. TypeOK'
    BY <1>2, <1>3, <1>4, <2>2, <2>5, <2>6, TypesNext
  <2>8. KeyDiesWithPhone'
    BY <1>4, <2>1, <2>5 DEF KeyDiesWithPhone
  <2>9. Secrets'
    <3>1. \A n \in Keys : \A q, s \in holders'[n] : q = s
      BY <1>1, <2>2, <2>6 DEF Secrets
    <3>2. \A n \in Keys : n > minted' => holders'[n] = {}
      <4>1. \A n \in Keys : n > minted' => n # k /\ n > minted
        BY <1>1, <2>2, Bounds
      <4>. QED
        BY <1>1, <2>6, <4>1 DEF Secrets
    <3>. QED
      BY <1>4, <2>1, <2>5, <2>6, <3>1, <3>2 DEF Secrets
  <2>. QED
    BY <1>4, <2>5, <2>7, <2>8, <2>9 DEF IInv
<1>7. CASE ~MayAsk(p)
  BY <1>5, <1>7 DEF Grant
<1>8. CASE MayAsk(p)
  <2>1. GrantTo(p)
    BY <1>8 DEF Grant
  <2>2. \/ UNCHANGED <<row, key, minted, holders, spent, peak, torn, faults>>
        \/ /\ row.phoneKey = NoKey => minted < MaxKeys
           /\ \E k, r, ks :
                /\ k = (IF row.phoneKey = NoKey THEN minted + 1 ELSE row.phoneKey)
                /\ r = (IF row.phoneKey # NoKey THEN row
                        ELSE [row EXCEPT !.phoneKey = k, !.phoneBase = 0,
                                         !.phoneLimit = AllowanceOf(row)])
                /\ ks = (IF row.phoneKey # NoKey THEN key ELSE [key EXCEPT ![k] = MintedKey])
                /\ minted' = Larger(minted, k)
                /\ \E now \in MaybeDue(r) :
                     \/ PassSaves(now, ks) /\ holders' = [holders EXCEPT ![k] = @ \cup {p}]
                     \/ PassFails(now, ks) /\ UNCHANGED holders
    BY <2>1, Zenon DEF GrantTo
  <2>. QED
    BY <1>5, <1>6, <1>8, <2>2
<1>. QED
  BY <1>7, <1>8

(* A step after which the row records no phone key.                        *)
LEMMA InvForget ==
    ASSUME IInv, UNCHANGED <<minted, paired, phone, grants, admin, holders, changes>>,
           row' \in Row, key' \in Table, row'.phoneKey = NoKey, cred' \subseteq Phones,
           lapsed' \in BOOLEAN, crashed' \in BOOLEAN, drops' \subseteq {"pair", "revoke", "lapse"},
           torn' \subseteq Keys, spent' \in Nat, peak' \in Nat, faults' \in 0..MaxFaults,
           Credentials', Ledger(row', key', holders, minted, torn', spent', peak', faults')
    PROVE  IInv'
<1>1. /\ holders \in Holders /\ minted \in Keys
  BY Types DEF IInv
<1>2. /\ paired \in 0..MaxPhones /\ phone \in 0..paired /\ grants \subseteq Phones
      /\ changes \in 0..MaxAdmin
  BY DEF IInv, TypeOK
<1>3. admin \in BOOLEAN
  BY DEF IInv, TypeOK
<1>4. TypeOK'
  BY <1>1, <1>2, <1>3, TypesNext
<1>5. KeyDiesWithPhone' /\ Secrets'
  BY DEF IInv, KeyDiesWithPhone, Secrets
<1>. QED
  BY <1>4, <1>5 DEF IInv

(* The row a departing key leaves keeps its type.                          *)
LEMMA ClearedRow ==
    ASSUME NEW r \in Row, NEW k \in Keys \cup {NoKey}, NEW none \in Nat, NEW a \in Int,
           NEW d \in BOOLEAN
    PROVE  [r EXCEPT !.phoneKey = k, !.phoneBase = none, !.phoneLimit = none,
                     !.deskBase = a, !.due = d] \in Row
BY DEF Row

(* What clearPhoneKey does to the row.                                     *)
ClearedTo(c, carried) ==
    /\ c \in Row /\ c.phoneKey = NoKey /\ c.deskBase = row.deskBase - carried /\ c.due = TRUE
    /\ c.adjust = row.adjust /\ c.exhausted = row.exhausted /\ c.revoked = row.revoked
    /\ c.deskLimit = row.deskLimit

(* clearPhoneKey does just that.                                           *)
LEMMA ClearedFields ==
    ASSUME row \in Row, NEW carried \in Nat, NEW c, c = Cleared(carried)
    PROVE  ClearedTo(c, carried)
<1>1. PICK a \in Int : a = row.deskBase - carried
  <2>1. row.deskBase \in Int
    BY DEF Row
  <2>. QED
    BY <2>1
<1>2. PICK none \in Nat : none = 0
  OBVIOUS
<1>3. PICK yes \in BOOLEAN : yes = TRUE
  OBVIOUS
<1>4. c = [row EXCEPT !.phoneKey = NoKey, !.phoneBase = none, !.phoneLimit = none,
                      !.deskBase = a, !.due = yes]
  BY <1>1, <1>2, <1>3 DEF Cleared
<1>5. c \in Row
  <2>1. PICK k \in Keys \cup {NoKey} : k = NoKey
    OBVIOUS
  <2>2. [row EXCEPT !.phoneKey = k, !.phoneBase = none, !.phoneLimit = none,
                    !.deskBase = a, !.due = yes] \in Row
    BY ClearedRow
  <2>. QED
    BY <1>4, <2>1, <2>2
<1>6. /\ c.phoneKey = NoKey /\ c.deskBase = a /\ c.due = yes
      /\ c.adjust = row.adjust /\ c.exhausted = row.exhausted /\ c.revoked = row.revoked
      /\ c.deskLimit = row.deskLimit
  BY <1>4 DEF Row
<1>. QED
  BY <1>1, <1>3, <1>5, <1>6 DEF ClearedTo

(* dropPhoneKey carries what the key spent onto the desk's side, so the    *)
(* pool is what it was; the key it could not delete is forgotten.          *)
LEMMA InvDrop ==
    ASSUME IInv, NEW why \in {"pair", "revoke", "lapse"}, DropPhoneKey(why) PROVE IInv'
<1>1. /\ TypeOK /\ row \in Row /\ key \in Table /\ holders \in Holders
      /\ torn \subseteq Keys /\ spent \in Nat /\ peak \in Nat /\ faults \in 0..MaxFaults
      /\ Ledger(row, key, holders, minted, torn, spent, peak, faults)
  BY Types DEF IInv, TypeOK
<1>2. lapsed \in BOOLEAN /\ lapsed' = lapsed /\ crashed' = FALSE
  BY DEF IInv, TypeOK, DropPhoneKey
<1>3. /\ UNCHANGED <<minted, paired, phone, grants, admin, holders, changes, spent, peak, torn>>
      /\ drops' \subseteq {"pair", "revoke", "lapse"}
  BY DEF IInv, TypeOK, DropPhoneKey
<1>4. Credentials' /\ cred' \subseteq Phones
  <2>1. /\ paired \in 0..MaxPhones /\ MaxPhones \in Nat /\ cred \subseteq Phones
        /\ Phones = 1..MaxPhones /\ Credentials
    BY Bounds DEF IInv, TypeOK, Phones
  <2>2. why \in drops /\ drops' \subseteq drops /\ cred \subseteq cred'
        /\ (cred' = cred \/ (why = "pair" /\ cred' = cred \cup {paired}))
    BY DEF DropPhoneKey
  <2>3. cred' \subseteq 1..paired
    BY <2>1, <2>2 DEF Credentials
  <2>. QED
    BY <1>3, <2>1, <2>2, <2>3 DEF Credentials
<1>5. CASE row.phoneKey = NoKey
  <2>1. UNCHANGED <<row, key, faults>>
    BY <1>5 DEF DropPhoneKey
  <2>. QED
    BY <1>1, <1>2, <1>3, <1>4, <1>5, <2>1, InvForget
<1>6. CASE row.phoneKey # NoKey
  <2>. DEFINE pk == row.phoneKey
  <2>1. PICK read \in BOOLEAN, deleted \in BOOLEAN :
            /\ IF read /\ deleted THEN UNCHANGED faults ELSE Fault
            /\ row' = Cleared(IF read THEN AtLeast0(key[pk].spent - row.phoneBase) ELSE 0)
            /\ key' = [key EXCEPT ![pk].alive = ~deleted]
    BY <1>6 DEF DropPhoneKey
  <2>2. /\ pk \in Keys /\ pk # DeskKey /\ DeskKey \in Keys /\ row.phoneBase <= key[pk].spent
        /\ row.deskBase <= key[DeskKey].spent
    BY <1>1, <1>6, Bounds, Numbers DEF Ledger, Baselines
  <2>3. /\ key[pk].spent \in Nat /\ row.phoneBase \in Nat /\ row.deskBase \in Int
        /\ key[DeskKey].spent \in Nat
    BY <1>1, <1>6, Numbers
  <2>4. PICK carried \in Nat : carried = IF read THEN key[pk].spent - row.phoneBase ELSE 0
    BY <2>2, <2>3
  <2>5. row' = Cleared(carried)
    BY <2>1, <2>2, <2>3, <2>4 DEF AtLeast0
  <2>6. ClearedTo(row', carried)
    BY <1>1, <2>5, ClearedFields
  <2>7. /\ row' \in Row /\ row'.phoneKey = NoKey /\ row'.deskBase = row.deskBase - carried
        /\ row'.due = TRUE
        /\ row'.adjust = row.adjust /\ row'.exhausted = row.exhausted
        /\ row'.revoked = row.revoked /\ row'.deskLimit = row.deskLimit
    BY <2>6 DEF ClearedTo
  <2>8. /\ key' \in Table /\ key'[pk].alive = ~deleted
        /\ \A k \in Keys \ {pk} : key'[k] = key[k]
    <3>1. PICK still \in BOOLEAN : still = ~deleted
      BY <2>1
    <3>2. key' = [key EXCEPT ![pk] = [key[pk] EXCEPT !.alive = still]]
      BY <2>1, <3>1
    <3>3. key[pk] \in [spent : Nat, limit : Nat, off : BOOLEAN, alive : BOOLEAN]
      BY <1>1, <2>2 DEF Table
    <3>4. [key[pk] EXCEPT !.alive = still]
          \in [spent : Nat, limit : Nat, off : BOOLEAN, alive : BOOLEAN]
      BY <3>3
    <3>5. key'[pk].alive = still
      BY <1>1, <2>2, <3>2, <3>3 DEF Table
    <3>. QED
      BY <1>1, <2>2, <3>1, <3>2, <3>4, <3>5 DEF Table
  <2>9. key'[DeskKey] = key[DeskKey]
    BY <2>2, <2>8
  <2>10. faults' \in 0..MaxFaults /\ (faults' = 0 => faults = 0 /\ read /\ deleted)
    BY <1>1, <2>1, Bounds DEF Fault
  <2>11. Baselines(row', key', minted)
    BY <2>2, <2>3, <2>4, <2>7, <2>9, Bounds DEF Baselines
  <2>12. Matches(row', key', torn)
    BY <1>1, <2>7, <2>9 DEF Ledger, Matches
  <2>13. AllowanceOf(row') <= peak
    BY <1>1, <2>7 DEF Ledger, AllowanceOf
  <2>14. ASSUME faults' = 0
         PROVE  /\ torn = {} /\ Departed(row', key')
                /\ ~row'.revoked => spent = Pool(row', key') /\ Settled(row', key')
                /\ spent + Rooms(row', key', holders) <= 2 * peak
    <3>1. faults = 0 /\ read /\ deleted
      BY <2>10, <2>14
    <3>2. /\ torn = {} /\ Departed(row, key) /\ spent + Rooms(row, key, holders) <= 2 * peak
          /\ ~row.revoked => spent = Pool(row, key)
      BY <1>1, <3>1 DEF Ledger
    <3>3. Departed(row', key')
      <4>1. ~key'[pk].alive
        BY <2>8, <3>1
      <4>2. \A k \in Keys : key'[k].alive => k # pk /\ key[k].alive
        BY <2>8, <4>1
      <4>. QED
        BY <2>7, <3>2, <4>2 DEF Departed
    <3>4. ~row'.revoked => spent = Pool(row', key')
      BY <1>6, <2>3, <2>4, <2>7, <2>9, <3>1, <3>2 DEF Pool
    <3>5. Settled(row', key')
      BY <2>7 DEF Settled
    <3>6. Rooms(row', key', holders) <= Rooms(row, key, holders)
      <4>1. Room(key', holders, DeskKey) = Room(key, holders, DeskKey)
        BY <2>9 DEF Room
      <4>2. Room(key, holders, DeskKey) \in Nat /\ Room(key, holders, pk) \in Nat
        BY <1>1, <2>2 DEF Room, Table
      <4>. QED
        BY <1>6, <2>7, <4>1, <4>2 DEF Rooms
    <3>7. Rooms(row', key', holders) \in Nat /\ Rooms(row, key, holders) \in Nat
      BY <1>1, <2>7, <2>8, RoomsType
    <3>. QED
      BY <1>1, <3>2, <3>3, <3>4, <3>5, <3>6, <3>7
  <2>15. Ledger(row', key', holders, minted, torn, spent, peak, faults')
    BY <2>11, <2>12, <2>13, <2>14 DEF Ledger
  <2>. QED
    BY <1>1, <1>2, <1>3, <1>4, <2>7, <2>8, <2>10, <2>15, InvForget
<1>. QED
  BY <1>5, <1>6

(* revokeUser: once all of it is done no key is left that could spend.     *)
LEMMA InvRevokeUser == ASSUME IInv, RevokeUser PROVE IInv'
<1>1. /\ TypeOK /\ row \in Row /\ key \in Table /\ holders \in Holders
      /\ torn \subseteq Keys /\ spent \in Nat /\ peak \in Nat /\ faults \in 0..MaxFaults
      /\ Ledger(row, key, holders, minted, torn, spent, peak, faults)
  BY Types DEF IInv, TypeOK
<1>2. /\ UNCHANGED <<minted, paired, phone, cred, drops, grants, admin, holders, spent, peak,
                     torn, crashed, changes>>
      /\ ~row.revoked
  BY DEF RevokeUser
<1>3. /\ drops' \subseteq {"pair", "revoke", "lapse"} /\ cred' \subseteq Phones /\ Credentials'
  BY <1>2 DEF IInv, TypeOK, Credentials
<1>4. crashed' \in BOOLEAN
  BY <1>2 DEF IInv, TypeOK
<1>5. PICK done \in 1..3 :
           /\ IF done = 3 THEN UNCHANGED faults ELSE Fault
           /\ key' = [k \in Keys |-> [key[k] EXCEPT !.alive =
                          @ /\ ~(k = row.phoneKey /\ done >= 1) /\ ~(k = DeskKey /\ done >= 2)]]
           /\ row' = LET r == IF done >= 1 /\ row.phoneKey # NoKey THEN Cleared(0) ELSE row
                     IN  IF done = 3 THEN [r EXCEPT !.revoked = TRUE, !.exhausted = TRUE] ELSE r
           /\ lapsed' = (lapsed \/ done = 3)
  BY DEF RevokeUser
<1>6. lapsed' \in BOOLEAN
  BY <1>5 DEF IInv, TypeOK
<1>7. faults' \in 0..MaxFaults /\ (faults' = 0 => faults = 0 /\ done = 3)
  BY <1>1, <1>5, Bounds DEF Fault
<1>8. PICK r : r = IF done >= 1 /\ row.phoneKey # NoKey THEN Cleared(0) ELSE row
  OBVIOUS
<1>9. /\ r \in Row /\ r.phoneKey = NoKey /\ r.deskBase = row.deskBase
      /\ r.adjust = row.adjust /\ r.exhausted = row.exhausted /\ r.revoked = row.revoked
      /\ r.deskLimit = row.deskLimit
  <2>1. CASE row.phoneKey = NoKey
    BY <1>1, <1>8, <2>1
  <2>2. CASE row.phoneKey # NoKey
    <3>1. r = Cleared(0) /\ row.deskBase \in Int
      BY <1>1, <1>8, <2>2, Numbers
    <3>2. PICK none \in Nat : none = 0
      OBVIOUS
    <3>3. ClearedTo(r, none)
      BY <1>1, <3>1, <3>2, ClearedFields
    <3>. QED
      BY <3>1, <3>2, <3>3 DEF ClearedTo
  <2>. QED
    BY <2>1, <2>2
<1>10. row' = IF done = 3 THEN [r EXCEPT !.revoked = TRUE, !.exhausted = TRUE] ELSE r
  BY <1>5, <1>8
<1>11. /\ row' \in Row /\ row'.phoneKey = NoKey /\ row'.deskBase = row.deskBase
       /\ row'.adjust = row.adjust
       /\ done = 3 => row'.revoked
       /\ done # 3 => row'.exhausted = row.exhausted /\ row'.deskLimit = row.deskLimit
  <2>1. CASE done = 3
    <3>1. PICK yes \in BOOLEAN : yes = TRUE
      OBVIOUS
    <3>2. row' = [r EXCEPT !.revoked = yes, !.exhausted = yes]
      BY <1>10, <2>1, <3>1
    <3>3. row' \in Row /\ row'.revoked = yes /\ row'.phoneKey = r.phoneKey
          /\ row'.deskBase = r.deskBase /\ row'.adjust = r.adjust
      BY <1>9, <3>2 DEF Row
    <3>. QED
      BY <1>9, <2>1, <3>1, <3>3
  <2>2. CASE done # 3
    BY <1>9, <1>10, <2>2
  <2>. QED
    BY <2>1, <2>2
<1>12. /\ key' \in Table
       /\ \A k \in Keys : /\ key'[k].spent = key[k].spent /\ key'[k].limit = key[k].limit
                          /\ key'[k].off = key[k].off
                          /\ key'[k].alive => /\ key[k].alive /\ k # row.phoneKey
                                              /\ done = 3 => k # DeskKey
  <2>1. ASSUME NEW k \in Keys
        PROVE  /\ key'[k] \in [spent : Nat, limit : Nat, off : BOOLEAN, alive : BOOLEAN]
               /\ key'[k].spent = key[k].spent /\ key'[k].limit = key[k].limit
               /\ key'[k].off = key[k].off
               /\ key'[k].alive => /\ key[k].alive /\ k # row.phoneKey
                                   /\ done = 3 => k # DeskKey
    <3>1. PICK still \in BOOLEAN :
              still = (key[k].alive /\ ~(k = row.phoneKey /\ done >= 1)
                                    /\ ~(k = DeskKey /\ done >= 2))
      OBVIOUS
    <3>2. key'[k] = [key[k] EXCEPT !.alive = still]
      BY <1>5, <3>1
    <3>3. key[k] \in [spent : Nat, limit : Nat, off : BOOLEAN, alive : BOOLEAN]
      BY <1>1 DEF Table
    <3>4. /\ key'[k] \in [spent : Nat, limit : Nat, off : BOOLEAN, alive : BOOLEAN]
          /\ key'[k].spent = key[k].spent /\ key'[k].limit = key[k].limit
          /\ key'[k].off = key[k].off /\ key'[k].alive = still
      BY <3>2, <3>3
    <3>5. still => key[k].alive /\ k # row.phoneKey /\ (done = 3 => k # DeskKey)
      <4>1. done >= 1 /\ (done = 3 => done >= 2)
        BY <1>5
      <4>. QED
        BY <3>1, <4>1, Zenon
    <3>. QED
      BY <3>4, <3>5
  <2>2. key' = [k \in Keys |-> key'[k]]
    BY <1>5
  <2>. QED
    BY <2>1, <2>2 DEF Table
<1>13. DeskKey \in Keys /\ DeskKey # NoKey
  BY Bounds
<1>14. Baselines(row', key', minted)
  BY <1>1, <1>11, <1>12, <1>13 DEF Ledger, Baselines
<1>15. Matches(row', key', torn)
  <2>1. CASE done = 3
    BY <1>11, <2>1 DEF Matches
  <2>2. CASE done # 3
    <3>1. DeskKey \notin torn => key[DeskKey].off = row.exhausted
                                 /\ key[DeskKey].limit = row.deskLimit
      BY <1>1, <1>2, <1>13 DEF Ledger, Matches
    <3>. QED
      BY <1>11, <1>12, <1>13, <2>2, <3>1 DEF Matches
  <2>. QED
    BY <2>1, <2>2
<1>16. AllowanceOf(row') <= peak
  BY <1>1, <1>11 DEF Ledger, AllowanceOf
<1>17. ASSUME faults' = 0
       PROVE  /\ torn = {} /\ Departed(row', key') /\ row'.revoked
              /\ spent + Rooms(row', key', holders) <= 2 * peak
  <2>1. faults = 0 /\ done = 3 /\ row'.revoked
    BY <1>7, <1>11, <1>17
  <2>2. torn = {} /\ Departed(row, key) /\ spent + Rooms(row, key, holders) <= 2 * peak
    BY <1>1, <2>1 DEF Ledger
  <2>3. \A k \in Keys : ~key'[k].alive
    BY <1>12, <2>1, <2>2 DEF Departed
  <2>4. Departed(row', key')
    BY <1>11, <2>3 DEF Departed
  <2>5. Rooms(row', key', holders) = 0
    BY <1>11, <1>13, <2>3 DEF Rooms, Room
  <2>6. Rooms(row, key, holders) \in Nat
    BY <1>1, RoomsType
  <2>. QED
    BY <1>1, <2>1, <2>2, <2>4, <2>5, <2>6
<1>18. Ledger(row', key', holders, minted, torn, spent, peak, faults')
  BY <1>14, <1>15, <1>16, <1>17 DEF Ledger
<1>. QED
  BY <1>1, <1>2, <1>3, <1>4, <1>6, <1>7, <1>11, <1>12, <1>18, InvForget

(* Every step keeps the inductive invariant.                               *)
LEMMA InvStep == IInv /\ [Next]_vars => IInv'
<1>. SUFFICES ASSUME IInv, [Next]_vars PROVE IInv'
  OBVIOUS
<1>1. CASE UNCHANGED vars
  BY <1>1 DEF vars, phoneVars, IInv, TypeOK, Credentials, KeyDiesWithPhone, Secrets
<1>2. ASSUME NEW k \in Keys, Spend(k) PROVE IInv'
  BY <1>2, InvSpend
<1>3. CASE CycleEnds
  BY <1>3, InvCycleEnds
<1>4. CASE Entitlement
  <2>1. admin' \in BOOLEAN
    BY <1>4 DEF IInv, TypeOK, Entitlement
  <2>. QED
    BY <1>4, <2>1, InvLoop DEF Entitlement
<1>5. CASE ChangeAllowance
  BY <1>5, InvChangeAllowance
<1>6. CASE AdminEntitlement
  BY <1>6, InvAdminEntitlement
<1>7. ASSUME NEW p \in Phones, Grant(p) PROVE IInv'
  BY <1>7, InvGrant
<1>8. ASSUME NEW why \in {"pair", "revoke", "lapse"}, DropPhoneKey(why) PROVE IInv'
  BY <1>8, InvDrop
<1>9. CASE RevokeUser
  BY <1>9, InvRevokeUser
<1>. QED
  BY <1>1, <1>2, <1>3, <1>4, <1>5, <1>6, <1>7, <1>8, <1>9, InvHandlers DEF Next

(* The invariant the theorems rest on holds throughout.                    *)
LEMMA InvAlways == Spec => []IInv
BY InvInit, InvStep, PTL DEF Spec

(* No sequence of passes, grants, drops and admin changes writes a         *)
(* negative cap or a balance that is no number (allowanceLoop).            *)
THEOREM CapsAreNumbers == Spec => []TypeOK
<1>1. IInv => TypeOK
  BY DEF IInv
<1>. QED
  BY <1>1, InvAlways, PTL

(* A recorded phone key has a phone that may use it or a drop on its way,  *)
(* whatever grant was in flight (handleAgentGrant's second look).          *)
THEOREM NoOrphanKey == Spec => []KeyDiesWithPhone
<1>1. IInv => KeyDiesWithPhone
  BY DEF IInv
<1>. QED
  BY <1>1, InvAlways, PTL

(* No secret is handed to two phones, though the drop of the first one's   *)
(* key may fail at the gateway (dropPhoneKey, handlePairRedeem).           *)
THEOREM OneHolderPerSecret == Spec => []NoSharedSecret
<1>1. ASSUME NEW S, \A p, q \in S : p = q PROVE Cardinality(S) <= 1
  <2>1. CASE S = {}
    BY <2>1, FS_EmptySet
  <2>2. CASE S # {}
    <3>1. PICK p : p \in S
      BY <2>2
    <3>2. S = {p}
      BY <1>1, <3>1
    <3>3. Cardinality({p}) = 1
      BY FS_Singleton
    <3>. QED
      BY <3>2, <3>3
  <2>. QED
    BY <2>1, <2>2
<1>2. IInv => NoSharedSecret
  BY <1>1 DEF IInv, Secrets, NoSharedSecret
<1>. QED
  BY <1>2, InvAlways, PTL

(* The row believes of a key what the gateway does, except of the keys a   *)
(* failed pass left configured (allowanceLoop saves after it configures).  *)
THEOREM RowKnowsGateway == Spec => []RowMatchesGateway
<1>1. IInv => RowMatchesGateway
  BY DEF IInv, Ledger, Matches, RowMatchesGateway
<1>. QED
  BY <1>1, InvAlways, PTL

(* The pool keeps count through any sequence of pairings, resets and       *)
(* cycles (clearPhoneKey carries the departing key's spend).               *)
THEOREM PoolKeepsCount == Spec => []PoolConserved
<1>1. IInv => PoolConserved
  BY DEF IInv, Ledger, Pool, PoolConserved
<1>. QED
  BY <1>1, InvAlways, PTL

(* "twice the allowance at worst" (allowanceLoop): whatever the number of  *)
(* phones and keys, and whenever the passes run.                           *)
THEOREM TwiceAtWorst == Spec => []SpendBounded
<1>1. IInv => SpendBounded
  <2>. SUFFICES ASSUME IInv, faults = 0 PROVE spent <= 2 * peak
    BY DEF SpendBounded
  <2>1. row \in Row /\ key \in Table /\ spent \in Nat /\ peak \in Nat
    BY Types DEF IInv
  <2>2. Rooms(row, key, holders) \in Nat
    BY <2>1, RoomsType
  <2>3. spent + Rooms(row, key, holders) <= 2 * peak
    BY DEF IInv, Ledger
  <2>. QED
    BY <2>1, <2>2, <2>3
<1>. QED
  BY <1>1, InvAlways, PTL
===============================================================================
