------------------------------ MODULE PlusAccount -----------------------------
(***************************************************************************)
(* One user's allowance and gateway keys: allowanceLoop, mintPhoneKey,     *)
(* revokePhoneKeyLocked, revokeUser and changeAllowance of main.go, the    *)
(* user's row of store.go, and the handlers of vault.go that grant the     *)
(* phone its key or end it (agent grant, pair, revoke, lapse).             *)
(*                                                                         *)
(* Whatever touches the row or the gateway holds syncMu, so it is one      *)
(* action; a failure of one of its calls, or a crash between two, is an    *)
(* outcome that keeps the effects so far.  What syncMu does not cover is   *)
(* split: a handler commits the change of the device or the vault, and     *)
(* asks for the lock later (drops); a grant is let in, and waits (grants). *)
(* Keys spend at any time, up to the cap and while enabled.                *)
(*                                                                         *)
(* A unit is a dollar, so the rounding of used units is exact.  Left out:  *)
(* connecting with an invite, plans and settings, the ledger, failures of  *)
(* the database (except where a revocation is half done).                  *)
(***************************************************************************)
EXTENDS Integers, FiniteSets

CONSTANTS
    Allowance,   \* the plan's units per cycle
    MaxKeys,     \* bound on the keys minted, the desk's included
    MaxPhones,   \* bound on the phones paired
    MaxAdmin,    \* bound on admin changes, lapses and cycles that end
    MaxFaults    \* bound on crashes and on requests that fail with some of it done

ASSUME AccountAssumption ==
    /\ Allowance \in Nat \ {0} /\ MaxKeys \in Nat \ {0}
    /\ MaxPhones \in Nat \ {0} /\ MaxAdmin \in Nat /\ MaxFaults \in Nat

VARIABLES
    row,      \* the users row: cycle, balance, caps and the recorded phone key
    key,      \* the gateway: spend, cap and state of each key
    minted,   \* keys minted so far
    paired,   \* phones paired so far
    phone,    \* the phone's device row; 0 when there is none
    cred,     \* phones whose pairing was answered, so that they have a credential
    lapsed,   \* lapsed_at of the vault is set
    drops,    \* handlers that committed and have dropPhoneKey still to run
    grants,   \* phones with a grant request let in by withVault
    admin,    \* an admin's change is saved, its entitlementFor still to run
    holders,  \* the phones that were handed each key's secret
    \* history and bounds
    spent,    \* what all keys spent since the cycle's baselines
    peak,     \* the largest allowance of the cycle
    torn,     \* keys a failed pass configured, until a pass that saves does
    crashed,  \* a crash lost a drop, until the next drop
    changes, faults

phoneVars == <<paired, phone, cred, lapsed, drops, grants>>
vars == <<row, key, minted, phoneVars, admin, holders, spent, peak, torn, crashed, changes,
          faults>>

Keys    == 1..MaxKeys
Phones  == 1..MaxPhones
DeskKey == 1
NoKey   == 0
NoPhone == 0

AtLeast0(n)  == IF n > 0 THEN n ELSE 0
Larger(a, b) == IF a > b THEN a ELSE b

\* handleConnect: a key with the plan's cap, a row with no spend.
Init ==
    /\ row = [adjust |-> 0, used |-> 0, exhausted |-> FALSE, over |-> FALSE, due |-> FALSE,
              revoked |-> FALSE, deskBase |-> 0, deskLimit |-> Allowance,
              phoneKey |-> NoKey, phoneBase |-> 0, phoneLimit |-> 0]
    /\ key = [k \in Keys |-> [spent |-> 0, limit |-> Allowance, off |-> FALSE,
                              alive |-> k = DeskKey]]
    /\ minted = 1
    /\ paired = 0 /\ phone = NoPhone /\ cred = {} /\ lapsed = FALSE
    /\ drops = {} /\ grants = {} /\ admin = FALSE
    /\ holders = [k \in Keys |-> {}]
    /\ spent = 0 /\ peak = Allowance /\ torn = {} /\ crashed = FALSE
    /\ changes = 0 /\ faults = 0

Fault  == faults < MaxFaults /\ faults' = faults + 1
Change == changes < MaxAdmin /\ changes' = changes + 1
-------------------------------------------------------------------------------
(* One pass of the allowance loop, as a function of a row and the gateway. *)

AllowanceOf(r) == AtLeast0(Allowance + r.adjust)

\* keyUsage of one key; the user without a phone key has spent nothing on it.
Usage(ks, k) == IF k = NoKey THEN 0 ELSE ks[k].spent

\* Roll the cycle over when it has ended, or recount when the last sync is stale.
Counted(r, ks) ==
    LET desk == Usage(ks, DeskKey)
        ph   == Usage(ks, r.phoneKey)
    IN CASE r.over ->
              [r EXCEPT !.deskBase = desk, !.phoneBase = ph, !.used = 0, !.adjust = 0,
                        !.over = FALSE, !.due = FALSE]
         [] ~r.over /\ r.due ->
              [r EXCEPT !.used = AtLeast0(desk - r.deskBase) + AtLeast0(ph - r.phoneBase),
                        !.due = FALSE]
         [] OTHER -> r

Empty(r) == AllowanceOf(r) - r.used <= 0

\* Mutant: the cap is not kept at zero when a departed key's spend lowered the baseline.
DeskCapRaw(r) == r.deskBase + AllowanceOf(r)

\* wantLimit and wantPhoneLimit: the spend that would end the allowance on that key alone.
DeskCap(r)  == AtLeast0(r.deskBase + AllowanceOf(r))
PhoneCap(r) == r.phoneBase + AllowanceOf(r)

\* Mutant: the phone key is configured only when its cap moves, not when the switch does.
ToConfigureByCap(r, rolledOver) ==
    LET flipped == Empty(r) # r.exhausted \/ rolledOver
    IN {k \in {DeskKey} : flipped \/ DeskCap(r) # r.deskLimit}
       \cup {k \in {r.phoneKey} \ {NoKey} : PhoneCap(r) # r.phoneLimit}

\* configureDesk and configurePhone.
ToConfigure(r, rolledOver) ==
    LET flipped == Empty(r) # r.exhausted \/ rolledOver
    IN {k \in {DeskKey} : flipped \/ DeskCap(r) # r.deskLimit}
       \cup {k \in {r.phoneKey} \ {NoKey} : flipped \/ PhoneCap(r) # r.phoneLimit}

\* The keys to configure, how, and the row to save.
Pass(r0, ks) ==
    LET r         == Counted(r0, ks)
        configure == ToConfigure(r, r0.over)
    IN [configure |-> configure, off |-> Empty(r),
        caps |-> [k \in configure |-> IF k = DeskKey THEN DeskCap(r) ELSE PhoneCap(r)],
        row |-> [r EXCEPT
            !.deskLimit  = IF DeskKey \in configure THEN DeskCap(r) ELSE @,
            !.phoneLimit = IF r.phoneKey \in configure THEN PhoneCap(r) ELSE @,
            !.exhausted  = IF configure # {} THEN Empty(r) ELSE @]]

\* The gateway's configure of the keys in done.
Configured(ks, pass, done) ==
    [k \in Keys |-> IF k \in done THEN [ks[k] EXCEPT !.limit = pass.caps[k], !.off = pass.off]
                                  ELSE ks[k]]

\* syncEvery may have passed since the last sync; the row itself tells when it was forgotten.
MaybeDue(r) == {r, [r EXCEPT !.due = TRUE]}

\* A pass that goes through, over the row r and the keys ks.
PassSaves(r, ks) ==
    LET pass == Pass(r, ks)
    IN /\ ks[DeskKey].alive /\ (r.phoneKey # NoKey => ks[r.phoneKey].alive)
       /\ row' = pass.row
       /\ key' = Configured(ks, pass, pass.configure)
       /\ torn' = torn \ pass.configure
       /\ spent' = IF r.over THEN 0 ELSE spent
       /\ peak' = IF r.over THEN AllowanceOf(pass.row) ELSE peak
       /\ UNCHANGED faults

\* A pass one of whose calls fails, always so once the desk key is gone: the desk key is
\* configured first, nothing is saved of the pass, and r stays what the row was.
PassFails(r, ks) ==
    LET pass == Pass(r, ks)
        gone == ~ks[DeskKey].alive
    IN /\ \E done \in {{}} \cup IF gone THEN {} ELSE {pass.configure \cap {DeskKey},
                                                      pass.configure} :
              /\ IF done = {} THEN UNCHANGED faults ELSE Fault
              /\ key' = Configured(ks, pass, done)
              /\ torn' = torn \cup done
       /\ row' = r
       /\ UNCHANGED <<spent, peak>>
-------------------------------------------------------------------------------
(* The gateway and time. *)

\* A model call on a key whose secret somebody holds.
Spend(k) ==
    /\ k = DeskKey \/ holders[k] # {}
    /\ key[k].alive /\ ~key[k].off /\ key[k].spent < key[k].limit
    /\ key' = [key EXCEPT ![k].spent = @ + 1]
    /\ spent' = spent + 1
    /\ UNCHANGED <<row, minted, phoneVars, admin, holders, peak, torn, crashed, changes,
                   faults>>

\* The cycle the row is in comes to its end.
CycleEnds ==
    /\ ~row.over /\ Change
    /\ row' = [row EXCEPT !.over = TRUE]
    /\ UNCHANGED <<key, minted, phoneVars, admin, holders, spent, peak, torn, crashed, faults>>
-------------------------------------------------------------------------------
(* Requests that run the loop. *)

\* allowanceLoop: over the row r and the keys ks, on time or not.
AllowanceLoop(r, ks) == \E now \in MaybeDue(r) : PassSaves(now, ks) \/ PassFails(now, ks)

\* entitlementFor, asked by the desk.
Entitlement ==
    /\ ~row.revoked
    /\ AllowanceLoop(row, key)
    /\ UNCHANGED <<minted, phoneVars, admin, holders, crashed, changes>>

\* changeAllowance: a reset reads the usage of the keys it then stores as baselines.
ChangeAllowance ==
    /\ ~admin /\ key[DeskKey].alive /\ Change
    /\ \/ row' = [row EXCEPT !.deskBase = Usage(key, DeskKey),
                             !.phoneBase = Usage(key, row.phoneKey), !.used = 0,
                             !.adjust = 0, !.over = FALSE, !.due = TRUE]
          /\ spent' = 0
          /\ peak' = Larger(peak, AllowanceOf(row'))
       \/ \E units \in {-1, 1} : row' = [row EXCEPT !.adjust = @ + units, !.due = TRUE]
          /\ peak' = Larger(peak, AllowanceOf(row'))
          /\ UNCHANGED spent
    /\ admin' = TRUE
    /\ UNCHANGED <<key, minted, phoneVars, holders, torn, crashed, faults>>

\* handleAdminAllowance goes on to enforce what it saved.
AdminEntitlement ==
    /\ admin
    /\ admin' = FALSE
    /\ IF row.revoked THEN UNCHANGED <<row, key, torn, spent, peak, faults>>
       ELSE AllowanceLoop(row, key)
    /\ UNCHANGED <<minted, phoneVars, holders, crashed, changes>>

\* The phone that holds the row's credential may ask while the vault is not lapsed.
MayAsk(p) == phone = p /\ ~lapsed /\ ~row.revoked

\* A phone whose pairing was answered asks for its grant; withVault lets it in.
GrantRequest(p) ==
    /\ MayAsk(p) /\ p \in cred /\ p \notin grants
    /\ grants' = grants \cup {p}
    /\ UNCHANGED <<row, key, minted, paired, phone, cred, lapsed, drops, admin, holders,
                   spent, peak, torn, crashed, changes, faults>>

\* mintPhoneKey: a fresh key, switched off at once if the allowance is spent.
MintedKey == [spent |-> 0, limit |-> AllowanceOf(row), off |-> row.exhausted, alive |-> TRUE]

\* handleAgentGrant for phone p, past the check of its credential: mint, run the loop, answer.
GrantTo(p) ==
    \/ \* the mint, or the configure of a key minted into a spent allowance, fails
       /\ row.phoneKey = NoKey
       /\ UNCHANGED <<row, key, minted, holders, spent, peak, torn, faults>>
    \/ /\ row.phoneKey = NoKey => minted < MaxKeys
       /\ LET k  == IF row.phoneKey = NoKey THEN minted + 1 ELSE row.phoneKey
              r  == IF row.phoneKey # NoKey THEN row
                    ELSE [row EXCEPT !.phoneKey = k, !.phoneBase = 0,
                                     !.phoneLimit = AllowanceOf(row)]
              ks == IF row.phoneKey # NoKey THEN key ELSE [key EXCEPT ![k] = MintedKey]
          IN /\ minted' = Larger(minted, k)
             /\ \E now \in MaybeDue(r) :
                    \/ PassSaves(now, ks) /\ holders' = [holders EXCEPT ![k] = @ \cup {p}]
                    \/ PassFails(now, ks) /\ UNCHANGED holders

\* Mutant: the principal withVault resolved is good enough.
GrantUnchecked(p) ==
    /\ p \in grants /\ grants' = grants \ {p}
    /\ GrantTo(p)
    /\ UNCHANGED <<paired, phone, cred, lapsed, drops, admin, crashed, changes>>

\* The locked part of handleAgentGrant asks again who is calling.
Grant(p) ==
    /\ p \in grants /\ grants' = grants \ {p}
    /\ IF MayAsk(p) THEN GrantTo(p)
       ELSE UNCHANGED <<row, key, minted, holders, spent, peak, torn, faults>>
    /\ UNCHANGED <<paired, phone, cred, lapsed, drops, admin, crashed, changes>>
-------------------------------------------------------------------------------
(* Requests that end the phone's key. *)

\* redeemPairing replaces whatever phone was paired; the new one has its credential only
\* once the handler answers, after the drop.
Pair ==
    /\ paired < MaxPhones /\ ~row.revoked /\ "pair" \notin drops
    /\ paired' = paired + 1 /\ phone' = paired'
    /\ drops' = drops \cup {"pair"}
    /\ UNCHANGED <<row, key, minted, cred, lapsed, grants, admin, holders, spent, peak, torn,
                   crashed, changes, faults>>

\* handleDeviceRevoke, handleVaultReset and handleVaultDelete: the device row goes.
RevokeDevice ==
    /\ phone # NoPhone /\ "revoke" \notin drops
    /\ phone' = NoPhone
    /\ drops' = drops \cup {"revoke"}
    /\ UNCHANGED <<row, key, minted, paired, cred, lapsed, grants, admin, holders, spent,
                   peak, torn, crashed, changes, faults>>

\* handleAdminLapse: a lapse drops the key, a renewal does not.
AdminLapse ==
    /\ Change
    /\ \/ lapsed' = TRUE /\ "lapse" \notin drops /\ drops' = drops \cup {"lapse"}
       \/ lapsed /\ lapsed' = FALSE /\ UNCHANGED drops
    /\ UNCHANGED <<row, key, minted, paired, phone, cred, grants, admin, holders, spent, peak,
                   torn, crashed, faults>>

\* Mutant: the spend of the departing key is not carried.
ClearedUncarried(carried) ==
    [row EXCEPT !.phoneKey = NoKey, !.phoneBase = 0, !.phoneLimit = 0, !.due = TRUE]

\* Mutant: the balance cached from before stands.
ClearedCached(carried) ==
    [row EXCEPT !.phoneKey = NoKey, !.phoneBase = 0, !.phoneLimit = 0, !.deskBase = @ - carried]

\* clearPhoneKey: what the key spent is carried onto the desk's side of the sum, and the
\* next pass recounts.
Cleared(carried) ==
    [row EXCEPT !.phoneKey = NoKey, !.phoneBase = 0, !.phoneLimit = 0,
                !.deskBase = @ - carried, !.due = TRUE]

\* Mutant: a phone that takes another's place takes its key too.
DropUnlessPaired(why) ==
    /\ why \in drops /\ drops' = drops \ {why}
    /\ crashed' = FALSE
    /\ cred' = IF why = "pair" THEN cred \cup {paired} ELSE cred
    /\ IF row.phoneKey = NoKey \/ why = "pair" THEN UNCHANGED <<row, key>>
       ELSE /\ row' = Cleared(AtLeast0(key[row.phoneKey].spent - row.phoneBase))
            /\ key' = [key EXCEPT ![row.phoneKey].alive = FALSE]
    /\ UNCHANGED <<minted, paired, phone, lapsed, grants, admin, holders, spent, peak, torn,
                   changes, faults>>

\* dropPhoneKey: the usage read and the delete may each fail, the key is forgotten anyway.
DropPhoneKey(why) ==
    /\ why \in drops /\ drops' = drops \ {why}
    /\ crashed' = FALSE
    /\ cred' = IF why = "pair" THEN cred \cup {paired} ELSE cred
    /\ IF row.phoneKey = NoKey THEN UNCHANGED <<row, key, faults>>
       ELSE \E read, deleted \in BOOLEAN :
              /\ IF read /\ deleted THEN UNCHANGED faults ELSE Fault
              /\ row' = Cleared(IF read THEN AtLeast0(key[row.phoneKey].spent - row.phoneBase)
                                        ELSE 0)
              /\ key' = [key EXCEPT ![row.phoneKey].alive = ~deleted]
    /\ UNCHANGED <<minted, paired, phone, lapsed, grants, admin, holders, spent, peak, torn,
                   changes>>

\* revokeUser: phone key, desk key, row; a failure leaves what was done so far.
RevokeUser ==
    /\ ~row.revoked
    /\ \E done \in 1..3 :
           /\ IF done = 3 THEN UNCHANGED faults ELSE Fault
           /\ key' = [k \in Keys |-> [key[k] EXCEPT !.alive =
                          @ /\ ~(k = row.phoneKey /\ done >= 1) /\ ~(k = DeskKey /\ done >= 2)]]
           /\ LET r == IF done >= 1 /\ row.phoneKey # NoKey THEN Cleared(0) ELSE row
              IN row' = IF done = 3 THEN [r EXCEPT !.revoked = TRUE, !.exhausted = TRUE] ELSE r
           /\ lapsed' = (lapsed \/ done = 3)
    /\ UNCHANGED <<minted, paired, phone, cred, drops, grants, admin, holders, spent, peak,
                   torn, crashed, changes>>

\* The instance goes: requests that had committed never drop the key.
Crash ==
    /\ drops # {} \/ grants # {} \/ admin
    /\ Fault
    /\ crashed' = (crashed \/ drops # {})
    /\ drops' = {} /\ grants' = {} /\ admin' = FALSE
    /\ UNCHANGED <<row, key, minted, paired, phone, cred, lapsed, holders, spent, peak, torn,
                   changes>>

Next ==
    \/ \E k \in Keys : Spend(k)
    \/ CycleEnds \/ Entitlement \/ ChangeAllowance \/ AdminEntitlement
    \/ \E p \in Phones : GrantRequest(p) \/ Grant(p)
    \/ Pair \/ RevokeDevice \/ AdminLapse
    \/ \E why \in {"pair", "revoke", "lapse"} : DropPhoneKey(why)
    \/ RevokeUser \/ Crash

Spec == Init /\ [][Next]_vars
-------------------------------------------------------------------------------
\* The variables have their types; no key is ever configured with a negative cap.
TypeOK ==
    /\ row \in [adjust : Int, used : Nat, exhausted : BOOLEAN, over : BOOLEAN, due : BOOLEAN,
                revoked : BOOLEAN, deskBase : Int, deskLimit : Nat,
                phoneKey : Keys \cup {NoKey}, phoneBase : Nat, phoneLimit : Nat]
    /\ key \in [Keys -> [spent : Nat, limit : Nat, off : BOOLEAN, alive : BOOLEAN]]
    /\ minted \in Keys /\ paired \in 0..MaxPhones /\ phone \in 0..paired
    /\ cred \subseteq Phones /\ lapsed \in BOOLEAN /\ admin \in BOOLEAN /\ crashed \in BOOLEAN
    /\ drops \subseteq {"pair", "revoke", "lapse"} /\ grants \subseteq Phones
    /\ holders \in [Keys -> SUBSET Phones] /\ torn \subseteq Keys
    /\ spent \in Nat /\ peak \in Nat /\ changes \in 0..MaxAdmin /\ faults \in 0..MaxFaults

\* A recorded phone key has a phone that may use it, or a handler is about to drop it: no
\* grant in flight mints "a key nobody will revoke" (handleAgentGrant's second look at the
\* credential, against pair, revoke, lapse and revokeUser).
KeyDiesWithPhone ==
    row.phoneKey # NoKey /\ drops = {} /\ ~crashed => phone # NoPhone /\ ~lapsed /\ ~row.revoked

\* No phone is handed a secret another phone was handed (dropPhoneKey forgets the key even
\* when the gateway will not delete it).
NoSharedSecret == \A k \in Keys : Cardinality(holders[k]) <= 1

\* The row never believes of a key what the gateway does not do, except of keys a failed
\* pass left configured: cap and switch follow the row through every pass, mint and drop.
RowMatchesGateway ==
    ~row.revoked =>
        \A k \in ({DeskKey, row.phoneKey} \ {NoKey}) \ torn :
            /\ key[k].off = row.exhausted
            /\ key[k].limit = IF k = DeskKey THEN row.deskLimit ELSE row.phoneLimit

\* The pool keeps count over any sequence of pairings, resets and cycles: the spend above
\* the two baselines is what all keys, departed ones too, spent since (clearPhoneKey).
PoolConserved ==
    faults = 0 /\ ~row.revoked =>
        spent = key[DeskKey].spent - row.deskBase
                + (IF row.phoneKey = NoKey THEN 0 ELSE key[row.phoneKey].spent - row.phoneBase)

\* With a gateway that answers, a cycle costs twice the allowance at worst, however often
\* the phone is paired again ("twice the allowance at worst", allowanceLoop).
SpendBounded == faults = 0 => spent <= 2 * peak

===============================================================================
