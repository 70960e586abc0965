------------------------------ MODULE VaultStore ------------------------------
(***************************************************************************)
(* The Postgres tables of one user's vault in the Plus service, and one    *)
(* action per store method (thock/services/plus/vault_store.go).  A method *)
(* runs in one transaction, most of them under the vault's row lock        *)
(* (withVaultLock), so each is one atomic step here.  A request the method *)
(* refuses changes nothing and is a step that is not enabled.  The modules *)
(* that extend this one say what happens outside the transaction.          *)
(*                                                                         *)
(* Abstracted: the user and desk-device rows, names, times.  An age limit  *)
(* (an hour, seven or thirty days) appears as a choice of the rows that    *)
(* have reached it.  A pairing code is reduced to whether an unused one    *)
(* exists, the phone device to whether one is paired.                      *)
(***************************************************************************)
EXTENDS Integers, FiniteSets

CONSTANTS
    Paths,       \* the note paths that can sync
    ClientIds,   \* the client ids of the phone's writes
    KeyChecks,   \* key checks a desk can present
    Sizes,       \* ciphertext sizes a desk can announce
    HardCap,     \* hardCap(quota): the plan's quota plus ten percent
    MaxVersion,  \* bound on latest_version
    MaxSeq,      \* bound on latest_seq
    MaxVaults    \* bound on the vaults the user creates, one after another

ASSUME SizesAssumption == Sizes \subseteq Nat \ {0}
ASSUME BoundsAssumption ==
    HardCap \in Nat /\ MaxVersion \in Nat /\ MaxSeq \in Nat /\ MaxVaults \in Nat

VARIABLES
    vault,            \* the vaults row; id outlives a deleted row
    files,            \* the files table by path; NoRow when the path has none
    pending_uploads,  \* uploads begun and not committed
    writes,           \* the phone's queued writes, acked ones included
    phone,            \* is a phone device paired
    pairing           \* is there an unused pairing code

storeVars == <<vault, files, pending_uploads, writes, phone, pairing>>

NoBlob == 0

NoRow == [version |-> 0, deleted |-> FALSE, blob |-> NoBlob, size |-> 0]
LiveRow(v, b, s) == [version |-> v, deleted |-> FALSE, blob |-> b, size |-> s]
Tombstone(v) == [version |-> v, deleted |-> TRUE, blob |-> NoBlob, size |-> 0]
IsLive(row) == row.version > 0 /\ ~row.deleted

FileRow == [version: Nat, deleted: BOOLEAN, blob: Nat, size: Nat]
Upload == [blob: Nat \ {NoBlob}, path: Paths, expected: Nat, size: Sizes]
QueuedWrite == [seq: Nat \ {0}, client: ClientIds, acked: BOOLEAN]
VaultRow ==
    [exists: BOOLEAN, id: Nat, key: KeyChecks, lapsed: BOOLEAN,
     latestVersion: Nat, tombstoneHorizon: Nat, bytesUsed: Int,
     latestSeq: Nat, ackedThroughSeq: Nat, ackedAtVersion: Nat]

StoreTypeOK ==
    /\ vault \in VaultRow
    /\ files \in [Paths -> FileRow]
    /\ pending_uploads \subseteq Upload
    /\ writes \subseteq QueuedWrite
    /\ phone \in BOOLEAN
    /\ pairing \in BOOLEAN

(* A vaults row as it is inserted: every counter starts at zero.           *)
BlankVault(present, id, k) ==
    [exists |-> present, id |-> id, key |-> k, lapsed |-> FALSE,
     latestVersion |-> 0, tombstoneHorizon |-> 0, bytesUsed |-> 0,
     latestSeq |-> 0, ackedThroughSeq |-> 0, ackedAtVersion |-> 0]

StoreInit ==
    /\ \E k \in KeyChecks : vault = BlankVault(FALSE, 0, k)
    /\ files = [p \in Paths |-> NoRow]
    /\ pending_uploads = {}
    /\ writes = {}
    /\ phone = FALSE
    /\ pairing = FALSE

(* allBlobIDs: the blobs the vault's rows name, to be deleted with them.   *)
AllBlobIds ==
    {files[p].blob : p \in {q \in Paths : IsLive(files[q])}}
        \cup {u.blob : u \in pending_uploads}

-------------------------------------------------------------------------------
(* The vault row *)

(* ensureVault on a user without a vault.                                  *)
CreateVault(k) ==
    /\ ~vault.exists
    /\ vault.id < MaxVaults
    /\ vault' = BlankVault(TRUE, vault.id + 1, k)
    /\ UNCHANGED <<files, pending_uploads, writes, phone, pairing>>

(* ensureVault on an existing vault: another key check is adopted while    *)
(* the vault holds no live file, and refused (key_mismatch) otherwise.     *)
AdoptKey(k) ==
    /\ vault.exists
    /\ vault.key # k
    /\ \A p \in Paths : ~IsLive(files[p])
    /\ vault' = [vault EXCEPT !.key = k]
    /\ UNCHANGED <<files, pending_uploads, writes, phone, pairing>>

(* The cascade of a deleted vaults row: deleteVault, or the sweeper thirty *)
(* days into a lapse.                                                      *)
DropVault ==
    /\ vault.exists
    /\ vault' = BlankVault(FALSE, vault.id, vault.key)
    /\ files' = [p \in Paths |-> NoRow]
    /\ pending_uploads' = {}
    /\ writes' = {}
    /\ phone' = FALSE
    /\ pairing' = FALSE

(* resetVault: wipes files, uploads, writes, pairings and the phone; the   *)
(* counters keep going up and the horizon moves to the latest version.     *)
ResetVault(k) ==
    /\ vault.exists
    /\ vault' = [vault EXCEPT !.key = k, !.bytesUsed = 0,
                              !.tombstoneHorizon = vault.latestVersion]
    /\ files' = [p \in Paths |-> NoRow]
    /\ pending_uploads' = {}
    /\ writes' = {}
    /\ phone' = FALSE
    /\ pairing' = FALSE

SetVaultLapsed(lapse) ==
    /\ vault.exists
    /\ vault.lapsed # lapse
    /\ vault' = [vault EXCEPT !.lapsed = lapse]
    /\ UNCHANGED <<files, pending_uploads, writes, phone, pairing>>

-------------------------------------------------------------------------------
(* Pairings and the phone device *)

CreatePairing ==
    /\ vault.exists
    /\ pairing' = TRUE
    /\ UNCHANGED <<vault, files, pending_uploads, writes, phone>>

(* redeemPairing spends the code and replaces the phone device.            *)
RedeemPairing ==
    /\ pairing
    /\ pairing' = FALSE
    /\ phone' = TRUE
    /\ UNCHANGED <<vault, files, pending_uploads, writes>>

DeletePhone ==
    /\ phone
    /\ phone' = FALSE
    /\ UNCHANGED <<vault, files, pending_uploads, writes, pairing>>

-------------------------------------------------------------------------------
(* Files *)

(* The quota check begin and commit share: what the path holds now is      *)
(* replaced (a tombstone holds nothing).                                   *)
Fits(p, size) == vault.bytesUsed - files[p].size + size <= HardCap

(* The blob id of an upload is random, so it is new to every table.        *)
BeginUpload(p, expected, blob, size) ==
    /\ vault.exists
    /\ files[p].version = expected
    /\ Fits(p, size)
    /\ pending_uploads' = pending_uploads \cup
         {[blob |-> blob, path |-> p, expected |-> expected, size |-> size]}
    /\ UNCHANGED <<vault, files, writes, phone, pairing>>

(* Mutants: the replaced row's size is not given back; the counter stays.  *)
PublishFileGross(p, blob, size) ==
    /\ vault.latestVersion < MaxVersion
    /\ files' = [files EXCEPT ![p] = LiveRow(vault.latestVersion + 1, blob, size)]
    /\ vault' = [vault EXCEPT !.latestVersion = @ + 1, !.bytesUsed = @ + size]

PublishFileUncounted(p, blob, size) ==
    /\ vault.latestVersion < MaxVersion
    /\ files' = [files EXCEPT ![p] = LiveRow(vault.latestVersion + 1, blob, size)]
    /\ vault' = [vault EXCEPT !.bytesUsed = @ - files[p].size + size]

(* The rows commitUpload writes once it has decided to publish.            *)
PublishFile(p, blob, size) ==
    /\ vault.latestVersion < MaxVersion
    /\ files' = [files EXCEPT ![p] = LiveRow(vault.latestVersion + 1, blob, size)]
    /\ vault' = [vault EXCEPT !.latestVersion = @ + 1,
                              !.bytesUsed = @ - files[p].size + size]

(* Mutant: the transaction trusts the row the handler read before it.      *)
CommitUploadUnchecked(p, expected, blob) ==
    \E size \in Sizes :
        /\ files[p].version = expected
        /\ Fits(p, size)
        /\ PublishFile(p, blob, size)
        /\ pending_uploads' = {x \in pending_uploads : x.blob # blob}
        /\ UNCHANGED <<writes, phone, pairing>>

(* commitUpload: the pending row is read again under the lock, so an       *)
(* upload swept since the handler looked is refused (blob_missing).        *)
CommitUpload(p, expected, blob) ==
    \E u \in pending_uploads :
        /\ u.blob = blob /\ u.path = p
        /\ files[p].version = expected
        /\ Fits(p, u.size)
        /\ PublishFile(p, blob, u.size)
        /\ pending_uploads' = {x \in pending_uploads : x.blob # blob}
        /\ UNCHANGED <<writes, phone, pairing>>

TombstoneFile(p, expected) ==
    /\ vault.exists
    /\ vault.latestVersion < MaxVersion
    /\ IsLive(files[p])
    /\ files[p].version = expected
    /\ files' = [files EXCEPT ![p] = Tombstone(vault.latestVersion + 1)]
    /\ vault' = [vault EXCEPT !.latestVersion = @ + 1,
                              !.bytesUsed = @ - files[p].size]
    /\ UNCHANGED <<pending_uploads, writes, phone, pairing>>

-------------------------------------------------------------------------------
(* Writes *)

(* Mutant: a retried post is queued again.                                 *)
EnqueueWriteTwice(c) ==
    /\ vault.exists
    /\ vault.latestSeq < MaxSeq
    /\ writes' = writes \cup
                   {[seq |-> vault.latestSeq + 1, client |-> c, acked |-> FALSE]}
    /\ vault' = [vault EXCEPT !.latestSeq = @ + 1]
    /\ UNCHANGED <<files, pending_uploads, phone, pairing>>

(* enqueueWrite of a client id the table does not hold; one it holds is    *)
(* answered with the row's seq and changes nothing.                        *)
EnqueueWrite(c) ==
    /\ vault.exists
    /\ vault.latestSeq < MaxSeq
    /\ \A w \in writes : w.client # c
    /\ writes' = writes \cup
                   {[seq |-> vault.latestSeq + 1, client |-> c, acked |-> FALSE]}
    /\ vault' = [vault EXCEPT !.latestSeq = @ + 1]
    /\ UNCHANGED <<files, pending_uploads, phone, pairing>>

(* listWrites: the unacked rows above a seq, in seq order.                 *)
ListWrites(after) == {w \in writes : w.seq > after /\ ~w.acked}

AckWrites(through) ==
    /\ vault.exists
    /\ through <= vault.latestSeq
    /\ through > vault.ackedThroughSeq
    /\ writes' = {[w EXCEPT !.acked = w.acked \/ w.seq <= through] : w \in writes}
    /\ vault' = [vault EXCEPT !.ackedThroughSeq = through,
                              !.ackedAtVersion = vault.latestVersion]
    /\ UNCHANGED <<files, pending_uploads, phone, pairing>>

-------------------------------------------------------------------------------
(* Mutant: the tombstones go and the horizon stays.                        *)
SweepSilently(uploads, tombs, ackedRows, expired) ==
    /\ files' = [p \in Paths |-> IF p \in tombs THEN NoRow ELSE files[p]]
    /\ pending_uploads' = pending_uploads \ uploads
    /\ writes' = writes \ ackedRows
    /\ pairing' = (pairing /\ ~expired)
    /\ UNCHANGED <<vault, phone>>

(* The sweeper's transaction, for a vault that has not reached the end of  *)
(* its lapse: uploads an hour old, tombstones thirty days old (the horizon *)
(* moves first), acked writes a week old, expired pairing codes.           *)
(* Which rows have aged is the argument.                                   *)
Sweep(uploads, tombs, ackedRows, expired) ==
    LET horizons == {vault.tombstoneHorizon} \cup {files[p].version : p \in tombs}
    IN  /\ \E h \in horizons :
             /\ \A g \in horizons : g <= h
             /\ vault' = [vault EXCEPT !.tombstoneHorizon = h]
        /\ files' = [p \in Paths |-> IF p \in tombs THEN NoRow ELSE files[p]]
        /\ pending_uploads' = pending_uploads \ uploads
        /\ writes' = writes \ ackedRows
        /\ pairing' = (pairing /\ ~expired)
        /\ UNCHANGED phone

Tombstones == {p \in Paths : files[p].deleted}
AckedRows == {w \in writes : w.acked}
================================================================================
