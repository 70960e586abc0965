------------------------------ MODULE PlusServer ------------------------------
(***************************************************************************)
(* The vault half of the Plus service: the tables of VaultStore and the    *)
(* blob store beside them, with the handlers that touch both               *)
(* (thock/services/plus/vault.go, blobs.go).  The two stores share no      *)
(* transaction, so a handler that uses both takes several steps here:      *)
(*                                                                         *)
(*   upload    BeginUpload (tx) -> PutBlob -> CheckBlob (row read, stat)   *)
(*             -> Publish (tx) -> DeleteBlob of the replaced blob          *)
(*   deletion  FileDelete / VaultDelete / VaultReset / SweepOnce (tx)      *)
(*             -> DeleteBlob, one blob at a time, best effort              *)
(*                                                                         *)
(* Any number of commit requests may be between CheckBlob and Publish: a   *)
(* desk that timed out asks again while its first request still runs.  A   *)
(* request or a cleanup cut short by a crash of the process is one that    *)
(* never takes its next step, or takes it without effect (AbandonBlob).    *)
(***************************************************************************)
EXTENDS VaultStore, FiniteSetsExt

CONSTANT MaxBlobs   \* bound on the uploads begun

ASSUME MaxBlobsAssumption == MaxBlobs \in Nat
ASSUME PathsAssumption == IsFiniteSet(Paths)

VARIABLES
    blobs,     \* blob ids the blob store holds
    signed,    \* blob ids whose signed PUT url is still good
    commits,   \* commit requests that passed the row read and the stat
    cleanups,  \* blob ids a handler or the sweeper is about to delete
    lastBlob   \* the last blob id drawn

vars == <<storeVars, blobs, signed, commits, cleanups, lastBlob>>

CommitRequest == [vault: Nat, path: Paths, blob: Nat, expected: Nat]

TypeOK ==
    /\ StoreTypeOK
    /\ blobs \subseteq Nat
    /\ signed \subseteq Nat
    /\ commits \subseteq CommitRequest
    /\ cleanups \subseteq Nat
    /\ lastBlob \in Nat

Init ==
    /\ StoreInit
    /\ blobs = {}
    /\ signed = {}
    /\ commits = {}
    /\ cleanups = {}
    /\ lastBlob = 0

blobVars == <<blobs, signed, commits, cleanups, lastBlob>>

(* A lapsed desk may only look at its vault or delete it (withVault).      *)
DeskMayWrite == vault.exists /\ ~vault.lapsed

-------------------------------------------------------------------------------
(* The vault routes *)

VaultCreate(k) ==
    /\ CreateVault(k) \/ AdoptKey(k)
    /\ UNCHANGED blobVars

VaultDelete ==
    /\ DropVault
    /\ cleanups' = cleanups \cup AllBlobIds
    /\ UNCHANGED <<blobs, signed, commits, lastBlob>>

VaultReset(k) ==
    /\ DeskMayWrite
    /\ ResetVault(k)
    /\ cleanups' = cleanups \cup AllBlobIds
    /\ UNCHANGED <<blobs, signed, commits, lastBlob>>

AdminLapse(lapse) == SetVaultLapsed(lapse) /\ UNCHANGED blobVars

PairingCreate == DeskMayWrite /\ CreatePairing /\ UNCHANGED blobVars
Pair == RedeemPairing /\ UNCHANGED blobVars
DeviceRevoke == DeskMayWrite /\ DeletePhone /\ UNCHANGED blobVars

-------------------------------------------------------------------------------
(* The file routes *)

(* Mutant: the blob id is used before it is drawn.                         *)
FileBeginEarly(p, expected, size) ==
    /\ DeskMayWrite
    /\ lastBlob < MaxBlobs
    /\ BeginUpload(p, expected, lastBlob, size)
    /\ lastBlob' = lastBlob + 1
    /\ signed' = signed \cup {lastBlob + 1}
    /\ UNCHANGED <<blobs, commits, cleanups>>

(* Begin: the row, then a url good for one PUT of exactly size bytes.      *)
FileBegin(p, expected, size) ==
    /\ DeskMayWrite
    /\ lastBlob < MaxBlobs
    /\ BeginUpload(p, expected, lastBlob + 1, size)
    /\ lastBlob' = lastBlob + 1
    /\ signed' = signed \cup {lastBlob + 1}
    /\ UNCHANGED <<blobs, commits, cleanups>>

(* PUT on the signed url, which asks no table: the rename into place.      *)
PutBlob(b) ==
    /\ b \in signed
    /\ blobs' = blobs \cup {b}
    /\ signed' = signed \ {b}
    /\ UNCHANGED <<storeVars, commits, cleanups, lastBlob>>

(* The url's fifteen minutes pass, or the desk gives up on it.             *)
ExpireUrl(b) ==
    /\ b \in signed
    /\ signed' = signed \ {b}
    /\ UNCHANGED <<storeVars, blobs, commits, cleanups, lastBlob>>

(* handleFileCommit up to the stat.  Without a pending row the handler     *)
(* answers from the file's row and changes nothing.                        *)
CheckBlob(p, expected, b) ==
    /\ DeskMayWrite
    /\ \E u \in pending_uploads : u.blob = b
    /\ b \in blobs
    /\ commits' = commits \cup
         {[vault |-> vault.id, path |-> p, blob |-> b, expected |-> expected]}
    /\ UNCHANGED <<storeVars, blobs, signed, cleanups, lastBlob>>

(* The rest of handleFileCommit: the transaction, on the vault the request *)
(* was let in for, and the replaced blob handed to deleteBlobs.            *)
Publish(c) ==
    /\ c \in commits
    /\ vault.exists /\ vault.id = c.vault
    /\ CommitUpload(c.path, c.expected, c.blob)
    /\ commits' = commits \ {c}
    /\ cleanups' = IF IsLive(files[c.path])
                   THEN cleanups \cup {files[c.path].blob} ELSE cleanups
    /\ UNCHANGED <<blobs, signed, lastBlob>>

(* The transaction refuses (stale version, quota, swept upload, other      *)
(* vault), finds the blob already committed, or the process stops.         *)
EndCommit(c) ==
    /\ c \in commits
    /\ commits' = commits \ {c}
    /\ UNCHANGED <<storeVars, blobs, signed, cleanups, lastBlob>>

FileDelete(p, expected) ==
    /\ DeskMayWrite
    /\ TombstoneFile(p, expected)
    /\ cleanups' = cleanups \cup {files[p].blob}
    /\ UNCHANGED <<blobs, signed, commits, lastBlob>>

(* deleteBlobs and the sweeper's loop: one object, perhaps without success.*)
DeleteBlob(b) ==
    /\ b \in cleanups
    /\ cleanups' = cleanups \ {b}
    /\ blobs' = blobs \ {b}
    /\ UNCHANGED <<storeVars, signed, commits, lastBlob>>

AbandonBlob(b) ==
    /\ b \in cleanups
    /\ cleanups' = cleanups \ {b}
    /\ UNCHANGED <<storeVars, blobs, signed, commits, lastBlob>>

-------------------------------------------------------------------------------
(* The write routes and the sweeper *)

WriteCreate(c) ==
    /\ phone /\ ~vault.lapsed
    /\ EnqueueWrite(c)
    /\ UNCHANGED blobVars

WritesAck(through) == DeskMayWrite /\ AckWrites(through) /\ UNCHANGED blobVars

(* A swept upload is an hour old, so its url expired long before.          *)
SweepOnce ==
    \E us \in SUBSET {u \in pending_uploads : u.blob \notin signed},
       ts \in SUBSET Tombstones, ws \in SUBSET AckedRows, expired \in BOOLEAN :
        /\ vault.exists
        /\ Sweep(us, ts, ws, expired)
        /\ cleanups' = cleanups \cup {u.blob : u \in us}
        /\ UNCHANGED <<blobs, signed, commits, lastBlob>>

SweepLapsedVault ==
    /\ vault.lapsed
    /\ DropVault
    /\ cleanups' = cleanups \cup AllBlobIds
    /\ UNCHANGED <<blobs, signed, commits, lastBlob>>

DeskRequest ==
    \/ \E k \in KeyChecks : VaultCreate(k) \/ VaultReset(k)
    \/ VaultDelete \/ PairingCreate \/ DeviceRevoke
    \/ \E p \in Paths, v \in 0..MaxVersion :
          \/ \E s \in Sizes : FileBegin(p, v, s)
          \/ FileDelete(p, v)
    \* a desk commits what it began, with the version it began from
    \/ \E u \in pending_uploads : CheckBlob(u.path, u.expected, u.blob)
    \/ \E b \in 1..MaxBlobs : PutBlob(b)
    \/ \E n \in 1..MaxSeq : WritesAck(n)

PhoneRequest == Pair \/ \E c \in ClientIds : WriteCreate(c)

Internal ==
    \/ \E c \in commits : Publish(c) \/ EndCommit(c)
    \/ \E b \in 1..MaxBlobs : ExpireUrl(b) \/ DeleteBlob(b) \/ AbandonBlob(b)
    \/ SweepOnce \/ SweepLapsedVault
    \/ \E lapse \in BOOLEAN : AdminLapse(lapse)

Next == DeskRequest \/ PhoneRequest \/ Internal

Spec == Init /\ [][Next]_vars

-------------------------------------------------------------------------------
(* Properties *)

(* Every live row's blob is in the blob store: whatever the sweeper, a     *)
(* reset or a second commit of the same upload did between a commit's stat *)
(* and its transaction, a file the index lists can be downloaded.          *)
LiveBlobStored == \A p \in Paths : IsLive(files[p]) => files[p].blob \in blobs

(* A blob id belongs to at most one live row or pending upload, nothing    *)
(* about to be deleted belongs to either, and a commit whose upload is     *)
(* still pending has its blob in the store.  This is why LiveBlobStored    *)
(* holds: every deletion first takes the id out of the tables, and ids are *)
(* never reused.                                                           *)
BlobOwnership ==
    /\ \A p \in Paths : IsLive(files[p]) =>
          /\ files[p].blob \in 1..lastBlob
          /\ files[p].blob \notin cleanups
          /\ \A q \in Paths : IsLive(files[q]) /\ files[q].blob = files[p].blob => q = p
    /\ \A u \in pending_uploads :
          /\ u.blob \in 1..lastBlob
          /\ u.blob \notin cleanups
          /\ \A x \in pending_uploads : x.blob = u.blob => x = u
          /\ \A p \in Paths : IsLive(files[p]) => files[p].blob # u.blob
          /\ \A c \in commits : c.blob = u.blob => u.blob \in blobs
    /\ cleanups \subseteq 0..lastBlob
    /\ \A c \in commits : c.blob \in 0..lastBlob

(* What the rows of the files table fs add up to.                          *)
Bytes(fs) == MapThenSumSet(LAMBDA p : fs[p].size, Paths)

(* bytes_used is what the live rows add up to, and stays within the hard   *)
(* cap, although begin and commit each decide on their own and uploads of  *)
(* several paths overlap.                                                  *)
BytesAccounted ==
    /\ vault.bytesUsed = Bytes(files)
    /\ vault.bytesUsed <= HardCap

(* A version names one change of one path and no version is ahead of the   *)
(* counter, so the counter is a cursor over the changes; the horizon and   *)
(* the version an ack recorded are positions of that cursor too.  A new    *)
(* vault, whose counter starts again, inherits no row.                     *)
VersionsDistinct ==
    /\ \A p, q \in Paths :
          p # q /\ files[p].version > 0 => files[p].version # files[q].version
    /\ \A p \in Paths : files[p].version <= vault.latestVersion
    /\ \A p \in Paths : ~vault.exists => files[p].version = 0
    /\ vault.tombstoneHorizon <= vault.latestVersion
    /\ vault.ackedAtVersion <= vault.latestVersion

(* A queued write is acked exactly when its seq is within the recorded     *)
(* ack, and seqs and client ids are unique: the desk that asks for what    *)
(* lies above its ack gets every write it has not acked, once.             *)
QueueOrdered ==
    /\ ~vault.exists => writes = {}
    /\ vault.ackedThroughSeq <= vault.latestSeq
    /\ \A w \in writes :
          /\ w.seq <= vault.latestSeq
          /\ w.acked <=> w.seq <= vault.ackedThroughSeq
    /\ \A w, x \in writes : w.seq = x.seq \/ w.client = x.client => w = x

(* While a vault lives, a row only moves up to a version not used before,  *)
(* or disappears below the horizon.                                        *)
RowsKept ==
    vault.exists /\ vault'.exists =>
        \A p \in Paths : files'[p].version # files[p].version =>
            \/ files'[p].version > vault.latestVersion
            \/ files'[p] = NoRow /\ files[p].version <= vault'.tombstoneHorizon

(* A cursor the list route still accepts (at or above the horizon) has not *)
(* been overtaken by a row that is gone: sweep and resetVault move the     *)
(* horizon with the rows they forget.                                      *)
ForgottenBelowHorizon == [][RowsKept]_vars
================================================================================
