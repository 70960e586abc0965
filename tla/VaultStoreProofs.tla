--------------------------- MODULE VaultStoreProofs ---------------------------
(***************************************************************************)
(* The types of the tables of VaultStore, kept by each store method: what  *)
(* the proofs of the modules that extend it have in common.                *)
(***************************************************************************)
EXTENDS VaultStore, TLAPS

(* The rows the store writes are file rows.                                *)
LEMMA RowTypes ==
    ASSUME NEW v \in Nat, NEW b \in Nat, NEW s \in Nat
    PROVE  NoRow \in FileRow /\ LiveRow(v, b, s) \in FileRow /\ Tombstone(v) \in FileRow
BY DEF NoRow, LiveRow, Tombstone, FileRow, NoBlob

(* An inserted vaults row has its type.                                    *)
LEMMA BlankVaultType ==
    ASSUME NEW present \in BOOLEAN, NEW id \in Nat, NEW k \in KeyChecks
    PROVE  BlankVault(present, id, k) \in VaultRow
BY DEF BlankVault, VaultRow

(* The update of a commit or a tombstone keeps the vaults row's type.      *)
LEMMA CountersUpdate ==
    ASSUME NEW v \in VaultRow, NEW m \in Nat, NEW z \in Int
    PROVE  [v EXCEPT !.latestVersion = m, !.bytesUsed = z] \in VaultRow
BY DEF VaultRow

(* The update of resetVault keeps the vaults row's type.                   *)
LEMMA ResetUpdate ==
    ASSUME NEW v \in VaultRow, NEW k \in KeyChecks, NEW m \in Nat, NEW z \in Int
    PROVE  [v EXCEPT !.key = k, !.bytesUsed = z, !.tombstoneHorizon = m] \in VaultRow
BY DEF VaultRow

(* ensureVault creating a vault keeps the tables' types.                   *)
LEMMA CreateType ==
    ASSUME StoreTypeOK, NEW k \in KeyChecks, CreateVault(k) PROVE StoreTypeOK'
<1>1. vault.id + 1 \in Nat
  BY DEF StoreTypeOK, VaultRow
<1>. QED
BY <1>1, BlankVaultType DEF StoreTypeOK, CreateVault

(* ensureVault adopting a key check keeps the tables' types.               *)
LEMMA AdoptType ==
    ASSUME StoreTypeOK, NEW k \in KeyChecks, AdoptKey(k) PROVE StoreTypeOK'
<1>1. vault' \in VaultRow
  BY DEF StoreTypeOK, AdoptKey, VaultRow
<1>. QED
  BY <1>1 DEF StoreTypeOK, AdoptKey

(* A deleted vaults row and its cascade keep the tables' types.            *)
LEMMA DropType ==
    ASSUME StoreTypeOK, DropVault PROVE StoreTypeOK'
<1>1. vault.id \in Nat /\ vault.key \in KeyChecks
  BY DEF StoreTypeOK, VaultRow
<1>2. vault' \in VaultRow
  BY <1>1, BlankVaultType DEF DropVault
<1>3. NoRow \in FileRow
  BY RowTypes
<1>. QED
  BY <1>2, <1>3 DEF StoreTypeOK, DropVault

(* resetVault keeps the tables' types.                                     *)
LEMMA ResetType ==
    ASSUME StoreTypeOK, NEW k \in KeyChecks, ResetVault(k) PROVE StoreTypeOK'
<1>1. vault.latestVersion \in Nat
  BY DEF StoreTypeOK, VaultRow
<1>2. vault' \in VaultRow
  <2>1. PICK zero \in Int : zero = 0
    OBVIOUS
  <2>2. vault' = [vault EXCEPT !.key = k, !.bytesUsed = zero,
                               !.tombstoneHorizon = vault.latestVersion]
    BY <2>1 DEF ResetVault
  <2>. QED
    BY <1>1, <2>2, ResetUpdate DEF StoreTypeOK
<1>3. NoRow \in FileRow
  BY RowTypes
<1>. QED
  BY <1>2, <1>3 DEF StoreTypeOK, ResetVault

(* setVaultLapsed keeps the tables' types.                                 *)
LEMMA LapseType ==
    ASSUME StoreTypeOK, NEW lapse \in BOOLEAN, SetVaultLapsed(lapse) PROVE StoreTypeOK'
<1>1. vault' \in VaultRow
  BY DEF StoreTypeOK, SetVaultLapsed, VaultRow
<1>. QED
  BY <1>1 DEF StoreTypeOK, SetVaultLapsed

(* The pairing and device methods keep the tables' types.                  *)
LEMMA PairingType ==
    ASSUME StoreTypeOK, CreatePairing \/ RedeemPairing \/ DeletePhone PROVE StoreTypeOK'
BY DEF StoreTypeOK, CreatePairing, RedeemPairing, DeletePhone

(* beginUpload keeps the tables' types.                                    *)
LEMMA BeginType ==
    ASSUME StoreTypeOK, NEW p \in Paths, NEW e \in Nat, NEW b \in Nat \ {NoBlob}, NEW s \in Sizes,
           BeginUpload(p, e, b, s)
    PROVE  StoreTypeOK'
BY DEF StoreTypeOK, BeginUpload, Upload

(* The rows commitUpload writes have their types.                          *)
LEMMA PublishType ==
    ASSUME StoreTypeOK, NEW p \in Paths, NEW b \in Nat, NEW s \in Sizes, PublishFile(p, b, s)
    PROVE  vault' \in VaultRow /\ files' \in [Paths -> FileRow]
<1>1. /\ files[p].size \in Nat /\ s \in Nat
      /\ vault.latestVersion + 1 \in Nat /\ vault.bytesUsed \in Int
  BY SizesAssumption DEF StoreTypeOK, VaultRow, FileRow
<1>2. vault' \in VaultRow
  <2>1. vault' = [vault EXCEPT !.latestVersion = vault.latestVersion + 1,
                               !.bytesUsed = vault.bytesUsed - files[p].size + s]
    BY DEF PublishFile
  <2>2. vault.bytesUsed - files[p].size + s \in Int
    BY <1>1
  <2>. QED
    BY <1>1, <2>1, <2>2, CountersUpdate DEF StoreTypeOK
<1>3. files' \in [Paths -> FileRow]
  BY <1>1, RowTypes DEF StoreTypeOK, PublishFile
<1>. QED
  BY <1>2, <1>3

(* What commitUpload writes: the path's new row at the next version, and   *)
(* nothing else but the counters.                                          *)
LEMMA PublishRows ==
    ASSUME StoreTypeOK, NEW p \in Paths, NEW b \in Nat, NEW s \in Nat, PublishFile(p, b, s)
    PROVE  /\ vault' \in VaultRow /\ files' \in [Paths -> FileRow]
           /\ vault.latestVersion \in Nat /\ vault.latestVersion < MaxVersion
           /\ vault' = [vault EXCEPT !.latestVersion = vault.latestVersion + 1,
                                     !.bytesUsed = vault.bytesUsed - files[p].size + s]
           /\ files'[p] = LiveRow(vault.latestVersion + 1, b, s)
           /\ \A q \in Paths \ {p} : files'[q] = files[q]
<1>1. /\ vault \in VaultRow /\ files \in [Paths -> FileRow]
      /\ files[p].size \in Nat /\ vault.latestVersion \in Nat /\ vault.bytesUsed \in Int
  BY DEF StoreTypeOK, VaultRow, FileRow
<1>2. /\ vault' = [vault EXCEPT !.latestVersion = vault.latestVersion + 1,
                                !.bytesUsed = vault.bytesUsed - files[p].size + s]
      /\ files' = [files EXCEPT ![p] = LiveRow(vault.latestVersion + 1, b, s)]
      /\ vault.latestVersion < MaxVersion
  BY DEF PublishFile
<1>3. vault.bytesUsed - files[p].size + s \in Int /\ vault.latestVersion + 1 \in Nat
  BY <1>1
<1>4. vault' \in VaultRow
  BY <1>1, <1>2, <1>3, CountersUpdate
<1>5. LiveRow(vault.latestVersion + 1, b, s) \in FileRow
  BY <1>3, RowTypes
<1>. QED
  BY <1>1, <1>2, <1>4, <1>5

(* commitUpload keeps the tables' types.                                   *)
LEMMA CommitType ==
    ASSUME StoreTypeOK, NEW p \in Paths, NEW e \in Nat, NEW b \in Nat, CommitUpload(p, e, b)
    PROVE  StoreTypeOK'
<1>1. PICK u \in pending_uploads : PublishFile(p, b, u.size)
  BY DEF CommitUpload
<1>2. u.size \in Sizes
  BY DEF StoreTypeOK, Upload
<1>. QED
  BY <1>1, <1>2, PublishType DEF StoreTypeOK, CommitUpload

(* tombstoneFile keeps the tables' types.                                  *)
LEMMA TombstoneType ==
    ASSUME StoreTypeOK, NEW p \in Paths, NEW e \in Nat, TombstoneFile(p, e)
    PROVE  StoreTypeOK'
<1>1. files[p].size \in Nat /\ vault.latestVersion + 1 \in Nat /\ vault.bytesUsed \in Int
  BY DEF StoreTypeOK, VaultRow, FileRow
<1>2. vault' \in VaultRow
  <2>1. vault' = [vault EXCEPT !.latestVersion = vault.latestVersion + 1,
                               !.bytesUsed = vault.bytesUsed - files[p].size]
    BY DEF TombstoneFile
  <2>2. vault.bytesUsed - files[p].size \in Int
    BY <1>1
  <2>. QED
    BY <1>1, <2>1, <2>2, CountersUpdate DEF StoreTypeOK
<1>3. files' \in [Paths -> FileRow]
  BY <1>1, RowTypes DEF StoreTypeOK, TombstoneFile
<1>. QED
  BY <1>2, <1>3 DEF StoreTypeOK, TombstoneFile

(* enqueueWrite keeps the tables' types.                                   *)
LEMMA EnqueueType ==
    ASSUME StoreTypeOK, NEW c \in ClientIds, EnqueueWrite(c) PROVE StoreTypeOK'
<1>1. vault.latestSeq + 1 \in Nat \ {0}
  BY DEF StoreTypeOK, VaultRow
<1>2. vault' \in VaultRow
  BY <1>1 DEF StoreTypeOK, EnqueueWrite, VaultRow
<1>3. [seq |-> vault.latestSeq + 1, client |-> c, acked |-> FALSE] \in QueuedWrite
  BY <1>1 DEF QueuedWrite
<1>. QED
  BY <1>2, <1>3 DEF StoreTypeOK, EnqueueWrite

(* ackWrites keeps the tables' types.                                      *)
LEMMA AckType ==
    ASSUME StoreTypeOK, NEW n \in Nat, AckWrites(n) PROVE StoreTypeOK'
<1>1. vault' \in VaultRow
  BY DEF StoreTypeOK, AckWrites, VaultRow
<1>2. ASSUME NEW w \in writes
      PROVE  [w EXCEPT !.acked = w.acked \/ w.seq <= n] \in QueuedWrite
  <2>1. w \in QueuedWrite
    BY DEF StoreTypeOK
  <2>2. (w.acked \/ w.seq <= n) \in BOOLEAN
    OBVIOUS
  <2>. QED
    BY <2>1, <2>2 DEF QueuedWrite
<1>3. writes' \subseteq QueuedWrite
  BY <1>2 DEF AckWrites
<1>. QED
  BY <1>1, <1>3 DEF StoreTypeOK, AckWrites

(* The sweeper's transaction keeps the tables' types.                      *)
LEMMA SweepType ==
    ASSUME StoreTypeOK, NEW us, NEW ts \in SUBSET Paths, NEW ws, NEW expired \in BOOLEAN,
           Sweep(us, ts, ws, expired)
    PROVE  StoreTypeOK'
<1>1. PICK h \in {vault.tombstoneHorizon} \cup {files[p].version : p \in ts} :
          vault' = [vault EXCEPT !.tombstoneHorizon = h]
  BY DEF Sweep
<1>2. h \in Nat
  BY DEF StoreTypeOK, VaultRow, FileRow
<1>3. vault' \in VaultRow
  BY <1>1, <1>2 DEF StoreTypeOK, VaultRow
<1>4. files' \in [Paths -> FileRow]
  BY RowTypes DEF StoreTypeOK, Sweep
<1>. QED
  BY <1>3, <1>4 DEF StoreTypeOK, Sweep

(* The blobs a vault's rows name are blob ids.                             *)
LEMMA AllBlobIdsType == ASSUME StoreTypeOK PROVE AllBlobIds \subseteq Nat
BY DEF StoreTypeOK, AllBlobIds, FileRow, Upload
===============================================================================
