--------------------------- MODULE PlusServerProofs ---------------------------
(***************************************************************************)
(* Proofs about PlusServer, for every set of paths and every bound.        *)
(***************************************************************************)
EXTENDS PlusServer, VaultStoreProofs, SumProofs

(* The types hold of an account without a vault.                           *)
LEMMA TypeInit == Init => TypeOK
<1> SUFFICES ASSUME Init PROVE TypeOK
  OBVIOUS
<1>1. vault \in VaultRow
  BY BlankVaultType DEF Init, StoreInit
<1>2. files \in [Paths -> FileRow]
  BY RowTypes DEF Init, StoreInit
<1>. QED
  BY <1>1, <1>2 DEF Init, StoreInit, TypeOK, StoreTypeOK

(* Every request and every internal step keeps the types.                  *)
LEMMA TypeStep == TypeOK /\ [Next]_vars => TypeOK'
<1> SUFFICES ASSUME TypeOK, [Next]_vars PROVE TypeOK'
  OBVIOUS
<1>0. StoreTypeOK
  BY DEF TypeOK
<1>1. CASE UNCHANGED vars
  BY <1>1 DEF vars, storeVars, TypeOK, StoreTypeOK
<1>2. ASSUME NEW k \in KeyChecks, VaultCreate(k) PROVE TypeOK'
  BY <1>0, <1>2, CreateType, AdoptType DEF VaultCreate, blobVars, TypeOK
<1>3. ASSUME NEW k \in KeyChecks, VaultReset(k) PROVE TypeOK'
  BY <1>0, <1>3, ResetType, AllBlobIdsType DEF VaultReset, TypeOK
<1>4. CASE VaultDelete \/ SweepLapsedVault
  BY <1>0, <1>4, DropType, AllBlobIdsType DEF VaultDelete, SweepLapsedVault, TypeOK
<1>5. CASE PairingCreate \/ DeviceRevoke \/ Pair
  BY <1>0, <1>5, PairingType DEF PairingCreate, DeviceRevoke, Pair, blobVars, TypeOK
<1>6. ASSUME NEW p \in Paths, NEW v \in 0..MaxVersion, NEW s \in Sizes, FileBegin(p, v, s)
      PROVE  TypeOK'
  <2>1. v \in Nat /\ lastBlob + 1 \in Nat \ {NoBlob}
    BY DEF TypeOK, NoBlob
  <2>2. StoreTypeOK'
    BY <1>0, <1>6, <2>1, BeginType DEF FileBegin
  <2>. QED
    BY <1>6, <2>1, <2>2 DEF FileBegin, TypeOK
<1>7. ASSUME NEW p \in Paths, NEW v \in 0..MaxVersion, FileDelete(p, v) PROVE TypeOK'
  <2>1. StoreTypeOK'
    BY <1>0, <1>7, TombstoneType DEF FileDelete
  <2>2. files[p].blob \in Nat
    BY <1>0 DEF StoreTypeOK, FileRow
  <2>. QED
    BY <1>7, <2>1, <2>2 DEF FileDelete, TypeOK
<1>8. ASSUME NEW u \in pending_uploads, CheckBlob(u.path, u.expected, u.blob) PROVE TypeOK'
  <2>1. [vault |-> vault.id, path |-> u.path, blob |-> u.blob, expected |-> u.expected]
          \in CommitRequest
    BY <1>0 DEF StoreTypeOK, Upload, VaultRow, CommitRequest
  <2>. QED
    BY <1>8, <2>1 DEF CheckBlob, storeVars, TypeOK, StoreTypeOK
<1>9. ASSUME NEW b \in 1..MaxBlobs, PutBlob(b) \/ ExpireUrl(b) \/ DeleteBlob(b) \/ AbandonBlob(b)
      PROVE  TypeOK'
  BY <1>9 DEF PutBlob, ExpireUrl, DeleteBlob, AbandonBlob, storeVars, TypeOK, StoreTypeOK
<1>10. ASSUME NEW n \in 1..MaxSeq, WritesAck(n) PROVE TypeOK'
  BY <1>0, <1>10, AckType DEF WritesAck, blobVars, TypeOK
<1>11. ASSUME NEW c \in ClientIds, WriteCreate(c) PROVE TypeOK'
  BY <1>0, <1>11, EnqueueType DEF WriteCreate, blobVars, TypeOK
<1>12. ASSUME NEW c \in commits, Publish(c) PROVE TypeOK'
  <2>1. c.path \in Paths /\ c.expected \in Nat /\ c.blob \in Nat
    BY DEF TypeOK, CommitRequest
  <2>2. StoreTypeOK'
    BY <1>0, <1>12, <2>1, CommitType DEF Publish
  <2>3. files[c.path].blob \in Nat
    BY <1>0, <2>1 DEF StoreTypeOK, FileRow
  <2>. QED
    BY <1>12, <2>2, <2>3 DEF Publish, TypeOK
<1>13. ASSUME NEW c \in commits, EndCommit(c) PROVE TypeOK'
  BY <1>13 DEF EndCommit, storeVars, TypeOK, StoreTypeOK
<1>14. CASE SweepOnce
  <2>1. PICK us \in SUBSET {u \in pending_uploads : u.blob \notin signed},
             ts \in SUBSET Tombstones, ws \in SUBSET AckedRows, expired \in BOOLEAN :
               /\ Sweep(us, ts, ws, expired)
               /\ cleanups' = cleanups \cup {u.blob : u \in us}
               /\ UNCHANGED <<blobs, signed, commits, lastBlob>>
    BY <1>14 DEF SweepOnce
  <2>2. ts \in SUBSET Paths
    BY DEF Tombstones
  <2>3. StoreTypeOK'
    BY <1>0, <2>1, <2>2, SweepType
  <2>4. {u.blob : u \in us} \subseteq Nat
    BY <1>0 DEF StoreTypeOK, Upload
  <2>. QED
    BY <2>1, <2>3, <2>4 DEF TypeOK
<1>15. ASSUME NEW lapse \in BOOLEAN, AdminLapse(lapse) PROVE TypeOK'
  BY <1>0, <1>15, LapseType DEF AdminLapse, blobVars, TypeOK
<1>. QED
  BY <1>1, <1>2, <1>3, <1>4, <1>5, <1>6, <1>7, <1>8, <1>9, <1>10, <1>11, <1>12, <1>13,
     <1>14, <1>15 DEF Next, DeskRequest, PhoneRequest, Internal

(* Every reachable state of the service is well typed.                     *)
THEOREM TypeCorrect == Spec => []TypeOK
<1>1. Init => TypeOK
  BY TypeInit
<1>2. TypeOK /\ [Next]_vars => TypeOK'
  BY TypeStep
<1>. QED
  BY <1>1, <1>2, PTL DEF Spec

-------------------------------------------------------------------------------
(* LiveBlobStored, along BlobOwnership *)

BlobInv == TypeOK /\ BlobOwnership /\ LiveBlobStored

(* The blob invariant holds of an account without a vault.                 *)
LEMMA BlobInit == Init => BlobInv
<1> SUFFICES ASSUME Init PROVE BlobInv
  OBVIOUS
<1>1. \A p \in Paths : ~IsLive(files[p])
  BY DEF Init, StoreInit, NoRow, IsLive
<1>. QED
  BY <1>1, TypeInit DEF Init, StoreInit, BlobInv, BlobOwnership, LiveBlobStored

(* Steps that leave the rows, the uploads and the blobs alone.             *)
LEMMA BlobFrame ==
    ASSUME BlobInv, UNCHANGED <<files, pending_uploads, blobs, cleanups, lastBlob>>,
           commits' \subseteq commits
    PROVE  BlobOwnership' /\ LiveBlobStored'
BY DEF BlobInv, BlobOwnership, LiveBlobStored

(* Steps that drop every row and upload and hand their blobs to cleanup.   *)
LEMMA BlobWipe ==
    ASSUME BlobInv, files' = [p \in Paths |-> NoRow], pending_uploads' = {},
           cleanups' = cleanups \cup AllBlobIds, UNCHANGED <<blobs, commits, lastBlob>>
    PROVE  BlobOwnership' /\ LiveBlobStored'
<1>1. \A p \in Paths : ~IsLive(files'[p])
  BY DEF NoRow, IsLive
<1>2. AllBlobIds \subseteq 0..lastBlob
  BY DEF BlobInv, BlobOwnership, AllBlobIds, TypeOK
<1>. QED
  BY <1>1, <1>2 DEF BlobInv, BlobOwnership, LiveBlobStored

(* Every step keeps the blob invariant.                                    *)
LEMMA BlobStep == BlobInv /\ [Next]_vars => BlobInv'
<1> SUFFICES ASSUME BlobInv, [Next]_vars PROVE BlobOwnership' /\ LiveBlobStored'
  BY TypeStep DEF BlobInv
<1>0. TypeOK /\ StoreTypeOK
  BY DEF BlobInv, TypeOK
<1>1. CASE UNCHANGED vars
  BY <1>1, BlobFrame DEF vars, storeVars
<1>2. ASSUME NEW k \in KeyChecks, VaultCreate(k) PROVE BlobOwnership' /\ LiveBlobStored'
  BY <1>2, BlobFrame DEF VaultCreate, CreateVault, AdoptKey, blobVars
<1>3. ASSUME NEW k \in KeyChecks, VaultReset(k) PROVE BlobOwnership' /\ LiveBlobStored'
  BY <1>3, BlobWipe DEF VaultReset, ResetVault
<1>4. CASE VaultDelete \/ SweepLapsedVault
  BY <1>4, BlobWipe DEF VaultDelete, SweepLapsedVault, DropVault
<1>5. CASE PairingCreate \/ DeviceRevoke \/ Pair
  BY <1>5, BlobFrame DEF PairingCreate, DeviceRevoke, Pair, CreatePairing, DeletePhone,
     RedeemPairing, blobVars
<1>6. ASSUME NEW p \in Paths, NEW v \in 0..MaxVersion, NEW s \in Sizes, FileBegin(p, v, s)
      PROVE  BlobOwnership' /\ LiveBlobStored'
  <2> DEFINE new == [blob |-> lastBlob + 1, path |-> p, expected |-> v, size |-> s]
  <2>1. /\ pending_uploads' = pending_uploads \cup {new}
        /\ lastBlob' = lastBlob + 1
        /\ UNCHANGED <<files, blobs, commits, cleanups>>
    BY <1>6 DEF FileBegin, BeginUpload
  <2>2. new.blob = lastBlob + 1
    OBVIOUS
  <2> HIDE DEF new
  <2>3. lastBlob \in Nat
    BY <1>0 DEF TypeOK
  <2>. QED
    BY <2>1, <2>2, <2>3 DEF BlobInv, BlobOwnership, LiveBlobStored
<1>7. ASSUME NEW p \in Paths, NEW v \in 0..MaxVersion, FileDelete(p, v)
      PROVE  BlobOwnership' /\ LiveBlobStored'
  <2>1. /\ IsLive(files[p])
        /\ cleanups' = cleanups \cup {files[p].blob}
        /\ UNCHANGED <<pending_uploads, blobs, commits, lastBlob>>
    BY <1>7 DEF FileDelete, TombstoneFile
  <2>2. \A q \in Paths : IsLive(files'[q]) => q # p /\ files'[q] = files[q]
    BY <1>0, <1>7 DEF FileDelete, TombstoneFile, StoreTypeOK, Tombstone, IsLive
  <2>3. files[p].blob \in 0..lastBlob
    BY <1>0, <2>1 DEF BlobInv, BlobOwnership, TypeOK
  <2>. QED
    BY <2>1, <2>2, <2>3 DEF BlobInv, BlobOwnership, LiveBlobStored
<1>8. ASSUME NEW u \in pending_uploads, CheckBlob(u.path, u.expected, u.blob)
      PROVE  BlobOwnership' /\ LiveBlobStored'
  <2> DEFINE new == [vault |-> vault.id, path |-> u.path, blob |-> u.blob, expected |-> u.expected]
  <2>1. /\ commits' = commits \cup {new}
        /\ u.blob \in blobs
        /\ UNCHANGED <<files, pending_uploads, blobs, cleanups, lastBlob>>
    BY <1>8 DEF CheckBlob, storeVars
  <2>2. new.blob = u.blob
    OBVIOUS
  <2> HIDE DEF new
  <2>3. u.blob \in 0..lastBlob
    BY <1>0 DEF BlobInv, BlobOwnership, TypeOK
  <2>. QED
    BY <2>1, <2>2, <2>3 DEF BlobInv, BlobOwnership, LiveBlobStored
<1>9. ASSUME NEW b \in 1..MaxBlobs, PutBlob(b) \/ ExpireUrl(b) \/ DeleteBlob(b) \/ AbandonBlob(b)
      PROVE  BlobOwnership' /\ LiveBlobStored'
  BY <1>9 DEF PutBlob, ExpireUrl, DeleteBlob, AbandonBlob, storeVars,
     BlobInv, BlobOwnership, LiveBlobStored
<1>10. ASSUME NEW n \in 1..MaxSeq, WritesAck(n) PROVE BlobOwnership' /\ LiveBlobStored'
  BY <1>10, BlobFrame DEF WritesAck, AckWrites, blobVars
<1>11. ASSUME NEW c \in ClientIds, WriteCreate(c) PROVE BlobOwnership' /\ LiveBlobStored'
  BY <1>11, BlobFrame DEF WriteCreate, EnqueueWrite, blobVars
<1>12. ASSUME NEW c \in commits, Publish(c) PROVE BlobOwnership' /\ LiveBlobStored'
  <2> DEFINE p == c.path
             old == files[c.path]
  <2>0. PICK u \in pending_uploads :
          /\ u.blob = c.blob
          /\ PublishFile(c.path, c.blob, u.size)
          /\ pending_uploads' = {x \in pending_uploads : x.blob # c.blob}
    BY <1>12 DEF Publish, CommitUpload
  <2>1. /\ u.blob = c.blob
        /\ files' = [files EXCEPT ![p] = LiveRow(vault.latestVersion + 1, u.blob, u.size)]
        /\ pending_uploads' = {x \in pending_uploads : x.blob # u.blob}
    BY <2>0 DEF PublishFile
  <2>2. /\ cleanups' = IF IsLive(old) THEN cleanups \cup {old.blob} ELSE cleanups
        /\ commits' = commits \ {c}
        /\ UNCHANGED <<blobs, lastBlob>>
    BY <1>12 DEF Publish
  <2>3. p \in Paths
    BY <1>0 DEF TypeOK, CommitRequest
  <2>4. files'[p].blob = u.blob /\ \A q \in Paths : q # p => files'[q] = files[q]
    BY <1>0, <2>1, <2>3 DEF StoreTypeOK, LiveRow
  <2>5. u.blob \in blobs /\ u.blob \notin cleanups /\ u.blob \in 1..lastBlob
    BY <2>1 DEF BlobInv, BlobOwnership
  <2>6. IsLive(old) => /\ old.blob # u.blob
                       /\ old.blob \in 0..lastBlob
                       /\ \A q \in Paths : q # p /\ IsLive(files[q]) => files[q].blob # old.blob
                       /\ \A x \in pending_uploads : x.blob # old.blob
    BY <1>0, <2>3 DEF BlobInv, BlobOwnership, TypeOK
  <2>7. u.blob \notin cleanups'
    BY <2>2, <2>5, <2>6
  <2>8. \A q \in Paths : q # p /\ IsLive(files'[q]) =>
          /\ files'[q].blob \in 1..lastBlob'
          /\ files'[q].blob \notin cleanups'
          /\ files'[q].blob \in blobs'
          /\ files'[q].blob # u.blob
          /\ \A r \in Paths : r # p /\ IsLive(files'[r]) /\ files'[r].blob = files'[q].blob => r = q
    BY <2>2, <2>4, <2>6 DEF BlobInv, BlobOwnership, LiveBlobStored
  <2>9. \A x \in pending_uploads' :
          /\ x.blob \in 1..lastBlob'
          /\ x.blob \notin cleanups'
          /\ \A y \in pending_uploads' : y.blob = x.blob => y = x
          /\ x.blob # u.blob
          /\ \A q \in Paths : IsLive(files'[q]) => files'[q].blob # x.blob
          /\ \A d \in commits' : d.blob = x.blob => x.blob \in blobs'
    BY <2>1, <2>2, <2>4, <2>6 DEF BlobInv, BlobOwnership
  <2>10. cleanups' \subseteq 0..lastBlob' /\ \A d \in commits' : d.blob \in 0..lastBlob'
    BY <2>2, <2>6 DEF BlobInv, BlobOwnership
  <2> HIDE DEF p, old
  <2>11. LiveBlobStored'
    BY <2>2, <2>4, <2>5, <2>8 DEF LiveBlobStored
  <2>. QED
    BY <2>2, <2>4, <2>5, <2>7, <2>8, <2>9, <2>10, <2>11 DEF BlobOwnership
<1>13. ASSUME NEW c \in commits, EndCommit(c) PROVE BlobOwnership' /\ LiveBlobStored'
  BY <1>13, BlobFrame DEF EndCommit, storeVars
<1>14. CASE SweepOnce
  <2>1. PICK us \in SUBSET {u \in pending_uploads : u.blob \notin signed},
             ts \in SUBSET Tombstones, ws \in SUBSET AckedRows, expired \in BOOLEAN :
               /\ Sweep(us, ts, ws, expired)
               /\ cleanups' = cleanups \cup {u.blob : u \in us}
               /\ UNCHANGED <<blobs, signed, commits, lastBlob>>
    BY <1>14 DEF SweepOnce
  <2>2. \A p \in Paths : IsLive(files'[p]) => files'[p] = files[p]
    BY <2>1 DEF Sweep, IsLive, NoRow
  <2>3. pending_uploads' = pending_uploads \ us /\ us \subseteq pending_uploads
    BY <2>1 DEF Sweep
  <2>4. {u.blob : u \in us} \subseteq 0..lastBlob
    BY <1>0, <2>3 DEF BlobInv, BlobOwnership, TypeOK
  <2>5. \A p \in Paths : IsLive(files[p]) => files[p].blob \notin {u.blob : u \in us}
    BY <2>3 DEF BlobInv, BlobOwnership
  <2>6. \A x \in pending_uploads' : x.blob \notin {u.blob : u \in us}
    BY <2>3 DEF BlobInv, BlobOwnership
  <2> DEFINE swept == {u.blob : u \in us}
  <2> HIDE DEF swept
  <2>7. /\ cleanups' = cleanups \cup swept
        /\ swept \subseteq 0..lastBlob
        /\ \A p \in Paths : IsLive(files[p]) => files[p].blob \notin swept
        /\ \A x \in pending_uploads' : x.blob \notin swept
    BY <2>1, <2>4, <2>5, <2>6 DEF swept
  <2>. QED
    BY <2>1, <2>2, <2>3, <2>7 DEF BlobInv, BlobOwnership, LiveBlobStored
<1>15. ASSUME NEW lapse \in BOOLEAN, AdminLapse(lapse) PROVE BlobOwnership' /\ LiveBlobStored'
  BY <1>15, BlobFrame DEF AdminLapse, SetVaultLapsed, blobVars
<1>. QED
  BY <1>1, <1>2, <1>3, <1>4, <1>5, <1>6, <1>7, <1>8, <1>9, <1>10, <1>11, <1>12, <1>13,
     <1>14, <1>15 DEF Next, DeskRequest, PhoneRequest, Internal

(* Whatever overlaps with an upload's commit (the sweeper, a reset, a      *)
(* deletion, a second commit), a file the index lists has its blob.        *)
THEOREM LiveBlobsAreStored == Spec => [](BlobOwnership /\ LiveBlobStored)
<1>1. Init => BlobInv
  BY BlobInit
<1>2. BlobInv /\ [Next]_vars => BlobInv'
  BY BlobStep
<1>3. BlobInv => BlobOwnership /\ LiveBlobStored
  BY DEF BlobInv
<1>. QED
  BY <1>1, <1>2, <1>3, PTL DEF Spec

-------------------------------------------------------------------------------
(* The version counter as a cursor *)

VersionInv == TypeOK /\ VersionsDistinct

(* The version invariant holds of an account without a vault.              *)
LEMMA VersionInit == Init => VersionInv
<1> SUFFICES ASSUME Init PROVE VersionsDistinct
  BY TypeInit DEF VersionInv
<1>1. PICK k \in KeyChecks : vault = BlankVault(FALSE, 0, k)
  BY DEF Init, StoreInit
<1>2. \A p \in Paths : files[p].version = 0
  BY DEF Init, StoreInit, NoRow
<1>. QED
  BY <1>1, <1>2 DEF BlankVault, VersionsDistinct

(* A step that leaves rows and version counters alone keeps it.            *)
LEMMA VersionFrame ==
    ASSUME VersionInv, UNCHANGED files, vault'.latestVersion = vault.latestVersion,
           vault'.tombstoneHorizon = vault.tombstoneHorizon, vault'.exists = vault.exists,
           vault'.ackedAtVersion \in {vault.ackedAtVersion, vault.latestVersion}
    PROVE  VersionsDistinct'
<1>1. vault.latestVersion \in Nat
  BY DEF VersionInv, TypeOK, StoreTypeOK, VaultRow
<1>. QED
  BY <1>1 DEF VersionInv, VersionsDistinct

(* A row rewritten at the next version.                                    *)
LEMMA VersionBump ==
    ASSUME VersionInv, NEW p \in Paths, files'[p].version = vault.latestVersion + 1,
           \A q \in Paths : q # p => files'[q] = files[q],
           vault'.latestVersion = vault.latestVersion + 1,
           vault'.tombstoneHorizon = vault.tombstoneHorizon,
           vault'.ackedAtVersion = vault.ackedAtVersion, vault'.exists
    PROVE  VersionsDistinct'
<1>1. /\ vault.latestVersion \in Nat
      /\ vault.tombstoneHorizon \in Nat
      /\ vault.ackedAtVersion \in Nat
      /\ \A q \in Paths : files[q].version \in Nat
  BY DEF VersionInv, TypeOK, StoreTypeOK, VaultRow, FileRow
<1>. QED
  BY <1>1 DEF VersionInv, VersionsDistinct

(* The rows commitUpload writes take the next version.                     *)
LEMMA PublishVersions ==
    ASSUME TypeOK, NEW p \in Paths, NEW b, NEW s, PublishFile(p, b, s)
    PROVE  /\ files'[p].version = vault.latestVersion + 1
           /\ \A q \in Paths : q # p => files'[q] = files[q]
           /\ vault'.latestVersion = vault.latestVersion + 1
           /\ vault'.tombstoneHorizon = vault.tombstoneHorizon
           /\ vault'.ackedAtVersion = vault.ackedAtVersion
           /\ vault'.exists = vault.exists
BY DEF TypeOK, StoreTypeOK, VaultRow, PublishFile, LiveRow

(* tombstoneFile takes the next version.                                   *)
LEMMA TombstoneVersions ==
    ASSUME TypeOK, NEW p \in Paths, NEW e, TombstoneFile(p, e)
    PROVE  /\ files'[p].version = vault.latestVersion + 1
           /\ \A q \in Paths : q # p => files'[q] = files[q]
           /\ vault'.latestVersion = vault.latestVersion + 1
           /\ vault'.tombstoneHorizon = vault.tombstoneHorizon
           /\ vault'.ackedAtVersion = vault.ackedAtVersion
           /\ vault'.exists = vault.exists
BY DEF TypeOK, StoreTypeOK, VaultRow, TombstoneFile, Tombstone

(* What the sweeper does to the rows and the horizon.                      *)
LEMMA SweepVersions ==
    ASSUME TypeOK, NEW us, NEW ts \in SUBSET Paths, NEW ws, NEW x, Sweep(us, ts, ws, x)
    PROVE  /\ vault'.latestVersion = vault.latestVersion
           /\ vault'.ackedAtVersion = vault.ackedAtVersion
           /\ vault'.exists = vault.exists
           /\ vault'.tombstoneHorizon \in
                {vault.tombstoneHorizon} \cup {files[p].version : p \in ts}
           /\ \A p \in ts : files[p].version <= vault'.tombstoneHorizon
           /\ \A p \in Paths : files'[p] = IF p \in ts THEN NoRow ELSE files[p]
<1>1. PICK h \in {vault.tombstoneHorizon} \cup {files[p].version : p \in ts} :
          /\ \A g \in {vault.tombstoneHorizon} \cup {files[p].version : p \in ts} : g <= h
          /\ vault' = [vault EXCEPT !.tombstoneHorizon = h]
  BY DEF Sweep
<1>2. /\ vault'.tombstoneHorizon = h
      /\ vault'.latestVersion = vault.latestVersion
      /\ vault'.ackedAtVersion = vault.ackedAtVersion
      /\ vault'.exists = vault.exists
  BY <1>1 DEF TypeOK, StoreTypeOK, VaultRow
<1>3. \A p \in ts : files[p].version <= h
  BY <1>1
<1>. QED
  BY <1>1, <1>2, <1>3 DEF Sweep

(* A vault without rows whose counters are in order.                       *)
LEMMA VersionWipe ==
    ASSUME \A p \in Paths : files'[p].version = 0, vault' \in VaultRow,
           vault'.tombstoneHorizon <= vault'.latestVersion,
           vault'.ackedAtVersion <= vault'.latestVersion
    PROVE  VersionsDistinct'
BY DEF VersionsDistinct, VaultRow

(* A deleted vault leaves no row and its counters at zero.                 *)
LEMMA DropVersions ==
    ASSUME VersionInv, DropVault
    PROVE  VersionsDistinct'
<1>1. \A p \in Paths : files'[p].version = 0
  BY DEF DropVault, NoRow
<1>2. vault' \in VaultRow
  BY DropType DEF VersionInv, TypeOK, StoreTypeOK
<1>3. vault'.tombstoneHorizon = 0 /\ vault'.ackedAtVersion = 0 /\ vault'.latestVersion = 0
  BY DEF DropVault, BlankVault
<1>. QED
  BY <1>1, <1>2, <1>3, VersionWipe

(* Every step keeps the version invariant.                                 *)
LEMMA VersionStep == VersionInv /\ [Next]_vars => VersionInv'
<1> SUFFICES ASSUME VersionInv, [Next]_vars PROVE VersionsDistinct'
  BY TypeStep DEF VersionInv
<1>0. TypeOK /\ StoreTypeOK /\ vault \in VaultRow /\ VersionsDistinct
  BY DEF VersionInv, TypeOK, StoreTypeOK
<1>1. CASE UNCHANGED vars
  BY <1>1, VersionFrame DEF vars, storeVars
<1>2. ASSUME NEW k \in KeyChecks, VaultCreate(k) PROVE VersionsDistinct'
  <2>1. CASE CreateVault(k)
    <3>1. \A p \in Paths : files'[p].version = 0
      BY <1>0, <2>1 DEF CreateVault, VersionsDistinct
    <3>2. vault' \in VaultRow
      BY <1>0, <2>1, CreateType DEF StoreTypeOK
    <3>3. vault'.tombstoneHorizon = 0 /\ vault'.ackedAtVersion = 0 /\ vault'.latestVersion = 0
      BY <2>1 DEF CreateVault, BlankVault
    <3>. QED
      BY <3>1, <3>2, <3>3, VersionWipe
  <2>2. CASE AdoptKey(k)
    BY <1>0, <2>2, VersionFrame DEF AdoptKey, VaultRow
  <2>. QED
    BY <1>2, <2>1, <2>2 DEF VaultCreate
<1>3. ASSUME NEW k \in KeyChecks, VaultReset(k) PROVE VersionsDistinct'
  <2>1. ResetVault(k)
    BY <1>3 DEF VaultReset
  <2>2. \A p \in Paths : files'[p].version = 0
    BY <2>1 DEF ResetVault, NoRow
  <2>3. vault' \in VaultRow
    BY <1>0, <2>1, ResetType DEF StoreTypeOK
  <2>4. /\ vault'.tombstoneHorizon = vault'.latestVersion
        /\ vault'.ackedAtVersion = vault.ackedAtVersion
        /\ vault'.latestVersion = vault.latestVersion
    BY <1>0, <2>1 DEF ResetVault, VaultRow
  <2>5. vault'.ackedAtVersion <= vault'.latestVersion
    BY <1>0, <2>4 DEF VersionsDistinct
  <2>6. vault'.tombstoneHorizon <= vault'.latestVersion
    BY <2>3, <2>4 DEF VaultRow
  <2>. QED
    BY <2>2, <2>3, <2>5, <2>6, VersionWipe
<1>4. CASE VaultDelete \/ SweepLapsedVault
  BY <1>4, DropVersions DEF VaultDelete, SweepLapsedVault
<1>5. CASE PairingCreate \/ DeviceRevoke \/ Pair
  BY <1>5, VersionFrame DEF PairingCreate, DeviceRevoke, Pair, CreatePairing, DeletePhone,
     RedeemPairing
<1>6. ASSUME NEW p \in Paths, NEW v \in 0..MaxVersion, NEW s \in Sizes, FileBegin(p, v, s)
      PROVE  VersionsDistinct'
  BY <1>6, VersionFrame DEF FileBegin, BeginUpload
<1>7. ASSUME NEW p \in Paths, NEW v \in 0..MaxVersion, FileDelete(p, v)
      PROVE  VersionsDistinct'
  <2>1. TombstoneFile(p, v) /\ vault.exists
    BY <1>7 DEF FileDelete, TombstoneFile
  <2>. QED
    BY <1>0, <2>1, TombstoneVersions, VersionBump
<1>8. ASSUME NEW u \in pending_uploads, CheckBlob(u.path, u.expected, u.blob)
      PROVE  VersionsDistinct'
  BY <1>8, VersionFrame DEF CheckBlob, storeVars
<1>9. ASSUME NEW b \in 1..MaxBlobs, PutBlob(b) \/ ExpireUrl(b) \/ DeleteBlob(b) \/ AbandonBlob(b)
      PROVE  VersionsDistinct'
  BY <1>9, VersionFrame DEF PutBlob, ExpireUrl, DeleteBlob, AbandonBlob, storeVars
<1>10. ASSUME NEW n \in 1..MaxSeq, WritesAck(n) PROVE VersionsDistinct'
  <2>1. /\ UNCHANGED files
        /\ vault' = [vault EXCEPT !.ackedThroughSeq = n, !.ackedAtVersion = vault.latestVersion]
    BY <1>10 DEF WritesAck, AckWrites
  <2>2. /\ vault'.latestVersion = vault.latestVersion
        /\ vault'.tombstoneHorizon = vault.tombstoneHorizon
        /\ vault'.exists = vault.exists
        /\ vault'.ackedAtVersion = vault.latestVersion
    BY <1>0, <2>1 DEF VaultRow
  <2>. QED
    BY <2>1, <2>2, VersionFrame
<1>11. ASSUME NEW c \in ClientIds, WriteCreate(c) PROVE VersionsDistinct'
  BY <1>0, <1>11, VersionFrame DEF WriteCreate, EnqueueWrite, VaultRow
<1>12. ASSUME NEW c \in commits, Publish(c) PROVE VersionsDistinct'
  <2>1. c.path \in Paths
    BY <1>0 DEF TypeOK, CommitRequest
  <2>2. PICK u \in pending_uploads : PublishFile(c.path, c.blob, u.size)
    BY <1>12 DEF Publish, CommitUpload
  <2>3. vault.exists
    BY <1>12 DEF Publish
  <2>. QED
    BY <1>0, <2>1, <2>2, <2>3, PublishVersions, VersionBump
<1>13. ASSUME NEW c \in commits, EndCommit(c) PROVE VersionsDistinct'
  BY <1>13, VersionFrame DEF EndCommit, storeVars
<1>14. CASE SweepOnce
  <2>1. PICK us \in SUBSET {u \in pending_uploads : u.blob \notin signed},
             ts \in SUBSET Tombstones, ws \in SUBSET AckedRows, expired \in BOOLEAN :
               Sweep(us, ts, ws, expired)
    BY <1>14 DEF SweepOnce
  <2>2. ts \in SUBSET Paths
    BY DEF Tombstones
  <2>3. /\ vault'.latestVersion = vault.latestVersion
        /\ vault'.ackedAtVersion = vault.ackedAtVersion
        /\ vault'.exists = vault.exists
        /\ vault'.tombstoneHorizon \in {vault.tombstoneHorizon} \cup {files[p].version : p \in ts}
        /\ \A p \in Paths : files'[p] = IF p \in ts THEN NoRow ELSE files[p]
    BY <1>0, <2>1, <2>2, SweepVersions
  <2>4. vault'.tombstoneHorizon <= vault'.latestVersion
    BY <1>0, <2>2, <2>3 DEF VersionsDistinct
  <2>5. \A p \in Paths : files'[p].version \in {0, files[p].version}
    BY <2>3 DEF NoRow
  <2>6. \A p \in Paths : files'[p].version > 0 => files'[p].version = files[p].version
    BY <2>5
  <2>7. vault.latestVersion \in Nat
    BY <1>0 DEF VaultRow
  <2>. QED
    BY <1>0, <2>3, <2>4, <2>5, <2>6, <2>7 DEF VersionsDistinct
<1>15. ASSUME NEW lapse \in BOOLEAN, AdminLapse(lapse) PROVE VersionsDistinct'
  BY <1>0, <1>15, VersionFrame DEF AdminLapse, SetVaultLapsed, VaultRow
<1>. QED
  BY <1>1, <1>2, <1>3, <1>4, <1>5, <1>6, <1>7, <1>8, <1>9, <1>10, <1>11, <1>12, <1>13,
     <1>14, <1>15 DEF Next, DeskRequest, PhoneRequest, Internal

(* The version counter orders the changes of the vault: no two paths share *)
(* a version, none is ahead of the counter.                                *)
THEOREM VersionsAreDistinct == Spec => []VersionsDistinct
<1>1. Init => VersionInv
  BY VersionInit
<1>2. VersionInv /\ [Next]_vars => VersionInv'
  BY VersionStep
<1>3. VersionInv => VersionsDistinct
  BY DEF VersionInv
<1>. QED
  BY <1>1, <1>2, <1>3, PTL DEF Spec

-------------------------------------------------------------------------------
(* Nothing is forgotten above the horizon *)

(* A step that leaves the files table alone forgets nothing.               *)
LEMMA RowsKeptFrame ==
    ASSUME UNCHANGED files PROVE RowsKept
BY DEF RowsKept

(* A step that gives one row the next version forgets nothing.             *)
LEMMA RowsKeptBump ==
    ASSUME VersionInv, NEW p \in Paths, files'[p].version = vault.latestVersion + 1,
           \A q \in Paths : q # p => files'[q] = files[q]
    PROVE  RowsKept
<1>1. vault.latestVersion \in Nat
  BY DEF VersionInv, TypeOK, StoreTypeOK, VaultRow
<1>. QED
  BY <1>1 DEF RowsKept

(* Every step keeps each row, moves it up or forgets it below the horizon. *)
LEMMA RowsKeptStep == VersionInv /\ [Next]_vars => [RowsKept]_vars
<1> SUFFICES ASSUME VersionInv, Next PROVE RowsKept
  OBVIOUS
<1>0. TypeOK /\ StoreTypeOK /\ vault \in VaultRow /\ VersionsDistinct
  BY DEF VersionInv, TypeOK, StoreTypeOK
<1>1. ASSUME NEW k \in KeyChecks, VaultCreate(k) PROVE RowsKept
  BY <1>1, RowsKeptFrame DEF VaultCreate, CreateVault, AdoptKey
<1>2. ASSUME NEW k \in KeyChecks, VaultReset(k) PROVE RowsKept
  <2>1. ResetVault(k)
    BY <1>2 DEF VaultReset
  <2>2. vault'.tombstoneHorizon = vault.latestVersion
    BY <1>0, <2>1 DEF ResetVault, VaultRow
  <2>3. \A p \in Paths : files'[p] = NoRow
    BY <2>1 DEF ResetVault
  <2>4. \A p \in Paths : files[p].version <= vault'.tombstoneHorizon
    BY <1>0, <2>2 DEF VersionsDistinct
  <2>. QED
    BY <2>3, <2>4 DEF RowsKept
<1>3. CASE VaultDelete \/ SweepLapsedVault
  BY <1>3 DEF VaultDelete, SweepLapsedVault, DropVault, BlankVault, RowsKept
<1>4. CASE PairingCreate \/ DeviceRevoke \/ Pair
  BY <1>4, RowsKeptFrame DEF PairingCreate, DeviceRevoke, Pair, CreatePairing, DeletePhone,
     RedeemPairing
<1>5. ASSUME NEW p \in Paths, NEW v \in 0..MaxVersion, NEW s \in Sizes, FileBegin(p, v, s)
      PROVE  RowsKept
  BY <1>5, RowsKeptFrame DEF FileBegin, BeginUpload
<1>6. ASSUME NEW p \in Paths, NEW v \in 0..MaxVersion, FileDelete(p, v) PROVE RowsKept
  <2>1. TombstoneFile(p, v)
    BY <1>6 DEF FileDelete
  <2>. QED
    BY <1>0, <2>1, TombstoneVersions, RowsKeptBump
<1>7. ASSUME NEW u \in pending_uploads, CheckBlob(u.path, u.expected, u.blob) PROVE RowsKept
  BY <1>7, RowsKeptFrame DEF CheckBlob, storeVars
<1>8. ASSUME NEW b \in 1..MaxBlobs, PutBlob(b) \/ ExpireUrl(b) \/ DeleteBlob(b) \/ AbandonBlob(b)
      PROVE  RowsKept
  BY <1>8, RowsKeptFrame DEF PutBlob, ExpireUrl, DeleteBlob, AbandonBlob, storeVars
<1>9. ASSUME NEW n \in 1..MaxSeq, WritesAck(n) PROVE RowsKept
  BY <1>9, RowsKeptFrame DEF WritesAck, AckWrites
<1>10. ASSUME NEW c \in ClientIds, WriteCreate(c) PROVE RowsKept
  BY <1>10, RowsKeptFrame DEF WriteCreate, EnqueueWrite
<1>11. ASSUME NEW c \in commits, Publish(c) PROVE RowsKept
  <2>1. c.path \in Paths
    BY <1>0 DEF TypeOK, CommitRequest
  <2>2. PICK u \in pending_uploads : PublishFile(c.path, c.blob, u.size)
    BY <1>11 DEF Publish, CommitUpload
  <2>. QED
    BY <1>0, <2>1, <2>2, PublishVersions, RowsKeptBump
<1>12. ASSUME NEW c \in commits, EndCommit(c) PROVE RowsKept
  BY <1>12, RowsKeptFrame DEF EndCommit, storeVars
<1>13. CASE SweepOnce
  <2>1. PICK us \in SUBSET {u \in pending_uploads : u.blob \notin signed},
             ts \in SUBSET Tombstones, ws \in SUBSET AckedRows, expired \in BOOLEAN :
               Sweep(us, ts, ws, expired)
    BY <1>13 DEF SweepOnce
  <2>2. ts \in SUBSET Paths
    BY DEF Tombstones
  <2>3. /\ \A p \in ts : files[p].version <= vault'.tombstoneHorizon
        /\ \A p \in Paths : files'[p] = IF p \in ts THEN NoRow ELSE files[p]
    BY <1>0, <2>1, <2>2, SweepVersions
  <2>. QED
    BY <2>3 DEF RowsKept
<1>14. ASSUME NEW lapse \in BOOLEAN, AdminLapse(lapse) PROVE RowsKept
  BY <1>14, RowsKeptFrame DEF AdminLapse, SetVaultLapsed
<1>. QED
  BY <1>1, <1>2, <1>3, <1>4, <1>5, <1>6, <1>7, <1>8, <1>9, <1>10, <1>11, <1>12, <1>13,
     <1>14 DEF Next, DeskRequest, PhoneRequest, Internal

(* Sweeps and resets included, a row of a living vault disappears only     *)
(* below the horizon, so a cursor the list route accepts misses no change. *)
THEOREM NothingForgottenAboveHorizon == Spec => ForgottenBelowHorizon
<1>1. Init => VersionInv
  BY VersionInit
<1>2. VersionInv /\ [Next]_vars => VersionInv'
  BY VersionStep
<1>3. VersionInv /\ [Next]_vars => [RowsKept]_vars
  BY RowsKeptStep
<1>. QED
  BY <1>1, <1>2, <1>3, PTL DEF Spec, ForgottenBelowHorizon

-------------------------------------------------------------------------------
(* The phone's queue *)

QueueInv == TypeOK /\ QueueOrdered

(* The queue invariant holds of an account without a vault.                *)
LEMMA QueueInit == Init => QueueInv
<1> SUFFICES ASSUME Init PROVE QueueOrdered
  BY TypeInit DEF QueueInv
<1>1. PICK k \in KeyChecks : vault = BlankVault(FALSE, 0, k)
  BY DEF Init, StoreInit
<1>2. vault.ackedThroughSeq = 0 /\ vault.latestSeq = 0
  BY <1>1 DEF BlankVault
<1>3. writes = {}
  BY DEF Init, StoreInit
<1>. QED
  BY <1>2, <1>3 DEF QueueOrdered

(* A step that leaves the queue and its counters alone keeps it.           *)
LEMMA QueueFrame ==
    ASSUME QueueInv, UNCHANGED writes, vault'.latestSeq = vault.latestSeq,
           vault'.ackedThroughSeq = vault.ackedThroughSeq, vault'.exists = vault.exists
    PROVE  QueueOrdered'
BY DEF QueueInv, QueueOrdered

(* An empty queue satisfies it.                                            *)
LEMMA QueueWipe ==
    ASSUME writes' = {}, vault'.ackedThroughSeq <= vault'.latestSeq
    PROVE  QueueOrdered'
BY DEF QueueOrdered

(* enqueueWrite keeps the queue in order.                                  *)
LEMMA EnqueueOrdered ==
    ASSUME QueueInv, NEW c \in ClientIds, EnqueueWrite(c)
    PROVE  QueueOrdered'
<1> DEFINE new == [seq |-> vault.latestSeq + 1, client |-> c, acked |-> FALSE]
<1>1. /\ vault' = [vault EXCEPT !.latestSeq = vault.latestSeq + 1]
      /\ writes' = writes \cup {new}
      /\ \A w \in writes : w.client # c
  BY DEF EnqueueWrite
<1>2. /\ vault'.latestSeq = vault.latestSeq + 1
      /\ vault'.exists = vault.exists /\ vault.exists
      /\ vault'.ackedThroughSeq = vault.ackedThroughSeq
      /\ vault.latestSeq \in Nat /\ vault.ackedThroughSeq \in Nat
  BY <1>1 DEF EnqueueWrite, QueueInv, TypeOK, StoreTypeOK, VaultRow
<1>3. new.seq = vault.latestSeq + 1 /\ new.client = c /\ new.acked = FALSE
  OBVIOUS
<1> HIDE DEF new
<1>4. \A w \in writes : w.seq \in Nat
  BY DEF QueueInv, TypeOK, StoreTypeOK, QueuedWrite
<1>. QED
  BY <1>1, <1>2, <1>3, <1>4 DEF QueueInv, QueueOrdered

(* ackWrites keeps the queue in order.                                     *)
LEMMA AckOrdered ==
    ASSUME QueueInv, NEW n \in Nat, AckWrites(n)
    PROVE  QueueOrdered'
<1> DEFINE ack(w) == [w EXCEPT !.acked = w.acked \/ w.seq <= n]
<1>1. /\ vault' = [vault EXCEPT !.ackedThroughSeq = n, !.ackedAtVersion = vault.latestVersion]
      /\ writes' = {ack(w) : w \in writes}
      /\ n <= vault.latestSeq /\ n > vault.ackedThroughSeq
  BY DEF AckWrites
<1>2. /\ vault'.latestSeq = vault.latestSeq
      /\ vault'.ackedThroughSeq = n
      /\ vault'.exists = vault.exists
      /\ vault.latestSeq \in Nat /\ vault.ackedThroughSeq \in Nat
  BY <1>1 DEF QueueInv, TypeOK, StoreTypeOK, VaultRow
<1>3. ASSUME NEW w \in writes
      PROVE  /\ ack(w).seq = w.seq
             /\ ack(w).client = w.client
             /\ ack(w).acked <=> w.acked \/ w.seq <= n
             /\ w.seq \in Nat
  <2>1. w \in QueuedWrite
    BY DEF QueueInv, TypeOK, StoreTypeOK
  <2>. QED
    BY <2>1 DEF QueuedWrite
<1> HIDE DEF ack
<1>4. \A w \in writes : ack(w).acked <=> w.seq <= n
  BY <1>1, <1>2, <1>3 DEF QueueInv, QueueOrdered
<1>5. \A w \in writes : w.seq <= vault.latestSeq
  BY DEF QueueInv, QueueOrdered
<1>6. \A w, x \in writes : w.seq = x.seq \/ w.client = x.client => w = x
  BY DEF QueueInv, QueueOrdered
<1>7. \A y \in writes' : y.seq <= vault.latestSeq /\ (y.acked <=> y.seq <= n)
  BY <1>1, <1>3, <1>4, <1>5
<1>8. \A y, z \in writes' : y.seq = z.seq \/ y.client = z.client => y = z
  BY <1>1, <1>3, <1>6
<1>. QED
  BY <1>1, <1>2, <1>7, <1>8 DEF QueueInv, QueueOrdered

(* Every step keeps the queue invariant.                                   *)
LEMMA QueueStep == QueueInv /\ [Next]_vars => QueueInv'
<1> SUFFICES ASSUME QueueInv, [Next]_vars PROVE QueueOrdered'
  BY TypeStep DEF QueueInv
<1>0. TypeOK /\ StoreTypeOK /\ vault \in VaultRow /\ QueueOrdered
  BY DEF QueueInv, TypeOK, StoreTypeOK
<1>1. CASE UNCHANGED vars
  BY <1>1, QueueFrame DEF vars, storeVars
<1>2. ASSUME NEW k \in KeyChecks, VaultCreate(k) PROVE QueueOrdered'
  <2>1. CASE CreateVault(k)
    <3>1. writes' = {}
      BY <1>0, <2>1 DEF CreateVault, QueueOrdered
    <3>2. vault'.ackedThroughSeq = 0 /\ vault'.latestSeq = 0
      BY <2>1 DEF CreateVault, BlankVault
    <3>. QED
      BY <3>1, <3>2, QueueWipe
  <2>2. CASE AdoptKey(k)
    BY <1>0, <2>2, QueueFrame DEF AdoptKey, VaultRow
  <2>. QED
    BY <1>2, <2>1, <2>2 DEF VaultCreate
<1>3. ASSUME NEW k \in KeyChecks, VaultReset(k) PROVE QueueOrdered'
  <2>1. ResetVault(k)
    BY <1>3 DEF VaultReset
  <2>2. /\ vault'.latestSeq = vault.latestSeq
        /\ vault'.ackedThroughSeq = vault.ackedThroughSeq
        /\ writes' = {}
    BY <1>0, <2>1 DEF ResetVault, VaultRow
  <2>. QED
    BY <1>0, <2>2, QueueWipe DEF QueueOrdered
<1>4. CASE VaultDelete \/ SweepLapsedVault
  BY <1>4, QueueWipe DEF VaultDelete, SweepLapsedVault, DropVault, BlankVault
<1>5. CASE PairingCreate \/ DeviceRevoke \/ Pair
  BY <1>5, QueueFrame DEF PairingCreate, DeviceRevoke, Pair, CreatePairing, DeletePhone,
     RedeemPairing
<1>6. ASSUME NEW p \in Paths, NEW v \in 0..MaxVersion, NEW s \in Sizes, FileBegin(p, v, s)
      PROVE  QueueOrdered'
  BY <1>6, QueueFrame DEF FileBegin, BeginUpload
<1>7. ASSUME NEW p \in Paths, NEW v \in 0..MaxVersion, FileDelete(p, v) PROVE QueueOrdered'
  <2>1. /\ vault' = [vault EXCEPT !.latestVersion = vault.latestVersion + 1,
                                  !.bytesUsed = vault.bytesUsed - files[p].size]
        /\ UNCHANGED writes
    BY <1>7 DEF FileDelete, TombstoneFile
  <2>. QED
    BY <1>0, <2>1, QueueFrame DEF VaultRow
<1>8. ASSUME NEW u \in pending_uploads, CheckBlob(u.path, u.expected, u.blob)
      PROVE  QueueOrdered'
  BY <1>8, QueueFrame DEF CheckBlob, storeVars
<1>9. ASSUME NEW b \in 1..MaxBlobs, PutBlob(b) \/ ExpireUrl(b) \/ DeleteBlob(b) \/ AbandonBlob(b)
      PROVE  QueueOrdered'
  BY <1>9, QueueFrame DEF PutBlob, ExpireUrl, DeleteBlob, AbandonBlob, storeVars
<1>10. ASSUME NEW n \in 1..MaxSeq, WritesAck(n) PROVE QueueOrdered'
  BY <1>10, AckOrdered DEF WritesAck
<1>11. ASSUME NEW c \in ClientIds, WriteCreate(c) PROVE QueueOrdered'
  BY <1>11, EnqueueOrdered DEF WriteCreate
<1>12. ASSUME NEW c \in commits, Publish(c) PROVE QueueOrdered'
  <2>1. PICK u \in pending_uploads : PublishFile(c.path, c.blob, u.size)
    BY <1>12 DEF Publish, CommitUpload
  <2>2. /\ vault' = [vault EXCEPT !.latestVersion = vault.latestVersion + 1,
                                  !.bytesUsed = vault.bytesUsed - files[c.path].size + u.size]
        /\ UNCHANGED writes
    BY <1>12, <2>1 DEF Publish, CommitUpload, PublishFile
  <2>. QED
    BY <1>0, <2>2, QueueFrame DEF VaultRow
<1>13. ASSUME NEW c \in commits, EndCommit(c) PROVE QueueOrdered'
  BY <1>13, QueueFrame DEF EndCommit, storeVars
<1>14. CASE SweepOnce
  <2>1. PICK us \in SUBSET {u \in pending_uploads : u.blob \notin signed},
             ts \in SUBSET Tombstones, ws \in SUBSET AckedRows, expired \in BOOLEAN :
               Sweep(us, ts, ws, expired)
    BY <1>14 DEF SweepOnce
  <2>2. PICK h \in {vault.tombstoneHorizon} \cup {files[p].version : p \in ts} :
          vault' = [vault EXCEPT !.tombstoneHorizon = h]
    BY <2>1 DEF Sweep
  <2>3. /\ vault'.latestSeq = vault.latestSeq
        /\ vault'.ackedThroughSeq = vault.ackedThroughSeq
        /\ vault'.exists = vault.exists
    BY <1>0, <2>2 DEF VaultRow
  <2>4. writes' \subseteq writes
    BY <2>1 DEF Sweep
  <2>. QED
    BY <1>0, <2>3, <2>4 DEF QueueOrdered
<1>15. ASSUME NEW lapse \in BOOLEAN, AdminLapse(lapse) PROVE QueueOrdered'
  BY <1>0, <1>15, QueueFrame DEF AdminLapse, SetVaultLapsed, VaultRow
<1>. QED
  BY <1>1, <1>2, <1>3, <1>4, <1>5, <1>6, <1>7, <1>8, <1>9, <1>10, <1>11, <1>12, <1>13,
     <1>14, <1>15 DEF Next, DeskRequest, PhoneRequest, Internal

(* Acks of any seq, sweeps of acked rows, resets and retried enqueues      *)
(* leave the queue in order: what is above the ack is exactly what the     *)
(* desk has not acked.                                                     *)
THEOREM QueueIsOrdered == Spec => []QueueOrdered
<1>1. Init => QueueInv
  BY QueueInit
<1>2. QueueInv /\ [Next]_vars => QueueInv'
  BY QueueStep
<1>3. QueueInv => QueueOrdered
  BY DEF QueueInv
<1>. QED
  BY <1>1, <1>2, <1>3, PTL DEF Spec
-------------------------------------------------------------------------------
(* The bytes used *)

SizesOf(fs) == [p \in Paths |-> fs[p].size]

(* A row that is not live holds no bytes, and without a vault none are     *)
(* counted.                                                                *)
Weightless ==
    /\ \A p \in Paths : ~IsLive(files[p]) => files[p].size = 0
    /\ ~vault.exists => vault.bytesUsed = 0

BytesInv == TypeOK /\ Weightless /\ BytesAccounted

(* The sum is that of the sizes, taken row by row.                         *)
LEMMA BytesSum ==
    ASSUME NEW fs
    PROVE  \E F : Sums(F, SUBSET Paths, SizesOf(fs)) /\ Bytes(fs) = F[Paths]
<1>. DEFINE Step(F, s) == IF s = {} THEN 0 ELSE
                          fs[CHOOSE x \in s : TRUE].size + F[s \ {CHOOSE x \in s : TRUE}]
            Eq(F) == F = [s \in SUBSET Paths |-> Step(F, s)]
            H == CHOOSE F : Eq(F)
<1>1. ASSUME NEW F PROVE Sums(F, SUBSET Paths, SizesOf(fs)) <=> Eq(F)
  <2>1. ASSUME NEW s \in SUBSET Paths PROVE SumStep(F, SizesOf(fs), s) = Step(F, s)
    <3>1. CASE s = {}
      BY <3>1 DEF SumStep
    <3>2. CASE s # {}
      <4>1. Pick(s) \in Paths
        BY <3>2 DEF Pick
      <4>. QED
        BY <3>2, <4>1 DEF SumStep, Pick, SizesOf
    <3>. QED
      BY <3>1, <3>2
  <2>. QED
    BY <2>1 DEF Sums
<1>2. PICK F : Sums(F, SUBSET Paths, SizesOf(fs))
  BY SumsExist, PathsAssumption
<1>3. Eq(F)
  BY <1>1, <1>2
<1>4. Eq(H)
  <2>. HIDE DEF Eq
  <2>. QED
    BY <1>3
<1>5. Bytes(fs) = H[Paths]
  BY DEF Bytes, MapThenSumSet, MapThenFoldSet
<1>6. Sums(H, SUBSET Paths, SizesOf(fs))
  <2>. HIDE DEF Eq, H
  <2>. QED
    BY <1>1, <1>4
<1>. HIDE DEF H
<1>. QED
  BY <1>5, <1>6

(* A table without bytes.                                                  *)
LEMMA BytesZero ==
    ASSUME NEW fs, \A p \in Paths : fs[p].size = 0 PROVE Bytes(fs) = 0
<1>1. PICK F : Sums(F, SUBSET Paths, SizesOf(fs)) /\ Bytes(fs) = F[Paths]
  BY BytesSum
<1>2. \A p \in Paths : SizesOf(fs)[p] = 0
  BY DEF SizesOf
<1>. QED
  BY <1>1, <1>2, SumsZero, PathsAssumption

(* Tables whose rows have the same sizes add up to the same.               *)
LEMMA BytesSame ==
    ASSUME NEW fs, NEW gs, \A p \in Paths : gs[p].size = fs[p].size PROVE Bytes(gs) = Bytes(fs)
<1>1. SizesOf(gs) = SizesOf(fs)
  BY DEF SizesOf
<1>2. PICK F : Sums(F, SUBSET Paths, SizesOf(fs)) /\ Bytes(fs) = F[Paths]
  BY BytesSum
<1>3. PICK G : Sums(G, SUBSET Paths, SizesOf(gs)) /\ Bytes(gs) = G[Paths]
  BY BytesSum
<1>. QED
  BY <1>1, <1>2, <1>3, SumsUnique, PathsAssumption

(* One row changes: its old size goes, its new one comes.                  *)
LEMMA BytesUpdate ==
    ASSUME NEW fs \in [Paths -> FileRow], NEW gs \in [Paths -> FileRow], NEW p \in Paths,
           \A q \in Paths \ {p} : gs[q] = fs[q]
    PROVE  Bytes(gs) = Bytes(fs) - fs[p].size + gs[p].size
<1>1. SizesOf(fs) \in [Paths -> Int] /\ SizesOf(gs) \in [Paths -> Int]
  BY DEF SizesOf, FileRow
<1>2. \A q \in Paths \ {p} : SizesOf(gs)[q] = SizesOf(fs)[q]
  BY DEF SizesOf
<1>3. PICK F : Sums(F, SUBSET Paths, SizesOf(fs)) /\ Bytes(fs) = F[Paths]
  BY BytesSum
<1>4. PICK G : Sums(G, SUBSET Paths, SizesOf(gs)) /\ Bytes(gs) = G[Paths]
  BY BytesSum
<1>5. G[Paths] = F[Paths] - SizesOf(fs)[p] + SizesOf(gs)[p]
  BY <1>1, <1>2, <1>3, <1>4, SumsUpdate, PathsAssumption
<1>. QED
  BY <1>3, <1>4, <1>5 DEF SizesOf

(* An account without a vault uses nothing.                                *)
LEMMA BytesInit == Init => BytesInv
<1> SUFFICES ASSUME Init PROVE Weightless /\ BytesAccounted
  BY TypeInit DEF BytesInv
<1>1. vault.bytesUsed = 0 /\ \A p \in Paths : files[p] = NoRow
  BY DEF Init, StoreInit, BlankVault
<1>2. \A p \in Paths : files[p].size = 0
  BY <1>1 DEF NoRow
<1>3. Bytes(files) = 0
  BY <1>2, BytesZero
<1>. QED
  BY <1>1, <1>2, <1>3, BoundsAssumption DEF Weightless, BytesAccounted

(* A step that leaves the sizes, the use and the vault's existence alone.  *)
LEMMA BytesFrame ==
    ASSUME BytesInv, vault'.bytesUsed = vault.bytesUsed, vault'.exists = vault.exists,
           UNCHANGED files
    PROVE  Weightless' /\ BytesAccounted'
BY DEF BytesInv, Weightless, BytesAccounted

(* A step that forgets every row.                                          *)
LEMMA BytesWipe ==
    ASSUME vault'.bytesUsed = 0, \A p \in Paths : files'[p] = NoRow
    PROVE  Weightless' /\ BytesAccounted'
<1>1. \A p \in Paths : files'[p].size = 0
  BY DEF NoRow
<1>2. Bytes(files') = 0
  BY <1>1, BytesZero
<1>. QED
  BY <1>1, <1>2, BoundsAssumption DEF Weightless, BytesAccounted

(* A step that writes one row of a vault and counts it.                    *)
LEMMA BytesBump ==
    ASSUME BytesInv, TypeOK', vault.exists, vault'.exists = vault.exists, NEW p \in Paths,
           \A q \in Paths \ {p} : files'[q] = files[q],
           ~IsLive(files'[p]) => files'[p].size = 0,
           vault'.bytesUsed = vault.bytesUsed - files[p].size + files'[p].size,
           vault'.bytesUsed <= HardCap
    PROVE  Weightless' /\ BytesAccounted'
<1>1. Bytes(files') = Bytes(files) - files[p].size + files'[p].size
  BY BytesUpdate DEF BytesInv, TypeOK, StoreTypeOK
<1>. QED
  BY <1>1 DEF BytesInv, Weightless, BytesAccounted

(* Every step keeps the count.                                             *)
LEMMA BytesStep == BytesInv /\ [Next]_vars => BytesInv'
<1> SUFFICES ASSUME BytesInv, [Next]_vars PROVE Weightless' /\ BytesAccounted'
  BY TypeStep DEF BytesInv
<1>0. /\ TypeOK /\ TypeOK' /\ StoreTypeOK /\ vault \in VaultRow
      /\ files \in [Paths -> FileRow] /\ files' \in [Paths -> FileRow]
  BY TypeStep DEF BytesInv, TypeOK, StoreTypeOK
<1>1. CASE UNCHANGED vars
  BY <1>1, BytesFrame DEF vars, storeVars
<1>2. ASSUME NEW k \in KeyChecks, VaultCreate(k) PROVE Weightless' /\ BytesAccounted'
  <2>1. CASE CreateVault(k)
    <3>1. vault'.bytesUsed = 0 /\ vault.bytesUsed = 0 /\ UNCHANGED files
      BY <2>1 DEF CreateVault, BlankVault, BytesInv, Weightless
    <3>. QED
      BY <3>1 DEF BytesInv, Weightless, BytesAccounted
  <2>2. CASE AdoptKey(k)
    BY <1>0, <2>2, BytesFrame DEF AdoptKey, VaultRow
  <2>. QED
    BY <1>2, <2>1, <2>2 DEF VaultCreate
<1>3. ASSUME NEW k \in KeyChecks, VaultReset(k) PROVE Weightless' /\ BytesAccounted'
  <2>1. vault'.bytesUsed = 0 /\ \A p \in Paths : files'[p] = NoRow
    BY <1>0, <1>3 DEF VaultReset, ResetVault, VaultRow
  <2>. QED
    BY <2>1, BytesWipe
<1>4. CASE VaultDelete \/ SweepLapsedVault
  <2>1. vault'.bytesUsed = 0 /\ \A p \in Paths : files'[p] = NoRow
    BY <1>4 DEF VaultDelete, SweepLapsedVault, DropVault, BlankVault
  <2>. QED
    BY <2>1, BytesWipe
<1>5. CASE PairingCreate \/ DeviceRevoke \/ Pair
  BY <1>5, BytesFrame DEF PairingCreate, DeviceRevoke, Pair, CreatePairing, DeletePhone,
     RedeemPairing
<1>6. ASSUME NEW p \in Paths, NEW v \in 0..MaxVersion, NEW s \in Sizes, FileBegin(p, v, s)
      PROVE  Weightless' /\ BytesAccounted'
  BY <1>6, BytesFrame DEF FileBegin, BeginUpload
<1>7. ASSUME NEW p \in Paths, NEW v \in 0..MaxVersion, FileDelete(p, v)
      PROVE  Weightless' /\ BytesAccounted'
  <2>1. TombstoneFile(p, v) /\ vault.exists
    BY <1>7 DEF FileDelete, TombstoneFile
  <2>2. /\ files'[p].size = 0 /\ \A q \in Paths \ {p} : files'[q] = files[q]
        /\ vault'.exists = vault.exists /\ vault'.bytesUsed = vault.bytesUsed - files[p].size
    BY <1>0, <2>1 DEF TombstoneFile, Tombstone, VaultRow
  <2>3. /\ vault.bytesUsed \in Int /\ files[p].size \in Nat
        /\ vault.bytesUsed <= HardCap /\ HardCap \in Nat
    BY <1>0, BoundsAssumption DEF VaultRow, FileRow, BytesInv, BytesAccounted
  <2>4. vault'.bytesUsed = vault.bytesUsed - files[p].size + files'[p].size
    BY <2>2, <2>3
  <2>5. vault'.bytesUsed <= HardCap
    BY <2>2, <2>3
  <2>. QED
    BY <1>0, <2>1, <2>2, <2>4, <2>5, BytesBump
<1>8. ASSUME NEW u \in pending_uploads, CheckBlob(u.path, u.expected, u.blob)
      PROVE  Weightless' /\ BytesAccounted'
  BY <1>8, BytesFrame DEF CheckBlob, storeVars
<1>9. ASSUME NEW b \in 1..MaxBlobs, PutBlob(b) \/ ExpireUrl(b) \/ DeleteBlob(b) \/ AbandonBlob(b)
      PROVE  Weightless' /\ BytesAccounted'
  BY <1>9, BytesFrame DEF PutBlob, ExpireUrl, DeleteBlob, AbandonBlob, storeVars
<1>10. ASSUME NEW n \in 1..MaxSeq, WritesAck(n) PROVE Weightless' /\ BytesAccounted'
  BY <1>0, <1>10, BytesFrame DEF WritesAck, AckWrites, VaultRow
<1>11. ASSUME NEW c \in ClientIds, WriteCreate(c) PROVE Weightless' /\ BytesAccounted'
  BY <1>0, <1>11, BytesFrame DEF WriteCreate, EnqueueWrite, VaultRow
<1>12. ASSUME NEW c \in commits, Publish(c) PROVE Weightless' /\ BytesAccounted'
  <2>1. c.path \in Paths /\ vault.exists
    BY <1>0, <1>12 DEF TypeOK, CommitRequest, Publish
  <2>2. PICK u \in pending_uploads : Fits(c.path, u.size) /\ PublishFile(c.path, c.blob, u.size)
    BY <1>12 DEF Publish, CommitUpload
  <2>3. /\ IsLive(files'[c.path]) /\ files'[c.path].size = u.size
        /\ \A q \in Paths \ {c.path} : files'[q] = files[q]
        /\ vault'.exists = vault.exists
        /\ vault'.bytesUsed = vault.bytesUsed - files[c.path].size + u.size
    <3>1. files'[c.path] = LiveRow(vault.latestVersion + 1, c.blob, u.size)
      BY <1>0, <2>1, <2>2 DEF PublishFile
    <3>2. vault.latestVersion + 1 > 0
      BY <1>0 DEF VaultRow
    <3>3. IsLive(files'[c.path]) /\ files'[c.path].size = u.size
      BY <3>1, <3>2 DEF LiveRow, IsLive
    <3>4. \A q \in Paths \ {c.path} : files'[q] = files[q]
      BY <1>0, <2>2 DEF PublishFile
    <3>5. /\ vault'.exists = vault.exists
          /\ vault'.bytesUsed = vault.bytesUsed - files[c.path].size + u.size
      BY <1>0, <2>2 DEF PublishFile, VaultRow
    <3>. QED
      BY <3>3, <3>4, <3>5
  <2>4. vault'.bytesUsed <= HardCap
    BY <2>2, <2>3 DEF Fits
  <2>. QED
    BY <1>0, <2>1, <2>3, <2>4, BytesBump
<1>13. ASSUME NEW c \in commits, EndCommit(c) PROVE Weightless' /\ BytesAccounted'
  BY <1>13, BytesFrame DEF EndCommit, storeVars
<1>14. CASE SweepOnce
  <2>1. PICK us \in SUBSET {u \in pending_uploads : u.blob \notin signed},
             ts \in SUBSET Tombstones, ws \in SUBSET AckedRows, expired \in BOOLEAN :
               Sweep(us, ts, ws, expired)
    BY <1>14 DEF SweepOnce
  <2>2. vault'.exists = vault.exists /\ vault'.bytesUsed = vault.bytesUsed
    BY <1>0, <2>1 DEF Sweep, VaultRow
  <2>3. \A p \in Paths : files'[p] = IF p \in ts THEN NoRow ELSE files[p]
    BY <2>1 DEF Sweep
  <2>4. \A p \in ts : files[p].size = 0
    BY DEF Tombstones, BytesInv, Weightless, IsLive
  <2>5. \A p \in Paths : files'[p].size = files[p].size
    BY <2>3, <2>4 DEF NoRow
  <2>6. \A p \in Paths : ~IsLive(files'[p]) => files'[p].size = 0
    BY <2>3, <2>5 DEF BytesInv, Weightless, NoRow
  <2>7. Bytes(files') = Bytes(files)
    BY <2>5, BytesSame
  <2>. QED
    BY <2>2, <2>6, <2>7 DEF BytesInv, Weightless, BytesAccounted
<1>15. ASSUME NEW lapse \in BOOLEAN, AdminLapse(lapse) PROVE Weightless' /\ BytesAccounted'
  BY <1>0, <1>15, BytesFrame DEF AdminLapse, SetVaultLapsed, VaultRow
<1>. QED
  BY <1>1, <1>2, <1>3, <1>4, <1>5, <1>6, <1>7, <1>8, <1>9, <1>10, <1>11, <1>12, <1>13,
     <1>14, <1>15 DEF Next, DeskRequest, PhoneRequest, Internal

(* bytes_used is the sum of the live rows' sizes and within the hard cap,  *)
(* however uploads, deletions, resets and sweeps overlap.                  *)
THEOREM BytesAreCounted == Spec => []BytesAccounted
<1>1. Init => BytesInv
  BY BytesInit
<1>2. BytesInv /\ [Next]_vars => BytesInv'
  BY BytesStep
<1>3. BytesInv => BytesAccounted
  BY DEF BytesInv
<1>. QED
  BY <1>1, <1>2, <1>3, PTL DEF Spec

===============================================================================
