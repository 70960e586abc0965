--------------------------- MODULE PhoneSyncProofs ----------------------------
(***************************************************************************)
(* Proofs about PhoneSync, for every finite set of paths and of writes,    *)
(* every page size and any number of edits and faults.                     *)
(***************************************************************************)
EXTENDS PhoneSync, VaultStoreProofs, FiniteSetTheorems, WellFoundedInduction

(* The shapes of a round under way.                                        *)
Flushing    == [pc: {"flush"}, batch: SUBSET ClientIds]
Paging      == [pc: {"list", "auth", "page"}, since: Nat \cup {Full}, full: BOOLEAN,
                listed: SUBSET Paths, failed: SUBSET Paths, latest: Nat,
                page: SUBSET (Paths \X FileRow), next: Nat, more: BOOLEAN]
Remembering == [pc: {"remember"}, failed: SUBSET Paths]

(* The blobs the tables and a page name are blobs of which the text is     *)
(* known, which gives Stored a type; the table's versions are bounded, so  *)
(* that a page has a last one.                                             *)
BlobsKnown ==
    /\ \A p \in Paths : files[p].blob <= MaxVersion /\ rows[p].blob <= MaxVersion
    /\ pull.pc = "page" => \A r \in pull.page : r[2].blob <= MaxVersion

Versions ==
    /\ vault.latestVersion <= MaxVersion
    /\ \A p \in Paths : files[p].version <= vault.latestVersion

TypeInv == TypeOK /\ BlobsKnown /\ Versions

(* The bounds are numbers.                                                 *)
LEMMA Bounds ==
    Limit \in Nat /\ Limit > 0 /\ MaxEdits \in Nat /\ MaxFaults \in Nat /\ MaxVersion \in Nat
BY PhoneAssumption, BoundsAssumption

(* The step of a round says which shape it has.                            *)
LEMMA Shapes ==
    ASSUME pull \in Pull
    PROVE  /\ pull.pc = "flush" => pull \in Flushing
           /\ pull.pc \in {"list", "auth", "page"} => pull \in Paging
           /\ pull.pc = "remember" => pull \in Remembering
           /\ pull.pc = "vault" => pull \in [pc: {"vault"}]
BY DEF Pull, Idle, Flushing, Paging, Remembering

(* ... and each shape is one of a round.                                   *)
LEMMA ShapesOfPull ==
    /\ Idle \in Pull /\ Flushing \subseteq Pull /\ Paging \subseteq Pull
    /\ Remembering \subseteq Pull /\ [pc: {"vault"}] \subseteq Pull
BY DEF Pull, Flushing, Paging, Remembering

(* A document names its paths.                                             *)
LEMMA DocPaths ==
    ASSUME NEW d \in Docs
    PROVE  /\ d # NoDoc <=> d.kind \in {"text", "move"}
           /\ d # NoDoc => d.path \in Paths
           /\ d.kind = "move" => d.to \in Paths
BY DEF Docs, NoDoc, Text, Move

(* The row store makes has the type of a row, and the blob it was given.   *)
LEMMA StoredRow ==
    ASSUME TypeOK, NEW p \in Paths, NEW b \in Nat, b <= MaxVersion, NEW box \in SUBSET ClientIds
    PROVE  Stored(p, b, box) \in Row /\ Stored(p, b, box).blob = b
<1>1. b \in 0..MaxVersion /\ WaitingTexts(p, box) \in SUBSET ClientIds
  BY Bounds DEF WaitingTexts
<1>2. contents \in [0..MaxVersion -> SUBSET ClientIds]
  BY DEF TypeOK
<1>3. contents[b] \in SUBSET ClientIds
  BY <1>1, <1>2
<1>. QED
  BY <1>1, <1>3 DEF Stored, Absent, Row, NoBlob

(* The first page begins before anything is listed.                        *)
LEMMA ListFromTo ==
    ASSUME NEW since \in Nat \cup {Full}
    PROVE  /\ ListFrom(since) \in Paging /\ ListFrom(since).pc = "list"
           /\ ListFrom(since).since = since /\ (ListFrom(since).full <=> since = Full)
           /\ ListFrom(since).listed = {} /\ ListFrom(since).failed = {}
           /\ ListFrom(since).latest = 0
BY DEF ListFrom, Paging

-------------------------------------------------------------------------------
(* What the steps of a round do to it *)

(* A page step takes one row, and may list its path or note it as failed.  *)
Taken(r, list, fail) ==
    /\ pull \in Paging /\ pull' \in Paging /\ pull.pc = "page" /\ pull'.pc = "page"
    /\ r \in pull.page /\ pull'.page = pull.page \ {r}
    /\ pull'.listed = pull.listed \cup list /\ pull'.failed = pull.failed \cup fail
    /\ pull'.since = pull.since /\ pull'.full = pull.full /\ pull'.latest = pull.latest
    /\ pull'.next = pull.next /\ pull'.more = pull.more

(* The row of a page has a path and the type of a file row.                *)
LEMMA PageRow ==
    ASSUME TypeInv, pull.pc = "page", NEW r \in pull.page
    PROVE  r[1] \in Paths /\ r[2] \in FileRow /\ r[2].blob \in Nat /\ r[2].blob <= MaxVersion
<1>1. pull \in Paging
  BY Shapes DEF TypeInv, TypeOK
<1>2. r \in Paths \X FileRow
  BY <1>1 DEF Paging
<1>. QED
  BY <1>2 DEF FileRow, TypeInv, BlobsKnown

(* A tombstone, or a blob already held.                                    *)
LEMMA TakeKnownTo ==
    ASSUME TypeInv, NEW r, TakeKnown(r)
    PROVE  /\ r[2].deleted => Taken(r, {}, {})
           /\ ~r[2].deleted => Taken(r, {r[1]}, {})
           /\ rows' \in [Paths -> Row] /\ \A p \in Paths : rows'[p].blob <= MaxVersion
           /\ \A p \in Paths \ {r[1]} : rows'[p].blob = rows[p].blob
           /\ r[2].deleted => rows'[r[1]].blob = NoBlob
           /\ ~r[2].deleted => rows'[r[1]].blob = r[2].blob
<1>1. pull \in Paging /\ pull.pc = "page" /\ r \in pull.page
  BY Shapes DEF TypeInv, TypeOK, TakeKnown, NextRow
<1>2. r[1] \in Paths
  BY <1>1, PageRow
<1>3. rows \in [Paths -> Row] /\ \A p \in Paths : rows[p].blob <= MaxVersion
  BY DEF TypeInv, TypeOK, BlobsKnown
<1>4. CASE r[2].deleted
  <2>1. PICK s \in Row : s = Stored(r[1], NoBlob, outbox) /\ s.blob = NoBlob
    BY <1>2, StoredRow, Bounds DEF TypeInv, TypeOK, NoBlob
  <2>2. rows' = [rows EXCEPT ![r[1]] = s]
    BY <1>4, <2>1 DEF TakeKnown
  <2>3. pull' = [pull EXCEPT !.page = @ \ {r}, !.listed = @]
    BY <1>4 DEF TakeKnown
  <2>4. Taken(r, {}, {})
    BY <1>1, <1>2, <2>3 DEF Taken, Paging
  <2>. QED
    BY <1>2, <1>3, <1>4, <2>1, <2>2, <2>4, Bounds DEF NoBlob
<1>5. CASE ~r[2].deleted
  <2>1. rows' = rows /\ rows[r[1]].blob = r[2].blob
    BY <1>5 DEF TakeKnown
  <2>2. pull' = [pull EXCEPT !.page = @ \ {r}, !.listed = @ \cup {r[1]}]
    BY <1>5 DEF TakeKnown
  <2>. QED
    BY <1>1, <1>2, <1>3, <1>5, <2>1, <2>2 DEF Taken, Paging
<1>. QED
  BY <1>4, <1>5

(* A downloaded blob.                                                      *)
LEMMA TakeSnapshotTo ==
    ASSUME TypeInv, NEW r, TakeSnapshot(r)
    PROVE  /\ Taken(r, {r[1]}, {}) /\ ~r[2].deleted
           /\ rows' \in [Paths -> Row] /\ \A p \in Paths : rows'[p].blob <= MaxVersion
           /\ \A p \in Paths \ {r[1]} : rows'[p].blob = rows[p].blob
           /\ rows'[r[1]].blob = r[2].blob
<1>1. pull \in Paging /\ pull.pc = "page" /\ r \in pull.page
  BY Shapes DEF TypeInv, TypeOK, TakeSnapshot, NextRow
<1>2. r[1] \in Paths /\ r[2].blob \in Nat /\ r[2].blob <= MaxVersion
  BY <1>1, PageRow
<1>3. rows \in [Paths -> Row] /\ \A p \in Paths : rows[p].blob <= MaxVersion
  BY DEF TypeInv, TypeOK, BlobsKnown
<1>4. PICK s \in Row : s = Stored(r[1], r[2].blob, outbox) /\ s.blob = r[2].blob
  <2>1. TypeOK
    BY DEF TypeInv
  <2>2. outbox \in SUBSET ClientIds
    BY <2>1 DEF TypeOK
  <2>. QED
    BY <1>2, <2>1, <2>2, StoredRow
<1>5. rows' = [rows EXCEPT ![r[1]] = s]
  BY <1>4 DEF TakeSnapshot
<1>6. pull' = [pull EXCEPT !.page = @ \ {r}, !.listed = @ \cup {r[1]}] /\ ~r[2].deleted
  BY DEF TakeSnapshot
<1>. QED
  BY <1>1, <1>2, <1>3, <1>4, <1>5, <1>6 DEF Taken, Paging

(* A download that failed.                                                 *)
LEMMA TakeFailedTo ==
    ASSUME TypeInv, NEW r, TakeFailed(r) PROVE Taken(r, {r[1]}, {r[1]}) /\ ~r[2].deleted
<1>1. pull \in Paging /\ pull.pc = "page" /\ r \in pull.page
  BY Shapes DEF TypeInv, TypeOK, TakeFailed, NextRow
<1>2. r[1] \in Paths
  BY <1>1, PageRow
<1>3. /\ pull' = [pull EXCEPT !.page = @ \ {r}, !.listed = @ \cup {r[1]}, !.failed = @ \cup {r[1]}]
      /\ ~r[2].deleted
  BY DEF TakeFailed
<1>. QED
  BY <1>1, <1>2, <1>3 DEF Taken, Paging

(* The request is let in, or answered 410.                                 *)
LEMMA ListAuthTo ==
    ASSUME TypeInv, ListAuth
    PROVE  /\ pull \in Paging /\ pull' \in Paging /\ pull.pc = "list" /\ pull'.failed = pull.failed
           /\ \/ /\ pull.since # Full /\ pull.since < vault.tombstoneHorizon
                 /\ pull'.pc = "list" /\ pull'.since = Full /\ pull'.full /\ pull'.listed = {}
                 /\ pull'.latest = pull.latest
              \/ /\ pull.since = Full \/ ~(pull.since < vault.tombstoneHorizon)
                 /\ pull'.pc = "auth" /\ pull'.since = pull.since /\ pull'.full = pull.full
                 /\ pull'.listed = pull.listed /\ pull'.latest = vault.latestVersion
<1>1. pull \in Paging /\ pull.pc = "list"
  BY Shapes DEF TypeInv, TypeOK, ListAuth
<1>2. vault.latestVersion \in Nat
  BY DEF TypeInv, TypeOK, StoreTypeOK, VaultRow
<1>3. CASE pull.since # Full /\ pull.since < vault.tombstoneHorizon
  <2>1. pull' = [pull EXCEPT !.since = Full, !.full = TRUE, !.listed = {}]
    BY <1>3 DEF ListAuth
  <2>. QED
    BY <1>1, <1>3, <2>1 DEF Paging
<1>4. CASE ~(pull.since # Full /\ pull.since < vault.tombstoneHorizon)
  <2>1. pull' = [pull EXCEPT !.pc = "auth", !.latest = vault.latestVersion]
    BY <1>4 DEF ListAuth
  <2>. QED
    BY <1>1, <1>2, <1>4, <2>1 DEF Paging
<1>. QED
  BY <1>3, <1>4

-------------------------------------------------------------------------------
(* The page a list request reads *)

(* A set of numbers has a least one.                                       *)
LEMMA LeastNat ==
    ASSUME NEW T \in SUBSET Nat, T # {} PROVE \E x \in T : \A y \in T : x <= y
<1>. DEFINE Less == {ss \in Nat \X Nat : ss[1] < ss[2]}
<1>1. IsWellFoundedOn(Less, Nat)
  BY NatLessThanWellFounded DEF OpToRel
<1>2. PICK x \in T : \A y \in T : <<y, x>> \notin Less
  BY <1>1, WFMin
<1>3. ASSUME NEW y \in T PROVE x <= y
  <2>1. <<y, x>> \in Nat \X Nat
    OBVIOUS
  <2>2. ~(y < x)
    BY <1>2, <2>1
  <2>. QED
    BY <2>2
<1>. QED
  BY <1>3

(* A page that holds a row has one of the highest version.                 *)
LEMMA HighestRow ==
    ASSUME NEW S \in SUBSET (Paths \X FileRow), S # {}, \A r \in S : r[2].version <= MaxVersion
    PROVE  \E r \in S : \A s \in S : s[2].version <= r[2].version
<1>. DEFINE T == {MaxVersion - r[2].version : r \in S}
<1>1. \A r \in S : r[2].version \in Nat /\ MaxVersion - r[2].version \in Nat
  BY Bounds DEF FileRow
<1>2. T \in SUBSET Nat /\ T # {}
  BY <1>1
<1>3. PICK x \in T : \A y \in T : x <= y
  BY <1>2, LeastNat
<1>4. PICK r \in S : x = MaxVersion - r[2].version
  BY <1>3
<1>5. ASSUME NEW s \in S PROVE s[2].version <= r[2].version
  <2>1. MaxVersion - r[2].version <= MaxVersion - s[2].version
    BY <1>3, <1>4
  <2>. QED
    BY <1>1, <2>1, Bounds
<1>. QED
  BY <1>5

(* What listFiles lists is rows of the table, and finitely many.           *)
LEMMA ListedRows ==
    ASSUME TypeInv, NEW since
    PROVE  /\ ListFiles(since) \in SUBSET (Paths \X FileRow) /\ IsFiniteSet(ListFiles(since))
           /\ \A r \in ListFiles(since) : r = <<r[1], files[r[1]]>> /\ r[2].version <= MaxVersion
<1>. DEFINE U == {q \in Paths : IF since = Full THEN IsLive(files[q]) ELSE files[q].version > since}
            T == {<<p, files[p]>> : p \in U}
            g == [p \in U |-> <<p, files[p]>>]
<1>1. files \in [Paths -> FileRow] /\ ListFiles(since) = T
  BY DEF TypeInv, TypeOK, StoreTypeOK, ListFiles
<1>2. IsFiniteSet(U)
  BY PhoneAssumption, FS_Subset
<1>3. g \in Surjection(U, T)
  BY DEF Surjection
<1>4. IsFiniteSet(T)
  BY <1>2, <1>3, FS_Surjection
<1>5. \A p \in Paths : files[p].version <= MaxVersion
  BY Bounds DEF TypeInv, TypeOK, StoreTypeOK, Versions, VaultRow, FileRow
<1>. QED
  BY <1>1, <1>4, <1>5

(* A page holds, with a row, every listed row of a lower version.          *)
LEMMA PageClosed ==
    ASSUME TypeInv, NEW since, NEW r \in ListFiles(since), NEW s \in FirstPage(ListFiles(since)),
           r[2].version <= s[2].version
    PROVE  r \in FirstPage(ListFiles(since))
<1>. DEFINE all == ListFiles(since)
            below(x) == {y \in all : y[2].version < x[2].version}
<1>1. /\ IsFiniteSet(all) /\ s \in all /\ \A y \in all : y[2].version \in Nat
  BY ListedRows DEF FirstPage, FileRow
<1>2. IsFiniteSet(below(s))
  BY <1>1, FS_Subset
<1>3. below(r) \in SUBSET below(s)
  BY <1>1
<1>4. Cardinality(below(r)) <= Cardinality(below(s))
  BY <1>2, <1>3, FS_Subset
<1>5. Cardinality(below(r)) \in Nat /\ Cardinality(below(s)) \in Nat
  <2>1. IsFiniteSet(below(r))
    BY <1>2, <1>3, FS_Subset
  <2>. QED
    BY <1>2, <2>1, FS_CardinalityType
<1>6. Cardinality(below(s)) < Limit
  BY DEF FirstPage
<1>7. Cardinality(below(r)) < Limit
  BY <1>4, <1>5, <1>6, Bounds
<1>. QED
  BY <1>7 DEF FirstPage

(* The version a page ends with is that of one of its rows, or the one it  *)
(* was asked from.                                                         *)
LEMMA LastOfPage ==
    ASSUME TypeInv, NEW since \in Nat \cup {Full}, NEW page \in SUBSET ListFiles(since)
    PROVE  /\ LastVersion(page, since) \in Nat
           /\ page = {} => LastVersion(page, since) = IF since = Full THEN 0 ELSE since
           /\ page # {} => \E r \in page : LastVersion(page, since) = r[2].version
<1>1. page \in SUBSET (Paths \X FileRow) /\ \A r \in page : r[2].version <= MaxVersion
  BY ListedRows
<1>2. CASE page = {}
  BY <1>2 DEF LastVersion
<1>3. CASE page # {}
  <2>. DEFINE last == CHOOSE r \in page : \A s \in page : s[2].version <= r[2].version
  <2>1. \E r \in page : \A s \in page : s[2].version <= r[2].version
    BY <1>1, <1>3, HighestRow
  <2>2. last \in page
    BY <2>1
  <2>3. LastVersion(page, since) = last[2].version
    BY <1>3 DEF LastVersion
  <2>4. last[2].version \in Nat
    BY <1>1, <2>2 DEF FileRow
  <2>. QED
    BY <1>3, <2>2, <2>3, <2>4
<1>. QED
  BY <1>2, <1>3

(* handleFilesList: the page holds every listed row up to the version it   *)
(* ends with, and those it ends with are no further than the counter.      *)
LEMMA ListReadTo ==
    ASSUME TypeInv, ListRead
    PROVE  /\ pull \in Paging /\ pull' \in Paging /\ pull.pc = "auth" /\ pull'.pc = "page"
           /\ pull'.since = pull.since /\ pull'.full = pull.full /\ pull'.listed = pull.listed
           /\ pull'.failed = pull.failed /\ pull'.latest = pull.latest
           /\ pull'.page \in SUBSET ListFiles(pull.since)
           /\ \A r \in ListFiles(pull.since) : r[2].version <= pull'.next => r \in pull'.page
           /\ pull'.more \/ pull'.page = ListFiles(pull.since)
           /\ \/ pull'.next = pull.latest
              \/ pull'.next = IF pull.since = Full THEN 0 ELSE pull.since
              \/ \E r \in ListFiles(pull.since) : pull'.next = r[2].version
<1>. DEFINE all == ListFiles(pull.since)
            page == FirstPage(all)
            more == all # page
            last == LastVersion(page, pull.since)
            next == IF ~more /\ last < pull.latest THEN pull.latest ELSE last
<1>1. pull \in Paging /\ pull.pc = "auth" /\ pull.since \in Nat \cup {Full} /\ pull.latest \in Nat
  BY Shapes DEF TypeInv, TypeOK, ListRead, Paging
<1>2. all \in SUBSET (Paths \X FileRow) /\ page \in SUBSET all /\ more \in BOOLEAN
  BY ListedRows DEF FirstPage
<1>3. /\ last \in Nat
      /\ page = {} => last = IF pull.since = Full THEN 0 ELSE pull.since
      /\ page # {} => \E r \in page : last = r[2].version
  BY <1>1, <1>2, LastOfPage
<1>4. next \in Nat
  BY <1>1, <1>3
<1>5. pull' = [pull EXCEPT !.pc = "page", !.page = page, !.more = more, !.next = next]
  BY DEF ListRead
<1>6. PICK n \in Nat : n = next
  BY <1>4
<1>7. PICK g \in SUBSET (Paths \X FileRow) : g = page
  BY <1>2
<1>8. PICK m \in BOOLEAN : m = more
  BY <1>2
<1>9. pull' = [pull EXCEPT !.pc = "page", !.page = g, !.more = m, !.next = n]
  BY <1>5, <1>6, <1>7, <1>8
<1>10. /\ pull' \in Paging /\ pull'.pc = "page" /\ pull'.page = g /\ pull'.next = n
       /\ pull'.more = m
       /\ pull'.since = pull.since /\ pull'.full = pull.full /\ pull'.listed = pull.listed
       /\ pull'.failed = pull.failed /\ pull'.latest = pull.latest
  BY <1>1, <1>9 DEF Paging
<1>11. ASSUME NEW r \in all, r[2].version <= next PROVE r \in page
  <2>1. CASE ~more
    BY <2>1
  <2>2. CASE more /\ page = {}
    \* a page of at least one row leaves none out when it is empty
    <3>1. \A x \in all : x[2].version \in Nat
      BY <1>2 DEF FileRow
    <3>2. PICK x \in all : \A y \in all : x[2].version <= y[2].version
      <4>. DEFINE T == {y[2].version : y \in all}
      <4>1. T \in SUBSET Nat /\ T # {}
        BY <3>1, <1>11
      <4>2. PICK v \in T : \A w \in T : v <= w
        BY <4>1, LeastNat
      <4>. QED
        BY <4>2
    <3>3. {y \in all : y[2].version < x[2].version} = {}
      BY <3>1, <3>2
    <3>4. Cardinality({y \in all : y[2].version < x[2].version}) = 0
      BY <3>3, FS_EmptySet
    <3>5. x \in page
      BY <3>2, <3>4, Bounds DEF FirstPage
    <3>. QED
      BY <2>2, <3>5
  <2>3. CASE more /\ page # {}
    <3>1. next = last
      BY <2>3
    <3>2. PICK s \in page : last = s[2].version
      BY <1>3, <2>3
    <3>. QED
      BY <1>11, <3>1, <3>2, PageClosed
  <2>. QED
    BY <2>1, <2>2, <2>3
<1>12. \/ next = pull.latest
       \/ next = IF pull.since = Full THEN 0 ELSE pull.since
       \/ \E r \in all : next = r[2].version
  BY <1>2, <1>3
<1>. QED
  BY <1>1, <1>2, <1>6, <1>7, <1>8, <1>10, <1>11, <1>12

-------------------------------------------------------------------------------
(* What the steps do to the tables *)

(* The counters of the queue.                                              *)
SameQueue ==
    /\ writes' = writes /\ vault'.latestSeq = vault.latestSeq
    /\ vault'.ackedThroughSeq = vault.ackedThroughSeq
    /\ vault'.ackedAtVersion = vault.ackedAtVersion

(* The counters of the files.                                              *)
SameFiles ==
    /\ files' = files /\ vault'.latestVersion = vault.latestVersion
    /\ vault'.tombstoneHorizon = vault.tombstoneHorizon

(* A row at the next version.                                              *)
NewRow(p) ==
    /\ vault'.latestVersion = vault.latestVersion + 1 /\ vault'.latestVersion <= MaxVersion
    /\ vault'.tombstoneHorizon = vault.tombstoneHorizon
    /\ files'[p].version = vault'.latestVersion
    /\ files'[p] = LiveRow(vault'.latestVersion, vault'.latestVersion, 1)
         \/ files'[p] = Tombstone(vault'.latestVersion)
    /\ \A q \in Paths \ {p} : files'[q] = files[q]

(* Nothing of the tables changes.                                          *)
LEMMA SameStore == ASSUME UNCHANGED storeVars PROVE SameQueue /\ SameFiles
BY DEF storeVars, SameQueue, SameFiles

(* A post leaves the files alone, and the write is in the queue after it.  *)
LEMMA PostTo ==
    ASSUME StoreTypeOK, NEW c \in ClientIds, Post(c)
    PROVE  /\ StoreTypeOK' /\ SameFiles /\ vault'.ackedThroughSeq = vault.ackedThroughSeq
           /\ vault'.ackedAtVersion = vault.ackedAtVersion
           /\ \/ /\ \A w \in writes : w.client # c
                 /\ vault'.latestSeq = vault.latestSeq + 1
                 /\ writes' = writes \cup
                       {[seq |-> vault.latestSeq + 1, client |-> c, acked |-> FALSE]}
              \/ SameQueue /\ \E w \in writes : w.client = c
           /\ SeqAfterPost(c) \in Nat
           /\ \E w \in writes' : w.client = c /\ w.seq = SeqAfterPost(c)
<1>1. CASE EnqueueWrite(c)
  <2>1. StoreTypeOK'
    BY <1>1, EnqueueType
  <2>2. \E w \in writes' : w.client = c
    <3>. DEFINE new == [seq |-> vault.latestSeq + 1, client |-> c, acked |-> FALSE]
    <3>1. new \in writes' /\ new.client = c
      BY <1>1 DEF EnqueueWrite
    <3>. QED
      BY <3>1
  <2>3. SeqAfterPost(c) \in Nat /\ \E w \in writes' : w.client = c /\ w.seq = SeqAfterPost(c)
    BY <2>1, <2>2 DEF SeqAfterPost, StoreTypeOK, QueuedWrite
  <2>4. /\ \A w \in writes : w.client # c
        /\ writes' = writes \cup {[seq |-> vault.latestSeq + 1, client |-> c, acked |-> FALSE]}
        /\ vault'.latestSeq = vault.latestSeq + 1
        /\ vault'.ackedThroughSeq = vault.ackedThroughSeq
        /\ vault'.ackedAtVersion = vault.ackedAtVersion
        /\ SameFiles
    BY <1>1 DEF EnqueueWrite, StoreTypeOK, VaultRow, SameFiles
  <2>. QED
    BY <2>1, <2>3, <2>4
<1>2. CASE (\E w \in writes : w.client = c) /\ UNCHANGED storeVars
  <2>1. StoreTypeOK'
    BY <1>2 DEF StoreTypeOK, storeVars
  <2>2. \E w \in writes' : w.client = c
    BY <1>2 DEF storeVars
  <2>3. SeqAfterPost(c) \in Nat /\ \E w \in writes' : w.client = c /\ w.seq = SeqAfterPost(c)
    BY <2>1, <2>2 DEF SeqAfterPost, StoreTypeOK, QueuedWrite
  <2>. QED
    BY <1>2, <2>1, <2>3, SameStore DEF SameQueue
<1>. QED
  BY <1>1, <1>2 DEF Post

(* The desk uploads a note, tombstones it, or finds nothing to do.         *)
LEMMA UploadTo ==
    ASSUME TypeInv, NEW p \in Paths, DeskUpload(p)
    PROVE  /\ StoreTypeOK' /\ SameQueue /\ contents' \in [0..MaxVersion -> SUBSET ClientIds]
           /\ changed' \in [Paths -> Nat]
           /\ \/ SameFiles /\ changed' = changed
              \/ /\ NewRow(p) /\ changed'[p] = vault'.latestVersion
                 /\ \A q \in Paths \ {p} : changed'[q] = changed[q]
<1>1. /\ StoreTypeOK /\ vault \in VaultRow /\ vault.latestVersion \in Nat
      /\ files \in [Paths -> FileRow] /\ files[p].version \in Nat
      /\ changed \in [Paths -> Nat]
  BY DEF TypeInv, TypeOK, StoreTypeOK, VaultRow, FileRow
<1>2. contents \in [0..MaxVersion -> SUBSET ClientIds] /\ note[p].effects \in SUBSET ClientIds
  BY DEF TypeInv, TypeOK, Note
<1>3. files[p].version <= vault.latestVersion
  BY DEF TypeInv, Versions
<1>. DEFINE new == vault.latestVersion + 1
<1>4. new \in Nat
  BY <1>1
<1>5. ASSUME StoreTypeOK', NewRow(p), vault'.latestVersion = new
      PROVE  /\ changed' \in [Paths -> Nat] /\ changed'[p] = vault'.latestVersion
             /\ \A q \in Paths \ {p} : changed'[q] = changed[q]
  <2>1. files'[p].version = new
    BY <1>5 DEF NewRow
  <2>2. files'[p] # files[p]
    BY <1>1, <1>3, <2>1
  <2>3. changed' = [changed EXCEPT ![p] = files'[p].version]
    BY <2>2 DEF DeskUpload
  <2>. QED
    BY <1>1, <1>4, <1>5, <2>1, <2>3
<1>6. CASE note[p].present
  <2>1. PublishFile(p, new, 1) /\ UNCHANGED <<pending_uploads, writes, phone, pairing>>
    BY <1>6 DEF DeskUpload
  <2>2. PICK one \in Nat : one = 1
    OBVIOUS
  <2>3. /\ vault' \in VaultRow /\ files' \in [Paths -> FileRow] /\ vault.latestVersion < MaxVersion
        /\ vault' = [vault EXCEPT !.latestVersion = new,
                                  !.bytesUsed = vault.bytesUsed - files[p].size + 1]
        /\ files'[p] = LiveRow(new, new, 1)
        /\ \A q \in Paths \ {p} : files'[q] = files[q]
    <3>1. StoreTypeOK /\ PublishFile(p, new, one)
      BY <1>1, <2>1, <2>2
    <3>2. /\ vault' \in VaultRow /\ files' \in [Paths -> FileRow]
          /\ vault.latestVersion < MaxVersion
          /\ vault' = [vault EXCEPT !.latestVersion = new,
                                    !.bytesUsed = vault.bytesUsed - files[p].size + one]
          /\ files'[p] = LiveRow(new, new, one)
          /\ \A q \in Paths \ {p} : files'[q] = files[q]
      BY <1>4, <3>1, PublishRows
    <3>. QED
      BY <2>2, <3>2
  <2>4. new <= MaxVersion /\ new \in 0..MaxVersion
    BY <1>1, <2>3, Bounds
  <2>5. StoreTypeOK'
    BY <1>1, <2>1, <2>3 DEF StoreTypeOK
  <2>6. /\ vault'.latestVersion = new /\ vault'.tombstoneHorizon = vault.tombstoneHorizon
        /\ vault'.latestSeq = vault.latestSeq /\ vault'.ackedThroughSeq = vault.ackedThroughSeq
        /\ vault'.ackedAtVersion = vault.ackedAtVersion
    BY <1>1, <2>3 DEF VaultRow
  <2>7. SameQueue
    BY <2>1, <2>6 DEF SameQueue
  <2>8. NewRow(p)
    BY <2>3, <2>4, <2>6 DEF NewRow, LiveRow
  <2>9. contents' \in [0..MaxVersion -> SUBSET ClientIds]
    BY <1>2, <1>6, <2>4 DEF DeskUpload
  <2>. QED
    BY <1>5, <2>5, <2>6, <2>7, <2>8, <2>9
<1>7. CASE ~note[p].present /\ TombstoneFile(p, files[p].version)
  <2>1. StoreTypeOK'
    BY <1>1, <1>7, TombstoneType
  <2>2. /\ vault.latestVersion < MaxVersion
        /\ vault' = [vault EXCEPT !.latestVersion = new,
                                  !.bytesUsed = vault.bytesUsed - files[p].size]
        /\ files' = [files EXCEPT ![p] = Tombstone(new)]
        /\ UNCHANGED writes
    BY <1>7 DEF TombstoneFile
  <2>3. /\ vault'.latestVersion = new /\ vault'.tombstoneHorizon = vault.tombstoneHorizon
        /\ vault'.latestSeq = vault.latestSeq /\ vault'.ackedThroughSeq = vault.ackedThroughSeq
        /\ vault'.ackedAtVersion = vault.ackedAtVersion
    BY <1>1, <2>2 DEF VaultRow
  <2>4. new <= MaxVersion
    BY <1>1, <2>2, Bounds
  <2>5. SameQueue
    BY <2>2, <2>3 DEF SameQueue
  <2>6. NewRow(p)
    BY <1>1, <2>2, <2>3, <2>4 DEF NewRow, Tombstone
  <2>7. contents' = contents
    BY <1>7 DEF DeskUpload
  <2>. QED
    BY <1>2, <1>5, <2>1, <2>3, <2>5, <2>6, <2>7
<1>8. CASE ~note[p].present /\ UNCHANGED storeVars
  <2>1. SameQueue /\ SameFiles /\ StoreTypeOK' /\ files' = files
    BY <1>1, <1>8, SameStore DEF storeVars, StoreTypeOK
  <2>2. changed' = changed
    BY <1>1, <2>1 DEF DeskUpload
  <2>3. contents' = contents
    BY <1>8 DEF DeskUpload
  <2>. QED
    BY <1>1, <1>2, <2>1, <2>2, <2>3
<1>. QED
  BY <1>6, <1>7, <1>8 DEF DeskUpload

(* The ack moves the queue's counter and marks the writes it covers.       *)
LEMMA AckTo ==
    ASSUME TypeInv, DeskAck
    PROVE  /\ StoreTypeOK' /\ SameFiles /\ taken \in Nat
           /\ taken <= vault.latestSeq /\ vault'.latestSeq = vault.latestSeq
           /\ vault.ackedThroughSeq < taken /\ vault'.ackedThroughSeq = taken
           /\ vault'.ackedAtVersion = vault.latestVersion
           /\ writes' = {[w EXCEPT !.acked = w.acked \/ w.seq <= taken] : w \in writes}
<1>1. StoreTypeOK /\ vault \in VaultRow /\ taken \in Nat
  BY DEF TypeInv, TypeOK, StoreTypeOK
<1>2. AckWrites(taken)
  BY DEF DeskAck
<1>3. StoreTypeOK'
  BY <1>1, <1>2, AckType
<1>4. /\ files' = files /\ taken <= vault.latestSeq /\ vault.ackedThroughSeq < taken
      /\ vault' = [vault EXCEPT !.ackedThroughSeq = taken, !.ackedAtVersion = vault.latestVersion]
      /\ writes' = {[w EXCEPT !.acked = w.acked \/ w.seq <= taken] : w \in writes}
  BY <1>1, <1>2 DEF AckWrites, VaultRow
<1>. QED
  BY <1>1, <1>3, <1>4 DEF SameFiles, VaultRow

(* The sweeper forgets one tombstone, and the horizon passes it.           *)
LEMMA SweepTo ==
    ASSUME TypeInv, NEW p \in Paths, SweepTombstone(p)
    PROVE  /\ StoreTypeOK' /\ SameQueue /\ vault'.latestVersion = vault.latestVersion
           /\ vault'.tombstoneHorizon \in {vault.tombstoneHorizon, files[p].version}
           /\ vault.tombstoneHorizon <= vault'.tombstoneHorizon
           /\ files[p].version <= vault'.tombstoneHorizon
           /\ files[p].deleted /\ files'[p] = NoRow /\ \A q \in Paths \ {p} : files'[q] = files[q]
<1>1. StoreTypeOK /\ vault \in VaultRow /\ files \in [Paths -> FileRow]
  BY DEF TypeInv, TypeOK, StoreTypeOK
<1>2. Sweep({}, {p}, {}, FALSE) /\ files[p].deleted
  BY DEF SweepTombstone, Tombstones
<1>3. StoreTypeOK'
  BY <1>1, <1>2, SweepType
<1>4. PICK h \in {vault.tombstoneHorizon, files[p].version} :
          /\ vault.tombstoneHorizon <= h /\ files[p].version <= h
          /\ vault' = [vault EXCEPT !.tombstoneHorizon = h]
  BY <1>2 DEF Sweep
<1>5. /\ files' = [q \in Paths |-> IF q \in {p} THEN NoRow ELSE files[q]] /\ writes' = writes
  BY <1>2 DEF Sweep
<1>6. /\ vault'.tombstoneHorizon = h /\ vault'.latestVersion = vault.latestVersion
      /\ vault'.latestSeq = vault.latestSeq /\ vault'.ackedThroughSeq = vault.ackedThroughSeq
      /\ vault'.ackedAtVersion = vault.ackedAtVersion
  BY <1>1, <1>4 DEF VaultRow
<1>. QED
  BY <1>2, <1>3, <1>4, <1>5, <1>6 DEF SameQueue

-------------------------------------------------------------------------------
(* Types *)

(* The parts of the types, for the steps that touch one of them.           *)
PhoneTypes(rs, box, ids, last, seqs, docs, cur, again) ==
    /\ rs \in [Paths -> Row] /\ box \subseteq ClientIds
    /\ ids \in [ClientIds -> Nat] /\ last \in Nat /\ seqs \in [ClientIds -> Nat]
    /\ docs \in [ClientIds -> Docs] /\ cur \in Nat /\ again \subseteq Paths

DeskTypes(n, d, t, seq, res) ==
    /\ n \in [Paths -> Note] /\ d \subseteq Paths /\ t \subseteq Paths /\ seq \in Nat
    /\ res \in [ClientIds -> {"waiting", "applied", "noop", "refused"}]

HistoryTypes(texts, at, gaps, left, e, f) ==
    /\ texts \in [0..MaxVersion -> SUBSET ClientIds] /\ at \in [Paths -> Nat]
    /\ gaps \subseteq Paths /\ left \subseteq ClientIds
    /\ e \in 0..MaxEdits /\ f \in 0..MaxFaults

(* The parts make up TypeOK.                                               *)
LEMMA TypeParts ==
    TypeOK <=> /\ StoreTypeOK /\ pull \in Pull
               /\ PhoneTypes(rows, outbox, localId, lastId, seqOf, doc, cursor, refetch)
               /\ DeskTypes(note, dirty, touched, taken, result)
               /\ HistoryTypes(contents, changed, missed, parted, edits, faults)
BY DEF TypeOK, PhoneTypes, DeskTypes, HistoryTypes

(* ... after a step as before it.                                          *)
LEMMA TypePartsNext ==
    ASSUME StoreTypeOK', pull' \in Pull,
           PhoneTypes(rows', outbox', localId', lastId', seqOf', doc', cursor', refetch'),
           DeskTypes(note', dirty', touched', taken', result'),
           HistoryTypes(contents', changed', missed', parted', edits', faults')
    PROVE  TypeOK'
BY DEF TypeOK, PhoneTypes, DeskTypes, HistoryTypes

(* The blobs after a step that leaves the table's rows alone.              *)
LEMMA SameVersions ==
    ASSUME TypeInv, SameFiles, \A p \in Paths : rows'[p].blob <= MaxVersion,
           pull'.pc = "page" => \A r \in pull'.page : r[2].blob <= MaxVersion
    PROVE  BlobsKnown' /\ Versions'
BY DEF TypeInv, BlobsKnown, Versions, SameFiles

(* A fault that was still allowed is within its bound.                     *)
LEMMA FaultCount ==
    ASSUME TypeInv, faults < MaxFaults, faults' = faults + 1 PROVE faults' \in 0..MaxFaults
<1>1. faults \in 0..MaxFaults
  BY DEF TypeInv, TypeOK
<1>. QED
  BY <1>1, Bounds

(* A step of the round that moves nothing but the round.                   *)
LEMMA RoundType ==
    ASSUME TypeInv, pull' \in Pull,
           UNCHANGED <<storeVars, phoneVars, deskVars, historyVars, edits>>,
           faults' \in 0..MaxFaults,
           pull'.pc = "page" => \A r \in pull'.page : r[2].blob <= MaxVersion
    PROVE  TypeInv'
<1>. USE DEF phoneVars, outboxVars, deskVars, historyVars
<1>1. SameFiles /\ StoreTypeOK'
  BY SameStore DEF TypeInv, TypeOK, StoreTypeOK, storeVars
<1>2. TypeOK'
  <2>1. PhoneTypes(rows', outbox', localId', lastId', seqOf', doc', cursor', refetch')
    BY TypeParts DEF TypeInv
  <2>2. DeskTypes(note', dirty', touched', taken', result')
    BY TypeParts DEF TypeInv
  <2>3. HistoryTypes(contents', changed', missed', parted', edits', faults')
    BY TypeParts DEF TypeInv, HistoryTypes
  <2>. QED
    BY <1>1, <2>1, <2>2, <2>3, TypePartsNext
<1>3. \A p \in Paths : rows'[p].blob <= MaxVersion
  BY DEF TypeInv, BlobsKnown
<1>. QED
  BY <1>1, <1>2, <1>3, SameVersions DEF TypeInv

(* A step of the round that writes the phone's tables and history.         *)
LEMMA StoreType ==
    ASSUME TypeInv, StoreTypeOK', SameFiles, pull' \in Pull,
           PhoneTypes(rows', outbox', localId', lastId', seqOf', doc', cursor', refetch'),
           \A p \in Paths : rows'[p].blob <= MaxVersion,
           UNCHANGED <<note, dirty, touched, taken>>,
           result' \in [ClientIds -> {"waiting", "applied", "noop", "refused"}],
           missed' \subseteq Paths, UNCHANGED <<contents, changed, parted, edits>>,
           faults' \in 0..MaxFaults,
           pull'.pc = "page" => \A r \in pull'.page : r[2].blob <= MaxVersion
    PROVE  TypeInv'
<1>1. DeskTypes(note', dirty', touched', taken', result')
  BY TypeParts DEF TypeInv, DeskTypes
<1>2. HistoryTypes(contents', changed', missed', parted', edits', faults')
  BY TypeParts DEF TypeInv, HistoryTypes
<1>. QED
  BY <1>1, <1>2, TypePartsNext, SameVersions DEF TypeInv

(* The user's changes on the phone.                                        *)
LEMMA RecordType ==
    ASSUME TypeInv, NEW p \in Paths, NEW q \in Paths, NEW c \in ClientIds,
           RecordText(p, c) \/ RecordMove(p, q, c)
    PROVE  /\ TypeInv' /\ UNCHANGED <<storeVars, cursor, refetch, pull, changed>>
           /\ RecordText(p, c) => missed' = missed /\ \A x \in Paths : rows'[x].blob = rows[x].blob
           /\ RecordMove(p, q, c) => /\ missed' = missed \cup {p, q}
                                     /\ \A x \in Paths \ {p, q} : rows'[x] = rows[x]
<1>1. /\ PhoneTypes(rows, outbox, localId, lastId, seqOf, doc, cursor, refetch)
      /\ StoreTypeOK /\ pull \in Pull /\ faults \in 0..MaxFaults /\ missed \subseteq Paths
      /\ result \in [ClientIds -> {"waiting", "applied", "noop", "refused"}]
  BY TypeParts DEF TypeInv, HistoryTypes, DeskTypes
<1>2. rows \in [Paths -> Row] /\ \A x \in Paths : rows[x].blob <= MaxVersion
  BY <1>1 DEF TypeInv, BlobsKnown, PhoneTypes
<1>3. pull.pc = "page" => \A r \in pull.page : r[2].blob <= MaxVersion
  BY DEF TypeInv, BlobsKnown
<1>4. ASSUME NEW d \in Docs, Enlist(c, d), rows' \in [Paths -> Row], cursor' = cursor,
             refetch' = refetch
      PROVE  PhoneTypes(rows', outbox', localId', lastId', seqOf', doc', cursor', refetch')
  BY <1>1, <1>4 DEF PhoneTypes, Enlist
<1>5. CASE RecordText(p, c)
  <2>1. rows' = [rows EXCEPT ![p].present = TRUE, ![p].effects = @ \cup {c}]
    BY <1>5 DEF RecordText
  <2>2. rows' \in [Paths -> Row] /\ \A x \in Paths : rows'[x].blob = rows[x].blob
    BY <1>2, <2>1 DEF Row
  <2>3. /\ Text(p) \in Docs /\ Enlist(c, Text(p))
        /\ UNCHANGED <<storeVars, cursor, refetch, pull, deskVars, historyVars, edits, faults>>
    BY <1>5 DEF RecordText, Docs
  <2>4. PhoneTypes(rows', outbox', localId', lastId', seqOf', doc', cursor', refetch')
    BY <1>4, <2>2, <2>3
  <2>5. StoreTypeOK' /\ SameFiles
    BY <1>1, <2>3, SameStore DEF StoreTypeOK, storeVars
  <2>6. TypeInv'
    BY <1>1, <1>2, <1>3, <2>2, <2>3, <2>4, <2>5, StoreType DEF deskVars, historyVars
  <2>7. ~RecordMove(p, q, c) \/ \A x \in Paths \ {p, q} : rows'[x] = rows[x]
    BY <1>2, <2>1
  <2>8. RecordMove(p, q, c) => missed' = missed \cup {p, q}
    BY DEF RecordMove
  <2>. QED
    BY <2>2, <2>3, <2>6, <2>7, <2>8 DEF historyVars
<1>6. CASE RecordMove(p, q, c)
  <2>1. PICK s \in Row : s = [rows[p] EXCEPT !.blob = NoBlob] /\ s.blob = NoBlob
    <3>1. rows[p] \in Row /\ NoBlob \in Nat
      BY <1>2 DEF NoBlob
    <3>2. ASSUME NEW o \in Row, NEW b \in Nat
          PROVE  [o EXCEPT !.blob = b] \in Row /\ [o EXCEPT !.blob = b].blob = b
      BY DEF Row
    <3>. QED
      BY <3>1, <3>2
  <2>2. Absent \in Row /\ Absent.blob = NoBlob
    BY DEF Absent, Row, NoBlob
  <2>3. rows' = [rows EXCEPT ![q] = s, ![p] = Absent]
    BY <1>6, <2>1 DEF RecordMove
  <2>4. /\ rows' \in [Paths -> Row] /\ \A x \in Paths : rows'[x].blob <= MaxVersion
        /\ \A x \in Paths \ {p, q} : rows'[x] = rows[x]
    <3>1. NoBlob <= MaxVersion
      BY Bounds DEF NoBlob
    <3>. QED
      BY <1>2, <2>1, <2>2, <2>3, <3>1
  <2>5. /\ Move(p, q) \in Docs /\ Enlist(c, Move(p, q))
        /\ UNCHANGED <<storeVars, cursor, refetch, pull, deskVars, contents, changed, parted,
                       edits, faults>>
        /\ missed' = missed \cup {p, q}
    BY <1>6 DEF RecordMove, Docs
  <2>6. PhoneTypes(rows', outbox', localId', lastId', seqOf', doc', cursor', refetch')
    BY <1>4, <2>4, <2>5
  <2>7. StoreTypeOK' /\ SameFiles
    BY <1>1, <2>5, SameStore DEF StoreTypeOK, storeVars
  <2>8. TypeInv'
    BY <1>1, <1>3, <2>4, <2>5, <2>6, <2>7, StoreType DEF deskVars
  <2>9. RecordText(p, c) => missed' = missed /\ \A x \in Paths : rows'[x].blob = rows[x].blob
    BY <1>2 DEF RecordText, historyVars, Row
  <2>. QED
    BY <2>4, <2>5, <2>8, <2>9
<1>. QED
  BY <1>5, <1>6

(* The round begins, the batch is through, and the pages of a pull.        *)
LEMMA PullType ==
    ASSUME TypeInv, StartRound \/ EndFlush \/ ListAuth \/ ListRead \/ NextPage PROVE TypeInv'
<1>1. TypeOK /\ faults \in 0..MaxFaults /\ outbox \subseteq ClientIds /\ cursor \in Nat
  BY TypeParts DEF TypeInv, HistoryTypes, PhoneTypes
<1>2. CASE StartRound
  <2>1. pull' \in Flushing
    BY <1>1, <1>2 DEF StartRound, Flushing
  <2>. QED
    BY <1>1, <1>2, <2>1, RoundType, ShapesOfPull DEF StartRound, Flushing
<1>3. CASE EndFlush
  <2>1. PICK since \in Nat \cup {Full} : pull' = ListFrom(since)
    BY <1>1, <1>3 DEF EndFlush
  <2>2. pull' \in Paging /\ pull'.pc = "list"
    BY <2>1, ListFromTo
  <2>. QED
    BY <1>1, <1>3, <2>2, RoundType, ShapesOfPull DEF EndFlush
<1>4. CASE ListAuth
  BY <1>1, <1>4, ListAuthTo, RoundType, ShapesOfPull DEF ListAuth
<1>5. CASE ListRead
  <2>1. /\ pull' \in Paging /\ pull'.page \in SUBSET ListFiles(pull.since)
    BY <1>5, ListReadTo
  <2>2. \A r \in pull'.page : r[1] \in Paths /\ r[2] = files[r[1]]
    <3>1. \A r \in ListFiles(pull.since) : r[1] \in Paths /\ r[2] = files[r[1]]
      BY DEF ListFiles
    <3>. QED
      BY <2>1, <3>1
  <2>3. \A r \in pull'.page : r[2].blob <= MaxVersion
    BY <2>2 DEF TypeInv, BlobsKnown
  <2>. QED
    BY <1>1, <1>5, <2>1, <2>3, RoundType, ShapesOfPull DEF ListRead
<1>6. CASE NextPage
  <2>1. pull \in Paging
    BY <1>1, <1>6, Shapes DEF NextPage, TypeOK
  <2>2. pull' \in Paging /\ pull'.pc = "list"
    BY <1>6, <2>1 DEF NextPage, Paging
  <2>. QED
    BY <1>1, <1>6, <2>2, RoundType, ShapesOfPull DEF NextPage
<1>. QED
  BY <1>2, <1>3, <1>4, <1>5, <1>6

(* The rows of a page are taken.                                           *)
LEMMA TakeType ==
    ASSUME TypeInv, NEW r, TakeKnown(r) \/ TakeSnapshot(r) \/ TakeFailed(r) PROVE TypeInv'
<1>1. /\ TypeOK /\ StoreTypeOK /\ faults \in 0..MaxFaults /\ missed \subseteq Paths
      /\ PhoneTypes(rows, outbox, localId, lastId, seqOf, doc, cursor, refetch)
      /\ result \in [ClientIds -> {"waiting", "applied", "noop", "refused"}]
  BY TypeParts DEF TypeInv, HistoryTypes, DeskTypes
<1>2. ASSUME NEW list, NEW fail, Taken(r, list, fail)
      PROVE  pull' \in Pull /\ \A x \in pull'.page : x[2].blob <= MaxVersion
  BY <1>2, ShapesOfPull DEF Taken, TypeInv, BlobsKnown
<1>3. CASE TakeKnown(r) \/ TakeSnapshot(r)
  <2>1. /\ rows' \in [Paths -> Row] /\ \A p \in Paths : rows'[p].blob <= MaxVersion
        /\ pull' \in Pull /\ \A x \in pull'.page : x[2].blob <= MaxVersion
    BY <1>2, <1>3, TakeKnownTo, TakeSnapshotTo
  <2>2. /\ UNCHANGED <<storeVars, outboxVars, cursor, refetch, deskVars, contents, changed,
                       parted, edits, faults>>
        /\ missed' = missed \ {r[1]}
    BY <1>3 DEF TakeKnown, TakeSnapshot
  <2>3. PhoneTypes(rows', outbox', localId', lastId', seqOf', doc', cursor', refetch')
    BY <1>1, <2>1, <2>2 DEF PhoneTypes, outboxVars
  <2>4. StoreTypeOK' /\ SameFiles
    BY <1>1, <2>2, SameStore DEF StoreTypeOK, storeVars
  <2>. QED
    BY <1>1, <2>1, <2>2, <2>3, <2>4, StoreType DEF deskVars
<1>4. CASE TakeFailed(r)
  <2>1. pull' \in Pull /\ \A x \in pull'.page : x[2].blob <= MaxVersion
    BY <1>2, <1>4, TakeFailedTo
  <2>2. faults' \in 0..MaxFaults
    BY <1>1, <1>4, FaultCount DEF TakeFailed
  <2>. QED
    BY <1>4, <2>1, <2>2, RoundType DEF TakeFailed
<1>. QED
  BY <1>3, <1>4

(* The end of a pull: what is not listed goes after a full one.            *)
LEMMA SaveCursorTo ==
    ASSUME TypeInv, SaveCursor
    PROVE  /\ pull \in Paging /\ pull.pc = "page" /\ pull.page = {}
           /\ pull' \in Remembering /\ pull'.pc = "remember" /\ pull'.failed = pull.failed
           /\ cursor' = pull.next /\ rows' \in [Paths -> Row]
           /\ \A p \in Paths : /\ rows'[p].blob <= MaxVersion
                               /\ pull.full /\ p \notin pull.listed => rows'[p].blob = NoBlob
                               /\ ~pull.full \/ p \in pull.listed => rows'[p] = rows[p]
<1>1. TypeOK /\ rows \in [Paths -> Row] /\ outbox \in SUBSET ClientIds
  BY TypeParts DEF TypeInv, PhoneTypes
<1>2. pull \in Paging /\ pull.pc = "page" /\ pull.page = {} /\ cursor' = pull.next
  BY <1>1, Shapes DEF SaveCursor, TypeOK
<1>3. pull' \in Remembering /\ pull'.pc = "remember" /\ pull'.failed = pull.failed
  BY <1>2 DEF SaveCursor, Remembering, Paging
<1>4. NoBlob \in Nat /\ NoBlob <= MaxVersion
  BY Bounds DEF NoBlob
<1>5. \A p \in Paths : rows[p].blob <= MaxVersion
  BY DEF TypeInv, BlobsKnown
<1>6. ASSUME NEW p \in Paths
      PROVE  /\ rows'[p] \in Row /\ rows'[p].blob <= MaxVersion
             /\ pull.full /\ p \notin pull.listed => rows'[p].blob = NoBlob
             /\ ~pull.full \/ p \in pull.listed => rows'[p] = rows[p]
  <2>1. Stored(p, NoBlob, outbox) \in Row /\ Stored(p, NoBlob, outbox).blob = NoBlob
    BY <1>1, <1>4, StoredRow
  <2>2. rows'[p] = IF pull.full /\ p \notin pull.listed THEN Stored(p, NoBlob, outbox) ELSE rows[p]
    BY DEF SaveCursor
  <2>. QED
    BY <1>1, <1>4, <1>5, <2>1, <2>2
<1>7. rows' \in [Paths -> Row]
  <2>1. rows' = [p \in Paths |-> rows'[p]]
    BY DEF SaveCursor
  <2>. QED
    BY <1>6, <2>1
<1>. QED
  BY <1>2, <1>3, <1>6, <1>7

(* The cursor is saved, then the notes to fetch again.                     *)
LEMMA SaveType ==
    ASSUME TypeInv, SaveCursor \/ SaveRefetch PROVE TypeInv'
<1>1. /\ TypeOK /\ StoreTypeOK /\ faults \in 0..MaxFaults /\ missed \subseteq Paths
      /\ PhoneTypes(rows, outbox, localId, lastId, seqOf, doc, cursor, refetch)
      /\ result \in [ClientIds -> {"waiting", "applied", "noop", "refused"}]
  BY TypeParts DEF TypeInv, HistoryTypes, DeskTypes
<1>2. \A p \in Paths : rows[p].blob <= MaxVersion
  BY DEF TypeInv, BlobsKnown
<1>3. StoreTypeOK' /\ SameFiles
  BY <1>1, SameStore DEF StoreTypeOK, storeVars, SaveCursor, SaveRefetch
<1>4. CASE SaveCursor
  <2>1. /\ pull \in Paging /\ pull' \in Remembering /\ pull'.pc = "remember"
        /\ cursor' = pull.next /\ rows' \in [Paths -> Row]
        /\ \A p \in Paths : rows'[p].blob <= MaxVersion
    BY <1>4, SaveCursorTo
  <2>2. PhoneTypes(rows', outbox', localId', lastId', seqOf', doc', cursor', refetch')
    BY <1>1, <1>4, <2>1 DEF SaveCursor, PhoneTypes, outboxVars, Paging
  <2>3. missed' \subseteq Paths
    BY <1>1, <1>4 DEF SaveCursor
  <2>. QED
    BY <1>1, <1>3, <1>4, <2>1, <2>2, <2>3, StoreType, ShapesOfPull DEF SaveCursor, deskVars
<1>5. CASE SaveRefetch
  <2>1. pull \in Remembering
    BY <1>1, <1>5, Shapes DEF SaveRefetch, TypeOK
  <2>2. pull' \in [pc: {"vault"}]
    BY <1>5 DEF SaveRefetch
  <2>3. PhoneTypes(rows', outbox', localId', lastId', seqOf', doc', cursor', refetch')
    BY <1>1, <1>5, <2>1 DEF SaveRefetch, PhoneTypes, outboxVars, Remembering
  <2>4. /\ UNCHANGED <<note, dirty, touched, taken, result, contents, changed, missed, parted,
                       edits, faults>>
        /\ rows' = rows
    BY <1>5 DEF SaveRefetch, deskVars, historyVars
  <2>5. pull' \in Pull /\ pull'.pc # "page"
    BY <2>2, ShapesOfPull
  <2>. QED
    BY <1>1, <1>2, <1>3, <2>3, <2>4, <2>5, StoreType
<1>. QED
  BY <1>4, <1>5

(* The rest of a batch.                                                    *)
LEMMA RestOfBatch ==
    ASSUME TypeInv, pull.pc = "flush", NEW c \in pull.batch, pull' = [pull EXCEPT !.batch = @ \ {c}]
    PROVE  /\ c \in ClientIds /\ pull' \in Flushing /\ pull' \in Pull /\ pull'.pc = "flush"
           /\ pull'.batch = pull.batch \ {c}
<1>1. pull \in Flushing
  BY Shapes DEF TypeInv, TypeOK
<1>. QED
  BY <1>1, ShapesOfPull DEF Flushing

(* A note is stored again with the blob it has.                            *)
LEMMA StoredAgain ==
    ASSUME TypeInv, NEW box \in SUBSET ClientIds, NEW p \in Paths
    PROVE  /\ Stored(p, rows[p].blob, box) \in Row
           /\ Stored(p, rows[p].blob, box).blob = rows[p].blob
<1>1. TypeOK /\ rows[p].blob \in Nat /\ rows[p].blob <= MaxVersion
  BY TypeParts DEF TypeInv, PhoneTypes, BlobsKnown, Row
<1>. QED
  BY <1>1, StoredRow

(* The service refuses a write: its note is stored again without it.       *)
LEMMA RefusedTo ==
    ASSUME TypeInv, FlushRefused
    PROVE  /\ rows' \in [Paths -> Row] /\ \A p \in Paths : rows'[p].blob = rows[p].blob
           /\ \E c \in pull.batch :
                /\ c \in ClientIds /\ First(c) /\ \A w \in writes : w.client # c
                /\ outbox' = outbox \ {c} /\ result' = [result EXCEPT ![c] = "refused"]
                /\ pull' \in Flushing /\ pull'.pc = "flush" /\ pull'.batch = pull.batch \ {c}
<1>1. PICK c \in pull.batch :
         /\ First(c) /\ \A w \in writes : w.client # c
         /\ outbox' = outbox \ {c}
         /\ rows' = [rows EXCEPT ![doc[c].path] = Stored(doc[c].path, @.blob, outbox \ {c})]
         /\ result' = [result EXCEPT ![c] = "refused"]
         /\ pull' = [pull EXCEPT !.batch = @ \ {c}]
  BY DEF FlushRefused
<1>2. /\ c \in ClientIds /\ pull' \in Flushing /\ pull'.pc = "flush"
      /\ pull'.batch = pull.batch \ {c}
  BY <1>1, RestOfBatch DEF FlushRefused
<1>3. rows \in [Paths -> Row] /\ outbox \ {c} \in SUBSET ClientIds
  BY TypeParts DEF TypeInv, PhoneTypes
<1>. DEFINE p == doc[c].path
<1>4. rows' \in [Paths -> Row] /\ \A x \in Paths : rows'[x].blob = rows[x].blob
  <2>1. CASE p \in Paths
    <3>1. PICK t \in Row : t = Stored(p, rows[p].blob, outbox \ {c}) /\ t.blob = rows[p].blob
      BY <1>3, <2>1, StoredAgain
    <3>2. rows' = [rows EXCEPT ![p] = t]
      BY <1>1, <3>1
    <3>. QED
      BY <1>3, <2>1, <3>1, <3>2
  <2>2. CASE p \notin Paths
    <3>1. rows' = rows
      BY <1>1, <1>3, <2>2
    <3>. QED
      BY <1>3, <3>1
  <2>. QED
    BY <2>1, <2>2
<1>. QED
  BY <1>1, <1>2, <1>4

(* The notes of the writes that prune drops are stored again without them. *)
LEMMA PruneTo ==
    ASSUME TypeInv, Prune
    PROVE  /\ rows' \in [Paths -> Row] /\ \A p \in Paths : rows'[p].blob = rows[p].blob
           /\ outbox' = {c \in outbox : ~Prunable(c)} /\ pull' = Idle
<1>. DEFINE kept == {c \in outbox : ~Prunable(c)}
            paths == {doc[c].path : c \in outbox \ kept}
<1>1. /\ outbox' = kept /\ pull' = Idle
      /\ rows' = [p \in Paths |-> IF p \in paths THEN Stored(p, rows[p].blob, kept) ELSE rows[p]]
  BY DEF Prune
<1>2. rows \in [Paths -> Row] /\ kept \in SUBSET ClientIds
  BY TypeParts DEF TypeInv, PhoneTypes
<1>3. ASSUME NEW p \in Paths PROVE rows'[p] \in Row /\ rows'[p].blob = rows[p].blob
  <2>1. CASE p \in paths
    <3>1. rows'[p] = Stored(p, rows[p].blob, kept)
      BY <1>1, <2>1
    <3>. QED
      BY <1>2, <3>1, StoredAgain
  <2>2. CASE p \notin paths
    BY <1>1, <1>2, <2>2
  <2>. QED
    BY <2>1, <2>2
<1>4. rows' \in [Paths -> Row]
  <2>1. rows' = [p \in Paths |-> rows'[p]]
    BY <1>1
  <2>. QED
    BY <1>3, <2>1
<1>. QED
  BY <1>1, <1>3, <1>4

(* Sending the batch, pruning, and a round that ends early.                *)
LEMMA FlushType ==
    ASSUME TypeInv, FlushOne \/ FlushLost \/ FlushRefused \/ Prune \/ Abort PROVE TypeInv'
<1>1. /\ TypeOK /\ StoreTypeOK /\ pull \in Pull /\ faults \in 0..MaxFaults /\ missed \subseteq Paths
      /\ PhoneTypes(rows, outbox, localId, lastId, seqOf, doc, cursor, refetch)
      /\ result \in [ClientIds -> {"waiting", "applied", "noop", "refused"}]
  BY TypeParts DEF TypeInv, HistoryTypes, DeskTypes
<1>2. \A p \in Paths : rows[p].blob <= MaxVersion
  BY DEF TypeInv, BlobsKnown
<1>3. Idle \in Pull /\ Idle.pc # "page"
  BY ShapesOfPull DEF Idle
<1>4. CASE FlushOne
  <2>1. PICK c \in pull.batch : /\ Post(c) /\ seqOf' = [seqOf EXCEPT ![c] = SeqAfterPost(c)]
                                /\ pull' = [pull EXCEPT !.batch = @ \ {c}]
    BY <1>4 DEF FlushOne
  <2>2. c \in ClientIds /\ pull' \in Pull /\ pull'.pc = "flush"
    BY <1>4, <2>1, RestOfBatch DEF FlushOne
  <2>3. StoreTypeOK' /\ SameFiles /\ SeqAfterPost(c) \in Nat
    BY <1>1, <2>1, <2>2, PostTo
  <2>4. UNCHANGED <<rows, outbox, localId, lastId, doc, cursor, refetch, deskVars, historyVars,
                    edits, faults>>
    BY <1>4 DEF FlushOne
  <2>5. PhoneTypes(rows', outbox', localId', lastId', seqOf', doc', cursor', refetch')
    BY <1>1, <2>1, <2>3, <2>4 DEF PhoneTypes
  <2>. QED
    BY <1>1, <1>2, <2>2, <2>3, <2>4, <2>5, StoreType DEF deskVars, historyVars
<1>5. CASE FlushLost
  <2>1. PICK c \in pull.batch : Post(c)
    BY <1>5 DEF FlushLost
  <2>2. c \in ClientIds
    BY <1>1, <1>5, Shapes DEF FlushLost, Flushing
  <2>3. StoreTypeOK' /\ SameFiles
    BY <1>1, <2>1, <2>2, PostTo
  <2>4. pull' = Idle /\ UNCHANGED <<phoneVars, deskVars, historyVars, edits>>
    BY <1>5 DEF FlushLost
  <2>5. faults' \in 0..MaxFaults
    BY <1>5, FaultCount DEF FlushLost
  <2>6. PhoneTypes(rows', outbox', localId', lastId', seqOf', doc', cursor', refetch')
    BY <1>1, <2>4 DEF PhoneTypes, phoneVars, outboxVars
  <2>. QED
    BY <1>1, <1>2, <1>3, <2>3, <2>4, <2>5, <2>6, StoreType
    DEF deskVars, historyVars, phoneVars
<1>6. CASE FlushRefused
  <2>1. rows' \in [Paths -> Row] /\ \A p \in Paths : rows'[p].blob = rows[p].blob
    BY <1>6, RefusedTo
  <2>2. PICK c \in ClientIds : /\ outbox' = outbox \ {c} /\ result' = [result EXCEPT ![c] = "refused"]
                               /\ pull' \in Flushing /\ pull'.pc = "flush"
    BY <1>6, RefusedTo
  <2>3. UNCHANGED <<storeVars, localId, lastId, seqOf, doc, cursor, refetch, note, dirty, touched,
                    taken, historyVars, edits>>
    BY <1>6 DEF FlushRefused
  <2>4. StoreTypeOK' /\ SameFiles
    BY <1>1, <2>3, SameStore DEF StoreTypeOK, storeVars
  <2>5. faults' \in 0..MaxFaults
    BY <1>6, FaultCount DEF FlushRefused
  <2>6. PhoneTypes(rows', outbox', localId', lastId', seqOf', doc', cursor', refetch')
    BY <1>1, <2>1, <2>2, <2>3 DEF PhoneTypes
  <2>7. result' \in [ClientIds -> {"waiting", "applied", "noop", "refused"}]
    BY <1>1, <2>2
  <2>. QED
    BY <1>1, <1>2, <2>1, <2>2, <2>3, <2>4, <2>5, <2>6, <2>7, StoreType, ShapesOfPull
    DEF historyVars
<1>7. CASE Prune
  <2>1. /\ rows' \in [Paths -> Row] /\ \A p \in Paths : rows'[p].blob = rows[p].blob
        /\ outbox' \subseteq outbox /\ pull' = Idle
    BY <1>7, PruneTo
  <2>2. UNCHANGED <<storeVars, localId, lastId, seqOf, doc, cursor, refetch, deskVars, historyVars,
                    edits, faults>>
    BY <1>7 DEF Prune
  <2>3. StoreTypeOK' /\ SameFiles
    BY <1>1, <2>2, SameStore DEF StoreTypeOK, storeVars
  <2>4. PhoneTypes(rows', outbox', localId', lastId', seqOf', doc', cursor', refetch')
    BY <1>1, <2>1, <2>2 DEF PhoneTypes
  <2>. QED
    BY <1>1, <1>2, <1>3, <2>1, <2>2, <2>3, <2>4, StoreType DEF deskVars, historyVars
<1>8. CASE Abort
  <2>1. /\ pull' = Idle
        /\ UNCHANGED <<storeVars, phoneVars, deskVars, contents, changed, parted, edits>>
    BY <1>8 DEF Abort
  <2>2. missed' \subseteq Paths
    <3>1. pull.pc = "remember" => pull.failed \subseteq Paths
      BY <1>1, Shapes DEF Remembering
    <3>. QED
      BY <1>1, <1>8, <3>1 DEF Abort
  <2>3. StoreTypeOK' /\ SameFiles
    BY <1>1, <2>1, SameStore DEF StoreTypeOK, storeVars
  <2>4. faults' \in 0..MaxFaults
    BY <1>8, FaultCount DEF Abort
  <2>5. PhoneTypes(rows', outbox', localId', lastId', seqOf', doc', cursor', refetch')
    BY <1>1, <2>1 DEF PhoneTypes, phoneVars, outboxVars
  <2>. QED
    BY <1>1, <1>2, <1>3, <2>1, <2>2, <2>3, <2>4, <2>5, StoreType DEF deskVars, phoneVars
<1>. QED
  BY <1>4, <1>5, <1>6, <1>7, <1>8

(* The desk edits and deletes, and takes a write.                          *)
LEMMA DeskType ==
    ASSUME TypeInv,
           \/ \E p \in Paths : DeskEdit(p) \/ DeskRemove(p)
           \/ \E w \in writes : DeskTake(w)
    PROVE  TypeInv'
<1>1. /\ StoreTypeOK /\ pull \in Pull /\ DeskTypes(note, dirty, touched, taken, result)
      /\ PhoneTypes(rows, outbox, localId, lastId, seqOf, doc, cursor, refetch)
      /\ HistoryTypes(contents, changed, missed, parted, edits, faults)
  BY TypeParts DEF TypeInv
<1>2. /\ UNCHANGED <<storeVars, phoneVars, pull, contents, changed, missed, faults>>
  BY DEF DeskEdit, DeskRemove, DeskTake, historyVars
<1>3. /\ StoreTypeOK' /\ pull' \in Pull /\ SameFiles
      /\ PhoneTypes(rows', outbox', localId', lastId', seqOf', doc', cursor', refetch')
  BY <1>1, <1>2, SameStore DEF StoreTypeOK, storeVars, phoneVars, outboxVars
<1>4. BlobsKnown' /\ Versions'
  BY <1>2, <1>3 DEF TypeInv, BlobsKnown, Versions, phoneVars, storeVars
<1>5. \A p \in Paths : note[p] \in Note
  BY <1>1 DEF DeskTypes
<1>6. ASSUME NEW n \in Note, NEW e \in SUBSET ClientIds, NEW b \in BOOLEAN
      PROVE  /\ [n EXCEPT !.present = b] \in Note /\ [present |-> b, effects |-> e] \in Note
             /\ [n EXCEPT !.present = b, !.effects = e] \in Note
  BY DEF Note
<1>7. DeskTypes(note', dirty', touched', taken', result') /\ edits' \in 0..MaxEdits
  <2>1. ASSUME NEW p \in Paths, DeskEdit(p) \/ DeskRemove(p)
        PROVE  DeskTypes(note', dirty', touched', taken', result') /\ edits' \in 0..MaxEdits
    <3>1. edits' \in 0..MaxEdits
      BY <1>1, <2>1, Bounds DEF DeskEdit, DeskRemove, HistoryTypes
    <3>2. note' \in [Paths -> Note]
      <4>1. PICK n \in Note : note' = [note EXCEPT ![p] = n]
        <5>1. [note[p] EXCEPT !.present = TRUE] \in Note /\ [present |-> FALSE, effects |-> {}] \in Note
          BY <1>5, <1>6
        <5>. QED
          BY <2>1, <5>1 DEF DeskEdit, DeskRemove
      <4>. QED
        BY <1>1, <4>1 DEF DeskTypes
    <3>. QED
      BY <1>1, <2>1, <3>1, <3>2 DEF DeskEdit, DeskRemove, DeskTypes
  <2>2. ASSUME NEW w \in writes, DeskTake(w)
        PROVE  DeskTypes(note', dirty', touched', taken', result') /\ edits' \in 0..MaxEdits
    <3>. DEFINE d == doc[w.client]
    <3>1. w.client \in ClientIds /\ w.seq \in Nat /\ d \in Docs
      BY <1>1 DEF StoreTypeOK, QueuedWrite, PhoneTypes
    <3>2. /\ taken' = w.seq /\ dirty' = dirty /\ edits' = edits
      BY <2>2 DEF DeskTake
    <3>3. result' \in [ClientIds -> {"waiting", "applied", "noop", "refused"}]
      BY <1>1, <2>2 DEF DeskTake, DeskTypes
    <3>4. note' \in [Paths -> Note] /\ touched' \subseteq Paths
      <4>1. CASE /\ d.kind = "text" /\ touched' = touched \cup {d.path}
                 /\ note' = [note EXCEPT ![d.path].present = TRUE,
                                         ![d.path].effects = @ \cup {w.client}]
        <5>1. d.path \in Paths
          BY <3>1, <4>1, DocPaths
        <5>2. note[d.path].effects \cup {w.client} \in SUBSET ClientIds
          BY <1>5, <3>1, <5>1 DEF Note
        <5>3. PICK n \in Note : n = [note[d.path] EXCEPT !.present = TRUE,
                                                  !.effects = note[d.path].effects \cup {w.client}]
          BY <1>5, <1>6, <5>1, <5>2
        <5>4. note' = [note EXCEPT ![d.path] = n]
          <6>1. note \in [Paths -> Note] /\ note[d.path] \in Note
            BY <1>1, <1>5, <5>1 DEF DeskTypes
          <6>. QED
            BY <4>1, <5>1, <5>3, <6>1 DEF Note
        <5>. QED
          BY <1>1, <4>1, <5>1, <5>4 DEF DeskTypes
      <4>2. CASE /\ d.kind = "move" /\ touched' = touched \cup {d.path, d.to}
                 /\ note' = [note EXCEPT ![d.to] = note[d.path],
                                         ![d.path] = [present |-> FALSE, effects |-> {}]]
        <5>1. d.path \in Paths /\ d.to \in Paths
          BY <3>1, <4>2, DocPaths
        <5>2. PICK n \in Note : n = [present |-> FALSE, effects |-> {}]
          BY <1>5, <1>6, <5>1
        <5>. QED
          BY <1>1, <1>5, <4>2, <5>1, <5>2 DEF DeskTypes
      <4>3. CASE UNCHANGED <<note, touched>>
        BY <1>1, <4>3 DEF DeskTypes
      <4>. QED
        BY <2>2, <4>1, <4>2, <4>3 DEF DeskTake
    <3>. QED
      BY <1>1, <3>1, <3>2, <3>3, <3>4 DEF DeskTypes, HistoryTypes
  <2>. QED
    BY <2>1, <2>2
<1>8. parted' \subseteq ClientIds
  <2>1. parted \subseteq ClientIds /\ \A p \in Paths : note[p].effects \subseteq ClientIds
    BY <1>1, <1>5 DEF HistoryTypes, Note
  <2>2. CASE \E p \in Paths : DeskEdit(p) \/ DeskRemove(p)
    BY <2>1, <2>2 DEF DeskEdit, DeskRemove, historyVars
  <2>3. ASSUME NEW w \in writes, DeskTake(w) PROVE parted' \subseteq ClientIds
    <3>1. doc[w.client] \in Docs
      BY <1>1 DEF StoreTypeOK, QueuedWrite, PhoneTypes
    <3>2. \/ parted' = parted
          \/ /\ parted' = parted \cup note[doc[w.client].path].effects
             /\ doc[w.client].kind = "move"
      BY <2>3 DEF DeskTake
    <3>3. doc[w.client].kind = "move" => doc[w.client].path \in Paths
      BY <3>1, DocPaths
    <3>. QED
      BY <2>1, <3>2, <3>3
  <2>. QED
    BY <2>2, <2>3
<1>9. HistoryTypes(contents', changed', missed', parted', edits', faults')
  BY <1>1, <1>2, <1>7, <1>8 DEF HistoryTypes
<1>. QED
  BY <1>3, <1>4, <1>7, <1>9, TypePartsNext DEF TypeInv

(* The desk uploads and acks, and the sweeper runs.                        *)
LEMMA TablesType ==
    ASSUME TypeInv, (\E p \in Paths : DeskUpload(p) \/ SweepTombstone(p)) \/ DeskAck
    PROVE  TypeInv'
<1>1. /\ StoreTypeOK /\ pull \in Pull /\ DeskTypes(note, dirty, touched, taken, result)
      /\ PhoneTypes(rows, outbox, localId, lastId, seqOf, doc, cursor, refetch)
      /\ HistoryTypes(contents, changed, missed, parted, edits, faults)
  BY TypeParts DEF TypeInv
<1>2. UNCHANGED <<phoneVars, pull, note, taken, result, edits, faults>>
  BY DEF DeskUpload, SweepTombstone, DeskAck, deskVars
<1>3. /\ PhoneTypes(rows', outbox', localId', lastId', seqOf', doc', cursor', refetch')
      /\ pull' \in Pull
  BY <1>1, <1>2 DEF phoneVars, outboxVars
<1>4. DeskTypes(note', dirty', touched', taken', result')
  BY <1>1, <1>2 DEF DeskTypes, DeskUpload, SweepTombstone, DeskAck, deskVars
<1>5. /\ vault.latestVersion \in Nat /\ vault.latestVersion <= MaxVersion
      /\ \A p \in Paths : /\ files[p].version \in Nat /\ files[p].version <= vault.latestVersion
                          /\ files[p].blob <= MaxVersion
      /\ 0 <= MaxVersion
  BY <1>1, Bounds DEF TypeInv, Versions, BlobsKnown, StoreTypeOK, VaultRow, FileRow
<1>6. /\ rows' = rows /\ pull' = pull /\ (\A p \in Paths : rows[p].blob <= MaxVersion)
      /\ pull.pc = "page" => \A r \in pull.page : r[2].blob <= MaxVersion
  BY <1>2 DEF TypeInv, BlobsKnown, phoneVars
<1>7. ASSUME \A p \in Paths : files'[p].blob <= MaxVersion PROVE BlobsKnown'
  BY <1>6, <1>7 DEF BlobsKnown
<1>8. ASSUME NEW p \in Paths, DeskUpload(p) PROVE TypeInv'
  <2>1. /\ StoreTypeOK' /\ contents' \in [0..MaxVersion -> SUBSET ClientIds]
        /\ changed' \in [Paths -> Nat] /\ (SameFiles \/ NewRow(p))
    BY <1>8, UploadTo
  <2>2. HistoryTypes(contents', changed', missed', parted', edits', faults')
    <3>1. UNCHANGED <<missed, parted, edits, faults>>
      BY <1>8 DEF DeskUpload
    <3>. QED
      BY <1>1, <2>1, <3>1 DEF HistoryTypes
  <2>3. BlobsKnown' /\ Versions'
    <3>1. CASE SameFiles
      BY <1>5, <1>7, <3>1 DEF SameFiles, Versions
    <3>2. CASE NewRow(p)
      <4>1. /\ vault'.latestVersion = vault.latestVersion + 1 /\ vault'.latestVersion <= MaxVersion
            /\ files'[p].version = vault'.latestVersion
            /\ \A q \in Paths \ {p} : files'[q] = files[q]
        BY <3>2 DEF NewRow
      <4>2. Versions'
        BY <1>5, <4>1 DEF Versions
      <4>3. files'[p].blob <= MaxVersion
        BY <1>5, <3>2, <4>1 DEF NewRow, LiveRow, Tombstone, NoBlob
      <4>. QED
        BY <1>5, <1>7, <4>1, <4>2, <4>3
    <3>. QED
      BY <2>1, <3>1, <3>2
  <2>. QED
    BY <1>3, <1>4, <2>1, <2>2, <2>3, TypePartsNext DEF TypeInv
<1>9. ASSUME NEW p \in Paths, SweepTombstone(p) PROVE TypeInv'
  <2>1. /\ StoreTypeOK' /\ vault'.latestVersion = vault.latestVersion /\ files'[p] = NoRow
        /\ \A q \in Paths \ {p} : files'[q] = files[q]
    BY <1>9, SweepTo
  <2>2. HistoryTypes(contents', changed', missed', parted', edits', faults')
    <3>1. /\ missed' \subseteq missed \cup {p} /\ UNCHANGED <<contents, changed, parted, edits, faults>>
      BY <1>9 DEF SweepTombstone
    <3>. QED
      BY <1>1, <3>1 DEF HistoryTypes
  <2>3. files'[p].version = 0 /\ files'[p].blob = 0
    BY <2>1 DEF NoRow, NoBlob
  <2>4. Versions'
    BY <1>5, <2>1, <2>3 DEF Versions
  <2>5. BlobsKnown'
    BY <1>5, <1>7, <2>1, <2>3
  <2>. QED
    BY <1>3, <1>4, <2>1, <2>2, <2>4, <2>5, TypePartsNext DEF TypeInv
<1>10. CASE DeskAck
  <2>1. StoreTypeOK' /\ SameFiles
    BY <1>10, AckTo
  <2>2. HistoryTypes(contents', changed', missed', parted', edits', faults')
    BY <1>1, <1>10 DEF DeskAck, historyVars
  <2>. QED
    BY <1>3, <1>4, <1>6, <2>1, <2>2, SameVersions, TypePartsNext DEF TypeInv
<1>. QED
  BY <1>8, <1>9, <1>10

(* The types hold at the start.                                            *)
LEMMA TypeInit == ASSUME Init PROVE TypeInv
<1>1. StoreTypeOK
  <2>1. PICK k \in KeyChecks : vault = BlankVault(TRUE, 1, k)
    BY DEF Init
  <2>2. PICK one \in Nat : one = 1
    OBVIOUS
  <2>3. vault \in VaultRow
    BY <2>1, <2>2, BlankVaultType
  <2>4. NoRow \in FileRow
    BY RowTypes
  <2>. QED
    BY <2>3, <2>4 DEF Init, StoreTypeOK
<1>2. PhoneTypes(rows, outbox, localId, lastId, seqOf, doc, cursor, refetch)
  BY DEF Init, PhoneTypes, Absent, Row, NoBlob, Docs
<1>3. DeskTypes(note, dirty, touched, taken, result)
  BY DEF Init, DeskTypes, Note
<1>4. HistoryTypes(contents, changed, missed, parted, edits, faults)
  BY Bounds DEF Init, HistoryTypes
<1>5. pull \in Pull /\ pull.pc = "idle"
  BY ShapesOfPull DEF Init, Idle
<1>6. vault.latestVersion = 0
  BY DEF Init, BlankVault
<1>7. BlobsKnown /\ Versions
  <2>1. \A p \in Paths : files[p].version = 0 /\ files[p].blob = 0 /\ rows[p].blob = 0
    BY DEF Init, NoRow, Absent, NoBlob
  <2>. QED
    BY <1>5, <1>6, <2>1, Bounds DEF BlobsKnown, Versions
<1>. QED
  BY <1>1, <1>2, <1>3, <1>4, <1>5, <1>7, TypeParts DEF TypeInv

(* Every step keeps the types.                                             *)
LEMMA TypeStep == ASSUME TypeInv, [Next]_vars PROVE TypeInv'
<1>1. CASE Round
  BY <1>1, PullType, TakeType, FlushType, SaveType DEF Round
<1>2. CASE Mishap
  BY <1>2, TakeType, FlushType DEF Mishap
<1>3. CASE DeskJob
  BY <1>3, DeskType, TablesType DEF DeskJob
<1>4. CASE User
  BY <1>4, DeskType, RecordType DEF User
<1>5. CASE \E p \in Paths : SweepTombstone(p)
  BY <1>5, TablesType
<1>6. CASE UNCHANGED vars
  <2>1. pull' \in Pull /\ faults' \in 0..MaxFaults
    BY <1>6, TypeParts DEF TypeInv, HistoryTypes, vars
  <2>2. pull'.pc = "page" => \A r \in pull'.page : r[2].blob <= MaxVersion
    BY <1>6 DEF TypeInv, BlobsKnown, vars
  <2>. QED
    BY <1>6, <2>1, <2>2, RoundType DEF vars
<1>. QED
  BY <1>1, <1>2, <1>3, <1>4, <1>5, <1>6 DEF Next

(* The phone, the tables and the desk keep their types: every step finds   *)
(* the locals of the round that its place calls for.                       *)
THEOREM PhoneTyped == Spec => []TypeOK
<1>1. Init => TypeInv
  BY TypeInit
<1>2. TypeInv /\ [Next]_vars => TypeInv'
  BY TypeStep
<1>3. TypeInv => TypeOK
  BY DEF TypeInv
<1>. QED
  BY <1>1, <1>2, <1>3, PTL DEF Spec

-------------------------------------------------------------------------------
(* The channel of writes *)

Posted(c) == \E w \in writes : w.client = c

(* The service's queue: a seq and a client id each name one write, no seq  *)
(* up to the last is left out, and the desk is ahead of its own acks.      *)
Queue ==
    /\ \A w, x \in writes : w.seq = x.seq \/ w.client = x.client => w = x
    /\ \A w \in writes : w.seq <= vault.latestSeq /\ (w.acked <=> w.seq <= vault.ackedThroughSeq)
    /\ \A n \in 1..vault.latestSeq : \E w \in writes : w.seq = n
    /\ vault.ackedThroughSeq <= taken /\ taken <= vault.latestSeq

(* The outbox: a local_id is given once, with the document.                *)
Ids ==
    /\ \A c \in ClientIds : (doc[c] = NoDoc <=> localId[c] = 0) /\ localId[c] <= lastId
    /\ \A c, d \in ClientIds : localId[c] = localId[d] /\ localId[c] > 0 => c = d
    /\ \A c \in outbox : doc[c] # NoDoc
    /\ \A w \in writes : doc[w.client] # NoDoc

(* The queue is in the order of local_id, and what is not posted yet was   *)
(* made later than everything that is.                                     *)
InOrder ==
    /\ \A w, x \in writes : w.seq < x.seq => localId[w.client] < localId[x.client]
    /\ \A c \in outbox, w \in writes : ~Posted(c) => localId[w.client] < localId[c]

(* A seq in the outbox is the one the queue gave.                          *)
Receipts == \A c \in ClientIds : seqOf[c] # 0 => \E w \in writes : w.client = c /\ w.seq = seqOf[c]

(* A batch holds the oldest of what is not posted: what the user writes    *)
(* while it is sent comes after it.                                        *)
Batch ==
    pull.pc = "flush" =>
        /\ pull.batch \subseteq outbox
        /\ \A b \in pull.batch, c \in outbox \ pull.batch : ~Posted(c) => localId[b] < localId[c]

(* What has no answer has one to come: a posted write, from its seq; one   *)
(* that is not posted, unless the service refused it.                      *)
Answers ==
    /\ \A w \in writes : /\ result[w.client] = "waiting" <=> w.seq > taken
                         /\ w.seq > taken => w.client \in outbox
    /\ \A c \in ClientIds : ~Posted(c) /\ (c \in outbox \/ doc[c] = NoDoc) => result[c] = "waiting"

Order == Queue /\ Ids /\ InOrder /\ Receipts /\ Batch /\ Answers

(* The numbers these are about.                                            *)
LEMMA OrderTypes ==
    ASSUME TypeInv
    PROVE  /\ vault.latestSeq \in Nat /\ vault.ackedThroughSeq \in Nat /\ taken \in Nat
           /\ lastId \in Nat /\ localId \in [ClientIds -> Nat] /\ seqOf \in [ClientIds -> Nat]
           /\ outbox \subseteq ClientIds /\ doc \in [ClientIds -> Docs]
           /\ result \in [ClientIds -> {"waiting", "applied", "noop", "refused"}]
           /\ \A w \in writes : w.seq \in Nat /\ w.seq > 0 /\ w.client \in ClientIds
<1>1. /\ StoreTypeOK /\ DeskTypes(note, dirty, touched, taken, result)
      /\ PhoneTypes(rows, outbox, localId, lastId, seqOf, doc, cursor, refetch)
  BY TypeParts DEF TypeInv
<1>. QED
  BY <1>1 DEF StoreTypeOK, VaultRow, QueuedWrite, PhoneTypes, DeskTypes

ChanStutter == UNCHANGED <<lastId, localId, outbox, {c \in outbox : Unanswered(c)}, taken>>

(* A step that leaves the queue, the outbox and the answers alone.         *)
LEMMA OrderSame ==
    ASSUME Order, SameQueue, UNCHANGED <<outboxVars, taken, result>>,
           pull' = pull \/ pull'.pc # "flush"
    PROVE  Order' /\ ChanStutter
<1>. USE DEF SameQueue, outboxVars
<1>1. Queue'
  BY DEF Order, Queue
<1>2. Ids'
  BY DEF Order, Ids
<1>3. InOrder' /\ Receipts'
  BY DEF Order, InOrder, Receipts, Posted
<1>4. Batch'
  BY DEF Order, Batch, Posted
<1>5. Answers'
  BY DEF Order, Answers, Posted
<1>6. ChanStutter
  BY DEF ChanStutter, Unanswered
<1>. QED
  BY <1>1, <1>2, <1>3, <1>4, <1>5, <1>6 DEF Order

(* The order at the start.                                                 *)
LEMMA OrderInit == ASSUME Init PROVE Order
<1>1. vault.latestSeq = 0 /\ vault.ackedThroughSeq = 0 /\ writes = {} /\ pull.pc = "idle"
  BY DEF Init, BlankVault, Idle
<1>2. Queue
  <2>1. taken = 0 /\ 1..0 = {}
    BY DEF Init
  <2>. QED
    BY <1>1, <2>1 DEF Queue
<1>. QED
  <2>1. InOrder /\ Batch
    BY <1>1 DEF InOrder, Batch
  <2>2. Ids
    BY <1>1 DEF Init, Ids
  <2>3. Receipts /\ Answers
    BY <1>1 DEF Init, Receipts, Answers
  <2>. QED
    BY <1>2, <2>1, <2>2, <2>3 DEF Order

(* A write is recorded: the last in the order.                             *)
LEMMA OrderRecord ==
    ASSUME TypeInv, Order, NEW c \in ClientIds, NEW d \in Docs, d # NoDoc, Enlist(c, d),
           UNCHANGED <<storeVars, pull, deskVars>>
    PROVE  /\ Order' /\ localId[c] = 0 /\ lastId' = lastId + 1
           /\ localId' = [localId EXCEPT ![c] = lastId + 1] /\ outbox' = outbox \cup {c}
           /\ {x \in outbox' : Unanswered(x)'} = {x \in outbox : Unanswered(x)} \cup {c}
           /\ taken' = taken
<1>1. /\ doc[c] = NoDoc /\ doc' = [doc EXCEPT ![c] = d] /\ outbox' = outbox \cup {c}
      /\ lastId' = lastId + 1 /\ localId' = [localId EXCEPT ![c] = lastId + 1] /\ seqOf' = seqOf
  BY DEF Enlist
<1>2. /\ localId[c] = 0 /\ c \notin outbox /\ ~Posted(c)
  BY <1>1 DEF Order, Ids, Posted
<1>3. result[c] = "waiting"
  BY <1>1, <1>2 DEF Order, Answers
<1>4. vault' = vault /\ writes' = writes /\ pull' = pull /\ taken' = taken /\ result' = result
  BY DEF storeVars, deskVars
<1>5. Queue'
  BY <1>4 DEF Order, Queue
<1>6. /\ localId'[c] = lastId + 1 /\ \A x \in ClientIds \ {c} : localId'[x] = localId[x]
      /\ \A x \in ClientIds : localId[x] <= lastId /\ localId[x] \in Nat
      /\ lastId \in Nat
  BY <1>1, OrderTypes DEF Order, Ids
<1>7. /\ doc'[c] = d /\ \A x \in ClientIds \ {c} : doc'[x] = doc[x]
  BY <1>1, OrderTypes
<1>8. Ids'
  BY <1>1, <1>4, <1>6, <1>7, OrderTypes DEF Order, Ids
<1>9. InOrder'
  <2>1. \A w \in writes : w.client # c /\ w.client \in ClientIds
    BY <1>2, OrderTypes DEF Posted
  <2>2. outbox \subseteq ClientIds
    BY OrderTypes
  <2>. QED
    BY <1>1, <1>2, <1>4, <1>6, <2>1, <2>2 DEF Order, InOrder, Posted
<1>10. Receipts'
  BY <1>1, <1>4 DEF Order, Receipts
<1>11. Batch'
  <2>1. outbox \subseteq ClientIds
    BY OrderTypes
  <2>. QED
    BY <1>1, <1>2, <1>4, <1>6, <2>1 DEF Order, Batch, Posted
<1>12. Answers'
  <2>1. \A w \in writes : w.client \in ClientIds
    BY OrderTypes
  <2>. QED
    BY <1>1, <1>2, <1>3, <1>4, <1>7, <2>1 DEF Order, Answers, Posted
<1>13. {x \in outbox' : Unanswered(x)'} = {x \in outbox : Unanswered(x)} \cup {c}
  BY <1>1, <1>3, <1>4 DEF Unanswered
<1>. QED
  BY <1>1, <1>2, <1>4, <1>5, <1>8, <1>9, <1>10, <1>11, <1>12, <1>13 DEF Order

(* A post of the oldest write of the batch keeps the queue in order.       *)
LEMMA OrderPost ==
    ASSUME TypeInv, Order, pull.pc = "flush", NEW c \in pull.batch, First(c), Post(c),
           UNCHANGED <<outbox, localId, lastId, doc, taken, result>>
    PROVE  /\ Queue' /\ Ids' /\ InOrder' /\ Answers' /\ ChanStutter
           /\ \A x \in ClientIds : Posted(x) => Posted(x)'
           /\ \A x \in ClientIds : seqOf[x] # 0 => \E w \in writes' : w.client = x /\ w.seq = seqOf[x]
           /\ \E w \in writes' : w.client = c /\ w.seq = SeqAfterPost(c)
<1>1. /\ c \in outbox /\ c \in ClientIds /\ \A b \in pull.batch : b \in outbox
      /\ \A b \in pull.batch, x \in outbox \ pull.batch : ~Posted(x) => localId[b] < localId[x]
  BY OrderTypes DEF Order, Batch
<1>2. /\ vault'.ackedThroughSeq = vault.ackedThroughSeq
      /\ \/ /\ \A w \in writes : w.client # c
            /\ vault'.latestSeq = vault.latestSeq + 1
            /\ writes' = writes \cup
                  {[seq |-> vault.latestSeq + 1, client |-> c, acked |-> FALSE]}
         \/ SameQueue
      /\ \E w \in writes' : w.client = c /\ w.seq = SeqAfterPost(c)
  BY <1>1, PostTo DEF TypeInv, TypeOK
<1>3. ChanStutter
  BY DEF ChanStutter, Unanswered
<1>4. CASE SameQueue
  BY <1>2, <1>3, <1>4 DEF SameQueue, Order, Queue, Ids, InOrder, Receipts, Answers, Posted
<1>5. CASE /\ \A w \in writes : w.client # c
           /\ vault'.latestSeq = vault.latestSeq + 1
           /\ writes' = writes \cup
                 {[seq |-> vault.latestSeq + 1, client |-> c, acked |-> FALSE]}
  <2>1. PICK new : new = [seq |-> vault.latestSeq + 1, client |-> c, acked |-> FALSE]
    OBVIOUS
  <2>2. /\ new.seq = vault.latestSeq + 1 /\ new.client = c /\ new.acked = FALSE
        /\ writes' = writes \cup {new} /\ \A w \in writes : w.client # c
    BY <1>5, <2>1
  <2>3. ~Posted(c) /\ result[c] = "waiting"
    BY <1>1, <2>2 DEF Posted, Order, Answers
  <2>4. /\ \A w \in writes : w.seq \in Nat /\ w.seq > 0 /\ w.seq <= vault.latestSeq /\ w.seq < new.seq
        /\ vault.latestSeq \in Nat /\ vault.ackedThroughSeq \in Nat /\ taken \in Nat
        /\ vault.ackedThroughSeq <= taken /\ taken <= vault.latestSeq
    BY <2>2, OrderTypes DEF Order, Queue
  <2>5. Queue'
    <3>1. \A w, x \in writes' : w.seq = x.seq \/ w.client = x.client => w = x
      BY <2>2, <2>4 DEF Order, Queue
    <3>2. \A w \in writes' : w.seq <= vault'.latestSeq /\ (w.acked <=> w.seq <= vault'.ackedThroughSeq)
      BY <1>2, <1>5, <2>2, <2>4 DEF Order, Queue
    <3>3. ASSUME NEW n \in 1..vault'.latestSeq PROVE \E w \in writes' : w.seq = n
      <4>1. n \in 1..vault.latestSeq \/ n = new.seq
        BY <1>5, <2>2, <2>4
      <4>. QED
        BY <2>2, <4>1 DEF Order, Queue
    <3>. QED
      BY <1>2, <1>5, <2>4, <3>1, <3>2, <3>3 DEF Queue
  <2>6. Ids'
    BY <1>1, <2>2 DEF Order, Ids
  <2>7. ASSUME NEW x \in outbox, x # c, ~Posted(x) PROVE localId[c] < localId[x]
    <3>1. x \in ClientIds /\ localId[c] \in Nat /\ localId[x] \in Nat
      BY <1>1, OrderTypes
    <3>2. CASE x \notin pull.batch
      BY <1>1, <2>7, <3>2
    <3>3. CASE x \in pull.batch
      <4>1. localId[c] <= localId[x]
        BY <3>3 DEF First
      <4>2. localId[c] # localId[x]
        BY <1>1, <2>7, <3>1 DEF Order, Ids
      <4>. QED
        BY <3>1, <4>1, <4>2
    <3>. QED
      BY <3>2, <3>3
  <2>8. InOrder'
    <3>1. \A w, x \in writes' : w.seq < x.seq => localId[w.client] < localId[x.client]
      BY <1>1, <2>2, <2>3, <2>4 DEF Order, InOrder
    <3>2. ASSUME NEW x \in outbox, NEW w \in writes', ~(\E y \in writes' : y.client = x)
          PROVE  localId[w.client] < localId[x]
      <4>1. ~Posted(x) /\ x # c
        BY <2>2, <3>2 DEF Posted
      <4>2. CASE w \in writes
        BY <4>1, <4>2 DEF Order, InOrder
      <4>3. CASE w = new
        BY <2>2, <2>7, <4>1, <4>3
      <4>. QED
        BY <2>2, <4>2, <4>3
    <3>. QED
      BY <3>1, <3>2 DEF InOrder, Posted
  <2>9. Answers'
    <3>1. \A w \in writes' : /\ result[w.client] = "waiting" <=> w.seq > taken
                             /\ w.seq > taken => w.client \in outbox
      BY <1>1, <2>2, <2>3, <2>4 DEF Order, Answers
    <3>2. \A x \in ClientIds : Posted(x) => \E w \in writes' : w.client = x
      BY <2>2 DEF Posted
    <3>. QED
      BY <3>1, <3>2 DEF Order, Answers, Posted
  <2>. QED
    BY <1>2, <1>3, <2>2, <2>5, <2>6, <2>8, <2>9 DEF Order, Receipts, Posted
<1>. QED
  BY <1>2, <1>4, <1>5

(* The steps of a flush that post, and the one that begins it.             *)
LEMMA OrderFlush ==
    ASSUME TypeInv, Order, StartRound \/ FlushOne \/ FlushLost PROVE Order' /\ ChanStutter
<1>1. CASE StartRound
  <2>1. /\ pull'.pc = "flush" /\ pull'.batch = {c \in outbox : seqOf[c] = 0}
        /\ UNCHANGED <<storeVars, outboxVars, taken, result>>
    BY <1>1 DEF StartRound, Unsent, phoneVars, deskVars
  <2>2. ASSUME NEW c \in outbox, seqOf[c] # 0 PROVE Posted(c)
    BY <2>2, OrderTypes DEF Order, Receipts, Posted
  <2>3. Batch'
    BY <2>1, <2>2 DEF Batch, Posted, storeVars, outboxVars
  <2>4. Queue' /\ Ids' /\ InOrder' /\ Receipts'
    BY <2>1 DEF Order, Queue, Ids, InOrder, Receipts, Posted, storeVars, outboxVars
  <2>5. Answers'
    BY <2>1 DEF Order, Answers, Posted, storeVars, outboxVars
  <2>6. ChanStutter
    BY <2>1 DEF ChanStutter, Unanswered, outboxVars
  <2>. QED
    BY <2>3, <2>4, <2>5, <2>6 DEF Order
<1>2. CASE FlushOne
  <2>1. PICK c \in pull.batch : /\ First(c) /\ Post(c)
                                /\ seqOf' = [seqOf EXCEPT ![c] = SeqAfterPost(c)]
                                /\ pull' = [pull EXCEPT !.batch = @ \ {c}]
    BY <1>2 DEF FlushOne
  <2>2. /\ pull.pc = "flush" /\ UNCHANGED <<outbox, localId, lastId, doc, taken, result>>
    BY <1>2 DEF FlushOne, deskVars
  <2>3. c \in ClientIds /\ pull'.pc = "flush" /\ pull'.batch = pull.batch \ {c}
    BY <2>1, <2>2, RestOfBatch
  <2>4. /\ Queue' /\ Ids' /\ InOrder' /\ Answers' /\ ChanStutter
        /\ \A x \in ClientIds : Posted(x) => Posted(x)'
        /\ \A x \in ClientIds : seqOf[x] # 0 => \E w \in writes' : w.client = x /\ w.seq = seqOf[x]
        /\ \E w \in writes' : w.client = c /\ w.seq = SeqAfterPost(c)
    BY <2>1, <2>2, OrderPost
  <2>5. Receipts'
    BY <2>1, <2>3, <2>4, OrderTypes DEF Receipts
  <2>6. Posted(c)'
    BY <2>4 DEF Posted
  <2>7. Batch'
    <3>1. outbox \subseteq ClientIds
      BY OrderTypes
    <3>. QED
      BY <2>2, <2>3, <2>4, <2>6, <3>1 DEF Order, Batch
  <2>. QED
    BY <2>4, <2>5, <2>7 DEF Order
<1>3. CASE FlushLost
  <2>1. PICK c \in pull.batch : First(c) /\ Post(c)
    BY <1>3 DEF FlushLost
  <2>2. /\ pull.pc = "flush" /\ UNCHANGED <<outbox, localId, lastId, seqOf, doc, taken, result>>
        /\ pull'.pc # "flush"
    BY <1>3 DEF FlushLost, deskVars, phoneVars, outboxVars, Idle
  <2>3. /\ Queue' /\ Ids' /\ InOrder' /\ Answers' /\ ChanStutter
        /\ \A x \in ClientIds : seqOf[x] # 0 => \E w \in writes' : w.client = x /\ w.seq = seqOf[x]
    BY <2>1, <2>2, OrderPost
  <2>. QED
    BY <2>2, <2>3 DEF Order, Receipts, Batch
<1>. QED
  BY <1>1, <1>2, <1>3

(* A refusal takes a write that has no answer out of the outbox.           *)
LEMMA OrderRefused ==
    ASSUME TypeInv, Order, FlushRefused
    PROVE  /\ Order' /\ UNCHANGED <<lastId, localId, taken>>
           /\ \E c \in outbox :
                /\ Unanswered(c) /\ outbox' = outbox \ {c}
                /\ {x \in outbox' : Unanswered(x)'} = {x \in outbox : Unanswered(x)} \ {c}
<1>1. PICK c \in pull.batch :
         /\ c \in ClientIds /\ \A w \in writes : w.client # c
         /\ outbox' = outbox \ {c} /\ result' = [result EXCEPT ![c] = "refused"]
         /\ pull'.pc = "flush" /\ pull'.batch = pull.batch \ {c}
  BY RefusedTo
<1>2. /\ pull.pc = "flush" /\ UNCHANGED <<storeVars, localId, lastId, seqOf, doc, taken>>
  BY DEF FlushRefused
<1>3. ~Posted(c) /\ c \in outbox
  BY <1>1, <1>2 DEF Posted, Order, Batch
<1>4. Unanswered(c) /\ doc[c] # NoDoc
  BY <1>1, <1>3 DEF Order, Answers, Ids, Unanswered
<1>5. \A x \in ClientIds \ {c} : result'[x] = result[x]
  BY <1>1, OrderTypes
<1>6. result'[c] = "refused"
  BY <1>1, OrderTypes
<1>7. Queue' /\ Ids' /\ InOrder' /\ Receipts'
  BY <1>1, <1>2 DEF Order, Queue, Ids, InOrder, Receipts, Posted, storeVars
<1>8. Batch'
  BY <1>1, <1>2 DEF Order, Batch, Posted, storeVars
<1>9. Answers'
  <2>1. \A w \in writes : w.client \in ClientIds \ {c}
    BY <1>1, OrderTypes
  <2>2. outbox' \subseteq ClientIds \ {c}
    BY <1>1, OrderTypes
  <2>. QED
    BY <1>1, <1>2, <1>4, <1>5, <2>1, <2>2 DEF Order, Answers, Posted, storeVars
<1>10. {x \in outbox' : Unanswered(x)'} = {x \in outbox : Unanswered(x)} \ {c}
  BY <1>1, <1>5, OrderTypes DEF Unanswered
<1>. QED
  BY <1>1, <1>2, <1>3, <1>4, <1>7, <1>8, <1>9, <1>10 DEF Order

(* Prune drops only writes the desk has answered.                          *)
LEMMA OrderPrune ==
    ASSUME TypeInv, Order, Prune
    PROVE  /\ Order' /\ UNCHANGED <<lastId, localId, taken>> /\ outbox' \subseteq outbox
           /\ {x \in outbox' : Unanswered(x)'} = {x \in outbox : Unanswered(x)}
<1>1. outbox' = {c \in outbox : ~Prunable(c)} /\ pull' = Idle
  BY PruneTo
<1>2. UNCHANGED <<storeVars, localId, lastId, seqOf, doc, taken, result>>
  BY DEF Prune, deskVars
<1>3. ASSUME NEW c \in outbox, Prunable(c)
      PROVE  ~Unanswered(c) /\ \A w \in writes : w.client = c => ~(w.seq > taken)
  <2>1. c \in ClientIds /\ seqOf[c] \in 1..vault.ackedThroughSeq /\ seqOf[c] # 0
    BY <1>3, OrderTypes DEF Prunable
  <2>2. PICK w \in writes : w.client = c /\ w.seq = seqOf[c]
    BY <2>1 DEF Order, Receipts
  <2>3. ~(w.seq > taken)
    BY <2>1, <2>2, OrderTypes DEF Order, Queue
  <2>4. ~Unanswered(c)
    BY <2>2, <2>3 DEF Order, Answers, Unanswered
  <2>. QED
    BY <2>2, <2>3, <2>4 DEF Order, Queue
<1>4. Queue' /\ Ids' /\ InOrder' /\ Receipts'
  BY <1>1, <1>2 DEF Order, Queue, Ids, InOrder, Receipts, Posted, storeVars
<1>5. Batch'
  BY <1>1 DEF Batch, Idle
<1>6. Answers'
  BY <1>1, <1>2, <1>3 DEF Order, Answers, Posted, storeVars
<1>7. {x \in outbox' : Unanswered(x)'} = {x \in outbox : Unanswered(x)}
  BY <1>1, <1>2, <1>3 DEF Unanswered
<1>. QED
  BY <1>1, <1>2, <1>4, <1>5, <1>6, <1>7 DEF Order

(* The desk takes the next seq, and with it the oldest write it has not    *)
(* answered.                                                               *)
LEMMA OrderTake ==
    ASSUME TypeInv, Order, NEW w \in writes, DeskTake(w)
    PROVE  /\ Order' /\ UNCHANGED <<lastId, localId, outbox>> /\ taken' = taken + 1
           /\ w.client \in outbox /\ Unanswered(w.client)
           /\ \A x \in outbox : Unanswered(x) => localId[w.client] <= localId[x]
           /\ {x \in outbox' : Unanswered(x)'} = {x \in outbox : Unanswered(x)} \ {w.client}
<1>1. /\ w \in ListWrites(taken) /\ \A x \in ListWrites(taken) : w.seq <= x.seq
      /\ taken' = w.seq /\ UNCHANGED <<storeVars, phoneVars, pull>>
  BY DEF DeskTake
<1>2. PICK res \in {"applied", "noop"} : result' = [result EXCEPT ![w.client] = res]
  BY DEF DeskTake
<1>3. /\ w.seq > taken /\ w.client \in ClientIds /\ w.seq \in Nat /\ taken \in Nat
      /\ vault.latestSeq \in Nat /\ vault.ackedThroughSeq \in Nat
      /\ \A x \in writes : x.seq \in Nat /\ x.client \in ClientIds
  BY <1>1, OrderTypes DEF ListWrites
<1>4. ASSUME NEW x \in writes, x.seq > taken PROVE w.seq <= x.seq
  <2>1. x \in ListWrites(taken)
    BY <1>3, <1>4 DEF ListWrites, Order, Queue
  <2>. QED
    BY <1>1, <2>1
<1>5. w.seq = taken + 1
  <2>1. taken + 1 \in 1..vault.latestSeq
    BY <1>3 DEF Order, Queue
  <2>2. PICK x \in writes : x.seq = taken + 1
    BY <2>1 DEF Order, Queue
  <2>. QED
    BY <1>3, <1>4, <2>2
<1>6. w.client \in outbox /\ Unanswered(w.client)
  BY <1>3 DEF Order, Answers, Unanswered
<1>7. ASSUME NEW x \in outbox, Unanswered(x) PROVE localId[w.client] <= localId[x]
  <2>1. x \in ClientIds /\ localId[w.client] \in Nat /\ localId[x] \in Nat
    BY <1>3, OrderTypes
  <2>2. CASE ~Posted(x)
    BY <2>1, <2>2 DEF Order, InOrder
  <2>3. CASE Posted(x)
    <3>1. PICK v \in writes : v.client = x
      BY <2>3 DEF Posted
    <3>2. v.seq > taken
      BY <1>7, <3>1 DEF Order, Answers, Unanswered
    <3>3. w.seq = v.seq \/ w.seq < v.seq
      BY <1>3, <1>4, <3>2
    <3>. QED
      BY <2>1, <3>1, <3>3 DEF Order, Queue, InOrder
  <2>. QED
    BY <2>2, <2>3
<1>8. /\ UNCHANGED <<outbox, localId, lastId, seqOf, doc>> /\ writes' = writes /\ vault' = vault
  BY <1>1 DEF storeVars, phoneVars, outboxVars
<1>9. /\ result'[w.client] # "waiting" /\ \A x \in ClientIds \ {w.client} : result'[x] = result[x]
  BY <1>2, <1>3, OrderTypes
<1>10. Queue'
  BY <1>3, <1>5, <1>1, <1>8 DEF Order, Queue
<1>11. Ids' /\ InOrder' /\ Receipts' /\ Batch'
  BY <1>1, <1>8 DEF Order, Ids, InOrder, Receipts, Batch, Posted
<1>12. Answers'
  <2>1. ASSUME NEW x \in writes
        PROVE  /\ result'[x.client] = "waiting" <=> x.seq > taken'
               /\ x.seq > taken' => x.client \in outbox
    <3>1. CASE x = w
      BY <1>1, <1>3, <1>9, <3>1
    <3>2. CASE x # w
      <4>1. x.client # w.client /\ x.seq # w.seq
        BY <3>2 DEF Order, Queue
      <4>2. x.seq > taken <=> x.seq > taken'
        BY <1>1, <1>3, <1>5, <4>1
      <4>. QED
        BY <1>3, <1>9, <4>1, <4>2 DEF Order, Answers
    <3>. QED
      BY <3>1, <3>2
  <2>2. ASSUME NEW c \in ClientIds, ~Posted(c), c \in outbox \/ doc[c] = NoDoc
        PROVE  result'[c] = "waiting"
    BY <1>9, <2>2 DEF Order, Answers, Posted
  <2>. QED
    BY <1>8, <2>1, <2>2 DEF Answers, Posted
<1>13. {x \in outbox' : Unanswered(x)'} = {x \in outbox : Unanswered(x)} \ {w.client}
  BY <1>8, <1>9, OrderTypes DEF Unanswered
<1>. QED
  BY <1>1, <1>5, <1>6, <1>7, <1>8, <1>10, <1>11, <1>12, <1>13 DEF Order

(* An ack changes no seq.                                                  *)
LEMMA OrderAck == ASSUME TypeInv, Order, DeskAck PROVE Order' /\ ChanStutter
<1>1. /\ taken <= vault.latestSeq /\ vault'.latestSeq = vault.latestSeq
      /\ vault.ackedThroughSeq < taken /\ vault'.ackedThroughSeq = taken
      /\ writes' = {[w EXCEPT !.acked = w.acked \/ w.seq <= taken] : w \in writes}
  BY AckTo
<1>2. UNCHANGED <<outboxVars, pull, taken, result>>
  BY DEF DeskAck, phoneVars, deskVars
<1>. DEFINE Mark(w) == [w EXCEPT !.acked = w.acked \/ w.seq <= taken]
<1>3. ASSUME NEW w \in writes
      PROVE  /\ Mark(w).seq = w.seq /\ Mark(w).client = w.client
             /\ Mark(w).acked <=> w.seq <= taken
  <2>1. w \in QueuedWrite
    BY DEF TypeInv, TypeOK, StoreTypeOK
  <2>2. (w.acked \/ w.seq <= taken) <=> w.seq <= taken
    BY <1>1, OrderTypes DEF Order, Queue
  <2>3. PICK b \in BOOLEAN : b = (w.acked \/ w.seq <= taken)
    OBVIOUS
  <2>4. Mark(w) = [w EXCEPT !.acked = b]
    BY <2>3
  <2>. QED
    BY <2>1, <2>2, <2>3, <2>4 DEF QueuedWrite
<1>4. writes' = {Mark(w) : w \in writes}
  BY <1>1
<1>. HIDE DEF Mark
<1>5. ASSUME NEW c PROVE Posted(c)' <=> Posted(c)
  BY <1>3, <1>4 DEF Posted
<1>6. Queue'
  <2>1. \A w, x \in writes' : w.seq = x.seq \/ w.client = x.client => w = x
    BY <1>3, <1>4 DEF Order, Queue
  <2>2. \A w \in writes' : w.seq <= vault'.latestSeq /\ (w.acked <=> w.seq <= vault'.ackedThroughSeq)
    BY <1>1, <1>3, <1>4 DEF Order, Queue
  <2>3. \A n \in 1..vault'.latestSeq : \E w \in writes' : w.seq = n
    BY <1>1, <1>3, <1>4 DEF Order, Queue
  <2>. QED
    <3>1. vault'.ackedThroughSeq <= taken' /\ taken' <= vault'.latestSeq
      BY <1>1, <1>2, OrderTypes
    <3>. QED
      BY <2>1, <2>2, <2>3, <3>1 DEF Queue
<1>7. Ids' /\ InOrder'
  BY <1>2, <1>3, <1>4, <1>5 DEF Order, Ids, InOrder, outboxVars
<1>8. Receipts'
  BY <1>2, <1>3, <1>4 DEF Order, Receipts, outboxVars
<1>9. Batch' /\ Answers'
  BY <1>2, <1>3, <1>4, <1>5 DEF Order, Batch, Answers, outboxVars
<1>10. ChanStutter
  BY <1>2 DEF ChanStutter, Unanswered, outboxVars
<1>. QED
  BY <1>6, <1>7, <1>8, <1>9, <1>10 DEF Order

(* The steps the channel does not see.                                     *)
LEMMA OrderQuiet ==
    ASSUME TypeInv, Order,
           \/ EndFlush \/ ListAuth \/ ListRead \/ NextPage \/ SaveCursor \/ SaveRefetch \/ Abort
           \/ \E r \in pull.page : TakeKnown(r) \/ TakeSnapshot(r) \/ TakeFailed(r)
           \/ \E p \in Paths : DeskEdit(p) \/ DeskRemove(p) \/ DeskUpload(p) \/ SweepTombstone(p)
           \/ UNCHANGED vars
    PROVE  Order' /\ ChanStutter
<1>. USE DEF phoneVars, outboxVars, deskVars
<1>1. CASE EndFlush \/ ListAuth \/ ListRead \/ NextPage
  <2>1. pull'.pc # "flush"
    <3>1. CASE EndFlush
      BY <3>1 DEF EndFlush, ListFrom
    <3>2. CASE ListAuth \/ ListRead
      BY <3>2, ListAuthTo, ListReadTo
    <3>3. CASE NextPage
      <4>1. pull \in Paging
        BY <3>3, Shapes DEF TypeInv, TypeOK, NextPage
      <4>. QED
        BY <3>3, <4>1 DEF NextPage, Paging
    <3>. QED
      BY <1>1, <3>1, <3>2, <3>3
  <2>2. UNCHANGED <<storeVars, outboxVars, taken, result>>
    BY <1>1 DEF EndFlush, ListAuth, ListRead, NextPage
  <2>. QED
    BY <2>1, <2>2, SameStore, OrderSame
<1>2. CASE SaveCursor \/ SaveRefetch \/ Abort
  <2>1. pull'.pc # "flush"
    BY <1>2 DEF SaveCursor, SaveRefetch, Abort, Idle
  <2>2. UNCHANGED <<storeVars, outboxVars, taken, result>>
    BY <1>2 DEF SaveCursor, SaveRefetch, Abort
  <2>. QED
    BY <2>1, <2>2, SameStore, OrderSame
<1>3. ASSUME NEW r, TakeKnown(r) \/ TakeSnapshot(r) \/ TakeFailed(r) PROVE Order' /\ ChanStutter
  <2>1. pull'.pc # "flush"
    BY <1>3, TakeKnownTo, TakeSnapshotTo, TakeFailedTo DEF Taken
  <2>2. UNCHANGED <<storeVars, outboxVars, taken, result>>
    BY <1>3 DEF TakeKnown, TakeSnapshot, TakeFailed
  <2>. QED
    BY <2>1, <2>2, SameStore, OrderSame
<1>4. ASSUME NEW p \in Paths, DeskEdit(p) \/ DeskRemove(p) PROVE Order' /\ ChanStutter
  <2>1. UNCHANGED <<storeVars, outboxVars, pull, taken, result>>
    BY <1>4 DEF DeskEdit, DeskRemove
  <2>. QED
    BY <2>1, SameStore, OrderSame
<1>5. ASSUME NEW p \in Paths, DeskUpload(p) \/ SweepTombstone(p) PROVE Order' /\ ChanStutter
  <2>1. SameQueue
    BY <1>5, UploadTo, SweepTo
  <2>2. UNCHANGED <<outboxVars, pull, taken, result>>
    BY <1>5 DEF DeskUpload, SweepTombstone
  <2>. QED
    BY <2>1, <2>2, OrderSame
<1>6. CASE UNCHANGED vars
  BY <1>6, SameStore, OrderSame DEF vars
<1>. QED
  BY <1>1, <1>2, <1>3, <1>4, <1>5, <1>6

(* The channel stands still when its variables do.                         *)
LEMMA StutterIsStutter == ASSUME ChanStutter PROVE UNCHANGED Chan!chanVars
BY DEF ChanStutter, Chan!chanVars

(* Every step keeps the order and is a step of the channel.                *)
LEMMA OrderStep ==
    ASSUME TypeInv, Order, [Next]_vars PROVE Order' /\ [Chan!Next]_(Chan!chanVars)
<1>1. CASE StartRound \/ FlushOne \/ FlushLost
  BY <1>1, OrderFlush, StutterIsStutter
<1>2. CASE DeskAck
  BY <1>2, OrderAck, StutterIsStutter
<1>3. CASE \/ EndFlush \/ ListAuth \/ ListRead \/ NextPage \/ SaveCursor \/ SaveRefetch \/ Abort
           \/ \E r \in pull.page : TakeKnown(r) \/ TakeSnapshot(r) \/ TakeFailed(r)
           \/ \E p \in Paths : DeskEdit(p) \/ DeskRemove(p) \/ DeskUpload(p) \/ SweepTombstone(p)
           \/ UNCHANGED vars
  BY <1>3, OrderQuiet, StutterIsStutter
<1>4. ASSUME NEW c \in ClientIds, NEW d \in Docs, d # NoDoc, Enlist(c, d),
             UNCHANGED <<storeVars, pull, deskVars>>
      PROVE  Order' /\ Chan!Next
  <2>1. /\ Order' /\ localId[c] = 0 /\ lastId' = lastId + 1
        /\ localId' = [localId EXCEPT ![c] = lastId + 1] /\ outbox' = outbox \cup {c}
        /\ {x \in outbox' : Unanswered(x)'} = {x \in outbox : Unanswered(x)} \cup {c}
        /\ taken' = taken
    BY <1>4, OrderRecord
  <2>2. Chan!Make(c)
    BY <2>1 DEF Chan!Make
  <2>. QED
    BY <2>1, <2>2 DEF Chan!Next
<1>5. ASSUME NEW p \in Paths, NEW c \in ClientIds, RecordText(p, c) PROVE Order' /\ Chan!Next
  <2>1. Text(p) \in Docs /\ Text(p) # NoDoc
    BY DEF Docs, Text, NoDoc
  <2>. QED
    BY <1>4, <1>5, <2>1 DEF RecordText
<1>6. ASSUME NEW p \in Paths, NEW q \in Paths, NEW c \in ClientIds, RecordMove(p, q, c)
      PROVE  Order' /\ Chan!Next
  <2>1. Move(p, q) \in Docs /\ Move(p, q) # NoDoc
    BY DEF Docs, Move, NoDoc
  <2>. QED
    BY <1>4, <1>6, <2>1 DEF RecordMove
<1>7. CASE FlushRefused
  <2>1. Order' /\ UNCHANGED <<lastId, localId, taken>>
    BY <1>7, OrderRefused
  <2>2. PICK c \in outbox :
          /\ Unanswered(c) /\ outbox' = outbox \ {c}
          /\ {x \in outbox' : Unanswered(x)'} = {x \in outbox : Unanswered(x)} \ {c}
    BY <1>7, OrderRefused
  <2>3. Chan!Refuse(c) /\ c \in ClientIds
    BY <2>1, <2>2, OrderTypes DEF Chan!Refuse
  <2>. QED
    BY <2>1, <2>3 DEF Chan!Next
<1>8. CASE Prune
  <2>1. /\ Order' /\ UNCHANGED <<lastId, localId, taken>> /\ outbox' \subseteq outbox
        /\ {x \in outbox' : Unanswered(x)'} = {x \in outbox : Unanswered(x)}
    BY <1>8, OrderPrune
  <2>2. Chan!LetGo
    BY <2>1 DEF Chan!LetGo
  <2>. QED
    BY <2>1, <2>2 DEF Chan!Next
<1>9. ASSUME NEW w \in writes, DeskTake(w) PROVE Order' /\ Chan!Next
  <2>1. /\ Order' /\ UNCHANGED <<lastId, localId, outbox>> /\ taken' = taken + 1
        /\ w.client \in outbox /\ Unanswered(w.client)
        /\ \A x \in outbox : Unanswered(x) => localId[w.client] <= localId[x]
        /\ {x \in outbox' : Unanswered(x)'} = {x \in outbox : Unanswered(x)} \ {w.client}
    BY <1>9, OrderTake
  <2>2. Chan!Answer(w.client) /\ w.client \in ClientIds
    BY <2>1, OrderTypes DEF Chan!Answer
  <2>. QED
    BY <2>1, <2>2 DEF Chan!Next
<1>. QED
  BY <1>1, <1>2, <1>3, <1>5, <1>6, <1>7, <1>8, <1>9
  DEF Next, Round, Mishap, DeskJob, User

(* A phone that loses, repeats and cuts short its posts, is refused some   *)
(* and is killed half way, with a service and a desk that go their own     *)
(* pace, implements the ordered channel: the desk answers the changes in   *)
(* the order they were made, each once, and the outbox drops one only when *)
(* it is answered or refused.                                              *)
THEOREM ImplementsChannel == Spec => DeliversInOrder
<1>1. Init => TypeInv /\ Order
  BY TypeInit, OrderInit
<1>2. Init => Chan!Init
  BY DEF Init, Chan!Init
<1>3. TypeInv /\ Order /\ [Next]_vars => TypeInv' /\ Order' /\ [Chan!Next]_(Chan!chanVars)
  BY TypeStep, OrderStep
<1>. QED
  BY <1>1, <1>2, <1>3, PTL DEF Spec, DeliversInOrder, Chan!Spec

-------------------------------------------------------------------------------
(* The mirror of the desk's notes *)

(* The blob a path's row names, if it is live.                             *)
Current(p) == IF IsLive(files[p]) THEN files[p].blob ELSE NoBlob

(* The last change of a path is its row's, or behind the horizon when the  *)
(* tombstone was swept.                                                    *)
LastChange(p) ==
    /\ changed[p] <= vault.latestVersion
    /\ files[p].version > 0 => files[p].version = changed[p]
    /\ files[p].version = 0 => files[p] = NoRow /\ changed[p] <= vault.tombstoneHorizon
    /\ IsLive(files[p]) => files[p].blob = files[p].version

Listing == pull.pc \in {"list", "auth", "page"}
Pos == IF pull.pc = "page" THEN pull.next ELSE pull.since   \* how far the pull has come
InPage(p) == pull.pc = "page" /\ \E r \in pull.page : r[1] = p

(* No number of the phone or of a pull is ahead of the counter, and a pull *)
(* without a cursor is a full one that has listed nothing.                 *)
Behind ==
    /\ vault.tombstoneHorizon <= vault.latestVersion /\ cursor <= vault.latestVersion
    /\ Listing => /\ pull.since = Full => pull.full /\ (pull.pc # "page" => pull.listed = {})
                  /\ Pos <= vault.latestVersion /\ pull.latest <= vault.latestVersion
                  /\ pull.since <= vault.latestVersion

(* A full pull has passed a live note only by listing it.                  *)
Listed(p) ==
    Listing /\ pull.full /\ p \notin pull.listed /\ changed[p] <= Pos
        => ~IsLive(files[p]) \/ InPage(p)

(* A change the pull has passed is on the phone, failed, or on its page.   *)
Fetched(p) ==
    /\ Listing /\ p \notin missed /\ (~pull.full \/ p \in pull.listed) /\ changed[p] <= Pos
    => p \in pull.failed \/ rows[p].blob = Current(p) \/ InPage(p)

(* The row of a page is the path's row, or the path has changed since and  *)
(* will be listed again, or its tombstone was swept.                       *)
OnPage(p) ==
    pull.pc = "page" => \A r \in pull.page : r[1] = p =>
        /\ r[2].version > 0 /\ (~r[2].deleted => r[2].blob = r[2].version)
        /\ changed[p] <= pull.next \/ changed[p] <= cursor =>
             r[2] = files[p] \/ (r[2].deleted /\ files[p] = NoRow)
        /\ \A s \in pull.page : s[1] = p => s = r

(* Once a request is let in, what changed since its cursor has a row.      *)
Seen(p) ==
    pull.pc = "auth" /\ pull.since # Full /\ p \notin missed /\ changed[p] > pull.since
        => files[p] # NoRow

(* With the cursor just saved, what failed is what does not mirror.        *)
Kept(p) == pull.pc = "remember" /\ p \notin missed => Mirrors(p) \/ p \in pull.failed

Mirrored(p) ==
    p \notin missed => Mirrors(p) \/ p \in refetch \/ (pull.pc = "remember" /\ p \in pull.failed)

PathInv(p) ==
    LastChange(p) /\ Listed(p) /\ Fetched(p) /\ OnPage(p) /\ Seen(p) /\ Kept(p) /\ Mirrored(p)

MirrorInv == Behind /\ \A p \in Paths : PathInv(p)

(* The numbers these are about.                                            *)
LEMMA MirrorTypes ==
    ASSUME TypeInv
    PROVE  /\ vault.latestVersion \in Nat /\ vault.tombstoneHorizon \in Nat /\ cursor \in Nat
           /\ \A p \in Paths : changed[p] \in Nat /\ files[p] \in FileRow /\ files[p].version \in Nat
           /\ Listing => pull \in Paging /\ pull.since \in Nat \cup {Full} /\ pull.next \in Nat
                         /\ pull.latest \in Nat /\ pull.page \subseteq Paths \X FileRow
                         /\ pull.since \in Int /\ Pos \in Int
<1>1. /\ StoreTypeOK /\ cursor \in Nat /\ changed \in [Paths -> Nat]
  BY TypeParts DEF TypeInv, PhoneTypes, HistoryTypes
<1>2. Listing => pull \in Paging
  BY Shapes DEF TypeInv, TypeOK, Listing
<1>3. pull \in Paging => pull.since \in Int /\ Pos \in Int
  BY DEF Paging, Full, Pos
<1>. QED
  BY <1>1, <1>2, <1>3 DEF StoreTypeOK, VaultRow, FileRow, Paging

(* A path of which a step changes neither row, nor place in the pull.      *)
LEMMA PathSame ==
    ASSUME NEW p \in Paths, PathInv(p), pull' = pull, cursor' = cursor, refetch' = refetch,
           changed'[p] = changed[p], files'[p] = files[p],
           p \in missed => p \in missed', p \notin missed' => rows'[p].blob = rows[p].blob,
           vault.latestVersion <= vault'.latestVersion, vault.latestVersion \in Nat,
           vault'.latestVersion \in Nat, vault.tombstoneHorizon <= vault'.tombstoneHorizon,
           vault.tombstoneHorizon \in Nat, vault'.tombstoneHorizon \in Nat, changed[p] \in Nat
    PROVE  PathInv(p)'
<1>. USE DEF PathInv, Listing, Pos, InPage, Current
<1>1. LastChange(p)'
  BY DEF LastChange
<1>2. Listed(p)' /\ Fetched(p)'
  BY DEF Listed, Fetched
<1>3. OnPage(p)' /\ Seen(p)'
  BY DEF OnPage, Seen
<1>4. Kept(p)' /\ Mirrored(p)'
  BY DEF Kept, Mirrored, Mirrors
<1>. QED
  BY <1>1, <1>2, <1>3, <1>4

(* The mirror at the start.                                                *)
LEMMA MirrorInit == ASSUME Init PROVE MirrorInv
<1>1. /\ vault.latestVersion = 0 /\ vault.tombstoneHorizon = 0 /\ cursor = 0 /\ pull.pc = "idle"
  BY DEF Init, BlankVault, Idle
<1>2. ASSUME NEW p \in Paths PROVE PathInv(p)
  <2>1. /\ files[p] = NoRow /\ files[p].version = 0 /\ changed[p] = 0 /\ rows[p].blob = NoBlob
    BY DEF Init, NoRow, Absent
  <2>. QED
    BY <1>1, <2>1 DEF PathInv, LastChange, Listed, Fetched, OnPage, Seen, Kept, Mirrored, Mirrors,
                      Listing, IsLive
<1>. QED
  BY <1>1, <1>2 DEF MirrorInv, Behind, Listing

(* The steps that leave the tables' files and the pull alone.              *)
LEMMA MirrorSame ==
    ASSUME TypeInv, TypeInv', MirrorInv, SameFiles, UNCHANGED <<pull, cursor, refetch, changed>>,
           missed \subseteq missed',
           \A p \in Paths : p \in missed' \/ rows'[p].blob = rows[p].blob
    PROVE  MirrorInv'
<1>1. Behind'
  BY DEF MirrorInv, Behind, SameFiles, Listing, Pos
<1>2. ASSUME NEW p \in Paths PROVE PathInv(p)'
  BY PathSame, MirrorTypes DEF MirrorInv, SameFiles
<1>. QED
  BY <1>1, <1>2 DEF MirrorInv

(* The user, and the desk's job before it uploads.                         *)
LEMMA MirrorUser ==
    ASSUME TypeInv, TypeInv', MirrorInv,
           \/ \E p \in Paths, c \in ClientIds : RecordText(p, c)
           \/ \E p, q \in Paths, c \in ClientIds : RecordMove(p, q, c)
           \/ \E p \in Paths : DeskEdit(p) \/ DeskRemove(p)
           \/ \E w \in writes : DeskTake(w)
           \/ DeskAck
           \/ UNCHANGED vars
    PROVE  MirrorInv'
<1>1. ASSUME NEW p \in Paths, NEW c \in ClientIds, RecordText(p, c) PROVE MirrorInv'
  <2>1. /\ UNCHANGED <<storeVars, cursor, refetch, pull, changed>> /\ missed' = missed
        /\ \A x \in Paths : rows'[x].blob = rows[x].blob
    BY <1>1, RecordType
  <2>. QED
    BY <2>1, SameStore, MirrorSame
<1>2. ASSUME NEW p \in Paths, NEW q \in Paths, NEW c \in ClientIds, RecordMove(p, q, c)
      PROVE  MirrorInv'
  <2>1. /\ UNCHANGED <<storeVars, cursor, refetch, pull, changed>> /\ missed' = missed \cup {p, q}
        /\ \A x \in Paths \ {p, q} : rows'[x] = rows[x]
    BY <1>2, RecordType
  <2>. QED
    BY <2>1, SameStore, MirrorSame
<1>3. CASE (\E p \in Paths : DeskEdit(p) \/ DeskRemove(p)) \/ (\E w \in writes : DeskTake(w))
  <2>1. UNCHANGED <<storeVars, phoneVars, pull, changed, missed>>
    BY <1>3 DEF DeskEdit, DeskRemove, DeskTake, historyVars
  <2>. QED
    BY <2>1, SameStore, MirrorSame DEF phoneVars
<1>4. CASE DeskAck
  <2>1. SameFiles /\ UNCHANGED <<phoneVars, pull, historyVars>>
    BY <1>4, AckTo DEF DeskAck
  <2>. QED
    BY <2>1, MirrorSame DEF phoneVars, historyVars
<1>5. CASE UNCHANGED vars
  BY <1>5, SameStore, MirrorSame DEF vars, phoneVars, historyVars
<1>. QED
  BY <1>1, <1>2, <1>3, <1>4, <1>5

(* An upload is ahead of every cursor; a sweep takes only what the horizon *)
(* has passed, and what a request let in before was to list is missed.     *)
LEMMA MirrorTables ==
    ASSUME TypeInv, TypeInv', MirrorInv, NEW p \in Paths, DeskUpload(p) \/ SweepTombstone(p)
    PROVE  MirrorInv'
<1>1. /\ UNCHANGED <<phoneVars, pull>> /\ rows' = rows /\ cursor' = cursor /\ refetch' = refetch
  BY DEF DeskUpload, SweepTombstone, phoneVars
<1>2. CASE DeskUpload(p)
  <2>1. missed' = missed
    BY <1>2 DEF DeskUpload
  <2>2. CASE SameFiles /\ changed' = changed
    BY <1>1, <2>1, <2>2, MirrorSame
  <2>3. CASE /\ NewRow(p) /\ changed'[p] = vault'.latestVersion
             /\ \A q \in Paths \ {p} : changed'[q] = changed[q]
    <3>1. /\ vault'.latestVersion = vault.latestVersion + 1
          /\ vault'.tombstoneHorizon = vault.tombstoneHorizon
          /\ files'[p].version = vault'.latestVersion
          /\ files'[p] = LiveRow(vault'.latestVersion, vault'.latestVersion, 1)
               \/ files'[p] = Tombstone(vault'.latestVersion)
          /\ \A q \in Paths \ {p} : files'[q] = files[q]
      BY <2>3 DEF NewRow
    <3>2. Behind'
      BY <1>1, <3>1, MirrorTypes DEF MirrorInv, Behind, Listing, Pos
    <3>3. ASSUME NEW q \in Paths \ {p} PROVE PathInv(q)'
      BY <1>1, <2>1, <2>3, <3>1, PathSame, MirrorTypes DEF MirrorInv
    <3>4. PathInv(p)'
      <4>1. LastChange(p)'
        BY <2>3, <3>1, MirrorTypes DEF LastChange, LiveRow, Tombstone, IsLive
      <4>2. ~(changed'[p] <= cursor) /\ (Listing => ~(changed'[p] <= Pos))
        BY <2>3, <3>1, MirrorTypes DEF MirrorInv, Behind, Listing, Pos
      <4>3. Listed(p)' /\ Fetched(p)'
        BY <1>1, <4>2 DEF Listed, Fetched, Listing, Pos
      <4>4. pull.pc = "page" => ~(changed'[p] <= pull.next)
        BY <4>2 DEF Listing, Pos
      <4>5. OnPage(p)'
        BY <1>1, <4>2, <4>4 DEF OnPage, MirrorInv, PathInv
      <4>6. Seen(p)'
        <5>1. files'[p] # NoRow
          BY <3>1, MirrorTypes DEF NoRow
        <5>. QED
          BY <5>1 DEF Seen
      <4>7. Kept(p)' /\ Mirrored(p)'
        BY <1>1, <4>2 DEF Kept, Mirrored, Mirrors
      <4>. QED
        BY <4>1, <4>3, <4>5, <4>6, <4>7 DEF PathInv
    <3>. QED
      BY <3>2, <3>3, <3>4 DEF MirrorInv
  <2>. QED
    BY <1>2, <2>2, <2>3, UploadTo
<1>3. CASE SweepTombstone(p)
  <2>1. /\ vault'.latestVersion = vault.latestVersion
        /\ vault'.tombstoneHorizon \in {vault.tombstoneHorizon, files[p].version}
        /\ vault.tombstoneHorizon <= vault'.tombstoneHorizon
        /\ files[p].version <= vault'.tombstoneHorizon
        /\ files[p].deleted /\ files'[p] = NoRow /\ \A q \in Paths \ {p} : files'[q] = files[q]
    BY <1>3, SweepTo
  <2>2. /\ changed' = changed /\ missed \subseteq missed'
        /\ pull.pc = "auth" /\ pull.since # Full /\ files[p].version > pull.since => p \in missed'
        /\ \A q \in Paths \ {p} : q \in missed' <=> q \in missed
    BY <1>3 DEF SweepTombstone
  <2>3. Behind'
    BY <1>1, <2>1, MirrorTypes DEF MirrorInv, Behind, Listing, Pos, TypeInv, Versions
  <2>4. ASSUME NEW q \in Paths \ {p} PROVE PathInv(q)'
    BY <1>1, <2>1, <2>2, PathSame, MirrorTypes DEF MirrorInv
  <2>5. PathInv(p)'
    <3>1. PathInv(p)
      BY DEF MirrorInv
    <3>2. files[p].version > 0 /\ files[p].version = changed[p] /\ ~IsLive(files[p])
      BY <2>1, <3>1, MirrorTypes DEF PathInv, LastChange, NoRow, IsLive
    <3>3. ~IsLive(files'[p]) /\ files'[p].version = 0
      BY <2>1 DEF NoRow, IsLive
    <3>4. Current(p) = NoBlob /\ Current(p)' = NoBlob
      BY <3>2, <3>3 DEF Current
    <3>5. LastChange(p)'
      BY <2>1, <2>2, <3>1, <3>2, <3>3, MirrorTypes DEF PathInv, LastChange
    <3>6. Listed(p)' /\ Fetched(p)'
      BY <1>1, <2>2, <3>1, <3>3, <3>4 DEF PathInv, Listed, Fetched, Listing, Pos, InPage
    <3>7. OnPage(p)'
      BY <1>1, <2>1, <2>2, <3>1 DEF PathInv, OnPage
    <3>8. Seen(p)'
      BY <1>1, <2>2, <3>2 DEF Seen
    <3>9. Kept(p)' /\ Mirrored(p)'
      BY <1>1, <2>2, <3>1, <3>2, <3>3 DEF PathInv, Kept, Mirrored, Mirrors
    <3>. QED
      BY <3>5, <3>6, <3>7, <3>8, <3>9 DEF PathInv
  <2>. QED
    BY <2>3, <2>4, <2>5 DEF MirrorInv
<1>. QED
  BY <1>2, <1>3

(* The steps outside a pull: the notes keep their blobs and the phone its  *)
(* cursor, and a round killed before it noted what failed misses that.     *)
LEMMA MirrorFlush ==
    ASSUME TypeInv, TypeInv', MirrorInv,
           StartRound \/ FlushOne \/ FlushLost \/ FlushRefused \/ Prune \/ Abort
    PROVE  MirrorInv'
<1>1. /\ UNCHANGED <<cursor, refetch, changed>> /\ pull'.pc \in {"flush", "idle"}
      /\ missed \subseteq missed' /\ SameFiles
      /\ \A p \in Paths : rows'[p].blob = rows[p].blob
      /\ \/ pull.pc # "remember" \/ \A p \in pull.failed : p \in missed'
  <2>. USE DEF phoneVars, historyVars
  <2>1. CASE StartRound
    BY <2>1, SameStore DEF StartRound, Idle
  <2>2. CASE FlushOne
    <3>1. PICK c \in pull.batch : Post(c) /\ pull' = [pull EXCEPT !.batch = @ \ {c}]
      BY <2>2 DEF FlushOne
    <3>2. c \in ClientIds /\ pull'.pc = "flush"
      BY <2>2, <3>1, RestOfBatch DEF FlushOne
    <3>3. SameFiles
      BY <3>1, <3>2, PostTo DEF TypeInv, TypeOK
    <3>. QED
      BY <2>2, <3>2, <3>3 DEF FlushOne
  <2>3. CASE FlushLost
    <3>1. PICK c \in pull.batch : Post(c)
      BY <2>3 DEF FlushLost
    <3>2. c \in ClientIds
      BY <2>3, Shapes DEF FlushLost, Flushing, TypeInv, TypeOK
    <3>3. SameFiles
      BY <3>1, <3>2, PostTo DEF TypeInv, TypeOK
    <3>. QED
      BY <2>3, <3>3 DEF FlushLost, Idle
  <2>4. CASE FlushRefused
    <3>1. pull'.pc = "flush" /\ \A p \in Paths : rows'[p].blob = rows[p].blob
      BY <2>4, RefusedTo
    <3>. QED
      BY <2>4, <3>1, SameStore DEF FlushRefused
  <2>5. CASE Prune
    <3>1. pull' = Idle /\ \A p \in Paths : rows'[p].blob = rows[p].blob
      BY <2>5, PruneTo
    <3>. QED
      BY <2>5, <3>1, SameStore DEF Prune, Idle
  <2>6. CASE Abort
    BY <2>6, SameStore DEF Abort, Idle
  <2>. QED
    BY <2>1, <2>2, <2>3, <2>4, <2>5, <2>6
<1>2. Behind'
  BY <1>1 DEF MirrorInv, Behind, SameFiles, Listing
<1>3. ASSUME NEW p \in Paths PROVE PathInv(p)'
  <2>1. PathInv(p) /\ files'[p] = files[p] /\ rows'[p].blob = rows[p].blob
    BY <1>1 DEF MirrorInv, SameFiles
  <2>2. LastChange(p)'
    BY <1>1, <2>1 DEF PathInv, LastChange, SameFiles
  <2>3. Listed(p)' /\ Fetched(p)' /\ OnPage(p)' /\ Seen(p)' /\ Kept(p)'
    BY <1>1 DEF Listed, Fetched, OnPage, Seen, Kept, Listing
  <2>4. Mirrored(p)'
    BY <1>1, <2>1 DEF PathInv, Mirrored, Mirrors
  <2>. QED
    BY <2>2, <2>3, <2>4 DEF PathInv
<1>. QED
  BY <1>2, <1>3 DEF MirrorInv

(* The parts that a step of a pull which takes nothing leaves alone.       *)
LEMMA PathRest ==
    ASSUME NEW p \in Paths, PathInv(p), pull.pc # "remember", pull'.pc # "remember",
           UNCHANGED <<storeVars, phoneVars, historyVars>>
    PROVE  LastChange(p)' /\ Kept(p)' /\ Mirrored(p)'
<1>. USE DEF storeVars, phoneVars, historyVars
<1>1. LastChange(p)'
  BY DEF PathInv, LastChange
<1>. QED
  BY <1>1 DEF PathInv, Kept, Mirrored, Mirrors

(* A pull begins where the cursor stands, or in full.                      *)
LEMMA MirrorBegin == ASSUME TypeInv, TypeInv', MirrorInv, EndFlush PROVE MirrorInv'
<1>1. pull.pc = "flush" /\ UNCHANGED <<storeVars, phoneVars, historyVars>>
  BY DEF EndFlush
<1>2. PICK since \in Nat \cup {Full} :
        /\ pull' = ListFrom(since) /\ since = IF cursor > 0 /\ refetch = {} THEN cursor ELSE Full
  BY MirrorTypes DEF EndFlush
<1>3. /\ pull'.pc = "list" /\ pull'.since = since /\ (pull'.full <=> since = Full)
      /\ pull'.listed = {} /\ pull'.latest = 0
  BY <1>2, ListFromTo
<1>4. since = Full \/ (since = cursor /\ refetch = {})
  BY <1>2
<1>5. /\ vault' = vault /\ files' = files /\ rows' = rows /\ cursor' = cursor
      /\ changed' = changed /\ missed' = missed
  BY <1>1 DEF storeVars, phoneVars, historyVars
<1>6. Behind'
  <2>1. /\ since <= vault.latestVersion /\ 0 <= vault.latestVersion
    BY <1>4, MirrorTypes DEF MirrorInv, Behind, Full
  <2>2. pull'.since = Full => pull'.full /\ pull'.listed = {}
    BY <1>3
  <2>. QED
    BY <1>3, <1>5, <2>1, <2>2 DEF MirrorInv, Behind, Pos
<1>7. ASSUME NEW p \in Paths PROVE PathInv(p)'
  <2>1. PathInv(p)
    BY DEF MirrorInv
  <2>2. LastChange(p)' /\ Kept(p)' /\ Mirrored(p)'
    BY <1>1, <1>3, <2>1, PathRest
  <2>3. OnPage(p)' /\ Seen(p)'
    BY <1>3 DEF OnPage, Seen
  <2>4. Listed(p)' /\ Fetched(p)'
    <3>1. CASE since = Full
      <4>1. ~(changed'[p] <= Pos')
        BY <1>3, <1>5, <3>1, MirrorTypes DEF Pos, Full
      <4>. QED
        BY <4>1 DEF Listed, Fetched
    <3>2. CASE since = cursor /\ refetch = {}
      <4>1. ~pull'.full
        BY <1>3, <3>2, MirrorTypes DEF Full
      <4>2. Pos' = cursor
        BY <1>3, <3>2 DEF Pos
      <4>3. p \notin missed /\ changed[p] <= cursor => rows[p].blob = Current(p)
        BY <1>1, <2>1, <3>2 DEF PathInv, Mirrored, Mirrors, Current
      <4>. QED
        BY <1>5, <4>1, <4>2, <4>3 DEF Listed, Fetched, Current
    <3>. QED
      BY <1>4, <3>1, <3>2
  <2>. QED
    BY <2>2, <2>3, <2>4 DEF PathInv
<1>. QED
  BY <1>6, <1>7 DEF MirrorInv

(* A request is let in only with a cursor the horizon has not passed.      *)
LEMMA MirrorAuth == ASSUME TypeInv, TypeInv', MirrorInv, ListAuth PROVE MirrorInv'
<1>1. /\ vault' = vault /\ files' = files /\ rows' = rows /\ cursor' = cursor
      /\ changed' = changed /\ missed' = missed
      /\ UNCHANGED <<storeVars, phoneVars, historyVars>>
  BY DEF ListAuth, storeVars, phoneVars, historyVars
<1>2. /\ pull.pc = "list" /\ pull'.failed = pull.failed /\ pull.since \in Int
      /\ \/ /\ pull'.pc = "list" /\ pull'.since = Full /\ pull'.full /\ pull'.listed = {}
            /\ pull'.latest = pull.latest
         \/ /\ pull.since = Full \/ ~(pull.since < vault.tombstoneHorizon)
            /\ pull'.pc = "auth" /\ pull'.since = pull.since /\ pull'.full = pull.full
            /\ pull'.listed = pull.listed /\ pull'.latest = vault.latestVersion
  BY ListAuthTo, MirrorTypes DEF Listing
<1>3. Behind'
  BY <1>1, <1>2, MirrorTypes DEF MirrorInv, Behind, Listing, Pos, Full
<1>4. ASSUME NEW p \in Paths PROVE PathInv(p)'
  <2>1. PathInv(p)
    BY DEF MirrorInv
  <2>2. LastChange(p)' /\ Kept(p)' /\ Mirrored(p)'
    BY <1>1, <1>2, <2>1, PathRest
  <2>3. OnPage(p)'
    BY <1>2 DEF OnPage
  <2>4. CASE pull'.pc = "list" /\ pull'.since = Full
    <3>1. ~(changed'[p] <= Pos') /\ Seen(p)'
      BY <1>1, <2>4, MirrorTypes DEF Pos, Full, Seen
    <3>. QED
      BY <2>2, <2>3, <3>1 DEF Listed, Fetched, PathInv
  <2>5. CASE /\ pull.since = Full \/ ~(pull.since < vault.tombstoneHorizon)
             /\ pull'.pc = "auth" /\ pull'.since = pull.since /\ pull'.full = pull.full
             /\ pull'.listed = pull.listed
    <3>1. Seen(p)'
      <4>1. pull.since # Full /\ files[p] = NoRow => ~(changed[p] > pull.since)
        BY <1>2, <2>1, <2>5, MirrorTypes DEF PathInv, LastChange, NoRow
      <4>. QED
        BY <1>1, <2>5, <4>1 DEF Seen
    <3>2. Listed(p)' /\ Fetched(p)'
      BY <1>1, <1>2, <2>1, <2>5 DEF PathInv, Listed, Fetched, Listing, Pos, InPage, Current
    <3>. QED
      BY <2>2, <2>3, <3>1, <3>2 DEF PathInv
  <2>. QED
    BY <1>2, <2>4, <2>5
<1>. QED
  BY <1>3, <1>4 DEF MirrorInv

(* The page lists every change between the cursor it was asked from and    *)
(* the one it answers.                                                     *)
LEMMA MirrorRead == ASSUME TypeInv, TypeInv', MirrorInv, ListRead PROVE MirrorInv'
<1>1. /\ vault' = vault /\ files' = files /\ rows' = rows /\ cursor' = cursor
      /\ changed' = changed /\ missed' = missed
      /\ UNCHANGED <<storeVars, phoneVars, historyVars>>
  BY DEF ListRead, storeVars, phoneVars, historyVars
<1>2. /\ pull.pc = "auth" /\ pull'.pc = "page"
      /\ pull'.since = pull.since /\ pull'.full = pull.full /\ pull'.listed = pull.listed
      /\ pull'.failed = pull.failed /\ pull'.latest = pull.latest
      /\ pull'.page \in SUBSET ListFiles(pull.since)
      /\ \A r \in ListFiles(pull.since) : r[2].version <= pull'.next => r \in pull'.page
      /\ \/ pull'.next = pull.latest
         \/ pull'.next = IF pull.since = Full THEN 0 ELSE pull.since
         \/ \E r \in ListFiles(pull.since) : pull'.next = r[2].version
  BY ListReadTo
<1>3. Listing /\ pull.since \in Int /\ pull.since \in Nat \cup {Full}
  BY <1>2, MirrorTypes DEF Listing
<1>4. \A r \in ListFiles(pull.since) : r[1] \in Paths /\ r[2] = files[r[1]] /\ r = <<r[1], files[r[1]]>>
  BY DEF ListFiles
<1>5. Behind'
  <2>1. \A r \in ListFiles(pull.since) : r[2].version <= vault.latestVersion
    BY <1>4 DEF TypeInv, Versions
  <2>2. pull'.next <= vault.latestVersion
    BY <1>2, <1>3, <2>1, MirrorTypes DEF MirrorInv, Behind
  <2>. QED
    BY <1>1, <1>2, <1>3, <2>2 DEF MirrorInv, Behind, Listing, Pos
<1>6. ASSUME NEW p \in Paths PROVE PathInv(p)'
  <2>1. PathInv(p)
    BY DEF MirrorInv
  <2>2. LastChange(p)' /\ Kept(p)' /\ Mirrored(p)'
    BY <1>1, <1>2, <2>1, PathRest
  <2>3. /\ files[p].version \in Nat /\ changed[p] \in Nat
        /\ files[p] # NoRow => files[p].version = changed[p] /\ files[p].version > 0
        /\ IsLive(files[p]) => files[p] # NoRow
    BY <2>1, MirrorTypes DEF PathInv, LastChange, IsLive, NoRow
  <2>4. ASSUME changed[p] <= pull'.next, files[p] # NoRow,
               IF pull.since = Full THEN IsLive(files[p]) ELSE changed[p] > pull.since
        PROVE  InPage(p)'
    <3>1. <<p, files[p]>> \in ListFiles(pull.since)
      BY <2>3, <2>4 DEF ListFiles
    <3>2. <<p, files[p]>> \in pull'.page
      BY <1>2, <2>3, <2>4, <3>1
    <3>. QED
      BY <1>2, <3>2 DEF InPage
  <2>5. Seen(p)'
    BY <1>2 DEF Seen
  <2>6. OnPage(p)'
    <3>1. ASSUME NEW r \in pull'.page, r[1] = p
          PROVE  /\ r[2].version > 0 /\ (~r[2].deleted => r[2].blob = r[2].version)
                 /\ r[2] = files[p] /\ \A s \in pull'.page : s[1] = p => s = r
      <4>1. r \in ListFiles(pull.since) /\ r[2] = files[p]
        BY <1>2, <1>4, <3>1
      <4>2. IF pull.since = Full THEN IsLive(files[p]) ELSE files[p].version > pull.since
        BY <3>1, <4>1 DEF ListFiles
      <4>3. files[p].version > 0
        BY <1>3, <2>3, <4>2 DEF IsLive, Full
      <4>4. ~files[p].deleted => files[p].blob = files[p].version
        BY <2>1, <4>3 DEF PathInv, LastChange, IsLive
      <4>. QED
        BY <1>2, <1>4, <3>1, <4>1, <4>3, <4>4
    <3>. QED
      BY <1>1, <3>1 DEF OnPage
  <2>7. Listed(p)'
    <3>1. ASSUME pull.full, p \notin pull.listed, changed[p] <= pull'.next, IsLive(files[p])
          PROVE  InPage(p)'
      <4>1. CASE pull.since # Full /\ changed[p] <= pull.since
        BY <1>2, <1>3, <2>1, <3>1, <4>1 DEF PathInv, Listed, Pos, InPage
      <4>2. CASE pull.since = Full \/ ~(changed[p] <= pull.since)
        BY <1>3, <2>3, <2>4, <3>1, <4>2
      <4>. QED
        BY <4>1, <4>2
    <3>. QED
      BY <1>1, <1>2, <3>1 DEF Listed, Pos
  <2>8. Fetched(p)'
    <3>1. ASSUME p \notin missed, ~pull.full \/ p \in pull.listed, changed[p] <= pull'.next
          PROVE  p \in pull.failed \/ rows[p].blob = Current(p) \/ InPage(p)'
      <4>1. pull.since # Full
        BY <1>2, <1>3, <3>1 DEF MirrorInv, Behind
      <4>2. CASE changed[p] <= pull.since
        BY <1>2, <1>3, <2>1, <3>1, <4>2 DEF PathInv, Fetched, Pos, InPage
      <4>3. CASE ~(changed[p] <= pull.since)
        <5>1. changed[p] > pull.since
          BY <1>3, <2>3, <4>3
        <5>2. files[p] # NoRow
          BY <1>2, <2>1, <3>1, <4>1, <5>1 DEF PathInv, Seen
        <5>. QED
          BY <2>4, <3>1, <4>1, <5>1, <5>2
      <4>. QED
        BY <4>2, <4>3
    <3>. QED
      BY <1>1, <1>2, <3>1 DEF Fetched, Pos, Current
  <2>. QED
    BY <2>2, <2>5, <2>6, <2>7, <2>8 DEF PathInv
<1>. QED
  BY <1>5, <1>6 DEF MirrorInv

(* The next page is asked from where the last one ended.                   *)
LEMMA MirrorNext == ASSUME TypeInv, TypeInv', MirrorInv, NextPage PROVE MirrorInv'
<1>1. /\ vault' = vault /\ files' = files /\ rows' = rows /\ cursor' = cursor
      /\ changed' = changed /\ missed' = missed
      /\ UNCHANGED <<storeVars, phoneVars, historyVars>>
  BY DEF NextPage, storeVars, phoneVars, historyVars
<1>2. pull \in Paging /\ pull.pc = "page" /\ pull.page = {} /\ pull.next \in Nat
  BY Shapes DEF NextPage, TypeInv, TypeOK, Paging
<1>3. /\ pull'.pc = "list" /\ pull'.since = pull.next /\ pull'.full = pull.full
      /\ pull'.listed = pull.listed /\ pull'.failed = pull.failed /\ pull'.latest = pull.latest
  BY <1>2 DEF NextPage, Paging
<1>4. pull'.since # Full
  BY <1>2, <1>3 DEF Full
<1>5. Behind'
  BY <1>1, <1>2, <1>3, <1>4 DEF MirrorInv, Behind, Listing, Pos
<1>6. ASSUME NEW p \in Paths PROVE PathInv(p)'
  <2>1. PathInv(p)
    BY DEF MirrorInv
  <2>2. LastChange(p)' /\ Kept(p)' /\ Mirrored(p)'
    BY <1>1, <1>2, <1>3, <2>1, PathRest
  <2>3. OnPage(p)' /\ Seen(p)'
    BY <1>3 DEF OnPage, Seen
  <2>4. Listed(p)' /\ Fetched(p)'
    BY <1>1, <1>2, <1>3, <2>1 DEF PathInv, Listed, Fetched, Listing, Pos, InPage, Current
  <2>. QED
    BY <2>2, <2>3, <2>4 DEF PathInv
<1>. QED
  BY <1>5, <1>6 DEF MirrorInv

(* A row of the page is taken: the path is as the table has it, as far as  *)
(* the pull and the cursor have come.                                      *)
LEMMA MirrorTake ==
    ASSUME TypeInv, TypeInv', MirrorInv, NEW r, TakeKnown(r) \/ TakeSnapshot(r) \/ TakeFailed(r)
    PROVE  MirrorInv'
<1>1. /\ UNCHANGED <<vault, files, cursor, refetch, changed>>
  BY DEF TakeKnown, TakeSnapshot, TakeFailed, storeVars, phoneVars, historyVars
<1>2. PICK list \in SUBSET {r[1]}, fail \in SUBSET {r[1]} : Taken(r, list, fail)
  BY TakeKnownTo, TakeSnapshotTo, TakeFailedTo
<1>3. r[1] \in Paths /\ pull.pc = "page" /\ r \in pull.page
  BY <1>2, PageRow DEF Taken
<1>4. Behind'
  BY <1>1, <1>2 DEF MirrorInv, Behind, Listing, Pos, Taken
<1>5. \A p \in Paths \ {r[1]} : /\ rows'[p].blob = rows[p].blob
                                /\ p \in missed' <=> p \in missed
  BY TakeKnownTo, TakeSnapshotTo DEF TakeKnown, TakeSnapshot, TakeFailed, phoneVars, historyVars
<1>6. ASSUME NEW p \in Paths \ {r[1]} PROVE PathInv(p)'
  <2>1. /\ PathInv(p) /\ rows'[p].blob = rows[p].blob /\ (p \in missed' <=> p \in missed)
    BY <1>5 DEF MirrorInv
  <2>2. InPage(p)' <=> InPage(p)
    BY <1>2 DEF InPage, Taken
  <2>3. /\ p \in pull'.listed <=> p \in pull.listed
        /\ p \in pull'.failed <=> p \in pull.failed
    BY <1>2 DEF Taken
  <2>4. LastChange(p)'
    BY <1>1, <2>1 DEF PathInv, LastChange
  <2>5. Listed(p)' /\ Fetched(p)'
    BY <1>1, <1>2, <2>1, <2>2, <2>3 DEF PathInv, Listed, Fetched, Listing, Pos, Current, Taken
  <2>6. OnPage(p)'
    BY <1>1, <1>2, <2>1 DEF PathInv, OnPage, Taken
  <2>7. Seen(p)' /\ Kept(p)'
    BY <1>2 DEF Seen, Kept, Taken
  <2>8. Mirrored(p)'
    BY <1>1, <1>2, <2>1 DEF PathInv, Mirrored, Mirrors, Taken
  <2>. QED
    BY <2>4, <2>5, <2>6, <2>7, <2>8 DEF PathInv
<1>7. PathInv(r[1])'
  <2>. DEFINE p == r[1]
  <2>1. PathInv(p)
    BY <1>3 DEF MirrorInv
  <2>2. /\ r[2].version > 0 /\ (~r[2].deleted => r[2].blob = r[2].version)
        /\ changed[p] <= pull.next \/ changed[p] <= cursor =>
             r[2] = files[p] \/ (r[2].deleted /\ files[p] = NoRow)
        /\ \A s \in pull.page : s[1] = p => s = r
    BY <1>3, <2>1 DEF PathInv, OnPage
  <2>3. ~InPage(p)'
    BY <1>2, <2>2 DEF InPage, Taken
  <2>4. LastChange(p)'
    BY <1>1, <2>1 DEF PathInv, LastChange
  <2>5. OnPage(p)'
    BY <1>2, <2>2 DEF OnPage, Taken
  <2>6. Seen(p)' /\ Kept(p)'
    BY <1>2 DEF Seen, Kept, Taken
  <2>7. Current(p)' = Current(p)
    BY <1>1 DEF Current
  <2>8. CASE TakeFailed(r)
    <3>1. rows' = rows /\ missed' = missed /\ Taken(r, {p}, {p})
      BY <2>8, TakeFailedTo DEF TakeFailed, phoneVars, historyVars
    <3>2. p \in pull'.listed /\ p \in pull'.failed
      BY <3>1 DEF Taken
    <3>3. Listed(p)' /\ Fetched(p)'
      BY <3>2 DEF Listed, Fetched
    <3>4. Mirrored(p)'
      BY <1>1, <1>3, <2>1, <3>1 DEF PathInv, Mirrored, Mirrors
    <3>. QED
      BY <2>4, <2>5, <2>6, <3>3, <3>4 DEF PathInv
  <2>9. CASE TakeKnown(r) \/ TakeSnapshot(r)
    <3>1. /\ r[2].deleted => rows'[p].blob = NoBlob /\ Taken(r, {}, {})
          /\ ~r[2].deleted => rows'[p].blob = r[2].blob /\ Taken(r, {p}, {})
      BY <2>9, TakeKnownTo, TakeSnapshotTo
    <3>2. changed[p] <= pull.next \/ changed[p] <= cursor => rows'[p].blob = Current(p)
      <4>1. CASE r[2].deleted
        BY <2>2, <3>1, <4>1 DEF Current, IsLive, NoRow
      <4>2. CASE ~r[2].deleted
        BY <2>2, <3>1, <4>2 DEF Current, IsLive
      <4>. QED
        BY <4>1, <4>2
    <3>3. Fetched(p)'
      BY <1>1, <1>2, <2>7, <3>2 DEF Fetched, Pos, Taken
    <3>4. Mirrored(p)'
      BY <1>1, <3>2 DEF Mirrored, Mirrors, Current
    <3>5. Listed(p)'
      <4>1. CASE r[2].deleted
        <5>1. changed[p] <= pull.next => ~IsLive(files[p])
          BY <2>2, <4>1 DEF IsLive, NoRow
        <5>. QED
          BY <1>1, <1>2, <5>1 DEF Listed, Pos, Taken
      <4>2. CASE ~r[2].deleted
        BY <3>1, <4>2 DEF Listed, Taken
      <4>. QED
        BY <4>1, <4>2
    <3>. QED
      BY <2>4, <2>5, <2>6, <3>3, <3>4, <3>5 DEF PathInv
  <2>. QED
    BY <2>8, <2>9
<1>. QED
  BY <1>4, <1>6, <1>7 DEF MirrorInv

(* The cursor jumps to the end of the last page, with everything up to it  *)
(* on the phone or among the failed.                                       *)
LEMMA MirrorSave == ASSUME TypeInv, TypeInv', MirrorInv, SaveCursor PROVE MirrorInv'
<1>1. UNCHANGED <<vault, files, refetch, changed>>
  BY DEF SaveCursor, storeVars
<1>2. /\ pull.pc = "page" /\ pull.page = {}
      /\ pull'.pc = "remember" /\ pull'.failed = pull.failed /\ cursor' = pull.next
      /\ \A p \in Paths : /\ pull.full /\ p \notin pull.listed => rows'[p].blob = NoBlob
                          /\ ~pull.full \/ p \in pull.listed => rows'[p] = rows[p]
  BY SaveCursorTo
<1>3. \A p \in Paths : p \notin missed' => p \notin missed \/ (pull.full /\ p \notin pull.listed)
  BY DEF SaveCursor
<1>4. Behind'
  BY <1>1, <1>2 DEF MirrorInv, Behind, Listing, Pos
<1>5. ASSUME NEW p \in Paths PROVE PathInv(p)'
  <2>1. PathInv(p)
    BY DEF MirrorInv
  <2>2. LastChange(p)'
    BY <1>1, <2>1 DEF PathInv, LastChange
  <2>3. Listed(p)' /\ Fetched(p)' /\ OnPage(p)' /\ Seen(p)'
    BY <1>2 DEF Listed, Fetched, OnPage, Seen, Listing
  <2>4. ASSUME p \notin missed', changed[p] <= pull.next
        PROVE  rows'[p].blob = Current(p) \/ p \in pull.failed
    <3>1. CASE pull.full /\ p \notin pull.listed
      BY <1>2, <2>1, <2>4, <3>1 DEF PathInv, Listed, Listing, Pos, InPage, Current
    <3>2. CASE ~pull.full \/ p \in pull.listed
      BY <1>2, <1>3, <2>1, <2>4, <3>2 DEF PathInv, Fetched, Listing, Pos, InPage
    <3>. QED
      BY <3>1, <3>2
  <2>5. Kept(p)' /\ Mirrored(p)'
    BY <1>1, <1>2, <2>4 DEF Kept, Mirrored, Mirrors, Current
  <2>. QED
    BY <2>2, <2>3, <2>5 DEF PathInv
<1>. QED
  BY <1>4, <1>5 DEF MirrorInv

(* What failed is noted, to be fetched again.                              *)
LEMMA MirrorRefetch == ASSUME TypeInv, TypeInv', MirrorInv, SaveRefetch PROVE MirrorInv'
<1>1. UNCHANGED <<vault, files, rows, cursor, changed, missed>>
  BY DEF SaveRefetch, storeVars, historyVars
<1>2. pull.pc = "remember" /\ pull'.pc = "vault" /\ refetch' = pull.failed
  BY DEF SaveRefetch
<1>3. Behind'
  BY <1>1, <1>2 DEF MirrorInv, Behind, Listing
<1>4. ASSUME NEW p \in Paths PROVE PathInv(p)'
  BY <1>1, <1>2 DEF MirrorInv, PathInv, LastChange, Listed, Fetched, OnPage, Seen, Kept, Mirrored,
                    Mirrors, Listing
<1>. QED
  BY <1>3, <1>4 DEF MirrorInv

(* Every step keeps the mirror.                                            *)
LEMMA MirrorStep == ASSUME TypeInv, TypeInv', MirrorInv, [Next]_vars PROVE MirrorInv'
BY MirrorUser, MirrorTables, MirrorFlush, MirrorBegin, MirrorAuth, MirrorRead, MirrorNext,
   MirrorTake, MirrorSave, MirrorRefetch
DEF Next, Round, Mishap, DeskJob, User

(* Whatever the size of a page, and whatever is uploaded, swept, failed or *)
(* killed between its steps, a pull loses no change: once the cursor has   *)
(* passed a path's last change the phone holds what the table holds, or    *)
(* has noted to fetch it again.                                            *)
THEOREM NoChangeSkipped == Spec => []MirrorUpToCursor
<1>1. Init => TypeInv /\ MirrorInv
  BY TypeInit, MirrorInit
<1>2. TypeInv /\ MirrorInv /\ [Next]_vars => TypeInv' /\ MirrorInv'
  BY TypeStep, MirrorStep
<1>3. MirrorInv => MirrorUpToCursor
  BY DEF MirrorInv, PathInv, Mirrored, MirrorUpToCursor
<1>. QED
  BY <1>1, <1>2, <1>3, PTL DEF Spec

-------------------------------------------------------------------------------
(* The user's own changes *)

(* The change of a note that the desk has not parted from it.              *)
Own(c, p) == c \notin parted /\ doc[c] = Text(p)

(* The change is in a blob up to this version.                             *)
Uploaded(c, v) == \E b \in 0..MaxVersion : b <= v /\ c \in contents[b]

(* It is in the snapshot the phone has of the path.                        *)
Held(c, p) == c \in contents[rows[p].blob]

(* A text of the path shows changes the desk applied to it, or has parted  *)
(* from theirs since.                                                      *)
OfPath(text, p) == \A c \in text : result[c] = "applied" /\ (c \in parted \/ doc[c] = Text(p))
OfPathNext(text, p) ==
    \A c \in text : result'[c] = "applied" /\ (c \in parted' \/ doc'[c] = Text(p))

(* Every text there is, on the desk, in a blob, on the phone and on a page.*)
Sealed ==
    /\ contents[NoBlob] = {}
    /\ \A b \in 0..MaxVersion, c \in ClientIds :
         c \in contents[b] => b <= vault.latestVersion /\ result[c] = "applied"

Placed(p) ==
    /\ OfPath(note[p].effects, p) /\ (note[p].effects # {} => note[p].present)
    /\ OfPath(contents[files[p].blob], p) /\ files[p].blob <= vault.latestVersion
    /\ OfPath(contents[rows[p].blob], p) /\ rows[p].blob <= vault.latestVersion

PagePlaced ==
    pull.pc = "page" => \A r \in pull.page : /\ OfPath(contents[r[2].blob], r[1])
                                             /\ r[2].blob <= vault.latestVersion

Places == Sealed /\ (\A p \in Paths : Placed(p)) /\ PagePlaced

(* The phone shows what its snapshot and the waiting writes say.           *)
Shown(p) ==
    /\ rows[p].effects # {} => rows[p].present
    /\ p \notin missed \/ rows[p].blob # NoBlob
         => rows[p].effects \subseteq contents[rows[p].blob] \cup WaitingTexts(p, outbox)

(* The desk: an applied change is in its note, and uploaded or about to    *)
(* be; an uploaded one is in the table's row; an acked one was uploaded at *)
(* the version of the ack.                                                 *)
Applied(c, p) ==
    result[c] = "applied"
        => c \in note[p].effects /\ (p \in touched \/ Uploaded(c, vault.latestVersion))

InTable(c, p) ==
    Uploaded(c, vault.latestVersion) => IsLive(files[p]) /\ c \in contents[files[p].blob]

Acked(c) ==
    \A w \in writes : w.client = c /\ w.seq <= vault.ackedThroughSeq /\ result[c] = "applied"
        => Uploaded(c, vault.ackedAtVersion)

DeskOwn(c, p) == Applied(c, p) /\ InTable(c, p) /\ Acked(c)

(* The pull has the path's row still before it.                            *)
Ahead(p) == files[p].version > Pos /\ (pull.pc = "page" => pull.more)

(* A row on the page has the change if the phone ever knew it.             *)
PageCarries(c, p) ==
    pull.pc = "page" /\ (Held(c, p) \/ Uploaded(c, cursor) \/ Uploaded(c, pull.next))
        => \A r \in pull.page : r[1] = p => ~r[2].deleted /\ c \in contents[r[2].blob]

(* A full pull lists the path of such a change, and a pull that has passed *)
(* its upload has fetched it.                                              *)
ListsOwn(c, p) ==
    Listing /\ pull.full /\ Pos # Full /\ (Held(c, p) \/ Uploaded(c, Pos))
        => p \in pull.listed \/ InPage(p) \/ Ahead(p)

FetchesOwn(c, p) ==
    Listing /\ Pos # Full /\ Uploaded(c, Pos)
        => Held(c, p) \/ p \in missed \/ p \in pull.failed \/ InPage(p) \/ Ahead(p)

(* A change uploaded before the cursor is on the phone, or its note will   *)
(* be fetched again.                                                       *)
KeepsSnapshot(c, p) ==
    /\ Uploaded(c, cursor)
         => Held(c, p) \/ p \in missed \/ p \in refetch \/ (pull.pc = "remember" /\ p \in pull.failed)
    /\ pull.pc = "remember" /\ Uploaded(c, cursor) => Held(c, p) \/ p \in missed \/ p \in pull.failed

PullOwn(c, p) ==
    PageCarries(c, p) /\ ListsOwn(c, p) /\ FetchesOwn(c, p) /\ KeepsSnapshot(c, p)

OwnInv ==
    /\ Places
    /\ \A p \in Paths : Shown(p)
    /\ \A p \in Paths, c \in ClientIds : Own(c, p) => DeskOwn(c, p) /\ PullOwn(c, p)

(* The numbers and texts these are about.                                  *)
LEMMA OwnTypes ==
    ASSUME TypeInv
    PROVE  /\ contents \in [0..MaxVersion -> SUBSET ClientIds] /\ NoBlob \in 0..MaxVersion
           /\ \A p \in Paths : /\ files[p].blob \in 0..MaxVersion /\ rows[p].blob \in 0..MaxVersion
                               /\ note[p].effects \subseteq ClientIds /\ rows[p].effects \subseteq ClientIds
                               /\ note[p].present \in BOOLEAN
           /\ vault.latestVersion \in 0..MaxVersion /\ vault.ackedAtVersion \in Nat
           /\ vault.ackedThroughSeq \in Nat
           /\ pull.pc = "page" => \A r \in pull.page : r[1] \in Paths /\ r[2].blob \in 0..MaxVersion
           /\ result \in [ClientIds -> {"waiting", "applied", "noop", "refused"}]
           /\ doc \in [ClientIds -> Docs] /\ outbox \subseteq ClientIds
           /\ writes \subseteq QueuedWrite /\ taken \in Nat
<1>1. /\ StoreTypeOK /\ rows \in [Paths -> Row] /\ note \in [Paths -> Note]
      /\ contents \in [0..MaxVersion -> SUBSET ClientIds]
      /\ result \in [ClientIds -> {"waiting", "applied", "noop", "refused"}]
      /\ doc \in [ClientIds -> Docs] /\ outbox \subseteq ClientIds /\ taken \in Nat
  BY DEF TypeInv, TypeOK
<1>2. /\ files \in [Paths -> FileRow] /\ vault \in VaultRow /\ writes \subseteq QueuedWrite
  BY <1>1 DEF StoreTypeOK
<1>3. MaxVersion \in Nat /\ vault.latestVersion <= MaxVersion
  BY Bounds DEF TypeInv, Versions
<1>4. vault.latestVersion \in Nat /\ vault.ackedAtVersion \in Nat /\ vault.ackedThroughSeq \in Nat
  BY <1>2 DEF VaultRow
<1>5. ASSUME NEW p \in Paths
      PROVE  /\ files[p].blob \in 0..MaxVersion /\ rows[p].blob \in 0..MaxVersion
             /\ note[p].effects \subseteq ClientIds /\ rows[p].effects \subseteq ClientIds
             /\ note[p].present \in BOOLEAN
  <2>1. files[p].blob \in Nat /\ rows[p].blob \in Nat
    BY <1>1, <1>2 DEF FileRow, Row
  <2>2. files[p].blob <= MaxVersion /\ rows[p].blob <= MaxVersion
    BY DEF TypeInv, BlobsKnown
  <2>. QED
    BY <1>1, <1>3, <2>1, <2>2 DEF Row, Note
<1>6. ASSUME pull.pc = "page", NEW r \in pull.page
      PROVE  r[1] \in Paths /\ r[2].blob \in 0..MaxVersion
  BY <1>3, <1>6, PageRow
<1>. QED
  BY <1>1, <1>2, <1>3, <1>4, <1>5, <1>6 DEF NoBlob

(* Every step: an applied change stays applied and keeps its document, and *)
(* what has been parted stays so.                                          *)
Steady ==
    /\ \A c \in ClientIds : result[c] = "applied" => result'[c] = "applied" /\ doc'[c] = doc[c]
    /\ parted \subseteq parted'

LEMMA StillOfPath ==
    ASSUME Steady, NEW text \in SUBSET ClientIds, NEW p, OfPath(text, p) PROVE OfPathNext(text, p)
BY DEF Steady, OfPath, OfPathNext

(* A text is only ever one of those there were, or a note just uploaded.   *)
LEMMA PlacesStep ==
    ASSUME TypeInv, TypeInv', Places, Steady, vault.latestVersion <= vault'.latestVersion,
           \A b \in 0..MaxVersion : b <= vault.latestVersion => contents'[b] = contents[b],
           \A b \in 0..MaxVersion : \/ contents'[b] = contents[b]
                                    \/ /\ b <= vault'.latestVersion
                                       /\ \E p \in Paths : contents'[b] = note[p].effects,
           \A p \in Paths : /\ OfPathNext(note'[p].effects, p)
                            /\ note'[p].effects # {} => note'[p].present,
           \A p \in Paths : \/ files'[p].blob \in {files[p].blob, NoBlob}
                            \/ /\ files'[p].blob = vault'.latestVersion
                               /\ contents'[vault'.latestVersion] = note[p].effects,
           \A p \in Paths : \/ rows'[p].blob \in {rows[p].blob, NoBlob}
                            \/ /\ pull.pc = "page"
                               /\ \E r \in pull.page : r[1] = p /\ rows'[p].blob = r[2].blob,
           pull'.pc = "page" => \/ pull.pc = "page" /\ pull'.page \subseteq pull.page
                                \/ \A r \in pull'.page : r[1] \in Paths /\ r[2] = files[r[1]]
    PROVE  Places'
<1>1. /\ Sealed /\ (\A p \in Paths : Placed(p)) /\ PagePlaced
  BY DEF Places
<1>2. /\ vault.latestVersion \in Nat /\ vault'.latestVersion \in Nat /\ MaxVersion \in Nat
      /\ NoBlob = 0 /\ contents[NoBlob] = {}
  BY <1>1, OwnTypes, Bounds, MirrorTypes DEF NoBlob, Sealed, TypeInv, TypeOK, StoreTypeOK, VaultRow
<1>3. ASSUME NEW b \in 0..MaxVersion, b <= vault.latestVersion, NEW p, OfPath(contents[b], p)
      PROVE  OfPathNext(contents'[b], p) /\ b <= vault'.latestVersion
  <2>1. contents'[b] = contents[b] /\ contents[b] \in SUBSET ClientIds
    BY <1>3, OwnTypes
  <2>. QED
    BY <1>2, <1>3, <2>1, StillOfPath
<1>4. ASSUME NEW p PROVE OfPathNext(contents'[NoBlob], p) /\ NoBlob <= vault'.latestVersion
  BY <1>2 DEF OfPathNext
<1>5. Sealed'
  <2>1. contents'[NoBlob] = {}
    BY <1>2
  <2>2. ASSUME NEW b \in 0..MaxVersion, NEW c \in ClientIds, c \in contents'[b]
        PROVE  b <= vault'.latestVersion /\ result'[c] = "applied"
    <3>1. CASE contents'[b] = contents[b]
      BY <1>1, <1>2, <2>2, <3>1 DEF Sealed, Steady
    <3>2. CASE b <= vault'.latestVersion /\ \E p \in Paths : contents'[b] = note[p].effects
      BY <1>1, <2>2, <3>2 DEF Placed, OfPath, Steady
    <3>. QED
      BY <3>1, <3>2
  <2>. QED
    BY <2>1, <2>2 DEF Sealed
<1>6. ASSUME NEW p \in Paths PROVE Placed(p)'
  <2>1. OfPathNext(contents'[files'[p].blob], p) /\ files'[p].blob <= vault'.latestVersion
    <3>1. CASE files'[p].blob = files[p].blob
      BY <1>1, <1>3, <3>1, OwnTypes DEF Placed
    <3>2. CASE files'[p].blob = NoBlob
      BY <1>4, <3>2
    <3>3. CASE /\ files'[p].blob = vault'.latestVersion
               /\ contents'[vault'.latestVersion] = note[p].effects
      <4>1. OfPath(note[p].effects, p) /\ note[p].effects \in SUBSET ClientIds
        BY <1>1, OwnTypes DEF Placed
      <4>. QED
        BY <1>2, <3>3, <4>1, StillOfPath
    <3>. QED
      BY <3>1, <3>2, <3>3
  <2>2. OfPathNext(contents'[rows'[p].blob], p) /\ rows'[p].blob <= vault'.latestVersion
    <3>1. CASE rows'[p].blob = rows[p].blob
      BY <1>1, <1>3, <3>1, OwnTypes DEF Placed
    <3>2. CASE rows'[p].blob = NoBlob
      BY <1>4, <3>2
    <3>3. CASE pull.pc = "page" /\ \E r \in pull.page : r[1] = p /\ rows'[p].blob = r[2].blob
      <4>1. PICK r \in pull.page : r[1] = p /\ rows'[p].blob = r[2].blob
        BY <3>3
      <4>2. /\ OfPath(contents[r[2].blob], p) /\ r[2].blob <= vault.latestVersion
            /\ r[2].blob \in 0..MaxVersion
        BY <1>1, <3>3, <4>1, OwnTypes DEF PagePlaced
      <4>. QED
        BY <1>3, <4>1, <4>2
    <3>. QED
      BY <3>1, <3>2, <3>3
  <2>. QED
    BY <2>1, <2>2 DEF Placed, OfPath, OfPathNext
<1>7. PagePlaced'
  <2>1. ASSUME pull'.pc = "page", NEW r \in pull'.page
        PROVE  OfPathNext(contents'[r[2].blob], r[1]) /\ r[2].blob <= vault'.latestVersion
    <3>1. CASE pull.pc = "page" /\ pull'.page \subseteq pull.page
      BY <1>1, <1>3, <2>1, <3>1, OwnTypes DEF PagePlaced
    <3>2. CASE r[1] \in Paths /\ r[2] = files[r[1]]
      BY <1>1, <1>3, <2>1, <3>2, OwnTypes DEF Placed
    <3>. QED
      BY <2>1, <3>1, <3>2
  <2>. QED
    BY <2>1 DEF PagePlaced, OfPath, OfPathNext
<1>. QED
  BY <1>5, <1>6, <1>7 DEF Places

(* Only a change without an answer is refused, taken or given a document.  *)
LEMMA SteadyStep == ASSUME TypeInv, Order, [Next]_vars PROVE Steady
<1>1. /\ result \in [ClientIds -> {"waiting", "applied", "noop", "refused"}]
      /\ doc \in [ClientIds -> Docs] /\ writes \subseteq QueuedWrite /\ taken \in Nat
  BY OwnTypes
<1>2. \A w \in writes : result[w.client] = "waiting" <=> w.seq > taken
  BY DEF Order, Answers
<1>3. \A c \in ClientIds : ~Posted(c) /\ (c \in outbox \/ doc[c] = NoDoc) => result[c] = "waiting"
  BY DEF Order, Answers
<1>4. ASSUME UNCHANGED <<result, doc, parted>> PROVE Steady
  BY <1>4 DEF Steady
<1>5. ASSUME NEW p \in Paths, NEW q \in Paths, NEW c \in ClientIds,
             RecordText(p, c) \/ RecordMove(p, q, c)
      PROVE  Steady
  <2>1. PICK d : Enlist(c, d)
    BY <1>5 DEF RecordText, RecordMove
  <2>2. doc[c] = NoDoc /\ doc' = [doc EXCEPT ![c] = d]
    BY <2>1 DEF Enlist
  <2>3. result[c] = "waiting"
    BY <1>3, <2>2 DEF Posted, Order, Ids
  <2>4. result' = result /\ parted' = parted
    BY <1>5 DEF RecordText, RecordMove, deskVars, historyVars
  <2>. QED
    BY <1>1, <2>2, <2>3, <2>4 DEF Steady
<1>6. ASSUME FlushRefused PROVE Steady
  <2>1. PICK c \in pull.batch :
             /\ c \in ClientIds /\ \A w \in writes : w.client # c
             /\ result' = [result EXCEPT ![c] = "refused"]
    BY <1>6, RefusedTo
  <2>2. c \in outbox
    BY <1>6, <2>1 DEF Order, Batch, FlushRefused
  <2>3. result[c] = "waiting"
    BY <1>3, <2>1, <2>2 DEF Posted
  <2>4. doc' = doc /\ parted' = parted
    BY <1>6 DEF FlushRefused, historyVars
  <2>. QED
    BY <1>1, <2>1, <2>3, <2>4 DEF Steady
<1>7. ASSUME NEW w \in writes, DeskTake(w) PROVE Steady
  <2>1. w.client \in ClientIds /\ result[w.client] = "waiting"
    BY <1>1, <1>2, <1>7 DEF DeskTake, ListWrites, QueuedWrite
  <2>2. \A c \in ClientIds \ {w.client} : result'[c] = result[c]
    BY <1>1, <1>7 DEF DeskTake
  <2>3. doc' = doc /\ parted \subseteq parted'
    BY <1>7 DEF DeskTake, phoneVars, outboxVars
  <2>. QED
    BY <2>1, <2>2, <2>3 DEF Steady
<1>8. ASSUME NEW p \in Paths, DeskEdit(p) \/ DeskRemove(p) PROVE Steady
  BY <1>8 DEF DeskEdit, DeskRemove, Steady, phoneVars, outboxVars, historyVars
<1>9. ASSUME NEW p \in Paths, DeskUpload(p) \/ SweepTombstone(p) PROVE Steady
  BY <1>4, <1>9 DEF DeskUpload, SweepTombstone, phoneVars, outboxVars, deskVars
<1>10. CASE DeskAck \/ StartRound \/ FlushOne \/ EndFlush \/ ListAuth \/ ListRead
  BY <1>4, <1>10 DEF DeskAck, StartRound, FlushOne, EndFlush, ListAuth, ListRead, phoneVars,
                     outboxVars, deskVars, historyVars
<1>11. CASE NextPage \/ SaveCursor \/ SaveRefetch \/ Prune \/ FlushLost \/ Abort
  BY <1>4, <1>11 DEF NextPage, SaveCursor, SaveRefetch, Prune, FlushLost, Abort, phoneVars,
                     outboxVars, deskVars, historyVars
<1>12. ASSUME NEW r, TakeKnown(r) \/ TakeSnapshot(r) \/ TakeFailed(r) PROVE Steady
  BY <1>4, <1>12 DEF TakeKnown, TakeSnapshot, TakeFailed, phoneVars, outboxVars, deskVars,
                     historyVars
<1>13. CASE UNCHANGED vars
  BY <1>4, <1>13 DEF vars, phoneVars, outboxVars, deskVars, historyVars
<1>. QED
  BY <1>5, <1>6, <1>7, <1>8, <1>9, <1>10, <1>11, <1>12, <1>13
  DEF Next, Round, Mishap, DeskJob, User

(* What an upload seals: the note as it stands, in a blob of its own.      *)
LEMMA SealTo ==
    ASSUME TypeInv, NEW p \in Paths, DeskUpload(p)
    PROVE  /\ \A b \in 0..MaxVersion : b # vault.latestVersion + 1 => contents'[b] = contents[b]
           /\ note[p].present =>
                /\ NewRow(p) /\ files'[p] = LiveRow(vault'.latestVersion, vault'.latestVersion, 1)
                /\ contents'[vault'.latestVersion] = note[p].effects
           /\ ~note[p].present =>
                /\ contents' = contents
                /\ SameFiles \/ (NewRow(p) /\ files'[p] = Tombstone(vault'.latestVersion))
           /\ UNCHANGED <<phoneVars, pull, note, taken, result, missed, parted>>
           /\ touched' = touched \ {p}
<1>1. /\ contents \in [0..MaxVersion -> SUBSET ClientIds] /\ vault.latestVersion \in 0..MaxVersion
      /\ MaxVersion \in Nat /\ vault \in VaultRow /\ files \in [Paths -> FileRow]
  BY OwnTypes, Bounds DEF TypeInv, TypeOK, StoreTypeOK
<1>2. /\ \/ SameFiles \/ NewRow(p)
      /\ UNCHANGED <<phoneVars, pull, note, taken, result, missed, parted>>
      /\ touched' = touched \ {p}
  BY UploadTo DEF DeskUpload
<1>3. CASE note[p].present
  <2>1. /\ vault.latestVersion < MaxVersion
        /\ vault' = [vault EXCEPT !.latestVersion = vault.latestVersion + 1,
                                  !.bytesUsed = vault.bytesUsed - files[p].size + 1]
        /\ files' = [files EXCEPT ![p] = LiveRow(vault.latestVersion + 1, vault.latestVersion + 1, 1)]
        /\ contents' = [contents EXCEPT ![vault.latestVersion + 1] = note[p].effects]
    BY <1>3 DEF DeskUpload, PublishFile
  <2>2. vault'.latestVersion = vault.latestVersion + 1
    BY <1>1, <2>1 DEF VaultRow
  <2>3. NewRow(p)
    BY <1>1, <1>2, <2>2 DEF SameFiles
  <2>. QED
    BY <1>1, <1>2, <1>3, <2>1, <2>2, <2>3
<1>4. CASE ~note[p].present /\ TombstoneFile(p, files[p].version)
  <2>1. /\ vault' = [vault EXCEPT !.latestVersion = vault.latestVersion + 1,
                                  !.bytesUsed = vault.bytesUsed - files[p].size]
        /\ files' = [files EXCEPT ![p] = Tombstone(vault.latestVersion + 1)]
        /\ contents' = contents
    BY <1>4 DEF DeskUpload, TombstoneFile
  <2>2. vault'.latestVersion = vault.latestVersion + 1
    BY <1>1, <2>1 DEF VaultRow
  <2>3. NewRow(p)
    BY <1>1, <1>2, <2>2 DEF SameFiles
  <2>. QED
    BY <1>1, <1>2, <1>4, <2>1, <2>2, <2>3
<1>5. CASE ~note[p].present /\ UNCHANGED storeVars
  <2>1. contents' = contents /\ SameFiles
    BY <1>5, SameStore DEF DeskUpload
  <2>. QED
    BY <1>2, <1>5, <2>1
<1>. QED
  BY <1>3, <1>4, <1>5 DEF DeskUpload

(* The texts, in the steps that leave the notes and the table alone.       *)
LEMMA PlacesPhone ==
    ASSUME TypeInv, TypeInv', Places, Steady, SameFiles, UNCHANGED <<contents, note>>,
           \A p \in Paths : \/ rows'[p].blob \in {rows[p].blob, NoBlob}
                            \/ /\ pull.pc = "page"
                               /\ \E r \in pull.page : r[1] = p /\ rows'[p].blob = r[2].blob,
           pull'.pc = "page" => \/ pull.pc = "page" /\ pull'.page \subseteq pull.page
                                \/ \A r \in pull'.page : r[1] \in Paths /\ r[2] = files[r[1]]
    PROVE  Places'
<1>1. vault'.latestVersion = vault.latestVersion /\ files' = files
  BY DEF SameFiles
<1>2. ASSUME NEW p \in Paths
      PROVE  OfPathNext(note'[p].effects, p) /\ (note'[p].effects # {} => note'[p].present)
  BY OwnTypes, StillOfPath DEF Places, Placed
<1>. QED
  BY <1>1, <1>2, PlacesStep, OwnTypes

(* A document that edits a note is a text of its path.                     *)
LEMMA DocText ==
    ASSUME NEW d \in Docs
    PROVE  /\ d.kind = "text" => d.path \in Paths /\ d = Text(d.path)
           /\ \A p \in Paths : Text(p).kind = "text" /\ Text(p).path = p
<1>1. \A p, q \in Paths : Text(p).kind = "text" /\ Text(p).path = p /\ Move(p, q).kind = "move"
  BY DEF Text, Move
<1>2. d = NoDoc \/ (\E p \in Paths : d = Text(p)) \/ (\E p, q \in Paths : d = Move(p, q))
  BY DEF Docs
<1>3. NoDoc.kind = "none"
  BY DEF NoDoc
<1>. QED
  BY <1>1, <1>2, <1>3

(* The phone's row takes its new path at once.                             *)
LEMMA MoveTo ==
    ASSUME TypeInv, NEW p \in Paths, NEW q \in Paths, NEW c, RecordMove(p, q, c)
    PROVE  /\ p # q /\ rows'[p] = Absent /\ rows'[p].blob = NoBlob /\ rows'[q].blob = NoBlob
           /\ rows'[q].effects = rows[p].effects /\ \A x \in Paths \ {p, q} : rows'[x] = rows[x]
           /\ missed' = missed \cup {p, q}
<1>1. rows \in [Paths -> Row]
  BY DEF TypeInv, TypeOK
<1>2. p # q /\ rows' = [rows EXCEPT ![q] = [rows[p] EXCEPT !.blob = NoBlob], ![p] = Absent]
  BY DEF RecordMove
<1>. DEFINE s == [rows[p] EXCEPT !.blob = NoBlob]
<1>3. s.blob = NoBlob /\ s.effects = rows[p].effects
  <2>1. ASSUME NEW o \in Row, NEW b
        PROVE  [o EXCEPT !.blob = b].blob = b /\ [o EXCEPT !.blob = b].effects = o.effects
    BY DEF Row
  <2>. QED
    BY <1>1, <2>1
<1>4. rows' = [rows EXCEPT ![q] = s, ![p] = Absent]
  BY <1>2
<1>. HIDE DEF s
<1>5. rows'[p] = Absent /\ rows'[q] = s /\ \A x \in Paths \ {p, q} : rows'[x] = rows[x]
  BY <1>1, <1>2, <1>4
<1>6. missed' = missed \cup {p, q} /\ Absent.blob = NoBlob
  BY DEF Absent, RecordMove
<1>. QED
  BY <1>2, <1>3, <1>5, <1>6

(* What taking a write does to the notes of the desk.                      *)
LEMMA TakeTo ==
    ASSUME TypeInv, Order, NEW w \in writes, DeskTake(w)
    PROVE  /\ w.client \in ClientIds /\ result[w.client] = "waiting" /\ w.seq > taken
           /\ \A c \in ClientIds \ {w.client} : result'[c] = result[c]
           /\ touched \subseteq touched' /\ parted \subseteq parted'
           /\ UNCHANGED <<storeVars, phoneVars, pull, contents, changed, missed>>
           /\ \/ \E p \in Paths :
                   /\ doc[w.client] = Text(p) /\ p \in touched' /\ result'[w.client] = "applied"
                   /\ note'[p].present /\ note'[p].effects = note[p].effects \cup {w.client}
                   /\ \A x \in Paths \ {p} : note'[x] = note[x]
              \/ \E p, q \in Paths :
                   /\ p # q /\ doc[w.client].kind = "move" /\ note[p].present /\ ~note[q].present
                   /\ note'[q] = note[p] /\ ~note'[p].present /\ note'[p].effects = {}
                   /\ \A x \in Paths \ {p, q} : note'[x] = note[x]
                   /\ note[p].effects \subseteq parted'
              \/ note' = note /\ result'[w.client] = "noop"
<1>1. /\ result \in [ClientIds -> {"waiting", "applied", "noop", "refused"}]
      /\ doc \in [ClientIds -> Docs] /\ writes \subseteq QueuedWrite /\ taken \in Nat
      /\ note \in [Paths -> Note]
  BY OwnTypes DEF TypeInv, TypeOK
<1>. DEFINE c == w.client
            d == doc[c]
<1>2. c \in ClientIds /\ d \in Docs /\ w.seq > taken /\ result[c] = "waiting"
  BY <1>1 DEF DeskTake, ListWrites, QueuedWrite, Order, Answers
<1>3. /\ \A x \in ClientIds \ {c} : result'[x] = result[x]
      /\ touched \subseteq touched' /\ parted \subseteq parted'
      /\ UNCHANGED <<storeVars, phoneVars, pull, contents, changed, missed>>
  BY <1>1 DEF DeskTake
<1>4. CASE /\ d.kind = "text"
           /\ note' = [note EXCEPT ![d.path].present = TRUE, ![d.path].effects = @ \cup {c}]
           /\ touched' = touched \cup {d.path} /\ result' = [result EXCEPT ![c] = "applied"]
  <2>1. d.path \in Paths /\ d = Text(d.path)
    BY <1>2, <1>4, DocText
  <2>2. /\ note'[d.path].present /\ note'[d.path].effects = note[d.path].effects \cup {c}
        /\ \A x \in Paths \ {d.path} : note'[x] = note[x]
    BY <1>1, <1>4, <2>1 DEF Note
  <2>3. d.path \in touched' /\ result'[c] = "applied"
    BY <1>1, <1>2, <1>4
  <2>. QED
    BY <1>2, <1>3, <2>1, <2>2, <2>3
<1>5. CASE /\ d.kind = "move" /\ note[d.path].present /\ ~note[d.to].present
           /\ note' = [note EXCEPT ![d.to] = note[d.path],
                                   ![d.path] = [present |-> FALSE, effects |-> {}]]
           /\ parted' = parted \cup note[d.path].effects
  <2>1. d.path \in Paths /\ d.to \in Paths /\ d.path # d.to
    BY <1>2, <1>5, DocPaths
  <2>2. /\ note'[d.to] = note[d.path] /\ ~note'[d.path].present /\ note'[d.path].effects = {}
        /\ \A x \in Paths \ {d.path, d.to} : note'[x] = note[x]
    BY <1>1, <1>5, <2>1
  <2>. QED
    BY <1>2, <1>3, <1>5, <2>1, <2>2
<1>6. CASE note' = note /\ result' = [result EXCEPT ![c] = "noop"]
  BY <1>1, <1>2, <1>3, <1>6
<1>. QED
  BY <1>4, <1>5, <1>6 DEF DeskTake

(* The texts, in the desk's steps.                                         *)
LEMMA PlacesDesk ==
    ASSUME TypeInv, TypeInv', Order, Places, Steady,
           \/ \E p \in Paths : DeskEdit(p) \/ DeskRemove(p) \/ DeskUpload(p) \/ SweepTombstone(p)
           \/ \E w \in writes : DeskTake(w)
    PROVE  Places'
<1>1. /\ rows' = rows /\ pull' = pull
  BY DEF DeskEdit, DeskRemove, DeskTake, DeskUpload, SweepTombstone, phoneVars
<1>2. \A p \in Paths : /\ OfPath(note[p].effects, p) /\ note[p].effects \in SUBSET ClientIds
                       /\ note[p].effects # {} => note[p].present
  BY OwnTypes DEF Places, Placed
<1>3. \A p \in Paths : OfPathNext(note[p].effects, p)
  BY <1>2, StillOfPath
<1>4. vault.latestVersion \in Nat /\ vault'.latestVersion \in Nat
  BY MirrorTypes DEF TypeInv, TypeOK, StoreTypeOK, VaultRow
<1>5. ASSUME SameFiles, contents' = contents,
             \A p \in Paths : /\ OfPathNext(note'[p].effects, p)
                              /\ note'[p].effects # {} => note'[p].present
      PROVE  Places'
  BY <1>1, <1>4, <1>5, PlacesStep DEF SameFiles
<1>6. ASSUME NEW p \in Paths, DeskEdit(p) \/ DeskRemove(p) PROVE Places'
  <2>1. UNCHANGED <<storeVars, contents>>
    BY <1>6 DEF DeskEdit, DeskRemove, historyVars
  <2>2. note \in [Paths -> Note]
    BY DEF TypeInv, TypeOK
  <2>3. ASSUME NEW x \in Paths
        PROVE  \/ note'[x].effects = note[x].effects /\ (note[x].present => note'[x].present)
               \/ note'[x].effects = {}
    BY <1>6, <2>2 DEF DeskEdit, DeskRemove, Note
  <2>4. ASSUME NEW x \in Paths
        PROVE  OfPathNext(note'[x].effects, x) /\ (note'[x].effects # {} => note'[x].present)
    BY <1>2, <1>3, <2>3 DEF OfPathNext
  <2>. QED
    BY <1>5, <2>1, <2>4, SameStore
<1>7. ASSUME NEW w \in writes, DeskTake(w) PROVE Places'
  <2>1. UNCHANGED <<storeVars, phoneVars, contents>>
    BY <1>7, TakeTo
  <2>2. ASSUME NEW x \in Paths
        PROVE  OfPathNext(note'[x].effects, x) /\ (note'[x].effects # {} => note'[x].present)
    <3>1. CASE note'[x] = note[x]
      BY <1>2, <1>3, <3>1
    <3>2. CASE /\ doc[w.client] = Text(x) /\ result'[w.client] = "applied"
               /\ note'[x].present /\ note'[x].effects = note[x].effects \cup {w.client}
      BY <1>3, <2>1, <3>2 DEF OfPathNext, phoneVars, outboxVars
    <3>3. CASE \E p \in Paths : /\ note'[x] = note[p] /\ note[p].present
                                /\ note[p].effects \subseteq parted'
      BY <1>3, <3>3 DEF OfPathNext
    <3>4. CASE note'[x].effects = {}
      BY <3>4 DEF OfPathNext
    <3>. QED
      BY <1>7, <3>1, <3>2, <3>3, <3>4, TakeTo
  <2>. QED
    BY <1>5, <2>1, <2>2, SameStore
<1>8. ASSUME NEW p \in Paths, DeskUpload(p) PROVE Places'
  <2>1. /\ \A b \in 0..MaxVersion : b # vault.latestVersion + 1 => contents'[b] = contents[b]
        /\ note[p].present =>
             /\ NewRow(p) /\ files'[p] = LiveRow(vault'.latestVersion, vault'.latestVersion, 1)
             /\ contents'[vault'.latestVersion] = note[p].effects
        /\ ~note[p].present =>
             /\ contents' = contents
             /\ SameFiles \/ (NewRow(p) /\ files'[p] = Tombstone(vault'.latestVersion))
        /\ note' = note
    BY <1>8, SealTo
  <2>2. CASE SameFiles /\ ~note[p].present
    BY <1>2, <1>3, <1>5, <2>1, <2>2
  <2>3. CASE NewRow(p)
    <3>1. /\ vault'.latestVersion = vault.latestVersion + 1
          /\ \A q \in Paths \ {p} : files'[q] = files[q]
      BY <2>3 DEF NewRow
    <3>2. \A b \in 0..MaxVersion : b <= vault.latestVersion => contents'[b] = contents[b]
      BY <1>4, <2>1
    <3>3. \A b \in 0..MaxVersion : \/ contents'[b] = contents[b]
                                   \/ b <= vault'.latestVersion /\ contents'[b] = note[p].effects
      BY <1>4, <2>1, <3>1
    <3>4. \/ files'[p].blob = NoBlob
          \/ /\ files'[p].blob = vault'.latestVersion
             /\ contents'[vault'.latestVersion] = note[p].effects
      BY <2>1, <2>3, <3>1, <1>4 DEF SameFiles, LiveRow, Tombstone
    <3>. QED
      BY <1>1, <1>2, <1>3, <1>4, <2>1, <3>1, <3>2, <3>3, <3>4, PlacesStep
  <2>. QED
    BY <2>1, <2>2, <2>3
<1>9. ASSUME NEW p \in Paths, SweepTombstone(p) PROVE Places'
  <2>1. /\ vault'.latestVersion = vault.latestVersion
        /\ files'[p] = NoRow /\ \A q \in Paths \ {p} : files'[q] = files[q]
    BY <1>9, SweepTo
  <2>2. note' = note /\ contents' = contents
    BY <1>9 DEF SweepTombstone, deskVars
  <2>3. files'[p].blob = NoBlob
    BY <2>1 DEF NoRow
  <2>. QED
    BY <1>1, <1>2, <1>3, <1>4, <2>1, <2>2, <2>3, PlacesStep
<1>. QED
  BY <1>6, <1>7, <1>8, <1>9

-------------------------------------------------------------------------------
(* What the phone shows *)

(* A stored row shows its snapshot and the waiting writes, no more.        *)
LEMMA StoredShows ==
    ASSUME TypeInv, contents[NoBlob] = {}, NEW p \in Paths, NEW b \in 0..MaxVersion,
           NEW box \in SUBSET ClientIds
    PROVE  /\ Stored(p, b, box).effects = contents[b] \cup WaitingTexts(p, box)
           /\ Stored(p, b, box).blob = b
           /\ Stored(p, b, box).effects # {} => Stored(p, b, box).present
<1>. DEFINE texts == WaitingTexts(p, box)
<1>1. CASE b = NoBlob /\ texts = {}
  BY <1>1 DEF Stored, Absent
<1>2. CASE ~(b = NoBlob /\ texts = {})
  <2>1. Stored(p, b, box) = [present |-> TRUE, blob |-> b, effects |-> contents[b] \cup texts]
    BY <1>2 DEF Stored
  <2>. QED
    BY <2>1
<1>. QED
  BY <1>1, <1>2

(* A change shown where nothing slipped through is in the snapshot or      *)
(* still waits, and is one of the path's own.                              *)
LEMMA ShownOwn ==
    ASSUME TypeInv, Places, NEW p \in Paths \ missed, NEW c \in ClientIds, Shown(p),
           c \in rows[p].effects, c \notin parted
    PROVE  Own(c, p) /\ (Held(c, p) \/ c \in WaitingTexts(p, outbox))
<1>1. Held(c, p) \/ c \in WaitingTexts(p, outbox)
  BY DEF Shown, Held
<1>2. CASE Held(c, p)
  BY <1>2 DEF Held, Places, Placed, OfPath, Own
<1>3. CASE c \in WaitingTexts(p, outbox)
  <2>1. doc[c] \in Docs /\ doc[c].kind = "text" /\ doc[c].path = p
    BY <1>3, OwnTypes DEF WaitingTexts
  <2>. QED
    BY <1>3, <2>1, DocText DEF Own
<1>. QED
  BY <1>1, <1>2, <1>3

(* What OwnChangeStaysShown says of one step.                              *)
OwnStays ==
    \A p \in Paths \ missed, c \in ClientIds :
        c \in rows[p].effects /\ (\A q \in Paths : c \notin rows'[q].effects) => KeepsOwn(c)

(* The steps that leave the phone's rows and its outbox alone.             *)
LEMMA ShownSame ==
    ASSUME TypeInv, OwnInv, UNCHANGED <<rows, outbox, doc>>, missed \subseteq missed',
           \A b \in 0..MaxVersion : b <= vault.latestVersion => contents'[b] = contents[b]
    PROVE  (\A p \in Paths : Shown(p)') /\ OwnStays
<1>1. \A p \in Paths : /\ contents'[rows[p].blob] = contents[rows[p].blob] /\ Shown(p)
                       /\ WaitingTexts(p, outbox)' = WaitingTexts(p, outbox)
  BY OwnTypes DEF OwnInv, Places, Placed, WaitingTexts
<1>. QED
  BY <1>1 DEF Shown, OwnStays

(* The user's changes on the phone.                                        *)
LEMMA ShownRecord ==
    ASSUME TypeInv, OwnInv, NEW p \in Paths, NEW q \in Paths, NEW c \in ClientIds,
           RecordText(p, c) \/ RecordMove(p, q, c)
    PROVE  (\A x \in Paths : Shown(x)') /\ OwnStays
<1>1. /\ doc \in [ClientIds -> Docs] /\ outbox \subseteq ClientIds /\ rows \in [Paths -> Row]
  BY OwnTypes DEF TypeInv, TypeOK
<1>2. \A x \in Paths : Shown(x)
  BY DEF OwnInv
<1>3. contents' = contents /\ missed \subseteq missed'
  BY DEF RecordText, RecordMove, historyVars
<1>4. PICK d \in Docs : Enlist(c, d) /\ (RecordText(p, c) => d = Text(p))
  BY DEF RecordText, RecordMove, Docs
<1>5. /\ doc[c] = NoDoc /\ doc' = [doc EXCEPT ![c] = d] /\ outbox' = outbox \cup {c}
  BY <1>4 DEF Enlist
<1>6. NoDoc.kind = "none"
  BY DEF NoDoc
<1>7. \A x \in Paths : WaitingTexts(x, outbox) \subseteq WaitingTexts(x, outbox)'
  BY <1>1, <1>5, <1>6 DEF WaitingTexts
<1>8. CASE RecordText(p, c)
  <2>1. rows' = [rows EXCEPT ![p].present = TRUE, ![p].effects = @ \cup {c}]
    BY <1>8 DEF RecordText
  <2>2. /\ rows'[p].present /\ rows'[p].effects = rows[p].effects \cup {c}
        /\ rows'[p].blob = rows[p].blob /\ \A x \in Paths \ {p} : rows'[x] = rows[x]
    BY <1>1, <2>1 DEF Row
  <2>3. c \in WaitingTexts(p, outbox)'
    <3>1. doc'[c] = Text(p) /\ c \in outbox'
      BY <1>1, <1>4, <1>5, <1>8
    <3>. QED
      BY <3>1, DocText, <1>4 DEF WaitingTexts
  <2>4. missed' = missed
    BY <1>8 DEF RecordText, historyVars
  <2>5. ASSUME NEW x \in Paths PROVE Shown(x)'
    BY <1>2, <1>3, <1>7, <2>2, <2>3, <2>4 DEF Shown
  <2>6. OwnStays
    BY <2>2 DEF OwnStays
  <2>. QED
    BY <2>5, <2>6
<1>9. CASE RecordMove(p, q, c)
  <2>1. /\ p # q /\ rows'[p] = Absent /\ rows'[p].blob = NoBlob /\ rows'[q].blob = NoBlob
        /\ rows'[q].effects = rows[p].effects /\ \A x \in Paths \ {p, q} : rows'[x] = rows[x]
        /\ missed' = missed \cup {p, q}
    BY <1>9, MoveTo
  <2>2. rows[p].present /\ ~rows[q].present
    BY <1>9 DEF RecordMove
  <2>3. rows'[q].present /\ Absent.effects = {}
    <3>1. rows'[q] = [rows[p] EXCEPT !.blob = NoBlob]
      BY <1>1, <1>9, <2>1 DEF RecordMove
    <3>. QED
      BY <1>1, <2>2, <3>1 DEF Row, Absent
  <2>4. ASSUME NEW x \in Paths PROVE Shown(x)'
    BY <1>2, <1>3, <1>7, <2>1, <2>3 DEF Shown
  <2>5. OwnStays
    BY <1>2, <2>1, <2>2 DEF OwnStays, Shown
  <2>. QED
    BY <2>4, <2>5
<1>. QED
  BY <1>8, <1>9

(* A change stays shown in a row stored again, where the new snapshot has  *)
(* what the old one had and what no longer waits.                          *)
LEMMA StaysInStored ==
    ASSUME TypeInv, OwnInv, NEW p \in Paths \ missed, NEW c \in ClientIds, c \in rows[p].effects,
           c \notin parted, NEW b \in 0..MaxVersion, NEW box \in SUBSET ClientIds,
           rows'[p] = Stored(p, b, box), Own(c, p) /\ Held(c, p) => c \in contents[b],
           Own(c, p) /\ c \in WaitingTexts(p, outbox) => c \in box \/ c \in contents[b]
    PROVE  c \in rows'[p].effects
<1>1. Places /\ Shown(p) /\ contents[NoBlob] = {}
  BY DEF OwnInv, Places, Sealed
<1>2. Own(c, p) /\ (Held(c, p) \/ c \in WaitingTexts(p, outbox))
  BY <1>1, ShownOwn
<1>3. rows'[p].effects = contents[b] \cup WaitingTexts(p, box)
  BY <1>1, StoredShows
<1>4. c \in WaitingTexts(p, outbox) /\ c \in box => c \in WaitingTexts(p, box)
  BY DEF WaitingTexts
<1>. QED
  BY <1>2, <1>3, <1>4

(* The service refuses a write.                                            *)
LEMMA ShownRefused ==
    ASSUME TypeInv, OwnInv, FlushRefused PROVE (\A p \in Paths : Shown(p)') /\ OwnStays
<1>1. PICK c \in pull.batch :
         /\ outbox' = outbox \ {c}
         /\ rows' = [rows EXCEPT ![doc[c].path] = Stored(doc[c].path, @.blob, outbox \ {c})]
         /\ result' = [result EXCEPT ![c] = "refused"]
         /\ pull' = [pull EXCEPT !.batch = @ \ {c}]
  BY DEF FlushRefused
<1>2. c \in ClientIds
  BY <1>1, RestOfBatch DEF FlushRefused
<1>3. /\ rows \in [Paths -> Row] /\ outbox \ {c} \in SUBSET ClientIds /\ contents[NoBlob] = {}
      /\ \A p \in Paths : rows[p].blob \in 0..MaxVersion /\ Shown(p)
      /\ result \in [ClientIds -> {"waiting", "applied", "noop", "refused"}]
  BY OwnTypes DEF TypeInv, TypeOK, OwnInv, Places, Sealed
<1>4. UNCHANGED <<contents, missed, doc>>
  BY DEF FlushRefused, historyVars
<1>5. ASSUME NEW p \in Paths, p # doc[c].path
      PROVE  rows'[p] = rows[p] /\ WaitingTexts(p, outbox)' = WaitingTexts(p, outbox)
  BY <1>1, <1>3, <1>4, <1>5 DEF WaitingTexts
<1>6. ASSUME NEW p \in Paths, p = doc[c].path PROVE rows'[p] = Stored(p, rows[p].blob, outbox \ {c})
  BY <1>1, <1>3, <1>6
<1>7. ASSUME NEW p \in Paths PROVE Shown(p)'
  <2>1. CASE p # doc[c].path
    BY <1>3, <1>4, <1>5, <2>1 DEF Shown
  <2>2. CASE p = doc[c].path
    <3>1. /\ rows'[p].effects = contents[rows[p].blob] \cup WaitingTexts(p, outbox \ {c})
          /\ rows'[p].blob = rows[p].blob /\ (rows'[p].effects # {} => rows'[p].present)
      <4>. DEFINE stored == Stored(p, rows[p].blob, outbox \ {c})
      <4>1. rows[p].blob \in 0..MaxVersion /\ outbox \ {c} \in SUBSET ClientIds /\ contents[NoBlob] = {}
        BY <1>3
      <4>2. /\ stored.effects = contents[rows[p].blob] \cup WaitingTexts(p, outbox \ {c})
            /\ stored.blob = rows[p].blob /\ (stored.effects # {} => stored.present)
        BY <4>1, StoredShows
      <4>3. rows'[p] = stored
        BY <1>6, <2>2
      <4>. QED
        BY <4>2, <4>3
    <3>2. WaitingTexts(p, outbox)' = WaitingTexts(p, outbox \ {c})
      BY <1>1, <1>4 DEF WaitingTexts
    <3>. QED
      BY <1>4, <3>1, <3>2 DEF Shown
  <2>. QED
    BY <2>1, <2>2
<1>8. ASSUME NEW p \in Paths \ missed, NEW x \in ClientIds, x \in rows[p].effects, ~KeepsOwn(x)
      PROVE  x \in rows'[p].effects
  <2>1. x # c /\ x \notin parted
    BY <1>1, <1>2, <1>3, <1>8 DEF KeepsOwn
  <2>2. CASE p # doc[c].path
    BY <1>5, <1>8, <2>2
  <2>3. CASE p = doc[c].path
    <3>1. x \in WaitingTexts(p, outbox) => x \in outbox \ {c}
      BY <2>1 DEF WaitingTexts
    <3>. QED
      BY <1>3, <1>6, <1>8, <2>1, <2>3, <3>1, StaysInStored DEF Held
  <2>. QED
    BY <2>2, <2>3
<1>. QED
  BY <1>7, <1>8 DEF OwnStays

(* Prune drops a write when the snapshot has its change: the cursor has    *)
(* passed the version of the ack, and so of the upload before it.          *)
LEMMA ShownPrune ==
    ASSUME TypeInv, Order, OwnInv, Prune PROVE (\A p \in Paths : Shown(p)') /\ OwnStays
<1>. DEFINE kept == {c \in outbox : ~Prunable(c)}
            paths == {doc[c].path : c \in outbox \ kept}
<1>1. /\ outbox' = kept /\ UNCHANGED <<contents, missed, doc>>
      /\ rows' = [p \in Paths |-> IF p \in paths THEN Stored(p, rows[p].blob, kept) ELSE rows[p]]
  BY DEF Prune, historyVars
<1>2. /\ rows \in [Paths -> Row] /\ kept \in SUBSET ClientIds /\ contents[NoBlob] = {}
      /\ \A p \in Paths : rows[p].blob \in 0..MaxVersion /\ Shown(p)
      /\ result \in [ClientIds -> {"waiting", "applied", "noop", "refused"}]
      /\ outbox \subseteq ClientIds
  BY OwnTypes DEF TypeInv, TypeOK, OwnInv, Places, Sealed
<1>3. ASSUME NEW p \in Paths, p \notin paths
      PROVE  rows'[p] = rows[p] /\ WaitingTexts(p, outbox)' = WaitingTexts(p, outbox)
  BY <1>1, <1>3 DEF WaitingTexts
<1>4. ASSUME NEW p \in Paths, p \in paths PROVE rows'[p] = Stored(p, rows[p].blob, kept)
  BY <1>1, <1>4
<1>5. ASSUME NEW p \in Paths PROVE Shown(p)'
  <2>1. CASE p \notin paths
    BY <1>1, <1>2, <1>3, <2>1 DEF Shown
  <2>2. CASE p \in paths
    <3>1. /\ rows'[p].effects = contents[rows[p].blob] \cup WaitingTexts(p, kept)
          /\ rows'[p].blob = rows[p].blob /\ (rows'[p].effects # {} => rows'[p].present)
      <4>. DEFINE stored == Stored(p, rows[p].blob, kept)
      <4>1. rows[p].blob \in 0..MaxVersion /\ kept \in SUBSET ClientIds /\ contents[NoBlob] = {}
        BY <1>2
      <4>2. /\ stored.effects = contents[rows[p].blob] \cup WaitingTexts(p, kept)
            /\ stored.blob = rows[p].blob /\ (stored.effects # {} => stored.present)
        BY <4>1, StoredShows
      <4>3. rows'[p] = stored
        BY <1>4, <2>2
      <4>. QED
        BY <4>2, <4>3
    <3>2. WaitingTexts(p, outbox)' = WaitingTexts(p, kept)
      BY <1>1 DEF WaitingTexts
    <3>. QED
      BY <1>1, <3>1, <3>2 DEF Shown
  <2>. QED
    BY <2>1, <2>2
<1>6. ASSUME NEW p \in Paths \ missed, NEW c \in ClientIds, Own(c, p), ~KeepsOwn(c),
             c \in outbox, Prunable(c)
      PROVE  Held(c, p)
  <2>1. doc[c].path = p
    BY <1>6, DocText, OwnTypes DEF Own
  <2>2. /\ cursor >= vault.ackedAtVersion /\ seqOf[c] \in 1..vault.ackedThroughSeq /\ p \notin refetch
    BY <1>6, <2>1 DEF Prunable
  <2>3. PICK w \in writes : w.client = c /\ w.seq = seqOf[c]
    BY <2>2, OwnTypes DEF Order, Receipts
  <2>4. w.seq \in Nat /\ w.seq <= vault.ackedThroughSeq /\ w.seq <= taken
    BY <2>2, <2>3, OwnTypes DEF Order, Queue, QueuedWrite
  <2>5. result[c] = "applied"
    <3>1. result[c] # "waiting"
      BY <2>3, <2>4, OwnTypes DEF Order, Answers
    <3>. QED
      BY <1>2, <1>6, <3>1 DEF KeepsOwn
  <2>6. Uploaded(c, vault.ackedAtVersion)
    BY <1>6, <2>3, <2>4, <2>5 DEF OwnInv, DeskOwn, Acked
  <2>7. Uploaded(c, cursor)
    BY <2>2, <2>6, OwnTypes, MirrorTypes DEF Uploaded
  <2>8. pull.pc = "vault"
    BY DEF Prune
  <2>. QED
    BY <1>6, <2>2, <2>7, <2>8 DEF OwnInv, PullOwn, KeepsSnapshot
<1>7. ASSUME NEW p \in Paths \ missed, NEW c \in ClientIds, c \in rows[p].effects, ~KeepsOwn(c)
      PROVE  c \in rows'[p].effects
  <2>1. c \notin parted
    BY <1>7 DEF KeepsOwn
  <2>2. CASE p \notin paths
    BY <1>3, <1>7, <2>2
  <2>3. CASE p \in paths
    <3>1. Own(c, p) /\ c \in WaitingTexts(p, outbox) => c \in kept \/ c \in contents[rows[p].blob]
      BY <1>6, <1>7 DEF WaitingTexts, Held
    <3>. QED
      BY <1>2, <1>4, <1>7, <2>1, <2>3, <3>1, StaysInStored DEF Held
  <2>. QED
    BY <2>2, <2>3
<1>. QED
  BY <1>5, <1>7 DEF OwnStays

(* A row of the page is taken: it has every change the snapshot had.       *)
LEMMA ShownTake ==
    ASSUME TypeInv, MirrorInv, OwnInv, NEW r, TakeKnown(r) \/ TakeSnapshot(r)
    PROVE  (\A p \in Paths : Shown(p)') /\ OwnStays
<1>. DEFINE q == r[1]
            b == IF r[2].deleted THEN NoBlob ELSE r[2].blob
<1>1. pull.pc = "page" /\ r \in pull.page
  BY DEF TakeKnown, TakeSnapshot, NextRow
<1>2. q \in Paths /\ b \in 0..MaxVersion
  BY <1>1, OwnTypes
<1>3. /\ rows \in [Paths -> Row] /\ outbox \in SUBSET ClientIds /\ contents[NoBlob] = {}
      /\ \A p \in Paths : rows[p].blob \in 0..MaxVersion /\ Shown(p)
  BY OwnTypes DEF TypeInv, TypeOK, OwnInv, Places, Sealed
<1>4. UNCHANGED <<contents, outbox, doc>> /\ missed' = missed \ {q}
  BY DEF TakeKnown, TakeSnapshot, outboxVars
<1>5. \A p \in Paths : WaitingTexts(p, outbox)' = WaitingTexts(p, outbox)
  BY <1>4 DEF WaitingTexts
<1>6. \/ rows' = [rows EXCEPT ![q] = Stored(q, b, outbox)]
      \/ rows' = rows /\ ~r[2].deleted /\ rows[q].blob = r[2].blob
  BY DEF TakeKnown, TakeSnapshot
<1>7. CASE rows' = rows /\ ~r[2].deleted /\ rows[q].blob = r[2].blob
  <2>1. r[2].version > 0 /\ r[2].blob = r[2].version
    BY <1>1, <1>2, <1>7 DEF MirrorInv, PathInv, OnPage
  <2>2. rows[q].blob # NoBlob
    BY <1>7, <2>1 DEF NoBlob
  <2>3. ASSUME NEW p \in Paths PROVE Shown(p)'
    BY <1>3, <1>4, <1>5, <1>7, <2>2 DEF Shown
  <2>4. OwnStays
    BY <1>7 DEF OwnStays
  <2>. QED
    BY <2>3, <2>4
<1>8. CASE rows' = [rows EXCEPT ![q] = Stored(q, b, outbox)]
  <2>1. rows'[q] = Stored(q, b, outbox) /\ \A p \in Paths \ {q} : rows'[p] = rows[p]
    BY <1>2, <1>3, <1>8
  <2>2. /\ Stored(q, b, outbox).effects = contents[b] \cup WaitingTexts(q, outbox)
        /\ Stored(q, b, outbox).blob = b
        /\ Stored(q, b, outbox).effects # {} => Stored(q, b, outbox).present
    BY <1>2, <1>3, StoredShows
  <2>3. ASSUME NEW p \in Paths PROVE Shown(p)'
    <3>1. CASE p = q
      BY <1>4, <1>5, <2>1, <2>2, <3>1 DEF Shown
    <3>2. CASE p # q
      BY <1>3, <1>4, <1>5, <2>1, <3>2 DEF Shown
    <3>. QED
      BY <3>1, <3>2
  <2>4. ASSUME NEW p \in Paths \ missed, NEW c \in ClientIds, c \in rows[p].effects, ~KeepsOwn(c)
        PROVE  c \in rows'[p].effects
    <3>1. CASE p # q
      BY <2>1, <2>4, <3>1
    <3>2. CASE p = q
      <4>1. c \notin parted
        BY <2>4 DEF KeepsOwn
      <4>2. Own(c, p) /\ Held(c, p) => c \in contents[b]
        BY <1>1, <2>4, <3>2 DEF OwnInv, PullOwn, PageCarries
      <4>3. c \in WaitingTexts(p, outbox) => c \in outbox
        BY DEF WaitingTexts
      <4>. QED
        BY <1>2, <1>3, <2>1, <2>4, <3>2, <4>1, <4>2, <4>3, StaysInStored
    <3>. QED
      BY <3>1, <3>2
  <2>. QED
    BY <2>3, <2>4 DEF OwnStays
<1>. QED
  BY <1>6, <1>7, <1>8

(* A full pull that removes a note was not told of any of its changes.     *)
LEMMA ShownSave ==
    ASSUME TypeInv, OwnInv, SaveCursor PROVE (\A p \in Paths : Shown(p)') /\ OwnStays
<1>1. /\ pull.pc = "page" /\ pull.page = {} /\ ~pull.more
      /\ rows' = [p \in Paths |-> IF pull.full /\ p \notin pull.listed
                                  THEN Stored(p, NoBlob, outbox) ELSE rows[p]]
      /\ missed' = IF pull.full THEN missed \cap pull.listed ELSE missed
      /\ UNCHANGED <<contents, outbox, doc>>
  BY DEF SaveCursor, outboxVars
<1>2. /\ outbox \in SUBSET ClientIds /\ contents[NoBlob] = {} /\ NoBlob \in 0..MaxVersion
      /\ \A p \in Paths : Shown(p)
  BY OwnTypes DEF OwnInv, Places, Sealed
<1>3. \A p \in Paths : WaitingTexts(p, outbox)' = WaitingTexts(p, outbox)
  BY <1>1 DEF WaitingTexts
<1>4. ASSUME NEW p \in Paths, pull.full /\ p \notin pull.listed
      PROVE  /\ Shown(p)'
             /\ \A c \in ClientIds :
                  p \notin missed /\ c \in rows[p].effects /\ ~KeepsOwn(c) => c \in rows'[p].effects
  <2>1. rows'[p] = Stored(p, NoBlob, outbox)
    BY <1>1, <1>4
  <2>2. /\ Stored(p, NoBlob, outbox).effects = contents[NoBlob] \cup WaitingTexts(p, outbox)
        /\ Stored(p, NoBlob, outbox).blob = NoBlob
        /\ Stored(p, NoBlob, outbox).effects # {} => Stored(p, NoBlob, outbox).present
    BY <1>2, StoredShows
  <2>3. Shown(p)'
    BY <1>1, <1>2, <1>3, <2>1, <2>2 DEF Shown
  <2>4. ASSUME NEW c \in ClientIds, p \notin missed, c \in rows[p].effects, ~KeepsOwn(c)
        PROVE  c \in rows'[p].effects
    <3>1. c \notin parted
      BY <2>4 DEF KeepsOwn
    <3>2. ~(Own(c, p) /\ Held(c, p))
      <4>1. pull.pc = "page" /\ pull \in Paging /\ pull.next \in Nat
        BY <1>1, MirrorTypes DEF Listing
      <4>2. Listing /\ Pos # Full /\ ~InPage(p) /\ ~Ahead(p)
        BY <1>1, <4>1 DEF Listing, Pos, Full, InPage, Ahead
      <4>. QED
        BY <1>4, <4>2 DEF OwnInv, PullOwn, ListsOwn
    <3>3. c \in WaitingTexts(p, outbox) => c \in outbox
      BY DEF WaitingTexts
    <3>. QED
      BY <1>2, <2>1, <2>4, <3>1, <3>2, <3>3, StaysInStored
  <2>. QED
    BY <2>3, <2>4
<1>5. ASSUME NEW p \in Paths, ~(pull.full /\ p \notin pull.listed)
      PROVE  Shown(p)' /\ rows'[p] = rows[p]
  <2>1. rows'[p] = rows[p] /\ (p \in missed <=> p \in missed')
    BY <1>1, <1>5
  <2>. QED
    BY <1>1, <1>2, <1>3, <2>1 DEF Shown
<1>6. \A p \in Paths : Shown(p)'
  BY <1>4, <1>5
<1>7. OwnStays
  BY <1>4, <1>5 DEF OwnStays
<1>. QED
  BY <1>6, <1>7

-------------------------------------------------------------------------------
(* What a pull knows of the user's own changes *)

(* The numbers a pull compares, none ahead of the counter.                 *)
LEMMA PullNumbers ==
    ASSUME TypeInv, MirrorInv, Places
    PROVE  /\ cursor \in Nat /\ cursor <= vault.latestVersion /\ vault.latestVersion \in 0..MaxVersion
           /\ MaxVersion \in Nat
           /\ Listing => /\ pull \in Paging /\ Pos \in Int /\ Pos <= vault.latestVersion
                         /\ pull.since \in Nat \cup {Full} /\ pull.since <= vault.latestVersion
                         /\ pull.latest \in Nat /\ pull.latest <= vault.latestVersion
           /\ pull.pc = "page" => /\ Listing /\ Pos = pull.next /\ pull.next \in Nat
                                  /\ pull.next <= vault.latestVersion
           /\ Listing /\ pull.pc # "page" => Pos = pull.since
           /\ \A p \in Paths : /\ rows[p].blob \in 0..MaxVersion /\ rows[p].blob <= vault.latestVersion
                               /\ files[p].blob \in 0..MaxVersion
                               /\ files[p].version \in Nat /\ files[p].version <= vault.latestVersion
BY OwnTypes, MirrorTypes, Bounds DEF Places, Placed, MirrorInv, Behind, Listing, Pos, TypeInv, Versions

(* An upload up to a version is one up to every later version.             *)
LEMMA UploadedLater ==
    ASSUME NEW c, NEW v \in Int, NEW u \in Int, v <= u, Uploaded(c, v), MaxVersion \in Nat
    PROVE  Uploaded(c, u)
BY DEF Uploaded

(* A snapshot that has the change was uploaded.                            *)
LEMMA HeldUploaded ==
    ASSUME TypeInv, MirrorInv, Places, NEW p \in Paths, NEW c, Held(c, p)
    PROVE  Uploaded(c, vault.latestVersion)
BY PullNumbers DEF Held, Uploaded

(* The steps that leave the pull alone: what is uploaded meanwhile is      *)
(* ahead of it.                                                            *)
LEMMA PullOwnSame ==
    ASSUME TypeInv, MirrorInv, Places, NEW p \in Paths, NEW c \in ClientIds,
           UNCHANGED <<pull, cursor, refetch>>, missed \subseteq missed',
           \A b \in 0..MaxVersion : b <= vault.latestVersion => contents'[b] = contents[b],
           rows'[p].blob = rows[p].blob \/ (p \in missed' /\ rows'[p].blob = NoBlob),
           PullOwn(c, p) \/ ~Uploaded(c, vault.latestVersion),
           files'[p].version \in Nat,
           files'[p].version >= files[p].version \/ ~Uploaded(c, vault.latestVersion)
    PROVE  PullOwn(c, p)'
<1>1. contents'[NoBlob] = {} /\ contents[NoBlob] = {}
  BY OwnTypes DEF Places, Sealed, NoBlob
<1>2. ASSUME NEW v \in Int, v <= vault.latestVersion
      PROVE  (\E b \in 0..MaxVersion : b <= v /\ c \in contents'[b]) <=> Uploaded(c, v)
  BY <1>2, PullNumbers DEF Uploaded
<1>3. /\ Uploaded(c, cursor)' <=> Uploaded(c, cursor)
      /\ pull.pc = "page" => (Uploaded(c, pull.next)' <=> Uploaded(c, pull.next))
      /\ Listing => (Uploaded(c, Pos)' <=> Uploaded(c, Pos))
  <2>1. Uploaded(c, cursor)' <=> Uploaded(c, cursor)
    BY <1>2, PullNumbers DEF Uploaded
  <2>2. pull.pc = "page" => (Uploaded(c, pull.next)' <=> Uploaded(c, pull.next))
    BY <1>2, PullNumbers DEF Uploaded
  <2>3. Listing => (Uploaded(c, Pos)' <=> Uploaded(c, Pos))
    BY <1>2, PullNumbers DEF Uploaded, Pos
  <2>. QED
    BY <2>1, <2>2, <2>3
<1>4. /\ Held(c, p)' => Held(c, p)
      /\ Held(c, p) => Held(c, p)' \/ p \in missed'
  BY <1>1, PullNumbers DEF Held
<1>5. /\ Listing' <=> Listing
      /\ Pos' = Pos /\ (InPage(p)' <=> InPage(p))
  BY DEF Listing, Pos, InPage
<1>6. CASE ~Uploaded(c, vault.latestVersion)
  <2>1. ~Held(c, p) /\ ~Uploaded(c, cursor)
    BY <1>6, HeldUploaded, PullNumbers, UploadedLater
  <2>2. /\ pull.pc = "page" => ~Uploaded(c, pull.next)
        /\ Listing => ~Uploaded(c, Pos)
    BY <1>6, PullNumbers, UploadedLater
  <2>. QED
    BY <1>3, <1>4, <1>5, <2>1, <2>2
    DEF PullOwn, PageCarries, ListsOwn, FetchesOwn, KeepsSnapshot
<1>7. CASE PullOwn(c, p) /\ files'[p].version >= files[p].version
  <2>1. Listing /\ Ahead(p) => Ahead(p)'
    BY <1>5, <1>7, PullNumbers DEF Ahead
  <2>2. pull.pc = "page" => \A r \in pull.page : contents'[r[2].blob] = contents[r[2].blob]
    BY OwnTypes DEF Places, PagePlaced
  <2>3. PageCarries(c, p)'
    BY <1>3, <1>4, <1>7, <2>2 DEF PullOwn, PageCarries
  <2>4. ListsOwn(c, p)'
    BY <1>3, <1>4, <1>5, <1>7, <2>1 DEF PullOwn, ListsOwn
  <2>5. FetchesOwn(c, p)'
    BY <1>3, <1>4, <1>5, <1>7, <2>1 DEF PullOwn, FetchesOwn
  <2>6. KeepsSnapshot(c, p)'
    BY <1>3, <1>4, <1>7 DEF PullOwn, KeepsSnapshot
  <2>. QED
    BY <2>3, <2>4, <2>5, <2>6 DEF PullOwn
<1>. QED
  BY <1>6, <1>7

(* The steps outside a pull, which leave the snapshots alone.              *)
LEMMA PullOwnOutside ==
    ASSUME TypeInv, MirrorInv, Places, NEW p \in Paths, NEW c \in ClientIds, PullOwn(c, p),
           ~Listing', UNCHANGED <<cursor, contents>>, rows'[p].blob = rows[p].blob,
           \/ /\ pull.pc # "remember" /\ pull'.pc # "remember" /\ missed' = missed
              /\ refetch' = refetch
           \/ /\ pull.pc = "remember" /\ pull'.pc # "remember"
              /\ (missed' = missed /\ refetch' = pull.failed)
                   \/ (missed' = missed \cup pull.failed /\ refetch' = refetch)
    PROVE  PullOwn(c, p)'
<1>1. /\ Uploaded(c, cursor)' <=> Uploaded(c, cursor)
      /\ Held(c, p)' <=> Held(c, p)
  BY DEF Uploaded, Held
<1>2. pull'.pc # "page"
  BY DEF Listing
<1>3. KeepsSnapshot(c, p)'
  BY <1>1 DEF PullOwn, KeepsSnapshot
<1>. QED
  BY <1>2, <1>3 DEF PullOwn, PageCarries, ListsOwn, FetchesOwn

(* The steps of a pull that take no row leave what the cursor promised.    *)
LEMMA SnapshotSame ==
    ASSUME NEW p, NEW c, KeepsSnapshot(c, p), UNCHANGED <<rows, cursor, refetch, missed, contents>>,
           pull.pc # "remember", pull'.pc # "remember"
    PROVE  KeepsSnapshot(c, p)'
BY DEF KeepsSnapshot, Uploaded, Held

(* A pull begins where the cursor stands, or in full.                      *)
LEMMA PullOwnBegin ==
    ASSUME TypeInv, MirrorInv, Places, NEW p \in Paths, NEW c \in ClientIds, PullOwn(c, p), EndFlush
    PROVE  PullOwn(c, p)'
<1>1. /\ pull.pc = "flush" /\ UNCHANGED <<rows, cursor, refetch, missed, contents>>
  BY DEF EndFlush, phoneVars, historyVars
<1>2. PICK since \in Nat \cup {Full} :
        /\ pull' = ListFrom(since) /\ since = IF cursor > 0 /\ refetch = {} THEN cursor ELSE Full
  BY MirrorTypes DEF EndFlush
<1>3. /\ pull'.pc = "list" /\ pull'.since = since /\ (pull'.full <=> since = Full)
  BY <1>2, ListFromTo
<1>4. Pos' = since
  BY <1>3 DEF Pos
<1>5. PageCarries(c, p)' /\ ListsOwn(c, p)'
  BY <1>3, <1>4 DEF PageCarries, ListsOwn
<1>6. FetchesOwn(c, p)'
  <2>1. ASSUME Pos' # Full, Uploaded(c, Pos)' PROVE (Held(c, p) \/ p \in missed)'
    <3>1. since = cursor /\ refetch = {}
      BY <1>2, <1>4, <2>1
    <3>2. Uploaded(c, cursor)
      BY <1>1, <1>4, <2>1, <3>1 DEF Uploaded
    <3>3. Held(c, p) \/ p \in missed
      BY <1>1, <3>1, <3>2 DEF PullOwn, KeepsSnapshot
    <3>. QED
      BY <1>1, <3>3 DEF Held
  <2>. QED
    BY <2>1 DEF FetchesOwn
<1>7. KeepsSnapshot(c, p)'
  BY <1>1, <1>3, SnapshotSame DEF PullOwn
<1>. QED
  BY <1>5, <1>6, <1>7 DEF PullOwn

(* A request is let in, or the pull starts over.                           *)
LEMMA PullOwnAuth ==
    ASSUME TypeInv, MirrorInv, Places, NEW p \in Paths, NEW c \in ClientIds, PullOwn(c, p), ListAuth
    PROVE  PullOwn(c, p)'
<1>1. UNCHANGED <<rows, cursor, refetch, missed, contents, files>>
  BY DEF ListAuth, phoneVars, historyVars, storeVars
<1>2. /\ pull.pc = "list" /\ pull'.failed = pull.failed
      /\ \/ pull'.pc = "list" /\ pull'.since = Full
         \/ /\ pull'.pc = "auth" /\ pull'.since = pull.since /\ pull'.full = pull.full
            /\ pull'.listed = pull.listed
  BY ListAuthTo
<1>3. KeepsSnapshot(c, p)'
  BY <1>1, <1>2, SnapshotSame DEF PullOwn
<1>4. PageCarries(c, p)'
  BY <1>2 DEF PageCarries
<1>5. CASE pull'.since = Full
  <2>1. Pos' = Full
    BY <1>2, <1>5 DEF Pos
  <2>. QED
    BY <1>3, <1>4, <2>1 DEF PullOwn, ListsOwn, FetchesOwn
<1>6. CASE /\ pull'.pc = "auth" /\ pull'.since = pull.since /\ pull'.full = pull.full
           /\ pull'.listed = pull.listed
  <2>1. Pos' = Pos /\ Listing /\ ~InPage(p) /\ (Ahead(p) => Ahead(p)')
    BY <1>1, <1>2, <1>6 DEF Pos, Listing, InPage, Ahead
  <2>2. (Held(c, p)' <=> Held(c, p)) /\ (Uploaded(c, Pos)' <=> Uploaded(c, Pos))
    BY <1>1, <2>1 DEF Held, Uploaded
  <2>3. ListsOwn(c, p)' /\ FetchesOwn(c, p)'
    BY <1>1, <1>2, <1>6, <2>1, <2>2 DEF PullOwn, ListsOwn, FetchesOwn
  <2>. QED
    BY <1>3, <1>4, <2>3 DEF PullOwn
<1>. QED
  BY <1>2, <1>5, <1>6

(* The row of an uploaded change is on the page, before the pull, or was   *)
(* passed by it.                                                           *)
LEMMA PullOwnRead ==
    ASSUME TypeInv, TypeInv', MirrorInv, MirrorInv', Places, NEW p \in Paths, NEW c \in ClientIds,
           InTable(c, p), PullOwn(c, p), ListRead
    PROVE  PullOwn(c, p)'
<1>1. UNCHANGED <<rows, cursor, refetch, missed, contents, files, vault>>
  BY DEF ListRead, phoneVars, historyVars, storeVars
<1>2. /\ pull.pc = "auth" /\ pull'.pc = "page"
      /\ pull'.since = pull.since /\ pull'.full = pull.full /\ pull'.listed = pull.listed
      /\ pull'.failed = pull.failed
      /\ pull'.page \in SUBSET ListFiles(pull.since)
      /\ \A r \in ListFiles(pull.since) : r[2].version <= pull'.next => r \in pull'.page
      /\ pull'.more \/ pull'.page = ListFiles(pull.since)
      /\ pull' \in Paging
  BY ListReadTo
<1>3. KeepsSnapshot(c, p)'
  BY <1>1, <1>2, SnapshotSame DEF PullOwn
<1>4. \A r \in ListFiles(pull.since) : r[1] \in Paths /\ r[2] = files[r[1]]
  BY DEF ListFiles
<1>5. /\ Listing /\ Pos = pull.since /\ pull.since \in Int /\ Listing' /\ Pos' = pull'.next
      /\ pull'.next \in Nat /\ pull'.next <= vault.latestVersion
  BY <1>1, <1>2, PullNumbers DEF Listing, Pos, MirrorInv, Behind, Paging
<1>6. /\ files[p].version \in Nat /\ cursor \in Nat /\ cursor <= vault.latestVersion
      /\ vault.latestVersion \in Nat /\ MaxVersion \in Nat /\ files[p].blob \in 0..MaxVersion
  BY PullNumbers
<1>7. ASSUME Held(c, p)' \/ Uploaded(c, cursor)' \/ Uploaded(c, pull.next)'
      PROVE  Uploaded(c, vault.latestVersion)
  <2>1. CASE Held(c, p)'
    BY <1>1, <2>1, HeldUploaded DEF Held
  <2>2. CASE Uploaded(c, cursor)'
    BY <1>1, <1>6, <2>2, UploadedLater DEF Uploaded
  <2>3. CASE Uploaded(c, pull.next)'
    BY <1>1, <1>5, <1>6, <2>3 DEF Uploaded
  <2>. QED
    BY <1>7, <2>1, <2>2, <2>3
<1>8. PageCarries(c, p)'
  <2>1. ASSUME Uploaded(c, vault.latestVersion), NEW r \in pull'.page, r[1] = p
        PROVE  ~r[2].deleted /\ c \in contents[r[2].blob]
    BY <1>2, <1>4, <2>1 DEF InTable, IsLive
  <2>. QED
    BY <1>1, <1>7, <2>1 DEF PageCarries
<1>9. ASSUME Uploaded(c, vault.latestVersion), pull.since = Full \/ files[p].version > pull.since
      PROVE  InPage(p)' \/ Ahead(p)'
  <2>1. <<p, files[p]>> \in ListFiles(pull.since)
    BY <1>9 DEF ListFiles, InTable
  <2>2. CASE <<p, files[p]>> \in pull'.page
    BY <1>2, <2>2 DEF InPage
  <2>3. CASE <<p, files[p]>> \notin pull'.page
    <3>1. pull'.more /\ ~(files[p].version <= pull'.next)
      BY <1>2, <2>1, <2>3
    <3>. QED
      BY <1>1, <1>5, <1>6, <3>1 DEF Ahead
  <2>. QED
    BY <2>2, <2>3
<1>10. ASSUME Uploaded(c, vault.latestVersion), pull.since # Full, ~(files[p].version > pull.since)
       PROVE  Uploaded(c, Pos) /\ ~Ahead(p) /\ ~InPage(p)
  <2>1. files[p].blob = files[p].version /\ c \in contents[files[p].blob]
    BY <1>10 DEF InTable, MirrorInv, PathInv, LastChange
  <2>. QED
    BY <1>2, <1>5, <1>6, <1>10, <2>1 DEF Uploaded, Ahead, InPage
<1>11. ListsOwn(c, p)'
  <2>1. ASSUME pull.full, Uploaded(c, vault.latestVersion)
        PROVE  p \in pull'.listed \/ InPage(p)' \/ Ahead(p)'
    <3>1. CASE pull.since = Full \/ files[p].version > pull.since
      BY <1>9, <2>1, <3>1
    <3>2. CASE pull.since # Full /\ ~(files[p].version > pull.since)
      BY <1>2, <1>5, <1>10, <2>1, <3>2 DEF PullOwn, ListsOwn
    <3>. QED
      BY <3>1, <3>2
  <2>. QED
    BY <1>2, <1>5, <1>7, <2>1 DEF ListsOwn, Uploaded
<1>12. FetchesOwn(c, p)'
  <2>1. ASSUME Uploaded(c, vault.latestVersion)
        PROVE  (Held(c, p) \/ p \in missed \/ p \in pull.failed \/ InPage(p) \/ Ahead(p))'
    <3>1. CASE pull.since = Full \/ files[p].version > pull.since
      BY <1>9, <2>1, <3>1
    <3>2. CASE pull.since # Full /\ ~(files[p].version > pull.since)
      BY <1>1, <1>2, <1>5, <1>10, <2>1, <3>2 DEF PullOwn, FetchesOwn, Held
    <3>. QED
      BY <3>1, <3>2
  <2>. QED
    BY <1>2, <1>5, <1>7, <2>1 DEF FetchesOwn, Uploaded
<1>. QED
  BY <1>3, <1>8, <1>11, <1>12 DEF PullOwn

(* The next page is asked from where the last one ended.                   *)
LEMMA PullOwnNext ==
    ASSUME TypeInv, MirrorInv, Places, NEW p \in Paths, NEW c \in ClientIds, PullOwn(c, p), NextPage
    PROVE  PullOwn(c, p)'
<1>1. UNCHANGED <<rows, cursor, refetch, missed, contents, files>>
  BY DEF NextPage, phoneVars, historyVars, storeVars
<1>2. /\ pull.pc = "page" /\ pull.page = {} /\ pull.more
      /\ pull' = [pull EXCEPT !.pc = "list", !.since = pull.next]
  BY DEF NextPage
<1>3. pull \in Paging /\ Listing /\ Pos = pull.next /\ pull.next \in Nat
  BY <1>2, PullNumbers
<1>4. /\ pull'.pc = "list" /\ pull'.since = pull.next /\ pull'.full = pull.full
      /\ pull'.listed = pull.listed /\ pull'.failed = pull.failed
  BY <1>2, <1>3 DEF Paging
<1>5. Pos' = Pos /\ Pos # Full /\ ~InPage(p) /\ (Ahead(p) => Ahead(p)')
  BY <1>1, <1>2, <1>3, <1>4 DEF Pos, InPage, Ahead, Full
<1>6. (Held(c, p)' <=> Held(c, p)) /\ (Uploaded(c, Pos)' <=> Uploaded(c, Pos))
  BY <1>1, <1>5 DEF Held, Uploaded
<1>7. ListsOwn(c, p)' /\ FetchesOwn(c, p)'
  BY <1>1, <1>3, <1>4, <1>5, <1>6 DEF PullOwn, ListsOwn, FetchesOwn
<1>8. PageCarries(c, p)' /\ KeepsSnapshot(c, p)'
  BY <1>1, <1>2, <1>4, SnapshotSame DEF PullOwn, PageCarries
<1>. QED
  BY <1>7, <1>8 DEF PullOwn

(* A row of the page is taken, or its download fails.                      *)
LEMMA PullOwnTake ==
    ASSUME TypeInv, MirrorInv, Places, NEW p \in Paths, NEW c \in ClientIds, PullOwn(c, p),
           InTable(c, p), NEW r, TakeKnown(r) \/ TakeSnapshot(r) \/ TakeFailed(r)
    PROVE  PullOwn(c, p)'
<1>1. UNCHANGED <<cursor, refetch, contents, files>>
  BY DEF TakeKnown, TakeSnapshot, TakeFailed, phoneVars, historyVars, storeVars
<1>2. PICK list, fail :
         /\ Taken(r, list, fail) /\ list \subseteq {r[1]} /\ fail \subseteq {r[1]}
         /\ ~r[2].deleted => list = {r[1]}
         /\ \/ TakeKnown(r) \/ TakeSnapshot(r)
            \/ TakeFailed(r) /\ fail = {r[1]} /\ ~r[2].deleted
  <2>1. CASE TakeKnown(r) \/ TakeSnapshot(r)
    <3>1. (r[2].deleted /\ Taken(r, {}, {})) \/ (~r[2].deleted /\ Taken(r, {r[1]}, {}))
      BY <2>1, TakeKnownTo, TakeSnapshotTo
    <3>. QED
      BY <2>1, <3>1
  <2>2. CASE TakeFailed(r)
    BY <2>2, TakeFailedTo
  <2>. QED
    BY <2>1, <2>2
<1>3. /\ pull.pc = "page" /\ pull'.pc = "page" /\ r \in pull.page /\ pull'.page = pull.page \ {r}
      /\ pull'.listed = pull.listed \cup list /\ pull'.failed = pull.failed \cup fail
      /\ pull'.full = pull.full /\ pull'.next = pull.next /\ pull'.more = pull.more
  BY <1>2 DEF Taken
<1>4. /\ Listing /\ Listing' /\ Pos = pull.next /\ Pos' = Pos /\ pull.next \in Nat /\ Pos # Full
  BY <1>3, PullNumbers DEF Listing, Pos, Full
<1>5. /\ Ahead(p)' <=> Ahead(p)
      /\ Uploaded(c, cursor)' <=> Uploaded(c, cursor)
      /\ Uploaded(c, pull.next)' <=> Uploaded(c, pull.next)
      /\ Uploaded(c, Pos)' <=> Uploaded(c, Pos)
  BY <1>1, <1>3, <1>4 DEF Ahead, Uploaded
<1>6. ASSUME p # r[1]
      PROVE  /\ Held(c, p)' <=> Held(c, p)
             /\ InPage(p)' <=> InPage(p)
             /\ p \in missed' <=> p \in missed
  <2>1. rows'[p].blob = rows[p].blob
    BY <1>6, TakeKnownTo, TakeSnapshotTo DEF TakeFailed, phoneVars
  <2>2. InPage(p)' <=> InPage(p)
    BY <1>3, <1>6 DEF InPage
  <2>3. p \in missed' <=> p \in missed
    BY <1>6 DEF TakeKnown, TakeSnapshot, TakeFailed, historyVars
  <2>. QED
    BY <1>1, <2>1, <2>2, <2>3 DEF Held
<1>7. ASSUME p = r[1], Held(c, p) \/ Uploaded(c, cursor) \/ Uploaded(c, pull.next)
      PROVE  ~r[2].deleted /\ c \in contents[r[2].blob]
  BY <1>3, <1>7 DEF PullOwn, PageCarries
<1>8. ASSUME p = r[1], TakeKnown(r) \/ TakeSnapshot(r)
      PROVE  rows'[p].blob = IF r[2].deleted THEN NoBlob ELSE r[2].blob
  BY <1>8, TakeKnownTo, TakeSnapshotTo
<1>9. ASSUME p = r[1], Held(c, p) \/ Uploaded(c, cursor) \/ Uploaded(c, pull.next)
      PROVE  Held(c, p)' \/ (p \in pull'.failed /\ (Held(c, p)' <=> Held(c, p)) /\ missed' = missed)
  <2>1. CASE TakeKnown(r) \/ TakeSnapshot(r)
    BY <1>1, <1>7, <1>8, <1>9, <2>1 DEF Held
  <2>2. CASE TakeFailed(r) /\ fail = {r[1]}
    BY <1>1, <1>2, <1>3, <1>9, <2>2 DEF Held, TakeFailed, phoneVars, historyVars
  <2>. QED
    BY <1>2, <2>1, <2>2
<1>10. contents[NoBlob] = {}
  BY DEF Places, Sealed
<1>11. ASSUME p = r[1], Held(c, p)'
       PROVE  ~r[2].deleted /\ Uploaded(c, vault.latestVersion)
  <2>1. CASE TakeKnown(r) \/ TakeSnapshot(r)
    <3>1. ~r[2].deleted /\ c \in contents[r[2].blob]
      BY <1>1, <1>8, <1>10, <1>11, <2>1 DEF Held
    <3>2. r[2].blob \in 0..MaxVersion /\ r[2].blob <= vault.latestVersion
      BY <1>3, OwnTypes DEF Places, PagePlaced
    <3>. QED
      BY <3>1, <3>2 DEF Uploaded
  <2>2. CASE TakeFailed(r) /\ ~r[2].deleted
    <3>1. Held(c, p)
      BY <1>1, <1>11, <2>2 DEF Held, TakeFailed, phoneVars
    <3>. QED
      BY <1>2, <2>2, <3>1, HeldUploaded
  <2>. QED
    BY <1>2, <2>1, <2>2
<1>12. PageCarries(c, p)'
  <2>1. CASE p # r[1]
    BY <1>1, <1>3, <1>5, <1>6, <2>1 DEF PullOwn, PageCarries
  <2>2. CASE p = r[1]
    \* the row taken was the path's only one
    <3>1. \A s \in pull'.page : s[1] # p
      BY <1>3, <2>2 DEF MirrorInv, PathInv, OnPage
    <3>. QED
      BY <3>1 DEF PageCarries
  <2>. QED
    BY <2>1, <2>2
<1>13. ListsOwn(c, p)'
  <2>1. CASE p # r[1]
    BY <1>3, <1>4, <1>5, <1>6, <2>1 DEF PullOwn, ListsOwn
  <2>2. CASE p = r[1]
    <3>1. Held(c, p)' \/ Uploaded(c, pull.next) => ~r[2].deleted
      BY <1>7, <1>11, <2>2
    <3>2. ~r[2].deleted => p \in pull'.listed
      BY <1>2, <1>3, <2>2
    <3>. QED
      BY <1>4, <1>5, <3>1, <3>2 DEF ListsOwn
  <2>. QED
    BY <2>1, <2>2
<1>14. FetchesOwn(c, p)'
  <2>1. CASE p # r[1]
    BY <1>3, <1>4, <1>5, <1>6, <2>1 DEF PullOwn, FetchesOwn
  <2>2. CASE p = r[1]
    BY <1>4, <1>5, <1>9, <2>2 DEF FetchesOwn
  <2>. QED
    BY <2>1, <2>2
<1>15. KeepsSnapshot(c, p)'
  <2>1. CASE p # r[1]
    BY <1>1, <1>3, <1>5, <1>6, <2>1 DEF PullOwn, KeepsSnapshot
  <2>2. CASE p = r[1]
    BY <1>1, <1>3, <1>5, <1>9, <2>2 DEF PullOwn, KeepsSnapshot
  <2>. QED
    BY <2>1, <2>2
<1>. QED
  BY <1>12, <1>13, <1>14, <1>15 DEF PullOwn

(* The cursor is saved: what was uploaded before it has been fetched.      *)
LEMMA PullOwnSave ==
    ASSUME TypeInv, MirrorInv, Places, NEW p \in Paths, NEW c \in ClientIds, PullOwn(c, p), SaveCursor
    PROVE  PullOwn(c, p)'
<1>1. /\ pull.pc = "page" /\ pull.page = {} /\ ~pull.more /\ cursor' = pull.next
      /\ missed' = IF pull.full THEN missed \cap pull.listed ELSE missed
      /\ contents' = contents
  BY DEF SaveCursor
<1>2. /\ pull'.pc = "remember" /\ pull'.failed = pull.failed
      /\ ~pull.full \/ p \in pull.listed => rows'[p] = rows[p]
  BY SaveCursorTo
<1>3. Listing /\ Pos = pull.next /\ Pos # Full /\ ~InPage(p) /\ ~Ahead(p) /\ pull.next \in Nat
  BY <1>1, PullNumbers DEF InPage, Ahead, Full
<1>4. ASSUME Uploaded(c, cursor)' PROVE Held(c, p)' \/ p \in missed' \/ p \in pull'.failed
  <2>1. Uploaded(c, Pos)
    BY <1>1, <1>3, <1>4 DEF Uploaded
  <2>2. pull.full => p \in pull.listed
    BY <1>3, <2>1 DEF PullOwn, ListsOwn
  <2>3. rows'[p] = rows[p] /\ (p \in missed => p \in missed')
    BY <1>1, <1>2, <2>2
  <2>4. Held(c, p) \/ p \in missed \/ p \in pull.failed
    BY <1>3, <2>1 DEF PullOwn, FetchesOwn
  <2>. QED
    BY <1>1, <1>2, <2>3, <2>4 DEF Held
<1>5. KeepsSnapshot(c, p)'
  BY <1>2, <1>4 DEF KeepsSnapshot
<1>. QED
  BY <1>2, <1>5 DEF PullOwn, PageCarries, ListsOwn, FetchesOwn, Listing

-------------------------------------------------------------------------------
(* What the desk does with the user's own changes *)

(* The steps that upload, answer and ack nothing of it.                    *)
LEMMA DeskOwnSame ==
    ASSUME NEW p \in Paths, NEW c \in ClientIds, DeskOwn(c, p), files'[p] = files[p],
           vault'.latestVersion = vault.latestVersion, contents' = contents,
           touched \subseteq touched', result'[c] = "applied" => result[c] = "applied",
           result[c] = "applied" /\ c \in note[p].effects => c \in note'[p].effects,
           vault'.ackedThroughSeq = vault.ackedThroughSeq,
           vault'.ackedAtVersion = vault.ackedAtVersion,
           \A w \in writes' : w.client = c /\ w.seq <= vault.ackedThroughSeq => w \in writes
    PROVE  DeskOwn(c, p)'
<1>1. Applied(c, p)' /\ InTable(c, p)'
  BY DEF DeskOwn, Applied, InTable, Uploaded
<1>2. Acked(c)'
  BY DEF DeskOwn, Acked, Uploaded
<1>. QED
  BY <1>1, <1>2 DEF DeskOwn

(* The user of the desk edits and deletes.                                 *)
LEMMA DeskOwnEdit ==
    ASSUME TypeInv, OwnInv, NEW x \in Paths, DeskEdit(x) \/ DeskRemove(x),
           NEW p \in Paths, NEW c \in ClientIds, Own(c, p), c \notin parted'
    PROVE  DeskOwn(c, p)'
<1>1. UNCHANGED <<vault, files, writes, touched, result, contents>>
  BY DEF DeskEdit, DeskRemove, storeVars, historyVars
<1>2. DeskOwn(c, p)
  BY DEF OwnInv
<1>3. note \in [Paths -> Note]
  BY DEF TypeInv, TypeOK
<1>4. c \in note[p].effects => c \in note'[p].effects
  <2>1. CASE DeskEdit(x)
    BY <1>3, <2>1 DEF DeskEdit, Note
  <2>2. CASE DeskRemove(x)
    BY <1>3, <2>2 DEF DeskRemove
  <2>. QED
    BY <2>1, <2>2
<1>. QED
  BY <1>1, <1>2, <1>4, DeskOwnSame

(* The desk takes a write: an applied one is in its note, to be uploaded,  *)
(* and a move parts the note's from it.                                    *)
LEMMA DeskOwnTake ==
    ASSUME TypeInv, Order, OwnInv, NEW w \in writes, DeskTake(w),
           NEW p \in Paths, NEW c \in ClientIds, Own(c, p), c \notin parted'
    PROVE  DeskOwn(c, p)'
<1>1. DeskOwn(c, p) /\ Places
  BY DEF OwnInv
<1>2. UNCHANGED <<vault, files, writes, contents, doc>>
  BY TakeTo DEF storeVars, phoneVars, outboxVars
<1>3. /\ w.client \in ClientIds /\ result[w.client] = "waiting" /\ w.seq > taken
      /\ \A x \in ClientIds \ {w.client} : result'[x] = result[x]
      /\ touched \subseteq touched'
  BY TakeTo
<1>4. CASE c # w.client
  <2>1. result'[c] = result[c]
    BY <1>3, <1>4
  <2>2. result[c] = "applied" /\ c \in note[p].effects => c \in note'[p].effects
    <3>1. ASSUME c \in note[p].effects PROVE note[p].present
      BY <1>1, <3>1 DEF Places, Placed
    <3>. QED
      BY <3>1, TakeTo
  <2>. QED
    BY <1>1, <1>2, <1>3, <2>1, <2>2, DeskOwnSame
<1>5. CASE c = w.client
  <2>1. doc[c] = Text(p) /\ doc[c].kind = "text"
    BY DocText, OwnTypes DEF Own
  <2>2. ~Uploaded(c, vault.latestVersion)
    BY <1>1, <1>3, <1>5 DEF Uploaded, Places, Sealed
  <2>3. InTable(c, p)'
    BY <1>2, <2>2 DEF InTable, Uploaded
  <2>4. Acked(c)'
    <3>1. ASSUME NEW x \in writes, x.client = c, x.seq <= vault.ackedThroughSeq PROVE FALSE
      <4>1. x = w
        BY <1>5, <3>1 DEF Order, Queue
      <4>. QED
        BY <1>3, <3>1, <4>1, OwnTypes DEF Order, Queue, QueuedWrite
    <3>. QED
      BY <1>2, <3>1 DEF Acked
  <2>5. Applied(c, p)'
    <3>1. CASE \E x \in Paths :
                 /\ doc[w.client] = Text(x) /\ x \in touched'
                 /\ note'[x].effects = note[x].effects \cup {w.client}
      <4>1. PICK x \in Paths : /\ doc[w.client] = Text(x) /\ x \in touched'
                               /\ note'[x].effects = note[x].effects \cup {w.client}
        BY <3>1
      <4>2. x = p
        BY <1>5, <2>1, <4>1, DocText, OwnTypes
      <4>. QED
        BY <1>5, <4>1, <4>2 DEF Applied
    <3>2. CASE result'[w.client] = "noop"
      BY <1>5, <3>2 DEF Applied
    <3>. QED
      BY <1>5, <2>1, <3>1, <3>2, TakeTo
  <2>. QED
    BY <2>3, <2>4, <2>5 DEF DeskOwn
<1>. QED
  BY <1>4, <1>5

(* A text is of one path.                                                  *)
LEMMA TextOf == ASSUME NEW p, NEW q, Text(p) = Text(q) PROVE p = q
<1>1. Text(p).path = p /\ Text(q).path = q
  BY DEF Text
<1>. QED
  BY <1>1

(* An upload carries every change of its note, and no other.               *)
LEMMA DeskOwnUpload ==
    ASSUME TypeInv, OwnInv, NEW x \in Paths, DeskUpload(x),
           NEW p \in Paths, NEW c \in ClientIds, Own(c, p)
    PROVE  DeskOwn(c, p)'
<1>1. DeskOwn(c, p) /\ Places
  BY DEF OwnInv
<1>2. /\ \A b \in 0..MaxVersion : b # vault.latestVersion + 1 => contents'[b] = contents[b]
      /\ note[x].present =>
           /\ NewRow(x) /\ files'[x] = LiveRow(vault'.latestVersion, vault'.latestVersion, 1)
           /\ contents'[vault'.latestVersion] = note[x].effects
      /\ ~note[x].present => /\ contents' = contents
                             /\ SameFiles \/ NewRow(x)
      /\ UNCHANGED <<note, result>> /\ touched' = touched \ {x}
  BY SealTo
<1>3. SameQueue
  BY UploadTo
<1>4. /\ vault.latestVersion \in 0..MaxVersion /\ MaxVersion \in Nat
      /\ vault.ackedAtVersion \in Nat
      /\ \A q \in Paths : files[q].blob \in 0..MaxVersion /\ files[q].blob <= vault.latestVersion
  BY <1>1, OwnTypes, Bounds DEF Places, Placed
<1>5. /\ vault'.latestVersion \in 0..MaxVersion
      /\ \/ vault'.latestVersion = vault.latestVersion /\ ~note[x].present
         \/ vault'.latestVersion = vault.latestVersion + 1
      /\ \A q \in Paths \ {x} : files'[q] = files[q]
  BY <1>2, <1>4 DEF NewRow, SameFiles
<1>6. ASSUME NEW b \in 0..MaxVersion, b <= vault.latestVersion PROVE contents'[b] = contents[b]
  BY <1>2, <1>4, <1>6
<1>7. Uploaded(c, vault.latestVersion) => result[c] = "applied" /\ c \in note[p].effects
  BY <1>1 DEF Uploaded, Places, Sealed, DeskOwn, Applied
<1>8. c \in note[p].effects => note[p].present
  BY <1>1 DEF Places, Placed
<1>9. Uploaded(c, vault.latestVersion) => Uploaded(c, vault.latestVersion)'
  BY <1>4, <1>5, <1>6 DEF Uploaded
<1>10. Applied(c, p)'
  <2>1. CASE p # x
    BY <1>1, <1>2, <1>9, <2>1 DEF DeskOwn, Applied
  <2>2. CASE p = x
    <3>1. ASSUME result[c] = "applied" PROVE c \in note[p].effects /\ Uploaded(c, vault.latestVersion)'
      <4>1. c \in note[p].effects
        BY <1>1, <3>1 DEF DeskOwn, Applied
      <4>2. c \in contents'[vault'.latestVersion]
        BY <1>2, <1>8, <2>2, <4>1
      <4>. QED
        BY <1>4, <1>5, <4>1, <4>2 DEF Uploaded
    <3>. QED
      BY <1>2, <3>1 DEF Applied
  <2>. QED
    BY <2>1, <2>2
<1>11. InTable(c, p)'
  <2>1. ASSUME Uploaded(c, vault.latestVersion)' PROVE c \in note[p].effects
    <3>1. PICK b \in 0..MaxVersion : b <= vault'.latestVersion /\ c \in contents'[b]
      BY <2>1 DEF Uploaded
    <3>2. CASE b <= vault.latestVersion
      BY <1>6, <1>7, <3>1, <3>2 DEF Uploaded
    <3>3. CASE ~(b <= vault.latestVersion)
      <4>1. b = vault.latestVersion + 1 /\ b = vault'.latestVersion
        BY <1>4, <1>5, <3>1, <3>3
      <4>2. CASE note[x].present
        <5>1. c \in note[x].effects
          BY <1>2, <3>1, <4>1, <4>2
        <5>2. doc[c] = Text(x)
          BY <1>1, <5>1 DEF Places, Placed, OfPath, Own
        <5>3. x = p
          BY <5>2, TextOf DEF Own
        <5>. QED
          BY <5>1, <5>3
      <4>3. CASE ~note[x].present
        \* a tombstone seals nothing
        <5>1. c \in contents[b]
          BY <1>2, <3>1, <4>3
        <5>. QED
          BY <1>1, <3>3, <5>1 DEF Places, Sealed
      <4>. QED
        BY <4>2, <4>3
    <3>. QED
      BY <3>2, <3>3
  <2>2. CASE p = x
    <3>1. ASSUME c \in note[p].effects
          PROVE  IsLive(files'[p]) /\ c \in contents'[files'[p].blob]
      <4>1. /\ files'[p] = LiveRow(vault'.latestVersion, vault'.latestVersion, 1)
            /\ contents'[vault'.latestVersion] = note[p].effects /\ NewRow(p)
        BY <1>2, <1>8, <2>2, <3>1
      <4>2. vault'.latestVersion = vault.latestVersion + 1
        BY <4>1 DEF NewRow
      <4>. QED
        BY <1>4, <3>1, <4>1, <4>2 DEF IsLive, LiveRow
    <3>. QED
      BY <2>1, <3>1 DEF InTable
  <2>3. CASE p # x
    <3>1. ASSUME Uploaded(c, vault.latestVersion)' PROVE Uploaded(c, vault.latestVersion)
      <4>1. PICK b \in 0..MaxVersion : b <= vault'.latestVersion /\ c \in contents'[b]
        BY <3>1 DEF Uploaded
      <4>2. CASE b <= vault.latestVersion
        BY <1>6, <4>1, <4>2 DEF Uploaded
      <4>3. CASE ~(b <= vault.latestVersion)
        <5>1. b = vault.latestVersion + 1 /\ b = vault'.latestVersion
          BY <1>4, <1>5, <4>1, <4>3
        <5>2. ~note[x].present
          <6>1. ASSUME note[x].present PROVE FALSE
            <7>1. c \in note[x].effects
              BY <1>2, <4>1, <5>1, <6>1
            <7>2. doc[c] = Text(x)
              BY <1>1, <7>1 DEF Places, Placed, OfPath, Own
            <7>. QED
              BY <2>3, <7>2, TextOf DEF Own
          <6>. QED
            BY <6>1
        <5>3. c \in contents[b]
          BY <1>2, <4>1, <5>2
        <5>. QED
          BY <1>1, <1>4, <4>3, <5>3 DEF Places, Sealed
      <4>. QED
        BY <4>2, <4>3
    <3>2. files'[p] = files[p] /\ contents'[files[p].blob] = contents[files[p].blob]
      BY <1>4, <1>5, <1>6, <2>3
    <3>. QED
      BY <1>1, <3>1, <3>2 DEF DeskOwn, InTable
  <2>. QED
    BY <2>2, <2>3
<1>12. Acked(c)'
  <2>1. Uploaded(c, vault.ackedAtVersion) => Uploaded(c, vault.ackedAtVersion)'
    <3>1. ASSUME NEW b \in 0..MaxVersion, b <= vault.ackedAtVersion, c \in contents[b]
          PROVE  Uploaded(c, vault.ackedAtVersion)'
      <4>1. b <= vault.latestVersion
        BY <1>1, <3>1 DEF Places, Sealed
      <4>2. c \in contents'[b] /\ vault'.ackedAtVersion = vault.ackedAtVersion
        BY <1>3, <1>6, <3>1, <4>1 DEF SameQueue
      <4>. QED
        BY <3>1, <4>2 DEF Uploaded
    <3>. QED
      BY <3>1 DEF Uploaded
  <2>. QED
    BY <1>1, <1>2, <1>3, <2>1 DEF DeskOwn, Acked, SameQueue
<1>. QED
  BY <1>10, <1>11, <1>12 DEF DeskOwn

(* The desk acks with nothing left to upload: what it applied is uploaded. *)
LEMMA DeskOwnAck ==
    ASSUME TypeInv, OwnInv, DeskAck, NEW p \in Paths, NEW c \in ClientIds, Own(c, p)
    PROVE  DeskOwn(c, p)'
<1>1. DeskOwn(c, p)
  BY DEF OwnInv
<1>2. touched = {} /\ UNCHANGED <<note, touched, result, contents>>
  BY DEF DeskAck, deskVars, historyVars
<1>3. SameFiles /\ vault'.ackedAtVersion = vault.latestVersion
  BY AckTo
<1>4. Applied(c, p)' /\ InTable(c, p)'
  BY <1>1, <1>2, <1>3 DEF DeskOwn, Applied, InTable, Uploaded, SameFiles
<1>5. Acked(c)'
  <2>1. result[c] = "applied" => Uploaded(c, vault.latestVersion)
    BY <1>1, <1>2 DEF DeskOwn, Applied
  <2>. QED
    BY <1>2, <1>3, <2>1 DEF Acked, Uploaded
<1>. QED
  BY <1>4, <1>5 DEF DeskOwn

(* The sweeper forgets a tombstone: none of its path's was uploaded.       *)
LEMMA DeskOwnSweep ==
    ASSUME TypeInv, OwnInv, NEW x \in Paths, SweepTombstone(x),
           NEW p \in Paths, NEW c \in ClientIds, Own(c, p)
    PROVE  /\ DeskOwn(c, p)'
           /\ files'[p] = files[p] \/ ~Uploaded(c, vault.latestVersion)
<1>1. DeskOwn(c, p)
  BY DEF OwnInv
<1>2. UNCHANGED <<note, touched, result, contents>>
  BY DEF SweepTombstone, deskVars
<1>3. /\ SameQueue /\ vault'.latestVersion = vault.latestVersion /\ files[x].deleted
      /\ \A q \in Paths \ {x} : files'[q] = files[q]
  BY SweepTo
<1>4. CASE p # x
  BY <1>1, <1>2, <1>3, <1>4, DeskOwnSame DEF SameQueue
<1>5. CASE p = x
  <2>1. ~Uploaded(c, vault.latestVersion)
    BY <1>1, <1>3, <1>5 DEF DeskOwn, InTable, IsLive
  <2>2. Applied(c, p)' /\ InTable(c, p)' /\ Acked(c)'
    BY <1>1, <1>2, <1>3, <2>1 DEF DeskOwn, Applied, InTable, Acked, Uploaded, SameQueue
  <2>. QED
    BY <2>1, <2>2 DEF DeskOwn
<1>. QED
  BY <1>4, <1>5

(* The steps of the phone: a write it posts is not acked yet.              *)
LEMMA DeskOwnPhone ==
    ASSUME TypeInv, Order, OwnInv, NEW p \in Paths, NEW c \in ClientIds, Own(c, p),
           SameFiles, UNCHANGED <<contents, note, touched>>,
           result' = result \/ FlushRefused,
           \/ SameQueue
           \/ FlushOne \/ FlushLost
    PROVE  DeskOwn(c, p)'
<1>1. DeskOwn(c, p)
  BY DEF OwnInv
<1>2. result'[c] = "applied" => result[c] = "applied"
  <2>1. CASE FlushRefused
    <3>1. PICK x \in ClientIds : result' = [result EXCEPT ![x] = "refused"]
      BY <2>1, RefusedTo
    <3>. QED
      BY <3>1, OwnTypes
  <2>. QED
    BY <2>1
<1>3. /\ vault'.ackedThroughSeq = vault.ackedThroughSeq
      /\ vault'.ackedAtVersion = vault.ackedAtVersion
      /\ \A w \in writes' : w.client = c /\ w.seq <= vault.ackedThroughSeq => w \in writes
  <2>1. CASE SameQueue
    BY <2>1 DEF SameQueue
  <2>2. CASE FlushOne \/ FlushLost
    <3>1. PICK x \in pull.batch : Post(x)
      BY <2>2 DEF FlushOne, FlushLost
    <3>2. x \in ClientIds /\ StoreTypeOK
      BY <2>2, Shapes DEF FlushOne, FlushLost, Flushing, TypeInv, TypeOK
    <3>3. /\ vault'.ackedThroughSeq = vault.ackedThroughSeq
          /\ vault'.ackedAtVersion = vault.ackedAtVersion
          /\ \/ writes' = writes \cup
                    {[seq |-> vault.latestSeq + 1, client |-> x, acked |-> FALSE]}
             \/ writes' = writes
      BY <3>1, <3>2, PostTo DEF SameQueue
    <3>4. vault.ackedThroughSeq < vault.latestSeq + 1
      BY OrderTypes DEF Order, Queue
    <3>. QED
      BY <3>3, <3>4, OrderTypes
  <2>. QED
    BY <2>1, <2>2
<1>. QED
  BY <1>1, <1>2, <1>3, DeskOwnSame DEF SameFiles

-------------------------------------------------------------------------------
(* Every step keeps the user's own changes *)

(* The pull's part of a step that leaves the pull and the table alone.     *)
LEMMA PullOwnQuiet ==
    ASSUME TypeInv, MirrorInv, Places, NEW p \in Paths, NEW c \in ClientIds,
           PullOwn(c, p) \/ ~Uploaded(c, vault.latestVersion), contents' = contents,
           UNCHANGED <<pull, cursor, refetch>>, missed \subseteq missed', files'[p] = files[p],
           rows'[p].blob = rows[p].blob \/ (p \in missed' /\ rows'[p].blob = NoBlob)
    PROVE  PullOwn(c, p)'
<1>1. files'[p].version \in Nat /\ files'[p].version >= files[p].version
  BY PullNumbers
<1>. QED
  BY <1>1, PullOwnSame

(* The user's changes on the phone: a new one is nowhere else yet.         *)
LEMMA OwnRecord ==
    ASSUME TypeInv, TypeInv', Order, MirrorInv, OwnInv, Steady,
           NEW x \in Paths, NEW y \in Paths, NEW d \in ClientIds,
           RecordText(x, d) \/ RecordMove(x, y, d)
    PROVE  OwnInv' /\ OwnStays
<1>1. Places
  BY DEF OwnInv
<1>2. UNCHANGED <<storeVars, cursor, refetch, pull, deskVars, contents, parted>>
  BY DEF RecordText, RecordMove, historyVars
<1>3. SameFiles /\ SameQueue /\ UNCHANGED <<note, touched, result>>
  BY <1>2, SameStore DEF deskVars
<1>4. /\ missed \subseteq missed'
      /\ \A p \in Paths : rows'[p].blob = rows[p].blob \/ (p \in missed' /\ rows'[p].blob = NoBlob)
  BY RecordType, MoveTo
<1>5. Places'
  BY <1>1, <1>2, <1>3, <1>4, PlacesPhone
<1>6. (\A p \in Paths : Shown(p)') /\ OwnStays
  BY ShownRecord
<1>7. /\ doc[d] = NoDoc /\ \A c \in ClientIds \ {d} : doc'[c] = doc[c]
  BY OwnTypes DEF RecordText, RecordMove, Enlist
<1>8. result[d] = "waiting"
  BY <1>7 DEF Order, Answers, Ids, Posted
<1>9. ASSUME NEW p \in Paths, NEW c \in ClientIds, Own(c, p)'
      PROVE  DeskOwn(c, p)' /\ PullOwn(c, p)'
  <2>1. CASE c = d
    <3>1. ~Uploaded(c, vault.latestVersion)
      BY <1>1, <1>8, <2>1 DEF Uploaded, Places, Sealed
    <3>2. DeskOwn(c, p)'
      BY <1>2, <1>3, <1>8, <2>1, <3>1 DEF DeskOwn, Applied, InTable, Acked, Uploaded, SameFiles
    <3>. QED
      BY <1>1, <1>2, <1>3, <1>4, <3>1, <3>2, PullOwnQuiet DEF SameFiles
  <2>2. CASE c # d
    <3>1. Own(c, p)
      BY <1>2, <1>7, <1>9, <2>2 DEF Own
    <3>2. DeskOwn(c, p)'
      BY <1>2, <1>3, <3>1, DeskOwnPhone
    <3>3. PullOwn(c, p)
      BY <3>1 DEF OwnInv
    <3>. QED
      BY <1>1, <1>2, <1>3, <1>4, <3>2, <3>3, PullOwnQuiet DEF SameFiles
  <2>. QED
    BY <2>1, <2>2
<1>. QED
  BY <1>5, <1>6, <1>9 DEF OwnInv

(* The desk's steps: it applies, uploads and acks in that order.           *)
LEMMA OwnDesk ==
    ASSUME TypeInv, TypeInv', Order, MirrorInv, OwnInv, Steady,
           \/ \E x \in Paths : DeskEdit(x) \/ DeskRemove(x) \/ DeskUpload(x) \/ SweepTombstone(x)
           \/ \E w \in writes : DeskTake(w)
           \/ DeskAck
    PROVE  OwnInv' /\ OwnStays
<1>1. Places
  BY DEF OwnInv
<1>2. UNCHANGED <<phoneVars, pull>> /\ missed \subseteq missed' /\ parted \subseteq parted'
  BY DEF DeskEdit, DeskRemove, DeskUpload, SweepTombstone, DeskTake, DeskAck, historyVars
<1>3. UNCHANGED <<rows, outbox, doc, cursor, refetch>>
  BY <1>2 DEF phoneVars, outboxVars
<1>4. Places'
  <2>1. CASE DeskAck
    <3>1. SameFiles /\ UNCHANGED <<contents, note>>
      BY <2>1, AckTo DEF DeskAck, deskVars, historyVars
    <3>. QED
      BY <1>1, <1>2, <1>3, <3>1, PlacesPhone
  <2>. QED
    BY <1>1, <2>1, PlacesDesk
<1>5. \A b \in 0..MaxVersion : b <= vault.latestVersion => contents'[b] = contents[b]
  <2>1. ASSUME NEW x \in Paths, DeskUpload(x), NEW b \in 0..MaxVersion, b <= vault.latestVersion
        PROVE  contents'[b] = contents[b]
    <3>1. b # vault.latestVersion + 1
      BY <2>1, OwnTypes
    <3>. QED
      BY <2>1, <3>1, SealTo
  <2>. QED
    BY <2>1 DEF DeskEdit, DeskRemove, SweepTombstone, DeskTake, DeskAck, historyVars
<1>6. (\A p \in Paths : Shown(p)') /\ OwnStays
  BY <1>2, <1>3, <1>5, ShownSame
<1>7. ASSUME NEW p \in Paths, NEW c \in ClientIds, Own(c, p)'
      PROVE  DeskOwn(c, p)' /\ PullOwn(c, p)'
  <2>1. Own(c, p) /\ c \notin parted'
    BY <1>2, <1>3, <1>7 DEF Own
  <2>2. DeskOwn(c, p)'
    BY <2>1, DeskOwnEdit, DeskOwnUpload, DeskOwnSweep, DeskOwnTake, DeskOwnAck
  <2>3. PullOwn(c, p)
    BY <2>1 DEF OwnInv
  <2>4. /\ files'[p].version \in Nat
        /\ files'[p].version >= files[p].version \/ ~Uploaded(c, vault.latestVersion)
    <3>1. /\ files[p].version \in Nat /\ files[p].version <= vault.latestVersion
          /\ files'[p].version \in Nat
      BY <1>1, PullNumbers DEF TypeInv, TypeOK, StoreTypeOK, FileRow
    <3>2. ASSUME NEW x \in Paths, DeskUpload(x) PROVE files'[p].version >= files[p].version
      <4>1. SameFiles \/ NewRow(x)
        BY <3>2, UploadTo
      <4>. QED
        BY <3>1, <4>1, OwnTypes DEF SameFiles, NewRow
    <3>3. ASSUME NEW x \in Paths, SweepTombstone(x)
          PROVE  files'[p].version >= files[p].version \/ ~Uploaded(c, vault.latestVersion)
      BY <2>1, <3>1, <3>3, DeskOwnSweep
    <3>4. CASE \/ \E x \in Paths : DeskEdit(x) \/ DeskRemove(x)
               \/ \E w \in writes : DeskTake(w)
               \/ DeskAck
      <4>1. files' = files
        BY <3>4, AckTo DEF DeskEdit, DeskRemove, DeskTake, storeVars, SameFiles
      <4>. QED
        BY <3>1, <4>1
    <3>. QED
      BY <3>1, <3>2, <3>3, <3>4
  <2>. QED
    BY <1>1, <1>2, <1>3, <1>5, <2>2, <2>3, <2>4, PullOwnSame
<1>. QED
  BY <1>4, <1>6, <1>7 DEF OwnInv

(* The steps outside a pull: what is sent, refused, dropped or cut short.  *)
LEMMA OwnOutside ==
    ASSUME TypeInv, TypeInv', Order, MirrorInv, OwnInv, Steady,
           StartRound \/ FlushOne \/ FlushLost \/ FlushRefused \/ Prune \/ Abort \/ SaveRefetch
    PROVE  OwnInv' /\ OwnStays
<1>1. Places
  BY DEF OwnInv
<1>2. UNCHANGED <<cursor, contents, note, touched, doc, parted>>
  BY DEF StartRound, FlushOne, FlushLost, FlushRefused, Prune, Abort, SaveRefetch, phoneVars,
         outboxVars, deskVars, historyVars
<1>3. /\ result' = result \/ FlushRefused
      /\ (rows' = rows /\ outbox' = outbox) \/ FlushRefused \/ Prune
  BY DEF StartRound, FlushOne, FlushLost, Prune, Abort, SaveRefetch, phoneVars, outboxVars, deskVars
<1>4. SameFiles /\ (SameQueue \/ FlushOne \/ FlushLost)
  <2>1. CASE FlushOne \/ FlushLost
    <3>1. PICK c \in pull.batch : Post(c)
      BY <2>1 DEF FlushOne, FlushLost
    <3>2. c \in ClientIds /\ StoreTypeOK
      BY <2>1, Shapes DEF FlushOne, FlushLost, Flushing, TypeInv, TypeOK
    <3>. QED
      BY <2>1, <3>1, <3>2, PostTo
  <2>2. CASE StartRound \/ FlushRefused \/ Prune \/ Abort \/ SaveRefetch
    BY <2>2, SameStore DEF StartRound, FlushRefused, Prune, Abort, SaveRefetch
  <2>. QED
    BY <2>1, <2>2
<1>5. \A p \in Paths : rows'[p].blob = rows[p].blob
  BY <1>3, RefusedTo, PruneTo
<1>6. pull'.pc \in {"flush", "idle", "vault"}
  <2>1. ASSUME NEW c \in pull.batch, pull' = [pull EXCEPT !.batch = @ \ {c}], pull.pc = "flush"
        PROVE  pull'.pc = "flush"
    BY <2>1, RestOfBatch
  <2>2. CASE FlushOne \/ FlushRefused
    BY <2>1, <2>2 DEF FlushOne, FlushRefused
  <2>3. CASE StartRound \/ FlushLost \/ Prune \/ Abort \/ SaveRefetch
    BY <2>3 DEF StartRound, FlushLost, Prune, Abort, SaveRefetch, Idle
  <2>. QED
    BY <2>2, <2>3
<1>7. \/ /\ pull.pc # "remember" /\ missed' = missed /\ refetch' = refetch
      \/ /\ pull.pc = "remember"
         /\ \/ missed' = missed /\ refetch' = pull.failed
            \/ missed' = missed \cup pull.failed /\ refetch' = refetch
  BY DEF StartRound, FlushOne, FlushLost, FlushRefused, Prune, Abort, SaveRefetch, phoneVars,
         historyVars, Idle
<1>8. Places'
  BY <1>1, <1>2, <1>4, <1>5, <1>6, PlacesPhone
<1>9. (\A p \in Paths : Shown(p)') /\ OwnStays
  <2>1. CASE UNCHANGED <<rows, outbox>>
    BY <1>2, <1>7, <2>1, ShownSame
  <2>. QED
    BY <1>3, <2>1, ShownRefused, ShownPrune
<1>10. ASSUME NEW p \in Paths, NEW c \in ClientIds, Own(c, p)'
       PROVE  DeskOwn(c, p)' /\ PullOwn(c, p)'
  <2>1. Own(c, p)
    BY <1>2, <1>10 DEF Own
  <2>2. DeskOwn(c, p)'
    BY <1>2, <1>3, <1>4, <2>1, DeskOwnPhone
  <2>3. PullOwn(c, p) /\ ~Listing' /\ pull'.pc # "remember"
    BY <1>6, <2>1 DEF OwnInv, Listing
  <2>. QED
    BY <1>1, <1>2, <1>5, <1>7, <2>2, <2>3, PullOwnOutside
<1>. QED
  BY <1>8, <1>9, <1>10 DEF OwnInv

(* The steps of a pull.                                                    *)
LEMMA OwnPull ==
    ASSUME TypeInv, TypeInv', Order, MirrorInv, MirrorInv', OwnInv, Steady,
           \/ EndFlush \/ ListAuth \/ ListRead \/ NextPage \/ SaveCursor
           \/ \E r \in pull.page : TakeKnown(r) \/ TakeSnapshot(r) \/ TakeFailed(r)
    PROVE  OwnInv' /\ OwnStays
<1>1. Places
  BY DEF OwnInv
<1>2. UNCHANGED <<storeVars, contents, deskVars, outboxVars, parted>>
  BY DEF EndFlush, ListAuth, ListRead, NextPage, SaveCursor, TakeKnown, TakeSnapshot, TakeFailed,
         phoneVars, historyVars
<1>3. SameFiles /\ SameQueue /\ UNCHANGED <<note, touched, result, outbox, doc>>
  BY <1>2, SameStore DEF deskVars, outboxVars
<1>4. \/ UNCHANGED <<rows, missed>> \/ SaveCursor
      \/ \E r \in pull.page : TakeKnown(r) \/ TakeSnapshot(r)
  BY DEF EndFlush, ListAuth, ListRead, NextPage, TakeFailed, phoneVars, historyVars
<1>5. (\A p \in Paths : Shown(p)') /\ OwnStays
  <2>1. CASE UNCHANGED <<rows, missed>>
    BY <1>2, <1>3, <2>1, ShownSame
  <2>. QED
    BY <1>4, <2>1, ShownSave, ShownTake
<1>6. Places'
  <2>1. ASSUME NEW r \in pull.page, TakeKnown(r) \/ TakeSnapshot(r) \/ TakeFailed(r)
        PROVE  /\ pull.pc = "page" /\ pull'.page \subseteq pull.page
               /\ \A p \in Paths : \/ rows'[p].blob \in {rows[p].blob, NoBlob}
                                   \/ r[1] = p /\ rows'[p].blob = r[2].blob
    <3>1. PICK list, fail : Taken(r, list, fail)
      BY <2>1, TakeKnownTo, TakeSnapshotTo, TakeFailedTo
    <3>2. pull.pc = "page" /\ pull'.page \subseteq pull.page
      BY <3>1 DEF Taken
    <3>3. CASE TakeFailed(r)
      BY <3>2, <3>3 DEF TakeFailed, phoneVars
    <3>4. CASE TakeKnown(r) \/ TakeSnapshot(r)
      BY <3>2, <3>4, TakeKnownTo, TakeSnapshotTo
    <3>. QED
      BY <2>1, <3>3, <3>4
  <2>2. \A p \in Paths : \/ rows'[p].blob \in {rows[p].blob, NoBlob}
                         \/ /\ pull.pc = "page"
                            /\ \E r \in pull.page : r[1] = p /\ rows'[p].blob = r[2].blob
    <3>1. CASE SaveCursor
      BY <3>1, SaveCursorTo
    <3>. QED
      BY <1>4, <2>1, <3>1
  <2>3. pull'.pc = "page" => \/ pull.pc = "page" /\ pull'.page \subseteq pull.page
                             \/ \A r \in pull'.page : r[1] \in Paths /\ r[2] = files[r[1]]
    <3>1. CASE ListRead
      <4>1. pull'.page \subseteq ListFiles(pull.since)
        BY <3>1, ListReadTo
      <4>. QED
        BY <4>1 DEF ListFiles
    <3>2. CASE EndFlush \/ ListAuth \/ NextPage \/ SaveCursor
      <4>1. CASE EndFlush
        BY <4>1, ListFromTo, MirrorTypes DEF EndFlush
      <4>2. CASE NextPage
        BY <4>2, PullNumbers, <1>1 DEF NextPage, Paging
      <4>3. CASE ListAuth \/ SaveCursor
        BY <4>3, ListAuthTo, SaveCursorTo
      <4>. QED
        BY <3>2, <4>1, <4>2, <4>3
    <3>. QED
      BY <2>1, <3>1, <3>2
  <2>. QED
    BY <1>1, <1>2, <1>3, <2>2, <2>3, PlacesPhone
<1>7. ASSUME NEW p \in Paths, NEW c \in ClientIds, Own(c, p)'
      PROVE  DeskOwn(c, p)' /\ PullOwn(c, p)'
  <2>1. Own(c, p)
    BY <1>2, <1>3, <1>7 DEF Own
  <2>2. DeskOwn(c, p)'
    BY <1>2, <1>3, <2>1, DeskOwnPhone
  <2>3. PullOwn(c, p) /\ InTable(c, p)
    BY <2>1 DEF OwnInv, DeskOwn
  <2>. QED
    BY <1>1, <2>2, <2>3, PullOwnBegin, PullOwnAuth, PullOwnRead, PullOwnNext, PullOwnSave, PullOwnTake
<1>. QED
  BY <1>5, <1>6, <1>7 DEF OwnInv

(* A step that changes nothing.                                            *)
LEMMA OwnStutter ==
    ASSUME TypeInv, TypeInv', Order, MirrorInv, OwnInv, UNCHANGED vars PROVE OwnInv' /\ OwnStays
<1>1. /\ UNCHANGED <<storeVars, rows, outbox, seqOf, doc, cursor, refetch, pull, deskVars>>
      /\ UNCHANGED <<contents, missed, parted>>
  BY DEF vars, phoneVars, outboxVars, historyVars
<1>2. SameFiles /\ SameQueue /\ UNCHANGED <<note, touched, result>>
  BY <1>1, SameStore DEF deskVars
<1>3. Places /\ Steady
  BY <1>1, <1>2 DEF OwnInv, Steady
<1>4. Places'
  BY <1>1, <1>2, <1>3, PlacesPhone
<1>5. (\A p \in Paths : Shown(p)') /\ OwnStays
  BY <1>1, ShownSame
<1>6. ASSUME NEW p \in Paths, NEW c \in ClientIds, Own(c, p)'
      PROVE  DeskOwn(c, p)' /\ PullOwn(c, p)'
  <2>1. Own(c, p)
    BY <1>1, <1>6 DEF Own
  <2>2. DeskOwn(c, p)' /\ PullOwn(c, p)
    BY <1>1, <1>2, <2>1, DeskOwnPhone DEF OwnInv
  <2>. QED
    BY <1>1, <1>2, <1>3, <2>2, PullOwnQuiet DEF SameFiles
<1>. QED
  BY <1>4, <1>5, <1>6 DEF OwnInv

(* A phone just paired shows nothing.                                      *)
LEMMA OwnInit == ASSUME Init PROVE OwnInv
<1>1. /\ contents = [b \in 0..MaxVersion |-> {}] /\ rows = [p \in Paths |-> Absent]
      /\ note = [p \in Paths |-> [present |-> FALSE, effects |-> {}]]
      /\ files = [p \in Paths |-> NoRow] /\ pull = Idle
      /\ doc = [c \in ClientIds |-> NoDoc]
  BY DEF Init
<1>2. contents[NoBlob] = {} /\ \A b \in 0..MaxVersion : contents[b] = {}
  BY <1>1, Bounds DEF NoBlob
<1>3. /\ \A p \in Paths : /\ files[p].blob = NoBlob /\ rows[p].blob = NoBlob
                           /\ note[p].effects = {} /\ rows[p].effects = {}
      /\ pull.pc = "idle" /\ NoBlob <= vault.latestVersion
  BY <1>1, TypeInit, MirrorTypes DEF NoRow, Absent, Idle, NoBlob
<1>4. Places
  BY <1>2, <1>3 DEF Places, Sealed, Placed, OfPath, PagePlaced
<1>5. \A p \in Paths : Shown(p)
  BY <1>3 DEF Shown
<1>6. \A p \in Paths, c \in ClientIds : ~Own(c, p)
  BY <1>1 DEF Own, Text, NoDoc
<1>. QED
  BY <1>4, <1>5, <1>6 DEF OwnInv

(* Every step keeps the user's own changes, and the phone shows them.      *)
LEMMA OwnStep ==
    ASSUME TypeInv, TypeInv', Order, MirrorInv, MirrorInv', OwnInv, [Next]_vars
    PROVE  OwnInv' /\ OwnStays
<1>1. Steady
  BY SteadyStep
<1>2. CASE \/ \E p \in Paths, c \in ClientIds : RecordText(p, c)
           \/ \E p, q \in Paths, c \in ClientIds : RecordMove(p, q, c)
  BY <1>1, <1>2, OwnRecord
<1>. QED
  BY <1>1, <1>2, OwnDesk, OwnOutside, OwnPull, OwnStutter DEF Next, Round, Mishap, DeskJob, User

(* Whatever is uploaded, paged, failed, killed or pruned between its       *)
(* steps, a phone that shows the user's own change never takes it back     *)
(* before the desk or the service has turned it down, or the desk has      *)
(* applied it and then removed or moved the note: an ack is at a version   *)
(* that carries the change, and prune waits until the phone has it.        *)
THEOREM OwnChangesStay == Spec => OwnChangeStaysShown
<1>. DEFINE Inv == TypeInv /\ Order /\ MirrorInv /\ OwnInv
<1>1. Init => Inv
  BY TypeInit, OrderInit, MirrorInit, OwnInit
<1>2. Inv /\ [Next]_vars => Inv' /\ [OwnStays]_vars
  BY TypeStep, OrderStep, MirrorStep, OwnStep
<1>3. OwnChangeStaysShown <=> [][OwnStays]_vars
  BY DEF OwnChangeStaysShown, OwnStays
<1>. QED
  BY <1>1, <1>2, <1>3, PTL DEF Spec
===============================================================================
