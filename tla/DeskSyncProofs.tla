---------------------------- MODULE DeskSyncProofs ----------------------------
(***************************************************************************)
(* Proofs about DeskSync, for every set of paths, writes and keys and any  *)
(* number of edits, faults, lapses and pairings, with a prompt watcher or  *)
(* a late one.                                                             *)
(***************************************************************************)
EXTENDS DeskSync, VaultStoreProofs

Pcs     == {"scan", "fetch", "take", "upload", "commit", "ack", "finish"}
Record  == [version: Nat, text: Texts, epoch: Nat]
Reading == {<<>>} \cup (Paths \X Texts)

(* Where a running job stands: it holds a text it read only until that is  *)
(* published, and acks and finishes with nothing left to upload.           *)
Shape ==
    job # NoJob =>
        /\ job.pc = "commit" <=> job.read # <<>>
        /\ job.read # <<>> => job.read[2] # Gone
        /\ job.pc \in {"ack", "finish"} => job.dirty = {} /\ job.removed = {}

(* A write that is queued, at the server or in the job, has its document.  *)
Documented ==
    /\ \A w \in writes : doc[w.client] # NoDoc
    /\ job # NoJob => \A w \in job.queue : doc[w.client] # NoDoc

(* The bounds are numbers.                                                 *)
LEMMA Bounds ==
    /\ MaxEdits \in Nat /\ MaxFaults \in Nat /\ MaxLapses \in Nat /\ MaxPairings \in Nat
    /\ MaxVersion \in Nat /\ MaxSeq \in Nat
BY DeskAssumption, BoundsAssumption

(* A job that has a place in the loop is running.                          *)
LEMMA RunningJob ==
    ASSUME job \in {NoJob} \cup Running, job # NoJob \/ job.pc \in Pcs
    PROVE  job \in Running /\ job # NoJob
BY DEF NoJob, Running, Pcs

(* ... and one that is running is no idle one.                             *)
LEMMA NotIdle == ASSUME job \in Running PROVE job # NoJob /\ job.pc \in Pcs
BY DEF NoJob, Running, Pcs

(* The constants of a desk have their types.                               *)
LEMMA Blanks ==
    /\ Gone \in Texts /\ NoRecord \in Record /\ NoState \in LocalState /\ NoWork \in Job
    /\ NoDoc \in Docs
<1>1. Gone \in Texts
  BY Bounds DEF Gone, Texts
<1>2. NoRecord \in Record
  BY <1>1 DEF NoRecord, Record
<1>3. NoState \in LocalState
  BY <1>2 DEF NoState, LocalState, Record
<1>4. NoWork \in Job
  BY DEF NoWork, Job
<1>. QED
  BY <1>1, <1>2, <1>3, <1>4 DEF Docs

(* A record put in the place of another.                                   *)
Put(s, p, r, new) == new = [s EXCEPT !.files = [s.files EXCEPT ![p] = r]]

(* The record is the new one; the others and the acked seq stay.           *)
LEMMA RecordPut ==
    ASSUME NEW s \in LocalState, NEW p \in Paths, NEW r \in Record, NEW new, Put(s, p, r, new)
    PROVE  /\ new \in LocalState /\ new.files[p] = r /\ new.acked = s.acked
           /\ \A q \in Paths \ {p} : new.files[q] = s.files[q]
BY DEF Put, LocalState, Record

-------------------------------------------------------------------------------
(* What the steps of the worker do to its job *)

(* The fields a step leaves as they are.                                   *)
SameJob(j, i) == j.work = i.work /\ j.base = i.base

(* A step that moves the job on and leaves its work as it is.              *)
MovedJob(j, i) ==
    /\ j \in Running /\ SameJob(j, i)
    /\ j.dirty = i.dirty /\ j.removed = i.removed /\ j.read = i.read

(* schedule_work: the job's work is what was pending.                      *)
LEMMA StartJobTo ==
    ASSUME TypeOK, StartJob
    PROVE  /\ job' \in Running /\ job'.pc = "scan" /\ job'.work = pending /\ job'.base = state
           /\ job'.dirty = pending.dirty /\ job'.removed = pending.removed
           /\ job'.state = state /\ job'.read = <<>>
BY DEF TypeOK, StartJob, Running, Job

(* The listing adds what changed.                                          *)
LEMMA ScanTo ==
    ASSUME TypeOK, Scan
    PROVE  /\ job' \in Running /\ SameJob(job', job) /\ job'.state = job.state
           /\ job'.read = job.read /\ job'.pc \in {"fetch", "upload"}
           /\ ~job.work.catchUp => job'.dirty = job.dirty /\ job'.removed = job.removed
           /\ job.work.catchUp =>
                /\ job'.dirty = job.dirty
                      \cup {p \in Paths : OnDisk(p) /\ job.state.files[p].text # disk[p]}
                /\ job'.removed = job.removed
                      \cup {p \in Paths : ~OnDisk(p) /\ job.state.files[p] # NoRecord}
<1>1. job \in Running
  BY RunningJob DEF TypeOK, Scan, Pcs
<1>. QED
  BY <1>1 DEF Scan, Running, SameJob

(* Fetch, the end of the drain, a blocked write, the end of the uploads.   *)
LEMMA MoveTo ==
    ASSUME TypeOK, Shape, Fetch \/ EndDrain \/ BlockWrite \/ EndUploads
    PROVE  /\ job \in Running /\ MovedJob(job', job) /\ job'.state = job.state
           /\ job.pc # "scan" /\ job'.pc # "commit" /\ job.pc # "commit"
           /\ job'.pc \in {"ack", "finish"} => job.dirty = {} /\ job.removed = {}
<1>1. job \in Running
  BY RunningJob DEF TypeOK, Fetch, EndDrain, BlockWrite, EndUploads, Pcs
<1>2. CASE Fetch
  <2>1. ListWrites(job.state.acked) \in SUBSET QueuedWrite
    BY DEF TypeOK, StoreTypeOK, ListWrites
  <2>. QED
    BY <1>1, <1>2, <2>1 DEF Fetch, Running, SameJob, MovedJob
<1>3. CASE EndDrain
  BY <1>1, <1>3 DEF EndDrain, Running, SameJob, MovedJob
<1>4. CASE BlockWrite
  BY <1>1, <1>4 DEF BlockWrite, Running, SameJob, MovedJob
<1>5. CASE EndUploads
  BY <1>1, <1>5 DEF EndUploads, Running, SameJob, MovedJob
<1>. QED
  BY <1>1, <1>2, <1>3, <1>4, <1>5

(* The ack moves only the acked seq of the job's state.                    *)
LEMMA AckTo ==
    ASSUME TypeOK, Ack
    PROVE  /\ StoreTypeOK' /\ job \in Running /\ MovedJob(job', job) /\ job.pc = "ack"
           /\ job'.pc = "finish" /\ job'.state.files = job.state.files
<1>1. job \in Running
  BY RunningJob DEF TypeOK, Ack, Pcs
<1>2. job.last \in Nat /\ job.state \in LocalState
  BY <1>1 DEF Running
<1>3. StoreTypeOK'
  BY <1>2, AckType DEF TypeOK, Ack, StoreTypeOK, storeVars
<1>4. PICK n \in Nat : n = vault'.ackedThroughSeq
  BY <1>3 DEF StoreTypeOK, VaultRow
<1>5. PICK s \in LocalState : s = [job.state EXCEPT !.acked = n]
  BY <1>2 DEF LocalState
<1>6. s.files = job.state.files
  BY <1>2, <1>5 DEF LocalState
<1>7. job' = [job EXCEPT !.pc = "finish", !.state = s]
  BY <1>4, <1>5 DEF Ack
<1>. QED
  BY <1>1, <1>3, <1>6, <1>7 DEF Ack, Running, SameJob, MovedJob

(* A file is passed over, or its text is held for the upload.              *)
LEMMA ReadFileTo ==
    ASSUME TypeOK, Shape, NEW p \in Paths, ReadFile(p)
    PROVE  /\ job \in Running /\ job' \in Running /\ SameJob(job', job)
           /\ job.pc = "upload" /\ job.read = <<>>
           /\ job'.state = job.state /\ job'.removed = job.removed /\ job'.dirty = job.dirty \ {p}
           /\ \/ /\ OnDisk(p) /\ job.state.files[p].text # disk[p]
                 /\ job'.pc = "commit" /\ job'.read = <<p, disk[p]>>
              \/ /\ ~(OnDisk(p) /\ job.state.files[p].text # disk[p])
                 /\ job'.pc = "upload" /\ job'.read = <<>>
<1>1. job \in Running /\ job # NoJob
  BY RunningJob DEF TypeOK, ReadFile, Pcs
<1>2. job.read = <<>> /\ job.pc = "upload"
  BY <1>1 DEF Shape, ReadFile
<1>3. <<p, disk[p]>> \in Reading
  BY DEF TypeOK, Reading
<1>4. CASE OnDisk(p) /\ job.state.files[p].text # disk[p]
  <2>1. job' = [job EXCEPT !.pc = "commit", !.dirty = @ \ {p}, !.read = <<p, disk[p]>>]
    BY <1>4 DEF ReadFile
  <2>. QED
    BY <1>1, <1>2, <1>3, <1>4, <2>1 DEF Running, SameJob, Reading
<1>5. CASE ~(OnDisk(p) /\ job.state.files[p].text # disk[p])
  <2>1. job' = [job EXCEPT !.dirty = @ \ {p}]
    BY <1>5 DEF ReadFile
  <2>. QED
    BY <1>1, <1>2, <1>5, <2>1 DEF Running, SameJob
<1>. QED
  BY <1>4, <1>5

(* A text that is held is of a note.                                       *)
LEMMA HeldText ==
    ASSUME TypeOK, Shape, job.pc = "commit"
    PROVE  /\ job \in Running /\ job # NoJob /\ job.read # <<>>
           /\ job.read[1] \in Paths /\ job.read[2] \in Texts /\ job.read[2] # Gone
<1>1. job \in Running /\ job # NoJob
  BY RunningJob DEF TypeOK, Pcs
<1>2. job.read # <<>>
  BY <1>1 DEF Shape
<1>. QED
  BY <1>1, <1>2 DEF Shape, Running

(* The server publishes, and the blob holds what was sent.                 *)
LEMMA PublishTo ==
    ASSUME TypeOK, NEW p \in Paths, NEW text \in Texts, PublishRead(p, text)
    PROVE  /\ StoreTypeOK' /\ contents' \in [0..MaxVersion -> Texts]
           /\ vault.latestVersion \in Nat /\ vault.latestVersion < MaxVersion
           /\ vault'.latestVersion = vault.latestVersion + 1
           /\ vault'.exists = vault.exists /\ vault'.lapsed = vault.lapsed
           /\ contents'[vault.latestVersion + 1] = text
           /\ \A n \in 0..vault.latestVersion : contents'[n] = contents[n]
           /\ files'[p] = LiveRow(vault.latestVersion + 1, vault.latestVersion + 1, 1)
           /\ \A q \in Paths \ {p} : files'[q] = files[q]
<1>1. /\ vault \in VaultRow /\ vault.latestVersion \in Nat /\ files \in [Paths -> FileRow]
      /\ contents \in [0..MaxVersion -> Texts]
  BY DEF TypeOK, StoreTypeOK, VaultRow
<1>2. /\ vault.latestVersion < MaxVersion
      /\ files' = [files EXCEPT ![p] = LiveRow(vault.latestVersion + 1, vault.latestVersion + 1, 1)]
      /\ vault' = [vault EXCEPT !.latestVersion = @ + 1, !.bytesUsed = @ - files[p].size + 1]
      /\ contents' = [contents EXCEPT ![vault.latestVersion + 1] = text]
      /\ UNCHANGED <<pending_uploads, writes, phone, pairing>>
  BY DEF PublishRead, PublishFile
<1>3. vault.latestVersion + 1 \in 0..MaxVersion
  BY <1>1, <1>2, Bounds
<1>4. vault' \in VaultRow
  <2>1. vault.bytesUsed - files[p].size + 1 \in Int
    BY <1>1 DEF VaultRow, FileRow
  <2>2. vault' = [vault EXCEPT !.latestVersion = vault.latestVersion + 1,
                               !.bytesUsed = vault.bytesUsed - files[p].size + 1]
    BY <1>2
  <2>3. vault.latestVersion + 1 \in Nat
    BY <1>1
  <2>. QED
    BY <1>1, <2>1, <2>2, <2>3, CountersUpdate
<1>5. files' \in [Paths -> FileRow]
  <2>1. vault.latestVersion + 1 \in Nat /\ 1 \in Nat
    BY <1>1
  <2>2. LiveRow(vault.latestVersion + 1, vault.latestVersion + 1, 1) \in FileRow
    BY <2>1, RowTypes
  <2>. QED
    BY <1>1, <1>2, <2>2
<1>6. /\ vault'.latestVersion = vault.latestVersion + 1
      /\ vault'.exists = vault.exists /\ vault'.lapsed = vault.lapsed
  BY <1>1, <1>2 DEF VaultRow
<1>7. /\ contents' \in [0..MaxVersion -> Texts] /\ contents'[vault.latestVersion + 1] = text
      /\ \A n \in 0..vault.latestVersion : contents'[n] = contents[n]
  BY <1>1, <1>2, <1>3, Bounds
<1>8. StoreTypeOK'
  BY <1>2, <1>4, <1>5 DEF TypeOK, StoreTypeOK
<1>. QED
  BY <1>1, <1>2, <1>6, <1>7, <1>8

(* upload_file: the record is of the text that was read.                   *)
LEMMA CommitTo ==
    ASSUME TypeOK, Shape, Commit
    PROVE  /\ job' \in Running /\ SameJob(job', job) /\ job'.pc = "upload" /\ job'.read = <<>>
           /\ job'.dirty = job.dirty /\ job'.removed = job.removed
           /\ job'.state.files[job.read[1]] =
                  [version |-> vault.latestVersion + 1, text |-> job.read[2], epoch |-> epoch]
           /\ \A q \in Paths \ {job.read[1]} : job'.state.files[q] = job.state.files[q]
<1>1. /\ job \in Running /\ job.read[1] \in Paths /\ job.read[2] \in Texts
  BY HeldText DEF Commit
<1>2. PICK r \in Record : r = [version |-> vault.latestVersion + 1, text |-> job.read[2],
                               epoch |-> epoch]
  <2>1. vault.latestVersion + 1 \in Nat /\ epoch \in Nat
    BY DEF TypeOK, StoreTypeOK, VaultRow
  <2>. QED
    BY <1>1, <2>1 DEF Record
<1>3. PICK s : Put(job.state, job.read[1], r, s)
  BY DEF Put
<1>4. job.state \in LocalState
  BY <1>1 DEF Running
<1>5. /\ s \in LocalState /\ s.files[job.read[1]] = r
      /\ \A q \in Paths \ {job.read[1]} : s.files[q] = job.state.files[q]
  BY <1>1, <1>3, <1>4, RecordPut
<1>6. job' = [job EXCEPT !.pc = "upload", !.read = <<>>, !.state = s]
  BY <1>2, <1>3 DEF Commit, Put
<1>. QED
  BY <1>1, <1>2, <1>5, <1>6 DEF Running, SameJob

(* A record is dropped with the file it was of.                            *)
LEMMA RemoveOneTo ==
    ASSUME TypeOK, Shape, NEW p \in Paths, RemoveOne(p)
    PROVE  /\ job \in Running /\ job' \in Running /\ SameJob(job', job)
           /\ job.pc = "upload" /\ job'.pc = "upload"
           /\ job.read = <<>> /\ job'.read = <<>> /\ job.dirty = {} /\ job'.dirty = {}
           /\ p \in job.removed /\ job'.removed = job.removed \ {p}
           /\ job'.state.files[p] = NoRecord
           /\ \A q \in Paths \ {p} : job'.state.files[q] = job.state.files[q]
<1>1. job \in Running /\ job # NoJob
  BY RunningJob DEF TypeOK, RemoveOne, Pcs
<1>2. job.state \in LocalState
  BY <1>1 DEF Running
<1>3. PICK s : Put(job.state, p, NoRecord, s)
  BY DEF Put
<1>4. /\ s \in LocalState /\ s.files[p] = NoRecord
      /\ \A q \in Paths \ {p} : s.files[q] = job.state.files[q]
  BY <1>2, <1>3, RecordPut, Blanks
<1>5. job' = [job EXCEPT !.removed = @ \ {p}, !.state = s]
  BY <1>3 DEF RemoveOne, Put
<1>6. job.pc = "upload" /\ job.read = <<>> /\ job.dirty = {} /\ p \in job.removed
  BY <1>1 DEF RemoveOne, Shape
<1>. QED
  BY <1>1, <1>4, <1>5, <1>6 DEF Running, SameJob

(* A text of the disk, changed by the user or by a write of the phone.     *)
LEMMA TextTypes ==
    ASSUME NEW t \in Texts
    PROVE  /\ \A n \in 1..MaxEdits + 1 : [t EXCEPT !.edit = n] \in Texts
           /\ \A c \in ClientIds :
                  [edit |-> IF t = Gone THEN 1 ELSE t.edit, effects |-> t.effects \cup {c}] \in Texts
BY Bounds DEF Texts

(* Applying a write changes the disk where it says, and says which files   *)
(* are there and which are gone.                                           *)
AppliedTo(d, changed, removed) ==
    /\ d \in [Paths -> Texts] /\ changed \in SUBSET Paths /\ removed \in SUBSET Paths
    /\ \A p \in Paths \ (changed \cup removed) : d[p] = disk[p]
    /\ \A p \in changed : d[p] # Gone
    /\ \A p \in removed : d[p] = Gone

(* A write that edits a note.                                              *)
LEMMA ApplyTextTo ==
    ASSUME disk \in [Paths -> Texts], NEW p \in Paths, NEW c \in ClientIds, NEW r,
           r = ApplyText(p, c)
    PROVE  AppliedTo(r.disk, r.changed, r.removed)
<1>1. CASE c \in disk[p].effects
  BY <1>1 DEF ApplyText, NoOp, AppliedTo
<1>2. CASE c \notin disk[p].effects
  <2>. DEFINE t == [edit |-> IF disk[p] = Gone THEN 1 ELSE disk[p].edit,
                    effects |-> disk[p].effects \cup {c}]
  <2>1. t \in Texts
    BY TextTypes
  <2>2. t # Gone
    BY DEF Gone
  <2>3. /\ r.disk = [disk EXCEPT ![p] = t] /\ r.changed = {p} /\ r.removed = {}
    BY <1>2 DEF ApplyText
  <2>. QED
    BY <2>1, <2>2, <2>3 DEF AppliedTo
<1>. QED
  BY <1>1, <1>2

(* A write that moves one.                                                 *)
LEMMA ApplyMoveTo ==
    ASSUME disk \in [Paths -> Texts], NEW p \in Paths, NEW to \in Paths, p # to, NEW r,
           r = ApplyMove(p, to)
    PROVE  AppliedTo(r.disk, r.changed, r.removed)
BY Blanks DEF ApplyMove, NoOp, OnDisk, AppliedTo

(* One write of the queue.                                                 *)
LEMMA TakeWriteTo ==
    ASSUME TypeOK, Shape, Documented, job.pc = "take", NEW w \in job.queue, TakeWrite(w)
    PROVE  /\ job \in Running /\ job' \in Running /\ SameJob(job', job)
           /\ job'.state = job.state /\ job'.read = job.read /\ job'.pc = "take"
           /\ job'.queue = job.queue \ {w}
           /\ \E changed, removed \in SUBSET Paths :
                /\ AppliedTo(disk', changed, removed)
                /\ unseen' = unseen \cup changed \cup removed
                /\ job'.dirty = job.dirty \cup changed /\ job'.removed = job.removed \cup removed
<1>1. job \in Running /\ job # NoJob
  BY RunningJob DEF TypeOK, Pcs
<1>2. /\ w \in QueuedWrite /\ w.client \in ClientIds /\ w.seq \in Nat
      /\ doc[w.client] \in Docs /\ doc[w.client] # NoDoc /\ disk \in [Paths -> Texts]
  BY <1>1 DEF TypeOK, Documented, Running, QueuedWrite
<1>3. PICK r : /\ \/ r = NoOp
                  \/ doc[w.client].kind = "text" /\ r = ApplyText(doc[w.client].path, w.client)
                  \/ doc[w.client].kind # "text"
                     /\ r = ApplyMove(doc[w.client].path, doc[w.client].to)
               /\ disk' = r.disk /\ unseen' = unseen \cup r.changed \cup r.removed
               /\ job' = [job EXCEPT !.queue = @ \ {w}, !.last = w.seq,
                            !.dirty = @ \cup r.changed, !.removed = @ \cup r.removed]
  BY DEF TakeWrite
<1>4. AppliedTo(r.disk, r.changed, r.removed)
  <2>1. CASE r = NoOp
    BY <1>2, <2>1 DEF NoOp, AppliedTo
  <2>2. CASE doc[w.client].kind = "text" /\ r = ApplyText(doc[w.client].path, w.client)
    <3>1. doc[w.client].path \in Paths
      BY <1>2, <2>2 DEF Docs, NoDoc
    <3>. QED
      BY <1>2, <2>2, <3>1, ApplyTextTo
  <2>3. CASE doc[w.client].kind # "text"
             /\ r = ApplyMove(doc[w.client].path, doc[w.client].to)
    <3>1. /\ doc[w.client].path \in Paths /\ doc[w.client].to \in Paths
          /\ doc[w.client].path # doc[w.client].to
      BY <1>2, <2>3 DEF Docs
    <3>. QED
      BY <1>2, <2>3, <3>1, ApplyMoveTo
  <2>. QED
    BY <1>3, <2>1, <2>2, <2>3
<1>5. PICK changed \in SUBSET Paths, removed \in SUBSET Paths :
          changed = r.changed /\ removed = r.removed
  BY <1>4 DEF AppliedTo
<1>6. job' = [job EXCEPT !.queue = job.queue \ {w}, !.last = w.seq,
                         !.dirty = job.dirty \cup changed, !.removed = job.removed \cup removed]
  BY <1>3, <1>5
<1>7. /\ job' \in Running /\ SameJob(job', job) /\ job'.state = job.state
      /\ job'.read = job.read /\ job'.pc = job.pc /\ job'.queue = job.queue \ {w}
      /\ job'.dirty = job.dirty \cup changed /\ job'.removed = job.removed \cup removed
  BY <1>1, <1>2, <1>6 DEF Running, SameJob
<1>. QED
  BY <1>1, <1>3, <1>4, <1>5, <1>7

-------------------------------------------------------------------------------
(* The type invariant, a part of the state at a time *)

(* The server's tables keep their types.                                   *)
LEMMA StoreStep == ASSUME TypeOK, Shape, Next PROVE StoreTypeOK'
<1>0. StoreTypeOK /\ vault \in VaultRow
  BY DEF TypeOK, StoreTypeOK
<1>1. ASSUME UNCHANGED storeVars PROVE StoreTypeOK'
  BY <1>0, <1>1 DEF StoreTypeOK, storeVars
<1>2. CASE Poll \/ StartJob \/ Scan \/ Fetch \/ EndDrain \/ EndUploads \/ Finish
           \/ FailLapsed \/ FailMissing \/ Start
  BY <1>1, <1>2 DEF Poll, StartJob, Scan, Fetch, EndDrain, EndUploads, Finish, FailLapsed,
                    FailMissing, Start
<1>3. CASE BlockWrite \/ FailJob \/ FailAuth \/ Crash \/ SyncNow \/ LoseKey \/ TurnOff
  BY <1>1, <1>3 DEF BlockWrite, FailJob, FailAuth, Crash, SyncNow, LoseKey, TurnOff
<1>4. ASSUME NEW p \in Paths, ReadFile(p) \/ Edit(p) \/ Undo(p) \/ Remove(p) \/ Watch(p)
      PROVE  StoreTypeOK'
  BY <1>1, <1>4 DEF ReadFile, Edit, Undo, Remove, Watch
<1>5. ASSUME NEW w, TakeWrite(w) PROVE StoreTypeOK'
  BY <1>1, <1>5 DEF TakeWrite
<1>6. ASSUME NEW p \in Paths, RemoveOne(p) PROVE StoreTypeOK'
  <2>1. files[p].version \in Nat
    BY <1>0 DEF StoreTypeOK, FileRow
  <2>. QED
    BY <1>0, <1>1, <1>6, <2>1, TombstoneType DEF RemoveOne, storeVars
<1>7. CASE Commit \/ CommitLost
  <2>1. /\ job.read[1] \in Paths /\ job.read[2] \in Texts
        /\ PublishRead(job.read[1], job.read[2])
    BY <1>7, HeldText DEF Commit, CommitLost
  <2>. QED
    BY <2>1, PublishTo
<1>8. CASE Ack
  BY <1>8, AckTo
<1>9. ASSUME NEW k \in KeyChecks, BeginPairing(k) PROVE StoreTypeOK'
  BY <1>0, <1>1, <1>9, CreateType, AdoptType, ResetType DEF BeginPairing, EnsureVault, storeVars
<1>10. CASE DeleteCopy \/ SweepVault
  BY <1>0, <1>1, <1>10, DropType DEF DeleteCopy, SweepVault, storeVars
<1>11. CASE Lapse \/ Renew
  BY <1>0, <1>11, LapseType DEF Lapse, Renew
<1>12. ASSUME NEW c \in ClientIds, NEW d \in Docs, PhoneWrites(c, d) PROVE StoreTypeOK'
  BY <1>0, <1>12, EnqueueType DEF PhoneWrites
<1>12b. CASE PhonePairs
  BY <1>0, <1>12b DEF PhonePairs, StoreTypeOK
<1>. QED
  BY <1>2, <1>3, <1>4, <1>5, <1>6, <1>7, <1>8, <1>9, <1>10, <1>11, <1>12, <1>12b
     DEF Next, Worker, Mishap, Account, User, Watcher

(* The vault folder keeps its types.                                       *)
DiskTypes ==
    /\ disk \in [Paths -> Texts] /\ unseen \subseteq Paths
    /\ doc \in [ClientIds -> Docs] /\ edits \in 0..MaxEdits + 1

(* Every step keeps the folder well formed.                                *)
LEMMA DiskStep == ASSUME TypeOK, Shape, Documented, Next PROVE DiskTypes'
<1>0. DiskTypes
  BY DEF TypeOK, DiskTypes
<1>1. ASSUME UNCHANGED diskVars PROVE DiskTypes'
  BY <1>0, <1>1 DEF DiskTypes, diskVars
<1>2. CASE Poll \/ StartJob \/ Scan \/ Fetch \/ EndDrain \/ EndUploads \/ Finish
           \/ FailLapsed \/ FailMissing \/ Start
  BY <1>1, <1>2 DEF Poll, StartJob, Scan, Fetch, EndDrain, EndUploads, Finish, FailLapsed,
                    FailMissing, Start
<1>3. CASE BlockWrite \/ FailJob \/ FailAuth \/ SyncNow \/ LoseKey \/ TurnOff \/ Commit
           \/ CommitLost \/ Ack
  BY <1>1, <1>3 DEF BlockWrite, FailJob, FailAuth, SyncNow, LoseKey, TurnOff, Commit,
                    CommitLost, Ack
<1>4. CASE DeleteCopy \/ SweepVault \/ Lapse \/ Renew
  BY <1>1, <1>4 DEF DeleteCopy, SweepVault, Lapse, Renew
<1>5. ASSUME NEW p \in Paths, ReadFile(p) \/ RemoveOne(p) PROVE DiskTypes'
  BY <1>1, <1>5 DEF ReadFile, RemoveOne
<1>6. ASSUME NEW k, BeginPairing(k) PROVE DiskTypes'
  BY <1>1, <1>6 DEF BeginPairing
<1>7. CASE Crash
  BY <1>0, <1>7 DEF Crash, DiskTypes
<1>8. ASSUME NEW p \in Paths, Watch(p) PROVE DiskTypes'
  BY <1>0, <1>8 DEF Watch, DiskTypes
<1>9. ASSUME NEW c \in ClientIds, NEW d \in Docs, PhoneWrites(c, d) PROVE DiskTypes'
  BY <1>0, <1>9 DEF PhoneWrites, DiskTypes
<1>9b. CASE PhonePairs
  BY <1>1, <1>9b DEF PhonePairs
<1>10. ASSUME NEW p \in Paths, Edit(p) PROVE DiskTypes'
  <2>1. edits + 2 \in 1..MaxEdits + 1 /\ edits' \in 0..MaxEdits + 1
    BY <1>0, <1>10, Bounds DEF Edit, DiskTypes
  <2>2. [disk[p] EXCEPT !.edit = edits + 2] \in Texts
    BY <1>0, <2>1, TextTypes DEF DiskTypes
  <2>3. disk' = [disk EXCEPT ![p] = [disk[p] EXCEPT !.edit = edits + 2]]
    BY <1>10 DEF Edit
  <2>. QED
    BY <1>0, <1>10, <2>1, <2>2, <2>3 DEF Edit, DiskTypes
<1>11. ASSUME NEW p \in Paths, Undo(p) \/ Remove(p) PROVE DiskTypes'
  <2>1. edits' \in 0..MaxEdits + 1
    BY <1>0, <1>11, Bounds DEF Undo, Remove, DiskTypes
  <2>2. state.files[p].text \in Texts /\ Gone \in Texts
    BY Blanks DEF TypeOK, LocalState
  <2>. QED
    BY <1>0, <1>11, <2>1, <2>2 DEF Undo, Remove, DiskTypes
<1>12. ASSUME job.pc = "take", NEW w \in job.queue, TakeWrite(w) PROVE DiskTypes'
  <2>1. disk' \in [Paths -> Texts] /\ unseen' \subseteq Paths
    BY <1>0, <1>12, TakeWriteTo DEF AppliedTo, DiskTypes
  <2>. QED
    BY <1>0, <1>12, <2>1 DEF TakeWrite, DiskTypes
<1>. QED
  BY <1>2, <1>3, <1>4, <1>5, <1>6, <1>7, <1>8, <1>9, <1>9b, <1>10, <1>11, <1>12
     DEF Next, Worker, Mishap, Account, User, Watcher

(* The service's own fields keep their types.                              *)
WorkTypes ==
    /\ key \in SUBSET KeyChecks /\ state \in LocalState /\ saved \in LocalState
    /\ pending \in Job

FlagTypes == session \in BOOLEAN /\ backoff \in BOOLEAN /\ deleting \in BOOLEAN

(* Every step keeps the flags.                                             *)
LEMMA FlagStep == ASSUME TypeOK, Next PROVE FlagTypes'
<1>0. FlagTypes
  BY DEF TypeOK, FlagTypes
<1>1. CASE Poll \/ Scan \/ Fetch \/ EndDrain \/ EndUploads \/ Commit \/ Ack \/ BlockWrite
           \/ SyncNow \/ LoseKey \/ SweepVault \/ Lapse \/ Renew
  BY <1>0, <1>1 DEF Poll, Scan, Fetch, EndDrain, EndUploads, Commit, Ack, BlockWrite, SyncNow,
                    LoseKey, SweepVault, Lapse, Renew, FlagTypes, sessionVars, deskVars
<1>2. ASSUME NEW p \in Paths, \/ ReadFile(p) \/ RemoveOne(p) \/ Edit(p) \/ Undo(p) \/ Remove(p)
                              \/ Watch(p)
      PROVE  FlagTypes'
  BY <1>0, <1>2 DEF ReadFile, RemoveOne, Edit, Undo, Remove, Watch, FlagTypes, sessionVars,
                    deskVars
<1>3. ASSUME NEW w, TakeWrite(w) PROVE FlagTypes'
  BY <1>0, <1>3 DEF TakeWrite, FlagTypes, sessionVars
<1>4. ASSUME NEW c, NEW d, PhoneWrites(c, d) PROVE FlagTypes'
  BY <1>0, <1>4 DEF PhoneWrites, FlagTypes, deskVars, sessionVars
<1>4b. CASE PhonePairs
  BY <1>0, <1>4b DEF PhonePairs, FlagTypes, deskVars, sessionVars
<1>5. CASE StartJob \/ FailLapsed \/ FailMissing \/ FailJob \/ CommitLost \/ FailAuth
           \/ Crash \/ TurnOff \/ DeleteCopy
  BY <1>0, <1>5 DEF StartJob, FailLapsed, FailMissing, FailJob, CommitLost, FailAuth, Crash,
                    TurnOff, DeleteCopy, FlagTypes, sessionVars
<1>6. CASE Start
  <2>1. (key # {}) \in BOOLEAN
    OBVIOUS
  <2>. QED
    BY <1>0, <1>6, <2>1 DEF Start, FlagTypes
<1>7. CASE Finish
  <2>1. job.blocked \in BOOLEAN
    <3>1. job \in Running
      BY <1>7, RunningJob DEF TypeOK, Finish, Pcs
    <3>. QED
      BY <3>1 DEF Running
  <2>. QED
    BY <1>0, <1>7, <2>1 DEF Finish, FlagTypes, sessionVars
<1>8. ASSUME NEW k, BeginPairing(k) PROVE FlagTypes'
  BY <1>0, <1>8 DEF BeginPairing, FlagTypes
<1>. QED
  BY <1>1, <1>2, <1>3, <1>4, <1>4b, <1>5, <1>6, <1>7, <1>8
     DEF Next, Worker, Mishap, Account, User, Watcher

(* The work put together from what is pending and what a job had.          *)
LEMMA WorkForms ==
    ASSUME NEW w \in Job, NEW v \in Job, NEW b \in BOOLEAN
    PROVE  /\ [w EXCEPT !.catchUp = TRUE] \in Job
           /\ [w EXCEPT !.catchUp = TRUE, !.drain = TRUE] \in Job
           /\ [w EXCEPT !.drain = b] \in Job
           /\ [catchUp |-> w.catchUp \/ v.catchUp, drain |-> w.drain \/ v.drain,
               dirty |-> w.dirty \cup v.dirty, removed |-> w.removed \cup v.removed] \in Job
<1>1. (w.catchUp \/ v.catchUp) \in BOOLEAN /\ (w.drain \/ v.drain) \in BOOLEAN
  OBVIOUS
<1>. QED
  BY <1>1 DEF Job

(* The work after the watcher reported a path.                             *)
LEMMA WatchForms ==
    ASSUME NEW w \in Job, NEW p \in Paths
    PROVE  /\ [w EXCEPT !.removed = @ \ {p}, !.dirty = @ \cup {p}] \in Job
           /\ [w EXCEPT !.dirty = @ \ {p}, !.removed = @ \cup {p}] \in Job
BY DEF Job

(* A busy job is running.                                                  *)
LEMMA BusyJob == ASSUME TypeOK, Busy PROVE job \in Running /\ job # NoJob
BY RunningJob DEF TypeOK, Busy, Asking, Pcs

(* Every step keeps the pending work and the two states.                   *)
LEMMA WorkStep == ASSUME TypeOK, Shape, Next PROVE WorkTypes'
<1>0. WorkTypes
  BY DEF TypeOK, WorkTypes
<1>1. CASE Scan \/ Fetch \/ EndDrain \/ EndUploads \/ Commit \/ Ack \/ BlockWrite
           \/ SweepVault \/ Lapse \/ Renew
  BY <1>0, <1>1 DEF Scan, Fetch, EndDrain, EndUploads, Commit, Ack, BlockWrite,
                    SweepVault, Lapse, Renew, WorkTypes, sessionVars, recordVars, deskVars
<1>2. ASSUME NEW p \in Paths, ReadFile(p) \/ RemoveOne(p) \/ Edit(p) \/ Undo(p) \/ Remove(p)
      PROVE  WorkTypes'
  BY <1>0, <1>2 DEF ReadFile, RemoveOne, Edit, Undo, Remove, WorkTypes, sessionVars,
                    recordVars, deskVars
<1>3. ASSUME NEW w, TakeWrite(w) PROVE WorkTypes'
  BY <1>0, <1>3 DEF TakeWrite, WorkTypes, sessionVars, recordVars
<1>4. ASSUME NEW c, NEW d, PhoneWrites(c, d) PROVE WorkTypes'
  BY <1>0, <1>4 DEF PhoneWrites, WorkTypes, deskVars, sessionVars, recordVars
<1>4b. CASE PhonePairs
  BY <1>0, <1>4b DEF PhonePairs, WorkTypes, deskVars, sessionVars, recordVars
<1>5. CASE StartJob \/ FailLapsed \/ FailMissing \/ FailAuth \/ Crash \/ TurnOff \/ DeleteCopy
           \/ LoseKey
  BY <1>0, <1>5, Blanks DEF StartJob, FailLapsed, FailMissing, FailAuth, Crash, TurnOff,
     DeleteCopy, LoseKey, WorkTypes, sessionVars, recordVars
<1>6. CASE FailJob \/ CommitLost
  <2>1. job \in Running
    BY <1>6, BusyJob, RunningJob DEF FailJob, CommitLost, TypeOK, Pcs
  <2>2. job.work \in Job
    BY <2>1 DEF Running
  <2>3. PutBack \in Job
    BY <1>0, <2>2, WorkForms DEF PutBack, WorkTypes
  <2>. QED
    BY <1>0, <1>6, <2>3 DEF FailJob, CommitLost, WorkTypes, sessionVars, recordVars
<1>7. CASE Poll \/ SyncNow \/ Start
  <2>1. FullPass \in Job
    BY <1>0, WorkForms DEF FullPass, WorkTypes
  <2>2. [pending EXCEPT !.drain = TRUE] \in Job
    BY <1>0 DEF Job, WorkTypes
  <2>. QED
    BY <1>0, <1>7, <2>1, <2>2 DEF Poll, SyncNow, Start, WorkTypes, sessionVars, recordVars
<1>8. CASE Finish
  <2>1. job \in Running
    BY <1>8, RunningJob DEF TypeOK, Finish, Pcs
  <2>2. job.state \in LocalState /\ job.blocked \in BOOLEAN /\ pending \in Job
    BY <1>0, <2>1 DEF Running, WorkTypes
  <2>3. (pending.drain \/ job.blocked) \in BOOLEAN
    OBVIOUS
  <2>4. [pending EXCEPT !.drain = pending.drain \/ job.blocked] \in Job
    BY <2>2, <2>3, WorkForms
  <2>. QED
    BY <1>0, <1>8, <2>2, <2>4 DEF Finish, WorkTypes, sessionVars
<1>9. ASSUME NEW k \in KeyChecks, BeginPairing(k) PROVE WorkTypes'
  <2>1. FullPass \in Job /\ [pending EXCEPT !.catchUp = TRUE] \in Job
    BY <1>0, WorkForms DEF FullPass, WorkTypes
  <2>. QED
    BY <1>0, <1>9, <2>1 DEF BeginPairing, WorkTypes, recordVars
<1>10. ASSUME NEW p \in Paths, Watch(p) PROVE WorkTypes'
  <2>1. pending' \in Job
    BY <1>0, <1>10, WatchForms DEF Watch, WorkTypes
  <2>. QED
    BY <1>0, <1>10, <2>1 DEF Watch, WorkTypes, sessionVars, recordVars
<1>. QED
  BY <1>1, <1>2, <1>3, <1>4, <1>4b, <1>5, <1>6, <1>7, <1>8, <1>9, <1>10
     DEF Next, Worker, Mishap, Account, User, Watcher

(* History and bounds keep their types.                                    *)
HistoryTypes ==
    /\ contents \in [0..MaxVersion -> Texts] /\ epoch \in Nat /\ forgotten \subseteq Paths
    /\ revived \subseteq ClientIds
    /\ faults \in 0..MaxFaults /\ lapses \in 0..MaxLapses /\ pairings \in 0..MaxPairings

(* Every step keeps the history and the bounds.                            *)
LEMMA HistoryStep == ASSUME TypeOK, Shape, Next PROVE HistoryTypes'
<1>0. HistoryTypes
  BY DEF TypeOK, HistoryTypes
<1>1. CASE Poll \/ StartJob \/ Fetch \/ EndDrain \/ EndUploads \/ Ack \/ Finish
           \/ FailMissing \/ Start \/ SyncNow
  BY <1>0, <1>1 DEF Poll, StartJob, Fetch, EndDrain, EndUploads, Ack, Finish, FailMissing,
                    Start, SyncNow, HistoryTypes, historyVars, boundVars
<1>2. ASSUME NEW p \in Paths, ReadFile(p) \/ Edit(p) \/ Remove(p) \/ Watch(p)
      PROVE  HistoryTypes'
  BY <1>0, <1>2 DEF ReadFile, Edit, Remove, Watch, HistoryTypes, historyVars, boundVars
<1>13. ASSUME NEW p \in Paths, Undo(p) PROVE HistoryTypes'
  <2>1. state.files[p].text.effects \subseteq ClientIds
    BY DEF TypeOK, LocalState, Texts
  <2>. QED
    BY <1>0, <1>13, <2>1 DEF Undo, HistoryTypes, boundVars
<1>3. ASSUME NEW w, TakeWrite(w) PROVE HistoryTypes'
  BY <1>0, <1>3 DEF TakeWrite, HistoryTypes, historyVars, boundVars
<1>4. ASSUME NEW c, NEW d, PhoneWrites(c, d) PROVE HistoryTypes'
  BY <1>0, <1>4 DEF PhoneWrites, HistoryTypes, historyVars, boundVars
<1>4b. CASE PhonePairs
  BY <1>0, <1>4b DEF PhonePairs, HistoryTypes, historyVars, boundVars
<1>5. CASE Scan \/ SweepVault \/ DeleteCopy
  <2>1. forgotten' \subseteq Paths /\ epoch' \in Nat
    BY <1>0, <1>5 DEF Scan, SweepVault, DeleteCopy, HistoryTypes, historyVars
  <2>. QED
    BY <1>0, <1>5, <2>1 DEF Scan, SweepVault, DeleteCopy, HistoryTypes, historyVars, boundVars
<1>6. CASE BlockWrite \/ FailJob \/ FailAuth \/ Crash
  <2>1. faults' \in 0..MaxFaults
    BY <1>0, <1>6, Bounds DEF BlockWrite, FailJob, FailAuth, Crash, HistoryTypes
  <2>. QED
    BY <1>0, <1>6, <2>1 DEF BlockWrite, FailJob, FailAuth, Crash, HistoryTypes, historyVars
<1>7. CASE LoseKey \/ TurnOff
  <2>1. pairings' \in 0..MaxPairings
    BY <1>0, <1>7, Bounds DEF LoseKey, TurnOff, HistoryTypes
  <2>. QED
    BY <1>0, <1>7, <2>1 DEF LoseKey, TurnOff, HistoryTypes, historyVars
<1>12. CASE Lapse \/ Renew
  <2>1. /\ lapses' = lapses \/ (lapses < MaxLapses /\ lapses' = lapses + 1)
        /\ UNCHANGED <<contents, epoch, forgotten, revived, faults, pairings>>
    BY <1>12, Zenon DEF Lapse, Renew, historyVars, boundVars
  <2>. QED
    BY <1>0, <2>1, Bounds DEF HistoryTypes
<1>8. ASSUME NEW k, BeginPairing(k) PROVE HistoryTypes'
  <2>1. pairings' \in 0..MaxPairings /\ epoch' \in Nat
    BY <1>0, <1>8, Bounds DEF BeginPairing, EnsureVault, HistoryTypes
  <2>. QED
    BY <1>0, <1>8, <2>1 DEF BeginPairing, HistoryTypes
<1>9. CASE FailLapsed
  <2>1. job \in Running /\ pending \in Job
    BY <1>9, BusyJob DEF FailLapsed, TypeOK
  <2>2. PutBack.dirty \subseteq Paths /\ PutBack.removed \subseteq Paths
        /\ job.dirty \subseteq Paths /\ job.removed \subseteq Paths
    BY <2>1 DEF PutBack, Running, Job
  <2>3. forgotten' \subseteq Paths
    BY <1>0, <1>9, <2>2 DEF FailLapsed, HistoryTypes
  <2>. QED
    BY <1>0, <1>9, <2>3 DEF FailLapsed, HistoryTypes, boundVars
<1>10. CASE Commit \/ CommitLost
  <2>1. /\ job.read[1] \in Paths /\ job.read[2] \in Texts
        /\ PublishRead(job.read[1], job.read[2])
    BY <1>10, HeldText DEF Commit, CommitLost
  <2>2. contents' \in [0..MaxVersion -> Texts]
    BY <2>1, PublishTo
  <2>3. forgotten' \subseteq Paths
    BY <1>0, <2>1 DEF PublishRead, HistoryTypes
  <2>4. /\ faults' \in 0..MaxFaults /\ epoch' = epoch /\ revived' = revived
        /\ lapses' = lapses /\ pairings' = pairings
    BY <1>0, <1>10, Bounds DEF Commit, CommitLost, HistoryTypes, boundVars
  <2>. QED
    BY <1>0, <2>2, <2>3, <2>4 DEF HistoryTypes
<1>11. ASSUME NEW p \in Paths, RemoveOne(p) PROVE HistoryTypes'
  <2>1. forgotten' \subseteq Paths
    BY <1>0, <1>11 DEF RemoveOne, HistoryTypes
  <2>. QED
    BY <1>0, <1>11, <2>1 DEF RemoveOne, HistoryTypes, boundVars
<1>. QED
  BY <1>1, <1>2, <1>3, <1>4, <1>4b, <1>5, <1>6, <1>7, <1>8, <1>9, <1>10, <1>11, <1>12, <1>13
     DEF Next, Worker, Mishap, Account, User, Watcher

(* The job keeps its type and its shape.                                   *)
JobTypes == job \in {NoJob} \cup Running /\ Shape

(* Every step keeps the job.                                               *)
LEMMA JobStep == ASSUME TypeOK, Shape, Documented, Next PROVE JobTypes'
<1>0. JobTypes
  BY DEF TypeOK, JobTypes
<1>1. ASSUME job' = job PROVE JobTypes'
  BY <1>0, <1>1 DEF JobTypes, Shape
<1>2. ASSUME job' = NoJob PROVE JobTypes'
  BY <1>2 DEF JobTypes, Shape
<1>3. CASE Poll \/ Start \/ SyncNow \/ LoseKey \/ TurnOff \/ DeleteCopy \/ SweepVault
  BY <1>1, <1>3 DEF Poll, Start, SyncNow, LoseKey, TurnOff, DeleteCopy, SweepVault, deskVars
<1>4. CASE Lapse \/ Renew
  BY <1>1, <1>4 DEF Lapse, Renew, deskVars
<1>5. ASSUME NEW p \in Paths, Edit(p) \/ Undo(p) \/ Remove(p) \/ Watch(p) PROVE JobTypes'
  BY <1>1, <1>5 DEF Edit, Undo, Remove, Watch, deskVars
<1>6. ASSUME NEW c, NEW d, PhoneWrites(c, d) PROVE JobTypes'
  BY <1>1, <1>6 DEF PhoneWrites, deskVars
<1>6b. CASE PhonePairs
  BY <1>1, <1>6b DEF PhonePairs, deskVars
<1>7. ASSUME NEW k, BeginPairing(k) PROVE JobTypes'
  BY <1>1, <1>7 DEF BeginPairing
<1>8. CASE Finish \/ FailLapsed \/ FailMissing \/ FailJob \/ CommitLost \/ FailAuth \/ Crash
  BY <1>2, <1>8 DEF Finish, FailLapsed, FailMissing, FailJob, CommitLost, FailAuth, Crash
<1>9. CASE StartJob
  BY <1>9, StartJobTo DEF JobTypes, Shape
<1>10. CASE Scan
  <2>1. job # NoJob /\ job.pc = "scan"
    BY <1>10, RunningJob DEF Scan, TypeOK, Pcs
  <2>2. job.read = <<>>
    BY <2>1 DEF Shape
  <2>. QED
    BY <1>10, <2>2, ScanTo DEF JobTypes, Shape
<1>11. CASE Fetch \/ EndDrain \/ BlockWrite \/ EndUploads
  <2>1. /\ job \in Running /\ MovedJob(job', job) /\ job'.pc # "commit" /\ job.pc # "commit"
        /\ job'.pc \in {"ack", "finish"} => job.dirty = {} /\ job.removed = {}
    BY <1>11, MoveTo
  <2>2. job.read = <<>>
    BY <2>1, NotIdle DEF Shape
  <2>. QED
    BY <2>1, <2>2 DEF JobTypes, Shape, MovedJob
<1>12. CASE Ack
  <2>1. /\ job \in Running /\ MovedJob(job', job) /\ job.pc = "ack" /\ job'.pc = "finish"
    BY <1>12, AckTo
  <2>2. job.read = <<>> /\ job.dirty = {} /\ job.removed = {}
    BY <2>1, NotIdle DEF Shape
  <2>. QED
    BY <2>1, <2>2 DEF JobTypes, Shape, MovedJob
<1>13. ASSUME NEW p \in Paths, ReadFile(p) PROVE JobTypes'
  <2>1. <<p, disk[p]>>[2] = disk[p] /\ <<p, disk[p]>> # <<>>
    OBVIOUS
  <2>. QED
    BY <1>13, <2>1, ReadFileTo DEF JobTypes, Shape, OnDisk
<1>14. ASSUME NEW p \in Paths, RemoveOne(p) PROVE JobTypes'
  BY <1>14, RemoveOneTo DEF JobTypes, Shape
<1>15. CASE Commit
  BY <1>15, CommitTo DEF JobTypes, Shape
<1>16. ASSUME job.pc = "take", NEW w \in job.queue, TakeWrite(w) PROVE JobTypes'
  <2>1. job \in Running /\ job' \in Running /\ job'.read = job.read /\ job'.pc = "take"
    BY <1>16, TakeWriteTo
  <2>2. job.read = <<>>
    BY <1>16, <2>1, NotIdle DEF Shape
  <2>. QED
    BY <2>1, <2>2 DEF JobTypes, Shape
<1>. QED
  BY <1>3, <1>4, <1>5, <1>6, <1>6b, <1>7, <1>8, <1>9, <1>10, <1>11, <1>12, <1>13, <1>14, <1>15, <1>16
     DEF Next, Worker, Mishap, Account, User, Watcher

(* What the phone queued keeps its document.                               *)
LEMMA DocumentedStep == ASSUME TypeOK, Shape, Documented, Next PROVE Documented'
<1>1. ASSUME writes' \subseteq writes, doc' = doc,
             job' # NoJob => job # NoJob /\ job'.queue \subseteq job.queue
      PROVE  Documented'
  BY <1>1 DEF Documented
<1>2. CASE Poll \/ Start \/ SyncNow \/ LoseKey \/ TurnOff
  BY <1>1, <1>2 DEF Poll, Start, SyncNow, LoseKey, TurnOff, storeVars, diskVars
<1>3. CASE Lapse \/ Renew
  BY <1>1, <1>3 DEF Lapse, Renew, SetVaultLapsed, deskVars, diskVars
<1>4. CASE DeleteCopy \/ SweepVault
  BY <1>1, <1>4 DEF DeleteCopy, SweepVault, DropVault, storeVars, diskVars, deskVars
<1>5. ASSUME NEW p \in Paths, Edit(p) \/ Undo(p) \/ Remove(p) \/ Watch(p) PROVE Documented'
  BY <1>1, <1>5 DEF Edit, Undo, Remove, Watch, storeVars, deskVars
<1>6. ASSUME NEW c \in ClientIds, NEW d \in Docs, PhoneWrites(c, d) PROVE Documented'
  <2>1. /\ d # NoDoc /\ doc' = [doc EXCEPT ![c] = d] /\ job' = job
        /\ writes' = writes \cup {[seq |-> vault.latestSeq + 1, client |-> c, acked |-> FALSE]}
    BY <1>6 DEF PhoneWrites, EnqueueWrite, deskVars
  <2>2. /\ doc \in [ClientIds -> Docs] /\ \A w \in writes : w.client \in ClientIds
        /\ job # NoJob => \A w \in job.queue : w.client \in ClientIds
    BY RunningJob DEF TypeOK, StoreTypeOK, QueuedWrite, Running
  <2>. QED
    BY <2>1, <2>2 DEF Documented
<1>6b. CASE PhonePairs
  BY <1>1, <1>6b DEF PhonePairs, diskVars, deskVars
<1>7. ASSUME NEW k, BeginPairing(k) PROVE Documented'
  <2>1. writes' \subseteq writes
    BY <1>7 DEF BeginPairing, EnsureVault, CreateVault, AdoptKey, ResetVault, storeVars
  <2>. QED
    BY <1>1, <1>7, <2>1 DEF BeginPairing, diskVars
<1>8. CASE Finish \/ FailLapsed \/ FailMissing \/ FailJob \/ FailAuth \/ Crash
  BY <1>1, <1>8 DEF Finish, FailLapsed, FailMissing, FailJob, FailAuth, Crash, storeVars,
                    diskVars
<1>9. CASE CommitLost
  BY <1>1, <1>9 DEF CommitLost, PublishRead, diskVars
<1>10. CASE StartJob
  <2>1. job'.queue = {}
    BY <1>10 DEF StartJob
  <2>. QED
    BY <1>10, <2>1 DEF StartJob, Documented, storeVars, diskVars
<1>11. CASE Fetch
  <2>1. job \in Running
    BY <1>11, RunningJob DEF Fetch, TypeOK, Pcs
  <2>2. job'.queue \subseteq writes /\ writes' = writes /\ doc' = doc
    BY <1>11, <2>1 DEF Fetch, ListWrites, Running, storeVars, diskVars
  <2>. QED
    BY <2>2 DEF Documented
<1>12. CASE Scan \/ EndDrain \/ BlockWrite \/ EndUploads
  <2>1. job \in Running /\ job # NoJob
    BY <1>12, RunningJob DEF Scan, EndDrain, BlockWrite, EndUploads, TypeOK, Pcs
  <2>2. job'.queue \subseteq job.queue
    BY <1>12, <2>1 DEF Scan, EndDrain, BlockWrite, EndUploads, Running
  <2>. QED
    BY <1>1, <1>12, <2>1, <2>2 DEF Scan, EndDrain, BlockWrite, EndUploads, storeVars, diskVars
<1>13. ASSUME NEW p \in Paths, ReadFile(p) \/ RemoveOne(p) PROVE Documented'
  <2>1. job \in Running /\ job # NoJob
    BY <1>13, RunningJob DEF ReadFile, RemoveOne, TypeOK, Pcs
  <2>2. job'.queue = job.queue
    BY <1>13, <2>1 DEF ReadFile, RemoveOne, Running
  <2>3. writes' = writes /\ doc' = doc
    BY <1>13 DEF ReadFile, RemoveOne, TombstoneFile, storeVars, diskVars
  <2>. QED
    BY <1>1, <2>1, <2>2, <2>3
<1>14. CASE Commit
  <2>1. job \in Running /\ job # NoJob
    BY <1>14, RunningJob DEF Commit, TypeOK, Pcs
  <2>2. job'.queue = job.queue
    BY <1>14, <2>1 DEF Commit, Running
  <2>. QED
    BY <1>1, <1>14, <2>1, <2>2 DEF Commit, PublishRead, diskVars
<1>15. CASE Ack
  <2>1. job \in Running /\ job # NoJob
    BY <1>15, RunningJob DEF Ack, TypeOK, Pcs
  <2>2. job'.queue = job.queue /\ doc' = doc
    BY <1>15, <2>1 DEF Ack, Running, diskVars
  <2>3. \A w \in writes' : \E v \in writes : w.client = v.client
    <3>1. CASE UNCHANGED storeVars
      BY <3>1 DEF storeVars
    <3>2. CASE AckWrites(job.last)
      BY <3>2 DEF AckWrites, TypeOK, StoreTypeOK, QueuedWrite
    <3>. QED
      BY <1>15, <3>1, <3>2 DEF Ack
  <2>. QED
    BY <2>1, <2>2, <2>3 DEF Documented
<1>16. ASSUME job.pc = "take", NEW w \in job.queue, TakeWrite(w) PROVE Documented'
  <2>1. job # NoJob /\ job'.queue \subseteq job.queue
    BY <1>16, TakeWriteTo, NotIdle
  <2>. QED
    BY <1>1, <1>16, <2>1 DEF TakeWrite, storeVars
<1>. QED
  BY <1>2, <1>3, <1>4, <1>5, <1>6, <1>6b, <1>7, <1>8, <1>9, <1>10, <1>11, <1>12, <1>13, <1>14, <1>15,
     <1>16 DEF Next, Worker, Mishap, Account, User, Watcher

TypeInv == TypeOK /\ Shape /\ Documented

(* The types hold of a desk that was just paired.                          *)
LEMMA TypeInit == Init => TypeInv
<1>. SUFFICES ASSUME Init PROVE TypeInv
  OBVIOUS
<1>1. StoreTypeOK /\ key \in SUBSET KeyChecks
  <2>1. PICK k \in KeyChecks : vault = BlankVault(TRUE, 1, k) /\ key = {k}
    BY DEF Init
  <2>2. TRUE \in BOOLEAN /\ 1 \in Nat
    OBVIOUS
  <2>3. vault \in VaultRow
    BY <2>1, <2>2, BlankVaultType
  <2>. QED
    BY <2>1, <2>3, RowTypes DEF Init, StoreTypeOK
<1>2. /\ disk \in [Paths -> Texts] /\ doc \in [ClientIds -> Docs]
      /\ contents \in [0..MaxVersion -> Texts]
      /\ state \in LocalState /\ saved \in LocalState
  BY Blanks DEF Init
<1>3. pending \in Job
  BY Blanks DEF Init, Job
<1>4. session \in BOOLEAN /\ backoff \in BOOLEAN /\ deleting \in BOOLEAN
  BY DEF Init
<1>5. /\ unseen \subseteq Paths /\ job \in {NoJob} \cup Running /\ epoch \in Nat
      /\ forgotten \subseteq Paths /\ revived \subseteq ClientIds
      /\ edits \in 0..MaxEdits + 1 /\ faults \in 0..MaxFaults
      /\ lapses \in 0..MaxLapses /\ pairings \in 0..MaxPairings
  BY Bounds DEF Init
<1>6. TypeOK
  BY <1>1, <1>2, <1>3, <1>4, <1>5 DEF TypeOK
<1>. QED
  BY <1>6 DEF Init, TypeInv, Shape, Documented

(* Every step keeps the types.                                             *)
LEMMA TypeStep == TypeInv /\ [Next]_vars => TypeInv'
<1>. SUFFICES ASSUME TypeInv, [Next]_vars PROVE TypeInv'
  OBVIOUS
<1>1. CASE UNCHANGED vars
  <2>1. /\ UNCHANGED <<vault, files, pending_uploads, writes, phone, pairing>>
        /\ UNCHANGED <<disk, unseen, doc, edits, session, key, deleting, state, saved>>
        /\ UNCHANGED <<pending, job, backoff, contents, epoch, forgotten, revived>>
        /\ UNCHANGED <<faults, lapses, pairings>>
    BY <1>1 DEF vars, storeVars, diskVars, deskVars, sessionVars, recordVars, historyVars,
                boundVars
  <2>. QED
    BY <2>1 DEF TypeInv, TypeOK, StoreTypeOK, Shape, Documented
<1>2. CASE Next
  <2>1. StoreTypeOK' /\ DiskTypes' /\ FlagTypes' /\ WorkTypes' /\ HistoryTypes' /\ JobTypes'
    BY <1>2, StoreStep, DiskStep, FlagStep, WorkStep, HistoryStep, JobStep DEF TypeInv
  <2>2. Documented'
    BY <1>2, DocumentedStep DEF TypeInv
  <2>3. Shape' /\ TypeOK'
    BY <2>1 DEF TypeOK, DiskTypes, FlagTypes, WorkTypes, HistoryTypes, JobTypes
  <2>. QED
    BY <2>2, <2>3 DEF TypeInv
<1>. QED
  BY <1>1, <1>2

(* Whatever the worker, the server and the user do in turn, the desk's     *)
(* state, its job and the tables it writes are well formed.                *)
THEOREM DeskTypes == Spec => []TypeOK
<1>1. Spec => []TypeInv
  BY TypeInit, TypeStep, PTL DEF Spec
<1>2. TypeInv => TypeOK
  BY DEF TypeInv
<1>. QED
  BY <1>1, <1>2, PTL

-------------------------------------------------------------------------------
(* RecordsBehindServer *)

(* The blob of a live row is named after its version; no row is ahead of   *)
(* the counter, and a vault that is gone has counted nothing.              *)
Rows(v, fs) ==
    /\ v.latestVersion <= MaxVersion
    /\ ~v.exists => v.latestVersion = 0
    /\ \A p \in Paths : /\ fs[p].version <= v.latestVersion
                        /\ IsLive(fs[p]) => fs[p].blob = fs[p].version

(* What a state s recorded of the copy ep, the server was sent: the text   *)
(* at the record's version, and nothing older than that since.             *)
Known(s, ep, lv, fs, ct) ==
    \A p \in Paths : s.files[p] # NoRecord =>
        /\ s.files[p].version > 0 /\ s.files[p].epoch <= ep
        /\ s.files[p].epoch = ep =>
               /\ s.files[p].version <= lv /\ ct[s.files[p].version] = s.files[p].text
               /\ IsLive(fs[p]) => s.files[p].version <= fs[p].version

KnownNow(s) == Known(s, epoch, vault.latestVersion, files, contents)

Records ==
    /\ Rows(vault, files) /\ KnownNow(state) /\ KnownNow(saved)
    /\ job # NoJob => KnownNow(job.state)

(* The numbers in a record.                                                *)
LEMMA RecordTypes ==
    ASSUME NEW s \in LocalState, NEW p \in Paths
    PROVE  /\ s.files[p] \in Record /\ s.files[p].version \in Nat /\ s.files[p].epoch \in Nat
           /\ s.files[p].text \in Texts
BY DEF LocalState, Record

(* A blank state records nothing.                                          *)
LEMMA KnownNothing == ASSUME NEW ep, NEW lv, NEW fs, NEW ct PROVE Known(NoState, ep, lv, fs, ct)
BY DEF Known, NoState

(* Known says something of the records alone.                              *)
LEMMA KnownRecords ==
    ASSUME NEW s, NEW t, NEW ep, NEW lv, NEW fs, NEW ct, t.files = s.files,
           Known(s, ep, lv, fs, ct)
    PROVE  Known(t, ep, lv, fs, ct)
BY DEF Known

(* A copy that is wiped makes every record one of an older copy.           *)
LEMMA KnownWiped ==
    ASSUME NEW s \in LocalState, NEW ep \in Nat, NEW lv, NEW fs, NEW ct, NEW lv2, NEW fs2,
           Known(s, ep, lv, fs, ct)
    PROVE  Known(s, ep + 1, lv2, fs2, ct)
BY RecordTypes DEF Known

(* A new version of one path is ahead of every record of that path.        *)
LEMMA KnownRaised ==
    ASSUME NEW s \in LocalState, NEW ep \in Nat, NEW lv \in Nat, NEW fs, NEW ct, NEW p \in Paths,
           Known(s, ep, lv, fs, ct), NEW fs2, NEW ct2, fs2[p].version = lv + 1,
           \A q \in Paths \ {p} : fs2[q] = fs[q], \A n \in 0..lv : ct2[n] = ct[n]
    PROVE  Known(s, ep, lv + 1, fs2, ct2)
<1>. SUFFICES ASSUME NEW q \in Paths, s.files[q] # NoRecord
              PROVE  /\ s.files[q].version > 0 /\ s.files[q].epoch <= ep
                     /\ s.files[q].epoch = ep =>
                            /\ s.files[q].version <= lv + 1
                            /\ ct2[s.files[q].version] = s.files[q].text
                            /\ IsLive(fs2[q]) => s.files[q].version <= fs2[q].version
  BY DEF Known
<1>1. /\ s.files[q].version > 0 /\ s.files[q].epoch <= ep
      /\ s.files[q].epoch = ep =>
             /\ s.files[q].version <= lv /\ ct[s.files[q].version] = s.files[q].text
             /\ IsLive(fs[q]) => s.files[q].version <= fs[q].version
  BY DEF Known
<1>2. s.files[q].version \in Nat
  BY RecordTypes
<1>. QED
  BY <1>1, <1>2

(* A record taken for the version the server gave, or dropped.             *)
LEMMA KnownPut ==
    ASSUME NEW s, NEW t, NEW ep \in Nat, NEW lv \in Nat, NEW fs, NEW ct, NEW p \in Paths,
           Known(s, ep, lv, fs, ct), \A q \in Paths \ {p} : t.files[q] = s.files[q],
           \/ t.files[p] = NoRecord
           \/ /\ t.files[p].version = lv /\ lv > 0 /\ t.files[p].epoch = ep
              /\ ct[lv] = t.files[p].text /\ fs[p].version = lv
    PROVE  Known(t, ep, lv, fs, ct)
BY DEF Known

(* The steps that leave the files, their versions and the copy as they are *)
(* and move states from one place of the desk to another.                  *)
LEMMA RecordsKept ==
    ASSUME Records, UNCHANGED <<files, contents, epoch>>,
           vault'.latestVersion = vault.latestVersion, vault'.exists \/ ~vault.exists,
           state' \in {state, saved, NoState} \/ (job # NoJob /\ state' = job.state),
           saved' \in {saved, NoState} \/ (job # NoJob /\ saved' = job.state),
           job' # NoJob => \/ job'.state = state
                           \/ job # NoJob /\ job'.state.files = job.state.files
    PROVE  Records'
<1>1. Rows(vault', files')
  BY DEF Records, Rows
<1>2. \A s : Known(s, epoch', vault'.latestVersion, files', contents') <=> KnownNow(s)
  BY DEF KnownNow
<1>3. KnownNow(NoState)
  BY KnownNothing DEF KnownNow
<1>4. job' # NoJob => KnownNow(job'.state)
  <2>1. job # NoJob /\ job'.state.files = job.state.files => KnownNow(job'.state)
    BY KnownRecords DEF Records, KnownNow
  <2>. QED
    BY <2>1 DEF Records
<1>5. KnownNow(state') /\ KnownNow(saved')
  BY <1>3 DEF Records
<1>. QED
  BY <1>1, <1>2, <1>4, <1>5 DEF Records, KnownNow

(* A wiped copy.                                                           *)
LEMMA RecordsWiped ==
    ASSUME TypeInv, Records, epoch' = epoch + 1, Rows(vault', files'), contents' = contents,
           state' = state, saved' \in {saved, NoState}, job' = job
    PROVE  Records'
<1>1. /\ state \in LocalState /\ saved \in LocalState /\ epoch \in Nat
      /\ job # NoJob => job.state \in LocalState
  BY RunningJob DEF TypeInv, TypeOK, Running
<1>2. /\ Known(state, epoch', vault'.latestVersion, files', contents')
      /\ Known(saved, epoch', vault'.latestVersion, files', contents')
      /\ job # NoJob => Known(job.state, epoch', vault'.latestVersion, files', contents')
  BY <1>1, KnownWiped DEF Records, KnownNow
<1>3. Known(NoState, epoch', vault'.latestVersion, files', contents')
  BY KnownNothing
<1>. QED
  BY <1>2, <1>3 DEF Records, KnownNow

(* A published text, recorded by the job or not.                           *)
LEMMA RecordsPublished ==
    ASSUME TypeInv, Records, Commit \/ CommitLost PROVE Records'
<1>0. TypeOK /\ Shape
  BY DEF TypeInv
<1>1. PICK p \in Paths, text \in Texts :
          p = job.read[1] /\ text = job.read[2] /\ PublishRead(p, text)
  BY <1>0, HeldText DEF Commit, CommitLost
<1>2. PICK lv \in Nat : lv = vault.latestVersion
  BY <1>0, <1>1, PublishTo
<1>3. /\ lv < MaxVersion /\ vault'.latestVersion = lv + 1
      /\ vault'.exists = vault.exists /\ contents'[lv + 1] = text
      /\ \A n \in 0..lv : contents'[n] = contents[n]
      /\ files'[p] = LiveRow(lv + 1, lv + 1, 1)
      /\ \A q \in Paths \ {p} : files'[q] = files[q]
  BY <1>0, <1>1, <1>2, PublishTo
<1>4. files'[p].version = lv + 1 /\ files'[p].blob = files'[p].version
  BY <1>3 DEF LiveRow
<1>5. Rows(vault', files')
  <2>1. \A q \in Paths : files[q].version \in Nat
    BY <1>0 DEF TypeOK, StoreTypeOK, FileRow
  <2>2. vault.exists /\ vault.latestVersion \in Nat /\ Rows(vault, files)
    BY <1>1, <1>2 DEF PublishRead, Served, Records
  <2>3. /\ vault'.exists = vault.exists /\ vault'.latestVersion = vault.latestVersion + 1
        /\ vault.latestVersion < MaxVersion /\ files'[p].version = vault.latestVersion + 1
    BY <1>2, <1>3, <1>4
  <2>4. IsLive(files'[p]) => files'[p].blob = files'[p].version
    BY <1>4
  <2>. QED
    BY <1>3, <2>1, <2>2, <2>3, <2>4, Bounds DEF Rows
<1>6. /\ state \in LocalState /\ saved \in LocalState /\ epoch \in Nat
      /\ job \in Running /\ job # NoJob /\ job.state \in LocalState
      /\ UNCHANGED <<state, saved, epoch>>
  BY <1>0, HeldText DEF TypeOK, Running, Commit, CommitLost, recordVars
<1>7. ASSUME NEW s \in LocalState, Known(s, epoch, lv, files, contents)
      PROVE  Known(s, epoch, lv + 1, files', contents')
  BY <1>3, <1>4, <1>6, <1>7, KnownRaised
<1>8. /\ Known(state, epoch, lv + 1, files', contents')
      /\ Known(saved, epoch, lv + 1, files', contents')
      /\ Known(job.state, epoch, lv + 1, files', contents')
  BY <1>2, <1>6, <1>7 DEF Records, KnownNow
<1>9. job' # NoJob => Known(job'.state, epoch, lv + 1, files', contents')
  <2>1. CASE CommitLost
    BY <2>1 DEF CommitLost
  <2>2. CASE Commit
    <3>1. /\ job'.state.files[p] = [version |-> lv + 1, text |-> text, epoch |-> epoch]
          /\ \A q \in Paths \ {p} : job'.state.files[q] = job.state.files[q]
      BY <1>0, <1>1, <1>2, <2>2, CommitTo
    <3>2. /\ job'.state.files[p].version = lv + 1 /\ job'.state.files[p].epoch = epoch
          /\ job'.state.files[p].text = text /\ lv + 1 \in Nat /\ lv + 1 > 0
      BY <3>1
    <3>. QED
      BY <1>3, <1>4, <1>6, <1>8, <3>1, <3>2 DEF Known
  <2>. QED
    BY <2>1, <2>2
<1>. QED
  BY <1>3, <1>5, <1>6, <1>8, <1>9 DEF Records, KnownNow

(* A tombstone, and the record that goes with it.                          *)
LEMMA RecordsRemoved ==
    ASSUME TypeInv, Records, NEW p \in Paths, RemoveOne(p) PROVE Records'
<1>0. TypeOK /\ Shape
  BY DEF TypeInv
<1>1. /\ job \in Running /\ job # NoJob /\ job' # NoJob /\ job'.state.files[p] = NoRecord
      /\ \A q \in Paths \ {p} : job'.state.files[q] = job.state.files[q]
  <2>1. /\ job \in Running /\ job' \in Running /\ job'.state.files[p] = NoRecord
        /\ \A q \in Paths \ {p} : job'.state.files[q] = job.state.files[q]
    BY <1>0, RemoveOneTo
  <2>2. job'.pc = "upload"
    BY <1>0, RemoveOneTo
  <2>3. job' # NoJob
    BY <2>2 DEF NoJob
  <2>. QED
    BY <2>1, <2>3, NotIdle
<1>2. /\ state \in LocalState /\ saved \in LocalState /\ epoch \in Nat
      /\ job.state \in LocalState /\ UNCHANGED <<state, saved, epoch, contents>>
  BY <1>0, <1>1 DEF TypeOK, Running, RemoveOne, recordVars
<1>3. PICK lv \in Nat : lv = vault.latestVersion
  BY <1>0 DEF TypeOK, StoreTypeOK, VaultRow
<1>4. CASE UNCHANGED storeVars
  <2>1. UNCHANGED <<vault, files>>
    BY <1>4 DEF storeVars
  <2>2. Known(job'.state, epoch, lv, files, contents)
    BY <1>1, <1>2, <1>3, KnownPut DEF Records, KnownNow
  <2>. QED
    BY <1>2, <1>3, <2>1, <2>2 DEF Records, KnownNow
<1>5. CASE TombstoneFile(p, files[p].version)
  <2>1. /\ vault.exists /\ lv < MaxVersion
        /\ files' = [files EXCEPT ![p] = Tombstone(lv + 1)]
        /\ vault' = [vault EXCEPT !.latestVersion = @ + 1, !.bytesUsed = @ - files[p].size]
    BY <1>3, <1>5 DEF TombstoneFile
  <2>2. /\ vault'.latestVersion = lv + 1 /\ vault'.exists = vault.exists
        /\ files'[p].version = lv + 1 /\ ~IsLive(files'[p])
        /\ \A q \in Paths \ {p} : files'[q] = files[q]
        /\ \A q \in Paths : files[q].version \in Nat
    BY <1>0, <1>3, <2>1 DEF TypeOK, StoreTypeOK, VaultRow, FileRow, Tombstone, IsLive
  <2>3. Rows(vault', files')
    <3>1. Rows(vault, files) /\ vault.latestVersion \in Nat
      BY <1>3 DEF Records
    <3>2. /\ vault'.latestVersion = vault.latestVersion + 1
          /\ vault.latestVersion < MaxVersion /\ files'[p].version = vault.latestVersion + 1
      BY <1>3, <2>1, <2>2
    <3>3. IsLive(files'[p]) => files'[p].blob = files'[p].version
      BY <2>2
    <3>. QED
      BY <2>1, <2>2, <3>1, <3>2, <3>3, Bounds DEF Rows
  <2>4. ASSUME NEW s \in LocalState, Known(s, epoch, lv, files, contents)
        PROVE  Known(s, epoch, lv + 1, files', contents)
    BY <1>2, <2>2, <2>4, KnownRaised
  <2>5. /\ Known(state, epoch, lv + 1, files', contents)
        /\ Known(saved, epoch, lv + 1, files', contents)
        /\ Known(job.state, epoch, lv + 1, files', contents)
    BY <1>1, <1>2, <1>3, <2>4 DEF Records, KnownNow
  <2>6. Known(job'.state, epoch, lv + 1, files', contents)
    <3>1. lv + 1 \in Nat
      BY <1>3
    <3>. QED
      BY <1>1, <1>2, <2>5, <3>1, KnownPut
  <2>. QED
    BY <1>2, <2>2, <2>3, <2>5, <2>6 DEF Records, KnownNow
<1>. QED
  BY <1>4, <1>5 DEF RemoveOne

(* Every step keeps the records behind the server.                         *)
LEMMA RecordsStep == ASSUME TypeInv, Records, Next PROVE Records'
<1>0. TypeOK /\ Shape /\ Documented
  BY DEF TypeInv
<1>1. ASSUME UNCHANGED <<vault, files, contents, epoch, state, saved>>,
             job' # NoJob => job # NoJob /\ job'.state.files = job.state.files
      PROVE  Records'
  BY <1>1, RecordsKept
<1>2. CASE Poll \/ SyncNow \/ LoseKey
  BY <1>1, <1>2 DEF Poll, SyncNow, LoseKey, storeVars, recordVars, historyVars
<1>3. ASSUME NEW p \in Paths, Edit(p) \/ Undo(p) \/ Remove(p) \/ Watch(p) PROVE Records'
  BY <1>1, <1>3 DEF Edit, Undo, Remove, Watch, storeVars, deskVars, recordVars, historyVars
<1>4. CASE FailLapsed \/ FailMissing \/ FailJob \/ FailAuth
  BY <1>1, <1>4 DEF FailLapsed, FailMissing, FailJob, FailAuth, storeVars, recordVars,
                    historyVars
<1>5. CASE Fetch \/ EndDrain \/ BlockWrite \/ EndUploads
  <2>1. job \in Running /\ job # NoJob /\ job'.state = job.state
    BY <1>0, <1>5, MoveTo, NotIdle
  <2>2. UNCHANGED <<vault, files, contents, epoch, state, saved>>
    BY <1>5 DEF Fetch, EndDrain, BlockWrite, EndUploads, storeVars, recordVars, historyVars
  <2>. QED
    BY <1>1, <2>1, <2>2
<1>6. CASE Scan
  <2>1. job # NoJob /\ job'.state = job.state
    BY <1>0, <1>6, ScanTo, RunningJob DEF Scan, TypeOK, Pcs
  <2>. QED
    BY <1>1, <1>6, <2>1 DEF Scan, storeVars, recordVars
<1>7. ASSUME NEW p \in Paths, ReadFile(p) PROVE Records'
  <2>1. job # NoJob /\ job'.state = job.state
    BY <1>0, <1>7, ReadFileTo, NotIdle
  <2>. QED
    BY <1>1, <1>7, <2>1 DEF ReadFile, storeVars, recordVars, historyVars
<1>8. ASSUME job.pc = "take", NEW w \in job.queue, TakeWrite(w) PROVE Records'
  <2>1. job # NoJob /\ job'.state = job.state
    BY <1>0, <1>8, TakeWriteTo, NotIdle
  <2>. QED
    BY <1>1, <1>8, <2>1 DEF TakeWrite, storeVars, recordVars, historyVars
<1>9. CASE StartJob
  <2>1. job'.state = state
    BY <1>0, <1>9, StartJobTo
  <2>2. UNCHANGED <<vault, files, contents, epoch, state, saved>>
    BY <1>9 DEF StartJob, storeVars, recordVars, historyVars
  <2>. QED
    BY <2>1, <2>2, RecordsKept
<1>10. CASE Finish
  <2>1. job # NoJob
    BY <1>0, <1>10, RunningJob DEF Finish, TypeOK, Pcs
  <2>. QED
    BY <1>10, <2>1, RecordsKept DEF Finish, storeVars, historyVars
<1>11. CASE Start \/ Crash \/ TurnOff
  BY <1>11, RecordsKept DEF Start, Crash, TurnOff, storeVars, historyVars
<1>12. CASE Lapse \/ Renew
  <2>1. /\ UNCHANGED <<files, contents, epoch, state, saved, job>>
        /\ \E b : vault' = [vault EXCEPT !.lapsed = b]
    BY <1>12 DEF Lapse, Renew, SetVaultLapsed, deskVars, recordVars, historyVars
  <2>2. vault'.latestVersion = vault.latestVersion /\ vault'.exists = vault.exists
    BY <1>0, <2>1 DEF TypeOK, StoreTypeOK, VaultRow
  <2>. QED
    BY <2>1, <2>2, RecordsKept
<1>13. ASSUME NEW c, NEW d, PhoneWrites(c, d) PROVE Records'
  <2>1. vault'.latestVersion = vault.latestVersion /\ vault'.exists = vault.exists
    BY <1>0, <1>13 DEF PhoneWrites, EnqueueWrite, TypeOK, StoreTypeOK, VaultRow
  <2>. QED
    BY <1>13, <2>1, RecordsKept DEF PhoneWrites, EnqueueWrite, deskVars, recordVars, historyVars
<1>13b. CASE PhonePairs
  BY <1>13b, RecordsKept DEF PhonePairs, deskVars, recordVars, historyVars
<1>14. CASE Ack
  <2>1. job # NoJob /\ job'.state.files = job.state.files
    BY <1>0, <1>14, AckTo, NotIdle
  <2>2. /\ vault'.latestVersion = vault.latestVersion /\ vault'.exists = vault.exists
        /\ files' = files
    BY <1>0, <1>14 DEF Ack, AckWrites, TypeOK, StoreTypeOK, VaultRow, storeVars
  <2>. QED
    BY <1>14, <2>1, <2>2, RecordsKept DEF Ack, recordVars, historyVars
<1>15. ASSUME DropVault \/ \E k \in KeyChecks : ResetVault(k)
       PROVE  Rows(vault', files')
  <2>1. \A p \in Paths : files'[p] = NoRow
    BY <1>15 DEF DropVault, ResetVault
  <2>2. \/ vault'.latestVersion = 0
        \/ vault'.latestVersion = vault.latestVersion /\ vault'.exists
    <3>1. CASE DropVault
      BY <3>1 DEF DropVault, BlankVault
    <3>2. ASSUME NEW k \in KeyChecks, ResetVault(k)
          PROVE  vault'.latestVersion = vault.latestVersion /\ vault'.exists
      BY <1>0, <3>2 DEF ResetVault, TypeOK, StoreTypeOK, VaultRow
    <3>. QED
      BY <1>15, <3>1, <3>2
  <2>3. vault.latestVersion \in Nat /\ vault.latestVersion <= MaxVersion
    BY <1>0 DEF TypeOK, StoreTypeOK, VaultRow, Records, Rows
  <2>. QED
    BY <2>1, <2>2, <2>3, Bounds DEF Rows, NoRow, IsLive
<1>16. CASE DeleteCopy \/ SweepVault
  <2>1. CASE DropVault /\ epoch' = epoch + 1
    BY <1>15, <1>16, <2>1, RecordsWiped DEF DeleteCopy, SweepVault, deskVars, recordVars,
       historyVars
  <2>2. CASE UNCHANGED <<storeVars, epoch, key, saved>> /\ DeleteCopy
    BY <1>1, <2>2 DEF DeleteCopy, storeVars
  <2>. QED
    BY <1>16, <2>1, <2>2 DEF DeleteCopy, SweepVault
<1>17. ASSUME NEW k \in KeyChecks, BeginPairing(k) PROVE Records'
  <2>1. UNCHANGED <<contents, state, saved, job>>
    BY <1>17 DEF BeginPairing, recordVars
  <2>2. CASE (CreateVault(k) \/ AdoptKey(k) \/ UNCHANGED storeVars) /\ epoch' = epoch
    <3>1. /\ vault'.latestVersion = vault.latestVersion /\ files' = files
          /\ vault'.exists \/ ~vault.exists
      BY <1>0, <2>2 DEF CreateVault, AdoptKey, storeVars, BlankVault, TypeOK, StoreTypeOK,
                        VaultRow, Records, Rows
    <3>. QED
      BY <2>1, <2>2, <3>1, RecordsKept
  <2>3. CASE ResetVault(k) /\ epoch' = epoch + 1
    BY <1>15, <2>1, <2>3, RecordsWiped
  <2>. QED
    BY <1>17, <2>2, <2>3 DEF BeginPairing, EnsureVault
<1>18. CASE Commit \/ CommitLost
  BY <1>18, RecordsPublished
<1>19. ASSUME NEW p \in Paths, RemoveOne(p) PROVE Records'
  BY <1>19, RecordsRemoved
<1>. QED
  BY <1>2, <1>3, <1>4, <1>5, <1>6, <1>7, <1>8, <1>9, <1>10, <1>11, <1>12, <1>13, <1>13b, <1>14,
     <1>16, <1>17, <1>18, <1>19 DEF Next, Worker, Mishap, Account, User, Watcher

(* ... and so does standing still.                                         *)
LEMMA RecordsInductive == TypeInv /\ Records /\ [Next]_vars => Records'
<1>1. ASSUME Records, UNCHANGED vars PROVE Records'
  <2>1. UNCHANGED <<vault, files, contents, epoch, state, saved, job>>
    BY <1>1 DEF vars, storeVars, deskVars, recordVars, historyVars
  <2>. QED
    BY <1>1, <2>1 DEF Records, KnownNow
<1>. QED
  BY <1>1, RecordsStep

(* A desk that was just paired has recorded nothing.                       *)
LEMMA RecordsInit == ASSUME Init PROVE Records
<1>1. vault.exists /\ vault.latestVersion = 0
  BY DEF Init, BlankVault
<1>2. \A p \in Paths : files[p].version = 0 /\ ~IsLive(files[p])
  BY DEF Init, NoRow, IsLive
<1>3. Rows(vault, files)
  BY <1>1, <1>2, Bounds DEF Rows
<1>. QED
  BY <1>3, KnownNothing DEF Init, Records, KnownNow

(* A record of this copy is never ahead of the row it is of, and one of    *)
(* the row's version is of the text in the row's blob: a retry of a failed *)
(* or killed job starts from a version the server can answer.              *)
THEOREM RecordsAreBehind == Spec => []RecordsBehindServer
<1>1. TypeInv /\ Records => RecordsBehindServer
  <2>. SUFFICES ASSUME TypeInv, Records, NEW p \in Paths, state.files[p].epoch = epoch,
                       IsLive(files[p]), state.files[p] # NoRecord
                PROVE  /\ state.files[p].version <= files[p].version
                       /\ state.files[p].version = files[p].version =>
                              contents[files[p].blob] = state.files[p].text
    BY DEF RecordsBehindServer
  <2>. QED
    BY DEF Records, KnownNow, Known, Rows
<1>2. Init => TypeInv /\ Records
  BY TypeInit, RecordsInit
<1>. QED
  BY <1>1, <1>2, TypeStep, RecordsInductive, PTL DEF Spec

-------------------------------------------------------------------------------
(* SettledIsSynced *)

(* The record of a path is of the note as it is on disk.                   *)
Match(s, p) == IF OnDisk(p) THEN s.files[p].text = disk[p] ELSE s.files[p] = NoRecord

(* The work w uploads the note, or tombstones what vanished.               *)
Need(p, w) == IF OnDisk(p) THEN p \in w.dirty ELSE p \in w.removed

(* A later job will look at the path, or the running one will when it is   *)
(* put back; the running one has it in hand.                               *)
Coming(p)  == p \in unseen \/ pending.catchUp \/ Need(p, pending)
Retried(p) == job # NoJob /\ (job.work.catchUp \/ Need(p, job.work))
Reads(p)   == job.read # <<>> /\ job.read[1] = p
InHand(p)  ==
    \/ job.pc = "scan" /\ job.work.catchUp
    \/ Need(p, job)
    \/ Reads(p) /\ job.read[2] = disk[p]
    \/ Match(job.state, p)

Covered(p) ==
    /\ p \notin forgotten => Coming(p) \/ Retried(p) \/ Match(state, p)
    /\ p \in pending.dirty \cup pending.removed => Coming(p)
    /\ job # NoJob =>
         /\ p \notin forgotten => Coming(p) \/ InHand(p)
         /\ p \in job.work.dirty \cup job.work.removed \cup job.dirty \cup job.removed =>
                Coming(p) \/ Retried(p)
         /\ Reads(p) => Coming(p) \/ (Retried(p) /\ job.read[2] = disk[p])

(* While a session runs, a change nobody knows of is a change that is      *)
(* still to be looked at.                                                  *)
Coverage == session => \A p \in Paths : Covered(p)

(* A path that was just changed, or a catch-up that is about to run.       *)
LEMMA CoveredComing ==
    ASSUME NEW p \in Paths, p \in unseen' \/ pending'.catchUp PROVE Covered(p)'
BY DEF Covered, Coming

(* The work as far as one path is concerned.                               *)
SameWork(p, w, v) ==
    /\ w.catchUp = v.catchUp
    /\ p \in w.dirty <=> p \in v.dirty
    /\ p \in w.removed <=> p \in v.removed

(* A step that is none of this path's business.                            *)
LEMMA CoveredSame ==
    ASSUME NEW p \in Paths, Covered(p), disk'[p] = disk[p], state' = state,
           p \in unseen <=> p \in unseen', p \in forgotten <=> p \in forgotten',
           SameWork(p, pending', pending),
           \/ job' = job
           \/ /\ job # NoJob /\ job' # NoJob /\ job'.work = job.work
              /\ p \in job'.dirty <=> p \in job.dirty
              /\ p \in job'.removed <=> p \in job.removed
              /\ Reads(p)' <=> Reads(p)
              /\ Reads(p) => job'.read = job.read
              /\ job'.state.files[p] = job.state.files[p]
              /\ job.pc = "scan" => job'.pc = "scan"
    PROVE  Covered(p)'
<1>1. OnDisk(p)' <=> OnDisk(p)
  BY DEF OnDisk
<1>2. Coming(p)' <=> Coming(p)
  BY <1>1 DEF Coming, Need, SameWork
<1>3. Match(state, p)' <=> Match(state, p)
  BY <1>1 DEF Match
<1>4. p \in pending'.dirty \cup pending'.removed <=> p \in pending.dirty \cup pending.removed
  BY DEF SameWork
<1>5. CASE job' = job
  BY <1>1, <1>2, <1>3, <1>4, <1>5 DEF Covered, Retried, InHand, Need, Reads, Match
<1>6. CASE job' # job
  <2>1. Retried(p)' <=> Retried(p)
    BY <1>1, <1>6 DEF Retried, Need
  <2>2. InHand(p) => InHand(p)'
    BY <1>1, <1>6 DEF InHand, Need, Reads, Match
  <2>. QED
    BY <1>2, <1>3, <1>4, <1>6, <2>1, <2>2 DEF Covered, Reads
<1>. QED
  BY <1>5, <1>6

(* The work of a job starts as what was coming.                            *)
LEMMA CoveredStart ==
    ASSUME TypeInv, NEW p \in Paths, Covered(p), StartJob PROVE Covered(p)'
<1>1. /\ job = NoJob /\ job' # NoJob /\ job'.pc = "scan" /\ job'.work = pending
      /\ job'.dirty = pending.dirty /\ job'.removed = pending.removed
      /\ job'.state = state /\ job'.read = <<>>
  <2>1. job'.pc = "scan"
    BY StartJobTo DEF TypeInv
  <2>2. job' # NoJob
    BY <2>1 DEF NoJob
  <2>. QED
    BY <2>2, StartJobTo DEF StartJob, TypeInv
<1>2. UNCHANGED <<disk, unseen, state, forgotten>> /\ pending' = NoWork
  BY DEF StartJob, diskVars, recordVars, historyVars
<1>3. OnDisk(p)' <=> OnDisk(p)
  BY <1>2 DEF OnDisk
<1>4. ~Retried(p) /\ ~Reads(p)'
  BY <1>1 DEF Retried, Reads
<1>5. Coming(p) => Coming(p)' \/ (Retried(p)' /\ InHand(p)')
  BY <1>1, <1>2, <1>3 DEF Coming, Retried, InHand, Need
<1>6. Match(state, p) => Match(state, p)' /\ InHand(p)'
  BY <1>1, <1>2, <1>3 DEF Match, InHand
<1>. QED
  BY <1>1, <1>2, <1>4, <1>5, <1>6 DEF Covered, NoWork

(* The scan finds what differs from the records.                           *)
LEMMA CoveredScan == ASSUME TypeInv, NEW p \in Paths, Covered(p), Scan PROVE Covered(p)'
<1>1. /\ job \in Running /\ job # NoJob /\ job' \in Running /\ SameJob(job', job)
      /\ job'.state = job.state
      /\ job'.read = job.read /\ job'.pc \in {"fetch", "upload"}
  BY ScanTo, RunningJob DEF TypeInv, TypeOK, Scan, Pcs
<1>2. job' # NoJob
  BY <1>1 DEF NoJob
<1>3. UNCHANGED <<disk, unseen, state, pending>>
  BY DEF Scan, diskVars, recordVars
<1>4. OnDisk(p)' <=> OnDisk(p)
  BY <1>3 DEF OnDisk
<1>5. Reads(p)' <=> Reads(p)
  BY <1>1 DEF Reads
<1>6. (Coming(p)' <=> Coming(p)) /\ (Match(state, p)' <=> Match(state, p))
      /\ (Retried(p)' <=> Retried(p))
  BY <1>1, <1>2, <1>3, <1>4 DEF Coming, Match, Retried, Need, SameJob
<1>7. CASE job.work.catchUp
  <2>1. Retried(p)'
    BY <1>1, <1>6, <1>7 DEF Retried
  <2>2. Match(job.state, p)' \/ Need(p, job)'
    BY <1>1, <1>4, <1>3, <1>7, ScanTo DEF Match, Need, TypeInv
  <2>. QED
    BY <1>1, <1>2, <1>3, <1>5, <1>6, <2>1, <2>2 DEF Covered, InHand
<1>8. CASE ~job.work.catchUp
  <2>1. job'.dirty = job.dirty /\ job'.removed = job.removed /\ forgotten' = forgotten
    BY <1>8, ScanTo DEF Scan, TypeInv
  <2>2. InHand(p) => InHand(p)'
    BY <1>1, <1>3, <1>4, <1>5, <1>8, <2>1 DEF InHand, Need, Match
  <2>. QED
    BY <1>1, <1>2, <1>3, <1>5, <1>6, <2>1, <2>2 DEF Covered, SameJob
<1>. QED
  BY <1>7, <1>8

(* A file that is read is held, or needs no upload.                        *)
LEMMA CoveredRead ==
    ASSUME TypeInv, NEW p \in Paths, Covered(p), ReadFile(p) PROVE Covered(p)'
<1>1. /\ job \in Running /\ job # NoJob /\ job' \in Running /\ SameJob(job', job)
      /\ job.pc = "upload" /\ job.read = <<>> /\ p \in job.dirty
      /\ job'.state = job.state /\ job'.removed = job.removed /\ job'.dirty = job.dirty \ {p}
  BY ReadFileTo, NotIdle DEF TypeInv, ReadFile
<1>2. /\ job' # NoJob
      /\ \/ OnDisk(p) /\ job'.read = <<p, disk[p]>>
         \/ ~(OnDisk(p) /\ job.state.files[p].text # disk[p]) /\ job'.read = <<>>
  <2>1. job'.pc \in {"upload", "commit"}
    BY ReadFileTo DEF TypeInv
  <2>2. job' # NoJob
    BY <2>1 DEF NoJob
  <2>. QED
    BY <2>2, ReadFileTo DEF TypeInv
<1>3. UNCHANGED <<disk, unseen, state, pending, forgotten>>
  BY DEF ReadFile, diskVars, recordVars, historyVars
<1>4. OnDisk(p)' <=> OnDisk(p)
  BY <1>3 DEF OnDisk
<1>5. (Coming(p)' <=> Coming(p)) /\ (Match(state, p)' <=> Match(state, p))
      /\ (Retried(p)' <=> Retried(p))
  BY <1>1, <1>2, <1>3, <1>4 DEF Coming, Match, Retried, Need, SameJob
<1>6. InHand(p) => InHand(p)'
  BY <1>1, <1>2, <1>3, <1>4 DEF InHand, Need, Reads, Match
<1>7. Coming(p) \/ Retried(p)
  BY <1>1 DEF Covered
<1>8. Reads(p)' => job'.read[2] = disk'[p]
  BY <1>2, <1>3 DEF Reads
<1>. QED
  BY <1>1, <1>2, <1>3, <1>5, <1>6, <1>7, <1>8 DEF Covered

(* The text that was read is recorded, the note may have changed since.    *)
LEMMA CoveredCommit ==
    ASSUME TypeInv, NEW p \in Paths, p = job.read[1], Covered(p), Commit PROVE Covered(p)'
<1>1. /\ job # NoJob /\ job.read # <<>> /\ job.read[2] # Gone /\ Reads(p)
  BY HeldText DEF Commit, TypeInv, Reads
<1>2. /\ SameJob(job', job) /\ job'.read = <<>> /\ job'.pc = "upload"
      /\ job'.dirty = job.dirty /\ job'.removed = job.removed
      /\ job'.state.files[p].text = job.read[2]
  BY CommitTo DEF TypeInv
<1>3. job' # NoJob
  BY <1>2 DEF NoJob
<1>4. UNCHANGED <<disk, unseen, state, pending>>
  BY DEF Commit, diskVars, recordVars
<1>5. OnDisk(p)' <=> OnDisk(p)
  BY <1>4 DEF OnDisk
<1>6. (Coming(p)' <=> Coming(p)) /\ (Retried(p)' <=> Retried(p))
  BY <1>1, <1>2, <1>3, <1>4, <1>5 DEF Coming, Retried, Need, SameJob
<1>7. Coming(p) \/ (Retried(p) /\ job.read[2] = disk[p])
  BY <1>1 DEF Covered
<1>8. job.read[2] = disk[p] => InHand(p)'
  BY <1>1, <1>2, <1>4 DEF InHand, Match, OnDisk
<1>. QED
  BY <1>1, <1>2, <1>3, <1>4, <1>6, <1>7, <1>8 DEF Covered, Reads, SameJob

(* A record is dropped; where the note is on disk it is reported anew, or  *)
(* forgotten.                                                              *)
LEMMA CoveredRemoved ==
    ASSUME TypeInv, NEW p \in Paths, Covered(p), RemoveOne(p) PROVE Covered(p)'
<1>1. /\ job \in Running /\ job # NoJob /\ job' \in Running /\ SameJob(job', job)
      /\ job.pc = "upload" /\ job'.pc = "upload"
      /\ job.read = <<>> /\ job'.read = <<>> /\ job.dirty = {} /\ job'.dirty = {}
      /\ p \in job.removed /\ job'.removed = job.removed \ {p}
      /\ job'.state.files[p] = NoRecord
  BY RemoveOneTo, NotIdle DEF TypeInv
<1>2. job' # NoJob
  BY <1>1 DEF NoJob
<1>3. UNCHANGED <<disk, unseen, state, pending>>
  BY DEF RemoveOne, diskVars, recordVars
<1>4. OnDisk(p)' <=> OnDisk(p)
  BY <1>3 DEF OnDisk
<1>5. (Coming(p)' <=> Coming(p)) /\ (Retried(p)' <=> Retried(p)) /\ ~Reads(p)'
  BY <1>1, <1>2, <1>3, <1>4 DEF Coming, Retried, Need, SameJob, Reads
<1>6. Coming(p) \/ Retried(p)
  BY <1>1 DEF Covered
<1>7. ~OnDisk(p) => InHand(p)'
  BY <1>1, <1>4 DEF InHand, Match
<1>8. OnDisk(p) /\ p \notin forgotten' => Coming(p)
  <2>1. CASE job.state.files[p] = NoRecord
    <3>1. p \notin forgotten' => p \notin forgotten
      BY <2>1 DEF RemoveOne
    <3>2. OnDisk(p) => ~InHand(p)
      BY <1>1, <2>1 DEF InHand, Need, Reads, Match, OnDisk, NoRecord
    <3>. QED
      BY <1>1, <3>1, <3>2 DEF Covered
  <2>2. CASE job.state.files[p] # NoRecord
    BY <2>2 DEF RemoveOne, Coming, Need
  <2>. QED
    BY <2>1, <2>2
<1>. QED
  BY <1>1, <1>2, <1>3, <1>5, <1>6, <1>7, <1>8 DEF Covered, SameJob

(* A finished job has taken every path in hand to its record.              *)
LEMMA CoveredFinish == ASSUME TypeInv, NEW p \in Paths, Covered(p), Finish PROVE Covered(p)'
<1>1. job # NoJob /\ job.pc = "finish"
  BY RunningJob DEF TypeInv, TypeOK, Finish, Pcs
<1>2. job.dirty = {} /\ job.removed = {} /\ job.read = <<>>
  BY <1>1 DEF TypeInv, Shape
<1>3. /\ UNCHANGED <<disk, unseen, forgotten>> /\ job' = NoJob /\ state' = job.state
      /\ pending'.catchUp = pending.catchUp /\ pending'.dirty = pending.dirty
      /\ pending'.removed = pending.removed
  BY DEF Finish, TypeInv, TypeOK, Job, diskVars, historyVars
<1>4. OnDisk(p)' <=> OnDisk(p)
  BY <1>3 DEF OnDisk
<1>5. Coming(p)' <=> Coming(p)
  BY <1>3, <1>4 DEF Coming, Need
<1>6. InHand(p) => Match(state, p)'
  BY <1>1, <1>2, <1>3, <1>4 DEF InHand, Need, Reads, Match
<1>. QED
  BY <1>1, <1>3, <1>5, <1>6 DEF Covered

(* A failed job's work comes again.                                        *)
LEMMA CoveredPutBack ==
    ASSUME NEW p \in Paths, Covered(p), job # NoJob, job' = NoJob, pending' = PutBack,
           UNCHANGED <<disk, unseen, state>>, p \notin forgotten' => p \notin forgotten \/ Reads(p)
    PROVE  Covered(p)'
<1>1. OnDisk(p)' <=> OnDisk(p)
  BY DEF OnDisk
<1>2. Coming(p) \/ Retried(p) => Coming(p)'
  BY <1>1 DEF Coming, Retried, Need, PutBack
<1>3. Match(state, p) => Match(state, p)'
  BY <1>1 DEF Match
<1>4. p \in pending'.dirty \cup pending'.removed => Coming(p)'
  BY <1>2 DEF PutBack, Covered
<1>. QED
  BY <1>2, <1>3, <1>4 DEF Covered

(* Work a lapse dropped is forgotten.                                      *)
LEMMA CoveredLapsed ==
    ASSUME TypeInv, NEW p \in Paths, Covered(p), FailLapsed PROVE Covered(p)'
<1>1. job # NoJob
  BY BusyJob DEF TypeInv, FailLapsed
<1>2. UNCHANGED <<disk, unseen, state>> /\ job' = NoJob /\ pending' = NoWork
  BY DEF FailLapsed, diskVars, recordVars
<1>3. OnDisk(p)' <=> OnDisk(p)
  BY <1>2 DEF OnDisk
<1>4. p \notin forgotten' =>
          /\ p \notin forgotten /\ ~pending.catchUp /\ ~job.work.catchUp
          /\ p \notin pending.dirty \cup pending.removed \cup job.work.dirty \cup job.work.removed
  BY DEF FailLapsed, PutBack
<1>5. p \notin forgotten' => (Coming(p) => p \in unseen) /\ ~Retried(p)
  BY <1>4 DEF Coming, Retried, Need
<1>6. Match(state, p) => Match(state, p)'
  BY <1>2, <1>3 DEF Match
<1>. QED
  BY <1>2, <1>4, <1>5, <1>6 DEF Covered, Coming, NoWork

(* Every step of a running session.                                        *)
LEMMA CoveredStep == ASSUME TypeInv, Coverage, Next, session, session', NEW p \in Paths
                     PROVE  Covered(p)'
<1>0. TypeOK /\ Shape /\ Documented /\ Covered(p) /\ pending \in Job
  BY DEF TypeInv, TypeOK, Coverage
<1>1. ASSUME UNCHANGED <<disk, unseen, state, forgotten, job>>, SameWork(p, pending', pending)
      PROVE  Covered(p)'
  BY <1>0, <1>1, CoveredSame
<1>2. SameWork(p, pending, pending)
  BY DEF SameWork
<1>3. CASE LoseKey \/ DeleteCopy \/ SweepVault
  BY <1>1, <1>2, <1>3 DEF LoseKey, DeleteCopy, SweepVault, diskVars, deskVars, recordVars,
                          historyVars
<1>4. CASE Lapse \/ Renew
  <2>1. UNCHANGED <<disk, unseen, state, forgotten, job, pending>>
    BY <1>4, Zenon DEF Lapse, Renew, diskVars, deskVars, recordVars, historyVars
  <2>. QED
    BY <1>1, <1>2, <2>1
<1>5. ASSUME NEW c, NEW d, PhoneWrites(c, d) PROVE Covered(p)'
  BY <1>1, <1>2, <1>5 DEF PhoneWrites, deskVars, recordVars, historyVars
<1>5b. CASE PhonePairs
  BY <1>1, <1>2, <1>5b DEF PhonePairs, diskVars, deskVars, recordVars, historyVars
<1>6. CASE Poll
  <2>1. SameWork(p, pending', pending)
    BY <1>0, <1>6 DEF Poll, SameWork, Job
  <2>. QED
    BY <1>1, <1>6, <2>1 DEF Poll, diskVars, recordVars, historyVars
<1>7. CASE SyncNow
  BY <1>0, <1>7, CoveredComing DEF SyncNow, FullPass, Job
<1>8. ASSUME NEW k, BeginPairing(k) PROVE Covered(p)'
  BY <1>0, <1>8, CoveredComing DEF BeginPairing, FullPass, Job
<1>9. CASE Fetch \/ EndDrain \/ BlockWrite \/ EndUploads
  <2>1. /\ job # NoJob /\ MovedJob(job', job) /\ job'.state = job.state /\ job.pc # "scan"
    BY <1>0, <1>9, MoveTo, NotIdle
  <2>2. job' # NoJob
    BY <2>1 DEF MovedJob, NoJob, Running
  <2>3. UNCHANGED <<disk, unseen, state, forgotten, pending>>
    BY <1>9 DEF Fetch, EndDrain, BlockWrite, EndUploads, diskVars, recordVars, historyVars
  <2>. QED
    BY <1>0, <1>2, <2>1, <2>2, <2>3, CoveredSame DEF MovedJob, SameJob, Reads
<1>10. CASE Ack
  <2>1. /\ job # NoJob /\ MovedJob(job', job) /\ job'.state.files = job.state.files
        /\ job.pc # "scan" /\ job'.pc = "finish"
    BY <1>0, <1>10, AckTo, NotIdle
  <2>2. job' # NoJob
    BY <2>1 DEF NoJob
  <2>3. UNCHANGED <<disk, unseen, state, forgotten, pending>>
    BY <1>10 DEF Ack, diskVars, recordVars, historyVars
  <2>. QED
    BY <1>0, <1>2, <2>1, <2>2, <2>3, CoveredSame DEF MovedJob, SameJob, Reads
<1>11. ASSUME NEW q \in Paths, Edit(q) \/ Undo(q) \/ Remove(q) PROVE Covered(p)'
  <2>1. p = q \/ (disk'[p] = disk[p] /\ (p \in unseen <=> p \in unseen'))
    BY <1>0, <1>11 DEF Edit, Undo, Remove, TypeOK
  <2>2. q \in unseen' /\ UNCHANGED <<state, forgotten, job, pending>>
    BY <1>11 DEF Edit, Undo, Remove, deskVars, recordVars, historyVars
  <2>. QED
    BY <1>0, <1>2, <2>1, <2>2, CoveredSame, CoveredComing
<1>12. ASSUME NEW q \in Paths, Watch(q) PROVE Covered(p)'
  <2>1. UNCHANGED <<disk, state, forgotten, job>> /\ unseen' = unseen \ {q}
    BY <1>12 DEF Watch, recordVars, historyVars
  <2>2. CASE p = q
    <3>1. Coming(p)'
      BY <1>0, <1>12, <2>1, <2>2 DEF Watch, Coming, Need, OnDisk, Job
    <3>. QED
      BY <3>1 DEF Covered
  <2>3. CASE p # q
    <3>1. SameWork(p, pending', pending)
      BY <1>0, <1>12, <2>3 DEF Watch, SameWork, Job
    <3>. QED
      BY <1>0, <2>1, <2>3, <3>1, CoveredSame
  <2>. QED
    BY <2>2, <2>3
<1>13. ASSUME job.pc = "take", NEW w \in job.queue, TakeWrite(w) PROVE Covered(p)'
  <2>1. /\ job # NoJob /\ job' \in Running /\ SameJob(job', job) /\ job'.state = job.state
        /\ job'.read = job.read /\ job'.pc = "take"
    BY <1>0, <1>13, TakeWriteTo, NotIdle
  <2>2. PICK changed \in SUBSET Paths, removed \in SUBSET Paths :
            /\ AppliedTo(disk', changed, removed)
            /\ unseen' = unseen \cup changed \cup removed
            /\ job'.dirty = job.dirty \cup changed /\ job'.removed = job.removed \cup removed
    BY <1>0, <1>13, TakeWriteTo
  <2>3. job' # NoJob /\ UNCHANGED <<state, forgotten, pending>>
    <3>1. job' # NoJob
      BY <2>1 DEF NoJob
    <3>2. UNCHANGED <<state, forgotten, pending>>
      BY <1>13 DEF TakeWrite, recordVars, historyVars
    <3>. QED
      BY <3>1, <3>2
  <2>4. CASE p \in changed \cup removed
    BY <2>2, <2>4, CoveredComing
  <2>5. CASE p \notin changed \cup removed
    <3>1. disk'[p] = disk[p]
      BY <2>2, <2>5 DEF AppliedTo
    <3>2. /\ p \in unseen <=> p \in unseen'
          /\ p \in job'.dirty <=> p \in job.dirty
          /\ p \in job'.removed <=> p \in job.removed
      BY <2>2, <2>5
    <3>. QED
      BY <1>0, <1>2, <1>13, <2>1, <2>3, <3>1, <3>2, CoveredSame DEF SameJob, Reads
  <2>. QED
    BY <2>4, <2>5
<1>14. CASE StartJob
  BY <1>0, <1>14, CoveredStart
<1>15. CASE Scan
  BY <1>0, <1>15, CoveredScan
<1>16. ASSUME NEW q \in Paths, ReadFile(q) PROVE Covered(p)'
  <2>1. CASE p = q
    BY <1>0, <1>16, <2>1, CoveredRead
  <2>2. CASE p # q
    <3>1. /\ job # NoJob /\ SameJob(job', job) /\ job'.state = job.state
          /\ job'.removed = job.removed /\ job'.dirty = job.dirty \ {q} /\ job.read = <<>>
          /\ job.pc = "upload" /\ job'.pc \in {"upload", "commit"}
          /\ job'.read \in {<<>>, <<q, disk[q]>>}
      BY <1>0, <1>16, ReadFileTo, NotIdle
    <3>2. job' # NoJob /\ ~Reads(p) /\ ~Reads(p)'
      BY <2>2, <3>1 DEF NoJob, Reads
    <3>3. UNCHANGED <<disk, unseen, state, forgotten, pending>>
      BY <1>16 DEF ReadFile, diskVars, recordVars, historyVars
    <3>. QED
      BY <1>0, <1>2, <2>2, <3>1, <3>2, <3>3, CoveredSame DEF SameJob
  <2>. QED
    BY <2>1, <2>2
<1>17. CASE Commit
  <2>1. /\ job.read[1] \in Paths /\ job # NoJob /\ job.read # <<>> /\ job.pc = "commit"
    BY <1>0, <1>17, HeldText DEF Commit
  <2>2. CASE p = job.read[1]
    BY <1>0, <1>17, <2>2, CoveredCommit
  <2>3. CASE p # job.read[1]
    <3>1. /\ SameJob(job', job) /\ job'.read = <<>> /\ job'.pc = "upload"
          /\ job'.dirty = job.dirty /\ job'.removed = job.removed
          /\ job'.state.files[p] = job.state.files[p]
      BY <1>0, <1>17, <2>3, CommitTo
    <3>2. job' # NoJob /\ ~Reads(p) /\ ~Reads(p)'
      BY <2>3, <3>1 DEF NoJob, Reads
    <3>3. /\ UNCHANGED <<disk, unseen, state, pending>>
          /\ p \in forgotten <=> p \in forgotten'
      BY <1>17, <2>3 DEF Commit, PublishRead, diskVars, recordVars
    <3>. QED
      BY <1>0, <1>2, <2>1, <3>1, <3>2, <3>3, CoveredSame DEF SameJob
  <2>. QED
    BY <2>2, <2>3
<1>18. ASSUME NEW q \in Paths, RemoveOne(q) PROVE Covered(p)'
  <2>1. CASE p = q
    BY <1>0, <1>18, <2>1, CoveredRemoved
  <2>2. CASE p # q
    <3>1. /\ job # NoJob /\ SameJob(job', job) /\ job'.read = <<>> /\ job.read = <<>>
          /\ job.pc = "upload" /\ job'.pc = "upload" /\ job'.dirty = job.dirty
          /\ job'.removed = job.removed \ {q} /\ job'.state.files[p] = job.state.files[p]
      BY <1>0, <1>18, <2>2, RemoveOneTo, NotIdle
    <3>2. job' # NoJob /\ ~Reads(p) /\ ~Reads(p)'
      BY <3>1 DEF NoJob, Reads
    <3>3. /\ UNCHANGED <<disk, unseen, state, pending>>
          /\ p \in forgotten <=> p \in forgotten'
      BY <1>18, <2>2 DEF RemoveOne, diskVars, recordVars
    <3>. QED
      BY <1>0, <1>2, <2>2, <3>1, <3>2, <3>3, CoveredSame DEF SameJob
  <2>. QED
    BY <2>1, <2>2
<1>19. CASE Finish
  BY <1>0, <1>19, CoveredFinish
<1>20. CASE FailJob
  <2>1. job # NoJob
    BY <1>0, <1>20, BusyJob DEF FailJob
  <2>. QED
    BY <1>0, <1>20, <2>1, CoveredPutBack DEF FailJob, diskVars, recordVars, historyVars
<1>21. CASE CommitLost
  <2>1. job # NoJob /\ job.read # <<>>
    BY <1>0, <1>21, HeldText DEF CommitLost
  <2>2. p \notin forgotten' => p \notin forgotten \/ Reads(p)
    BY <1>21, <2>1 DEF CommitLost, PublishRead, Reads
  <2>. QED
    BY <1>0, <1>21, <2>1, <2>2, CoveredPutBack DEF CommitLost, diskVars, recordVars
<1>22. CASE FailLapsed
  BY <1>0, <1>22, CoveredLapsed
<1>23. CASE FailMissing \/ FailAuth \/ Crash \/ TurnOff \/ Start
  BY <1>23 DEF FailMissing, FailAuth, Crash, TurnOff, Start
<1>. QED
  BY <1>3, <1>4, <1>5, <1>5b, <1>6, <1>7, <1>8, <1>9, <1>10, <1>11, <1>12, <1>13, <1>14, <1>15,
     <1>16, <1>17, <1>18, <1>19, <1>20, <1>21, <1>22, <1>23
     DEF Next, Worker, Mishap, Account, User, Watcher

(* A session that starts starts with a catch-up.                           *)
LEMMA SessionStarts == ASSUME TypeInv, Next, ~session, session' PROVE pending'.catchUp
<1>0. TypeOK /\ Shape /\ Documented /\ pending \in Job
  BY DEF TypeInv, TypeOK
<1>1. CASE Start
  BY <1>0, <1>1 DEF Start, FullPass, Job
<1>2. ASSUME NEW k, BeginPairing(k) PROVE pending'.catchUp
  BY <1>0, <1>2 DEF BeginPairing, FullPass, Job
<1>3. ASSUME session' = session PROVE FALSE
  BY <1>3
<1>4. CASE Poll \/ StartJob \/ Scan \/ Fetch \/ EndDrain \/ EndUploads \/ Commit \/ Ack
           \/ Finish \/ FailLapsed \/ BlockWrite \/ FailJob \/ CommitLost \/ SyncNow \/ LoseKey
           \/ DeleteCopy \/ SweepVault
  BY <1>3, <1>4 DEF Poll, StartJob, Scan, Fetch, EndDrain, EndUploads, Commit, Ack, Finish,
     FailLapsed, BlockWrite, FailJob, CommitLost, SyncNow, LoseKey, DeleteCopy, SweepVault,
     sessionVars, deskVars
<1>5. CASE Lapse \/ Renew
  BY <1>3, <1>5, Zenon DEF Lapse, Renew, deskVars, sessionVars
<1>6. ASSUME NEW p \in Paths, \/ ReadFile(p) \/ RemoveOne(p) \/ Edit(p) \/ Undo(p) \/ Remove(p)
                              \/ Watch(p)
      PROVE  FALSE
  BY <1>3, <1>6 DEF ReadFile, RemoveOne, Edit, Undo, Remove, Watch, sessionVars, deskVars
<1>7. ASSUME NEW w, TakeWrite(w) PROVE FALSE
  BY <1>3, <1>7 DEF TakeWrite, sessionVars
<1>8. ASSUME NEW c, NEW d, PhoneWrites(c, d) PROVE FALSE
  BY <1>3, <1>8 DEF PhoneWrites, deskVars, sessionVars
<1>8b. CASE PhonePairs
  BY <1>3, <1>8b DEF PhonePairs, deskVars, sessionVars
<1>9. CASE FailMissing \/ FailAuth \/ Crash \/ TurnOff
  BY <1>9 DEF FailMissing, FailAuth, Crash, TurnOff
<1>. QED
  BY <1>1, <1>2, <1>4, <1>5, <1>6, <1>7, <1>8, <1>8b, <1>9
     DEF Next, Worker, Mishap, Account, User, Watcher

(* Every step keeps the coverage.                                          *)
LEMMA CoverageStep == ASSUME TypeInv, Coverage, Next PROVE Coverage'
<1>. SUFFICES ASSUME session', NEW p \in Paths PROVE Covered(p)'
  BY DEF Coverage
<1>1. CASE session
  BY <1>1, CoveredStep
<1>2. CASE ~session
  BY <1>2, SessionStarts, CoveredComing
<1>. QED
  BY <1>1, <1>2

(* Nothing is in the folder yet, and a catch-up is due.                    *)
LEMMA CoverageInit == ASSUME Init PROVE Coverage
<1>1. pending.catchUp
  BY DEF Init, NoWork
<1>. QED
  BY <1>1 DEF Coverage, Covered, Coming

(* The coverage holds throughout.                                          *)
LEMMA CoverageHolds == Spec => []Coverage
<1>1. Coverage /\ UNCHANGED vars => Coverage'
  <2>. SUFFICES ASSUME Coverage, UNCHANGED vars, session', NEW p \in Paths PROVE Covered(p)'
    BY DEF Coverage
  <2>1. UNCHANGED <<disk, unseen, state, forgotten, pending, job, session>>
    BY DEF vars, diskVars, deskVars, sessionVars, recordVars, historyVars
  <2>2. SameWork(p, pending', pending) /\ Covered(p)
    BY <2>1 DEF SameWork, Coverage
  <2>. QED
    BY <2>1, <2>2, CoveredSame
<1>2. TypeInv /\ Coverage /\ [Next]_vars => Coverage'
  BY <1>1, CoverageStep
<1>3. Init => TypeInv /\ Coverage
  BY TypeInit, CoverageInit
<1>. QED
  BY <1>2, <1>3, TypeStep, PTL DEF Spec

(* A desk with nothing left to do has uploaded every note as it is on      *)
(* disk, whatever was edited, written by the phone, failed, retried or     *)
(* crashed while jobs ran, apart from the paths its known gaps left.       *)
THEOREM NothingLeftToSync == Spec => []SettledIsSynced
<1>1. TypeInv /\ Records /\ Coverage => SettledIsSynced
  <2>. SUFFICES ASSUME TypeInv, Records, Coverage, Settled, NEW p \in Paths \ forgotten, Tracked(p)
                PROVE  Synced(p)
    BY DEF SettledIsSynced
  <2>1. Match(state, p)
    BY DEF Coverage, Covered, Settled, Coming, Retried, Need, NoWork
  <2>2. CASE OnDisk(p)
    <3>1. state.files[p] # NoRecord /\ state.files[p].text = disk[p]
      BY <2>1, <2>2 DEF Match, OnDisk, NoRecord
    <3>2. state.files[p].version > 0 /\ state.files[p].epoch = epoch
      BY <3>1 DEF Records, KnownNow, Known, Tracked, TrackedBy
    <3>3. IsLive(files[p]) /\ state.files[p].version = files[p].version
      BY <3>2 DEF Tracked, TrackedBy
    <3>4. files[p].blob = state.files[p].version
          /\ contents[state.files[p].version] = state.files[p].text
      BY <3>1, <3>2, <3>3 DEF Records, Rows, KnownNow, Known
    <3>. QED
      BY <2>2, <3>1, <3>3, <3>4 DEF Synced
  <2>3. CASE ~OnDisk(p)
    <3>1. state.files[p].version = 0
      BY <2>1, <2>3 DEF Match, NoRecord
    <3>2. ~IsLive(files[p])
      BY <3>1 DEF Tracked, TrackedBy, IsLive
    <3>. QED
      BY <2>3, <3>2 DEF Synced
  <2>. QED
    BY <2>2, <2>3
<1>2. Init => TypeInv /\ Records
  BY TypeInit, RecordsInit
<1>. QED
  BY <1>1, <1>2, TypeStep, RecordsInductive, CoverageHolds, PTL DEF Spec

(* Through lapses, pairings and turning sync off, a note that the desk     *)
(* left behind has not been touched since it was recorded: what is new or  *)
(* was edited while no session ran is always brought up.                   *)
THEOREM HiddenIsUntouched == Spec => []OnlyUntouchedHidden
<1>1. Coverage /\ SettledIsSynced => OnlyUntouchedHidden
  <2>. SUFFICES ASSUME Coverage, SettledIsSynced, Settled, NEW p \in Paths \ forgotten,
                       OnDisk(p), ~Synced(p)
                PROVE  state.files[p].text = disk[p] /\ ~Tracked(p)
    BY DEF OnlyUntouchedHidden
  <2>1. Match(state, p)
    BY DEF Coverage, Covered, Settled, Coming, Retried, Need, NoWork
  <2>. QED
    BY <2>1 DEF Match, SettledIsSynced
<1>. QED
  BY <1>1, CoverageHolds, NothingLeftToSync, PTL

-------------------------------------------------------------------------------
(* QuietlySynced *)

Calm == faults = 0 /\ lapses = 0 /\ pairings = 0

(* The records s are up to date with the server's rows.                    *)
Tracks(s, fs) ==
    \A p \in Paths : s.files[p].version = IF IsLive(fs[p]) THEN fs[p].version ELSE 0

(* The session and the copy it was started with are still there.           *)
Steady == session /\ Served /\ ~deleting /\ epoch = 0

(* A note that is on disk and in the work as vanished is about to be       *)
(* reported, so no job tombstones a note and forgets it.                   *)
Reported ==
    /\ \A p \in pending.removed : OnDisk(p) => p \in unseen
    /\ job # NoJob => \A p \in job.removed : OnDisk(p) => p \in unseen \cup pending.dirty

UpToDate ==
    /\ job = NoJob => Tracks(state, files)
    /\ job # NoJob => Tracks(job.state, files)

Quiet == Steady /\ forgotten = {} /\ Reported /\ UpToDate

(* The steps of a desk on which nothing failed, lapsed or was paired.      *)
Ordinary ==
    \/ Poll \/ StartJob \/ Scan \/ Fetch \/ EndDrain \/ EndUploads \/ Commit \/ Ack \/ Finish
    \/ SyncNow
    \/ job.pc = "take" /\ \E w \in job.queue : TakeWrite(w)
    \/ \E p \in Paths : ReadFile(p) \/ RemoveOne(p) \/ Edit(p) \/ Undo(p) \/ Remove(p) \/ Watch(p)
    \/ \E c \in ClientIds, d \in Docs : PhoneWrites(c, d)
    \/ PhonePairs

(* What is counted is never uncounted.                                     *)
LEMMA CalmBefore == ASSUME TypeInv, Next, Calm' PROVE Calm
<1>0. faults \in Nat /\ lapses \in Nat /\ pairings \in Nat /\ TypeOK /\ Shape
  BY Bounds DEF TypeInv, TypeOK
<1>1. CASE Poll \/ StartJob \/ Scan \/ Fetch \/ EndDrain \/ EndUploads \/ Ack \/ Finish
           \/ FailLapsed \/ FailMissing \/ Start \/ SyncNow
  BY <1>1 DEF Poll, StartJob, Scan, Fetch, EndDrain, EndUploads, Ack, Finish,
     FailLapsed, FailMissing, Start, SyncNow, boundVars, Calm
<1>2. CASE Commit \/ DeleteCopy \/ SweepVault
  BY <1>2 DEF Commit, DeleteCopy, SweepVault, boundVars, Calm
<1>3. CASE Renew
  BY <1>3, Zenon DEF Renew, boundVars, Calm
<1>4. CASE Lapse
  <2>1. lapses' = lapses + 1
    BY <1>4, Zenon DEF Lapse
  <2>. QED
    BY <1>0, <2>1 DEF Calm
<1>5. CASE BlockWrite \/ FailJob \/ CommitLost \/ FailAuth \/ Crash
  BY <1>0, <1>5 DEF BlockWrite, FailJob, CommitLost, FailAuth, Crash, Calm
<1>6. CASE LoseKey \/ TurnOff \/ \E k \in KeyChecks : BeginPairing(k)
  BY <1>0, <1>6 DEF LoseKey, TurnOff, BeginPairing, Calm
<1>7. ASSUME NEW p \in Paths, \/ ReadFile(p) \/ RemoveOne(p) \/ Edit(p) \/ Undo(p) \/ Remove(p)
                              \/ Watch(p)
      PROVE  Calm
  BY <1>7 DEF ReadFile, RemoveOne, Edit, Undo, Remove, Watch, boundVars, Calm
<1>8. ASSUME NEW w, TakeWrite(w) PROVE Calm
  BY <1>8 DEF TakeWrite, boundVars, Calm
<1>9. ASSUME NEW c, NEW d, PhoneWrites(c, d) PROVE Calm
  BY <1>9 DEF PhoneWrites, boundVars, Calm
<1>9b. CASE PhonePairs
  BY <1>9b DEF PhonePairs, boundVars, Calm
<1>. QED
  BY <1>1, <1>2, <1>3, <1>4, <1>5, <1>6, <1>7, <1>8, <1>9, <1>9b
     DEF Next, Worker, Mishap, Account, User, Watcher

(* ... so a calm desk takes ordinary steps only.                           *)
LEMMA CalmSteps == ASSUME TypeInv, Next, Calm', Steady PROVE Ordinary
<1>0. Calm
  BY CalmBefore
<1>1. ~Start /\ ~DeleteCopy /\ ~SweepVault /\ ~FailLapsed /\ ~FailMissing
  BY DEF Steady, Served, Start, DeleteCopy, SweepVault, FailLapsed, FailMissing
<1>2. ~Renew
  <2>1. vault.lapsed \in BOOLEAN /\ ~vault.lapsed
    BY DEF TypeInv, TypeOK, StoreTypeOK, VaultRow, Steady, Served
  <2>2. vault.lapsed = FALSE
    BY <2>1
  <2>. QED
    BY <2>2, Zenon DEF Renew, SetVaultLapsed
<1>3. ~Lapse
  <2>1. Lapse => lapses' = lapses + 1
    BY Zenon DEF Lapse
  <2>. QED
    BY <1>0, <2>1 DEF Calm
<1>4. ~BlockWrite /\ ~FailJob /\ ~CommitLost /\ ~FailAuth /\ ~Crash
  BY <1>0 DEF BlockWrite, FailJob, CommitLost, FailAuth, Crash, Calm
<1>5. ~LoseKey /\ ~TurnOff /\ \A k \in KeyChecks : ~BeginPairing(k)
  BY <1>0 DEF LoseKey, TurnOff, BeginPairing, Calm
<1>. QED
  BY <1>1, <1>2, <1>3, <1>4, <1>5 DEF Next, Worker, Mishap, Account, User, Watcher, Ordinary

(* The session, the copy and the count of wiped copies.                    *)
LEMMA SteadyStep == ASSUME TypeInv, Steady, Ordinary PROVE Steady'
<1>0. TypeOK /\ Shape
  BY DEF TypeInv
<1>1. ASSUME UNCHANGED <<session, deleting, epoch>>, vault'.exists = vault.exists,
             vault'.lapsed = vault.lapsed
      PROVE  Steady'
  BY <1>1 DEF Steady, Served
<1>2. CASE Poll \/ StartJob \/ Scan \/ Fetch \/ EndDrain \/ EndUploads \/ Finish \/ SyncNow
  BY <1>1, <1>2 DEF Poll, StartJob, Scan, Fetch, EndDrain, EndUploads, Finish, SyncNow,
     sessionVars, storeVars, historyVars
<1>3. CASE Ack
  <2>1. vault'.exists = vault.exists /\ vault'.lapsed = vault.lapsed
    BY <1>0, <1>3 DEF Ack, AckWrites, storeVars, TypeOK, StoreTypeOK, VaultRow
  <2>. QED
    BY <1>1, <1>3, <2>1 DEF Ack, sessionVars, historyVars
<1>4. CASE Commit
  <2>1. vault'.exists = vault.exists /\ vault'.lapsed = vault.lapsed
    BY <1>0, <1>4, HeldText, PublishTo DEF Commit
  <2>. QED
    BY <1>1, <1>4, <2>1 DEF Commit, sessionVars
<1>5. ASSUME NEW w, TakeWrite(w) PROVE Steady'
  BY <1>1, <1>5 DEF TakeWrite, storeVars, sessionVars, historyVars
<1>6. ASSUME NEW p \in Paths, ReadFile(p) \/ Edit(p) \/ Undo(p) \/ Remove(p) \/ Watch(p)
      PROVE  Steady'
  BY <1>1, <1>6 DEF ReadFile, Edit, Undo, Remove, Watch, storeVars, sessionVars, deskVars,
     historyVars
<1>7. ASSUME NEW p \in Paths, RemoveOne(p) PROVE Steady'
  <2>1. vault'.exists = vault.exists /\ vault'.lapsed = vault.lapsed
    BY <1>0, <1>7 DEF RemoveOne, TombstoneFile, storeVars, TypeOK, StoreTypeOK, VaultRow
  <2>. QED
    BY <1>1, <1>7, <2>1 DEF RemoveOne, sessionVars
<1>8. ASSUME NEW c, NEW d, PhoneWrites(c, d) PROVE Steady'
  <2>1. vault'.exists = vault.exists /\ vault'.lapsed = vault.lapsed
    BY <1>0, <1>8 DEF PhoneWrites, EnqueueWrite, TypeOK, StoreTypeOK, VaultRow
  <2>. QED
    BY <1>1, <1>8, <2>1 DEF PhoneWrites, deskVars, sessionVars, historyVars
<1>8b. CASE PhonePairs
  BY <1>0, <1>1, <1>8b DEF PhonePairs, deskVars, sessionVars, historyVars, TypeOK, StoreTypeOK, VaultRow
<1>. QED
  BY <1>2, <1>3, <1>4, <1>5, <1>6, <1>7, <1>8, <1>8b DEF Ordinary

(* No path is forgotten.                                                   *)
LEMMA NoneForgotten == ASSUME TypeInv, Quiet, Ordinary PROVE forgotten' = {}
<1>0. TypeOK /\ Shape /\ forgotten = {}
  BY DEF TypeInv, Quiet
<1>1. CASE Poll \/ StartJob \/ Scan \/ Fetch \/ EndDrain \/ EndUploads \/ Finish \/ SyncNow
           \/ Ack
  BY <1>0, <1>1 DEF Poll, StartJob, Scan, Fetch, EndDrain, EndUploads, Finish, SyncNow, Ack,
     historyVars
<1>2. CASE Commit
  BY <1>0, <1>2 DEF Commit, PublishRead
<1>3. ASSUME NEW w, TakeWrite(w) PROVE forgotten' = {}
  BY <1>0, <1>3 DEF TakeWrite, historyVars
<1>4. ASSUME NEW p \in Paths, ReadFile(p) \/ Edit(p) \/ Undo(p) \/ Remove(p) \/ Watch(p)
      PROVE  forgotten' = {}
  BY <1>0, <1>4 DEF ReadFile, Edit, Undo, Remove, Watch, historyVars
<1>5. ASSUME NEW p \in Paths, RemoveOne(p) PROVE forgotten' = {}
  <2>1. OnDisk(p) => p \in unseen \cup pending.dirty
    BY <1>0, <1>5, RemoveOneTo, NotIdle DEF Quiet, Reported
  <2>. QED
    BY <1>0, <1>5, <2>1 DEF RemoveOne
<1>6. ASSUME NEW c, NEW d, PhoneWrites(c, d) PROVE forgotten' = {}
  BY <1>0, <1>6 DEF PhoneWrites, historyVars
<1>6b. CASE PhonePairs
  BY <1>0, <1>6b DEF PhonePairs, historyVars
<1>. QED
  BY <1>1, <1>2, <1>3, <1>4, <1>5, <1>6, <1>6b DEF Ordinary

(* What is on disk and counted as vanished is reported.                    *)
LEMMA ReportedStep == ASSUME TypeInv, Reported, Steady, Ordinary PROVE Reported'
<1>0. TypeOK /\ Shape /\ Documented /\ pending \in Job
  BY DEF TypeInv, TypeOK
<1>1. ASSUME UNCHANGED <<disk, unseen>>, pending'.removed = pending.removed,
             pending'.dirty = pending.dirty,
             job' # NoJob => job # NoJob /\ job'.removed \subseteq job.removed
      PROVE  Reported'
  BY <1>1 DEF Reported, OnDisk
<1>2. CASE Poll \/ SyncNow \/ Finish
  <2>1. pending'.removed = pending.removed /\ pending'.dirty = pending.dirty
    BY <1>0, <1>2 DEF Poll, SyncNow, Finish, FullPass, Job
  <2>. QED
    BY <1>1, <1>2, <2>1 DEF Poll, SyncNow, Finish, diskVars
<1>3. CASE Fetch \/ EndDrain \/ EndUploads
  <2>1. job # NoJob /\ job'.removed = job.removed
    BY <1>0, <1>3, MoveTo, NotIdle DEF MovedJob
  <2>. QED
    BY <1>1, <1>3, <2>1 DEF Fetch, EndDrain, EndUploads, diskVars
<1>4. CASE Ack
  <2>1. job # NoJob /\ job'.removed = job.removed
    BY <1>0, <1>4, AckTo, NotIdle DEF MovedJob
  <2>. QED
    BY <1>1, <1>4, <2>1 DEF Ack, diskVars
<1>5. CASE Commit
  <2>1. job # NoJob /\ job'.removed = job.removed
    BY <1>0, <1>5, CommitTo, HeldText DEF Commit
  <2>. QED
    BY <1>1, <1>5, <2>1 DEF Commit, diskVars
<1>6. ASSUME NEW p \in Paths, ReadFile(p) PROVE Reported'
  <2>1. job # NoJob /\ job'.removed = job.removed
    BY <1>0, <1>6, ReadFileTo, NotIdle
  <2>. QED
    BY <1>1, <1>6, <2>1 DEF ReadFile, diskVars
<1>7. ASSUME NEW p \in Paths, RemoveOne(p) PROVE Reported'
  <2>1. job # NoJob /\ job'.removed \subseteq job.removed
    BY <1>0, <1>7, RemoveOneTo, NotIdle
  <2>. QED
    BY <1>1, <1>7, <2>1 DEF RemoveOne, diskVars
<1>8. ASSUME NEW c, NEW d, PhoneWrites(c, d) PROVE Reported'
  BY <1>1, <1>8 DEF PhoneWrites, deskVars
<1>8b. CASE PhonePairs
  BY <1>1, <1>8b DEF PhonePairs, diskVars, deskVars
<1>9. CASE StartJob
  <2>1. job'.removed = pending.removed
    BY <1>0, <1>9, StartJobTo
  <2>2. UNCHANGED <<disk, unseen>> /\ pending'.removed = {}
    BY <1>9 DEF StartJob, diskVars, NoWork
  <2>. QED
    BY <2>1, <2>2 DEF Reported, OnDisk
<1>10. CASE Scan
  <2>1. job # NoJob /\ \A p \in job'.removed : p \in job.removed \/ ~OnDisk(p)
    BY <1>0, <1>10, ScanTo, RunningJob DEF Scan, TypeOK, Pcs
  <2>2. UNCHANGED <<disk, unseen, pending>>
    BY <1>10 DEF Scan, diskVars
  <2>. QED
    BY <2>1, <2>2 DEF Reported, OnDisk
<1>11. ASSUME NEW q \in Paths, Edit(q) \/ Undo(q) \/ Remove(q) PROVE Reported'
  <2>1. /\ \A p \in Paths : p \in unseen' \/ disk'[p] = disk[p]
        /\ \A p \in unseen : p \in unseen'
        /\ UNCHANGED <<pending, job>>
    BY <1>0, <1>11 DEF Edit, Undo, Remove, TypeOK, deskVars
  <2>2. pending.removed \subseteq Paths /\ (job # NoJob => job.removed \subseteq Paths)
    BY <1>0, RunningJob DEF TypeOK, Job, Running
  <2>. QED
    BY <2>1, <2>2 DEF Reported, OnDisk
<1>12. ASSUME NEW q \in Paths, Watch(q) PROVE Reported'
  <2>1. /\ UNCHANGED <<disk, job>> /\ unseen' = unseen \ {q}
    BY <1>12 DEF Watch
  <2>2. /\ OnDisk(q) => pending'.dirty = pending.dirty \cup {q}
                        /\ pending'.removed = pending.removed \ {q}
        /\ ~OnDisk(q) => pending'.dirty = pending.dirty \ {q}
                         /\ pending'.removed = pending.removed \cup {q}
    BY <1>0, <1>12 DEF Watch, Job, Steady
  <2>. QED
    BY <2>1, <2>2 DEF Reported, OnDisk
<1>13. ASSUME job.pc = "take", NEW w \in job.queue, TakeWrite(w) PROVE Reported'
  <2>1. PICK changed \in SUBSET Paths, removed \in SUBSET Paths :
            /\ AppliedTo(disk', changed, removed)
            /\ unseen' = unseen \cup changed \cup removed
            /\ job'.removed = job.removed \cup removed
    BY <1>0, <1>13, TakeWriteTo
  <2>2. job # NoJob /\ pending' = pending
    BY <1>0, <1>13, TakeWriteTo, NotIdle DEF TakeWrite
  <2>3. pending.removed \subseteq Paths /\ job.removed \subseteq Paths
    BY <1>0, <2>2, RunningJob DEF TypeOK, Job, Running
  <2>4. \A p \in Paths : p \in unseen' \/ disk'[p] = disk[p]
    BY <2>1 DEF AppliedTo
  <2>. QED
    BY <2>1, <2>2, <2>3, <2>4 DEF Reported, OnDisk
<1>. QED
  BY <1>2, <1>3, <1>4, <1>5, <1>6, <1>7, <1>8, <1>8b, <1>9, <1>10, <1>11, <1>12, <1>13 DEF Ordinary

(* The records keep up with the rows.                                      *)
LEMMA UpToDateStep == ASSUME TypeInv, UpToDate, Ordinary PROVE UpToDate'
<1>0. TypeOK /\ Shape /\ Documented
  BY DEF TypeInv
<1>1. ASSUME UNCHANGED <<files, state>>,
             job' # NoJob => job # NoJob /\ job'.state.files = job.state.files,
             job' = NoJob => job = NoJob
      PROVE  UpToDate'
  BY <1>1 DEF UpToDate, Tracks
<1>2. CASE Poll \/ SyncNow
  BY <1>1, <1>2 DEF Poll, SyncNow, storeVars, recordVars
<1>3. CASE Fetch \/ EndDrain \/ EndUploads
  <2>1. job # NoJob /\ MovedJob(job', job) /\ job'.state = job.state
    BY <1>0, <1>3, MoveTo, NotIdle
  <2>2. job' # NoJob
    BY <2>1 DEF MovedJob, NoJob, Running
  <2>. QED
    BY <1>1, <1>3, <2>1, <2>2 DEF Fetch, EndDrain, EndUploads, storeVars, recordVars
<1>4. CASE Ack
  <2>1. job # NoJob /\ job'.state.files = job.state.files /\ job'.pc = "finish"
    BY <1>0, <1>4, AckTo, NotIdle
  <2>2. job' # NoJob
    BY <2>1 DEF NoJob
  <2>3. UNCHANGED <<files, state>>
    BY <1>4 DEF Ack, AckWrites, storeVars, recordVars
  <2>. QED
    BY <1>1, <2>1, <2>2, <2>3
<1>5. CASE Commit
  <2>1. PICK p \in Paths, text \in Texts :
            p = job.read[1] /\ text = job.read[2] /\ PublishRead(p, text)
    BY <1>0, <1>5, HeldText DEF Commit
  <2>2. PICK lv \in Nat : lv = vault.latestVersion
    BY <1>0 DEF TypeOK, StoreTypeOK, VaultRow
  <2>3. /\ job # NoJob /\ job'.pc = "upload" /\ job'.state.files[p].version = lv + 1
        /\ \A q \in Paths \ {p} : job'.state.files[q] = job.state.files[q]
    BY <1>0, <1>5, <2>1, <2>2, CommitTo, HeldText DEF Commit
  <2>4. /\ files'[p] = LiveRow(lv + 1, lv + 1, 1)
        /\ \A q \in Paths \ {p} : files'[q] = files[q]
    BY <1>0, <2>1, <2>2, PublishTo
  <2>5. files'[p].version = lv + 1 /\ IsLive(files'[p])
    BY <2>4 DEF LiveRow, IsLive
  <2>6. job' # NoJob
    BY <2>3 DEF NoJob
  <2>. QED
    BY <2>3, <2>4, <2>5, <2>6 DEF UpToDate, Tracks
<1>6. ASSUME NEW p \in Paths, ReadFile(p) PROVE UpToDate'
  <2>1. job # NoJob /\ job'.state = job.state /\ job'.pc \in {"upload", "commit"}
    BY <1>0, <1>6, ReadFileTo, NotIdle
  <2>2. job' # NoJob
    BY <2>1 DEF NoJob
  <2>. QED
    BY <1>1, <1>6, <2>1, <2>2 DEF ReadFile, storeVars, recordVars
<1>7. ASSUME NEW p \in Paths, RemoveOne(p) PROVE UpToDate'
  <2>1. /\ job # NoJob /\ job'.pc = "upload" /\ job'.state.files[p] = NoRecord
        /\ \A q \in Paths \ {p} : job'.state.files[q] = job.state.files[q]
    BY <1>0, <1>7, RemoveOneTo, NotIdle
  <2>2. job' # NoJob
    BY <2>1 DEF NoJob
  <2>3. NoRecord.version = 0 /\ Tracks(job.state, files)
    BY <2>1 DEF NoRecord, UpToDate
  <2>4. CASE job.state.files[p] = NoRecord /\ UNCHANGED storeVars
    BY <2>1, <2>2, <2>3, <2>4 DEF UpToDate, Tracks, storeVars
  <2>5. CASE ~IsLive(files[p]) /\ UNCHANGED storeVars
    BY <2>1, <2>2, <2>3, <2>5 DEF UpToDate, Tracks, storeVars
  <2>6. CASE TombstoneFile(p, files[p].version)
    <3>1. ~IsLive(files'[p]) /\ \A q \in Paths \ {p} : files'[q] = files[q]
      BY <1>0, <2>6 DEF TombstoneFile, Tombstone, IsLive, TypeOK, StoreTypeOK
    <3>. QED
      BY <2>1, <2>2, <2>3, <3>1 DEF UpToDate, Tracks
  <2>. QED
    BY <1>7, <2>4, <2>5, <2>6 DEF RemoveOne
<1>8. ASSUME NEW c, NEW d, PhoneWrites(c, d) PROVE UpToDate'
  BY <1>1, <1>8 DEF PhoneWrites, EnqueueWrite, deskVars, recordVars
<1>8b. CASE PhonePairs
  BY <1>1, <1>8b DEF PhonePairs, deskVars, recordVars
<1>9. CASE StartJob
  <2>1. job = NoJob /\ job'.state = state /\ UNCHANGED <<files, state>> /\ job'.pc = "scan"
    BY <1>0, <1>9, StartJobTo DEF StartJob, storeVars, recordVars
  <2>2. job' # NoJob
    BY <2>1 DEF NoJob
  <2>. QED
    BY <2>1, <2>2 DEF UpToDate, Tracks
<1>10. CASE Scan
  <2>1. job # NoJob /\ job'.state = job.state /\ job'.pc \in {"fetch", "upload"}
    BY <1>0, <1>10, ScanTo, RunningJob DEF Scan, TypeOK, Pcs
  <2>2. job' # NoJob
    BY <2>1 DEF NoJob
  <2>. QED
    BY <1>1, <1>10, <2>1, <2>2 DEF Scan, storeVars, recordVars
<1>11. ASSUME NEW q \in Paths, Edit(q) \/ Undo(q) \/ Remove(q) \/ Watch(q) PROVE UpToDate'
  BY <1>1, <1>11 DEF Edit, Undo, Remove, Watch, storeVars, deskVars, recordVars
<1>12. ASSUME job.pc = "take", NEW w \in job.queue, TakeWrite(w) PROVE UpToDate'
  <2>1. job # NoJob /\ job'.state = job.state /\ job'.pc = "take"
    BY <1>0, <1>12, TakeWriteTo, NotIdle
  <2>2. job' # NoJob
    BY <2>1 DEF NoJob
  <2>. QED
    BY <1>1, <1>12, <2>1, <2>2 DEF TakeWrite, storeVars, recordVars
<1>13. CASE Finish
  <2>1. job # NoJob
    BY <1>0, <1>13, RunningJob DEF Finish, TypeOK, Pcs
  <2>. QED
    BY <1>13, <2>1 DEF Finish, storeVars, UpToDate, Tracks
<1>. QED
  BY <1>2, <1>3, <1>4, <1>5, <1>6, <1>7, <1>8, <1>8b, <1>9, <1>10, <1>11, <1>12, <1>13 DEF Ordinary

(* Where nothing failed, lapsed or was paired anew, a desk with nothing    *)
(* left to do has every note at the server, with no exception, whatever    *)
(* was edited between any two steps of the worker.                         *)
THEOREM QuietDeskIsSynced == Spec => []QuietlySynced
<1>1. Init => Quiet
  <2>. SUFFICES ASSUME Init PROVE Quiet
    OBVIOUS
  <2>1. vault.exists /\ ~vault.lapsed
    BY DEF Init, BlankVault
  <2>2. Steady /\ forgotten = {}
    BY <2>1 DEF Init, Steady, Served
  <2>3. Reported
    BY DEF Init, Reported, NoWork
  <2>4. UpToDate
    BY DEF Init, UpToDate, Tracks, NoState, NoRecord, NoRow, IsLive
  <2>. QED
    BY <2>2, <2>3, <2>4 DEF Quiet
<1>2. TypeInv /\ (Calm => Quiet) /\ [Next]_vars => (Calm => Quiet)'
  <2>. SUFFICES ASSUME TypeInv, Calm => Quiet, [Next]_vars, Calm' PROVE Quiet'
    OBVIOUS
  <2>1. CASE UNCHANGED vars
    <3>1. /\ UNCHANGED <<vault, files, disk, unseen, session, deleting, state, pending, job>>
          /\ UNCHANGED <<epoch, forgotten, faults, lapses, pairings>>
      BY <2>1 DEF vars, storeVars, diskVars, deskVars, sessionVars, recordVars, historyVars,
                  boundVars
    <3>2. Quiet
      BY <3>1 DEF Calm
    <3>. QED
      BY <3>1, <3>2 DEF Quiet, Steady, Served, Reported, OnDisk, UpToDate, Tracks
  <2>2. CASE Next
    <3>1. Quiet
      BY <2>2, CalmBefore
    <3>2. Ordinary
      BY <2>2, <3>1, CalmSteps DEF Quiet
    <3>. QED
      BY <3>1, <3>2, SteadyStep, NoneForgotten, ReportedStep, UpToDateStep DEF Quiet
  <2>. QED
    BY <2>1, <2>2
<1>3. TypeInv /\ Records /\ SettledIsSynced /\ (Calm => Quiet) => QuietlySynced
  <2>. SUFFICES ASSUME TypeInv, Records, SettledIsSynced, Quiet, Settled, NEW p \in Paths
                PROVE  Synced(p)
    BY DEF QuietlySynced, SettledAlwaysSynced, Calm
  <2>1. p \in Paths \ forgotten
    BY DEF Quiet
  <2>2. state \in LocalState /\ epoch = 0 /\ Tracks(state, files)
    BY DEF TypeInv, TypeOK, Quiet, Steady, UpToDate, Settled
  <2>3. state.files[p].epoch \in Nat
    BY <2>2, RecordTypes
  <2>4. state.files[p] # NoRecord => state.files[p].epoch = epoch
    BY <2>2, <2>3 DEF Records, KnownNow, Known
  <2>5. Tracked(p)
    BY <2>2, <2>4 DEF Tracked, TrackedBy, Tracks
  <2>. QED
    BY <2>1, <2>5 DEF SettledIsSynced
<1>. QED
  BY <1>1, <1>2, <1>3, TypeInit, TypeStep, RecordsInit, RecordsInductive, NothingLeftToSync, PTL
     DEF Spec
-------------------------------------------------------------------------------
(* AckCarriesEffects *)

(* The text a state s recorded shows the effect, or one of the gaps is     *)
(* at the path.                                                            *)
Sent(s, p, c) ==
    \/ c \in s.files[p].text.effects
    \/ p \in forgotten \/ files[p].deleted \/ ~TrackedBy(s, p)

(* The running job sends it before it acks.                                *)
Takes(p, c) ==
    \/ job.pc = "scan" /\ job.work.catchUp
    \/ Sent(job.state, p, c) \/ p \in job.dirty \/ Reads(p)

(* ... and should it fail, the next one looks at the path.                 *)
Returns(p, c) ==
    \/ Sent(state, p, c) \/ ~session \/ pending.catchUp \/ job.work.catchUp
    \/ p \in pending.dirty \/ p \in job.work.dirty \/ p \in unseen

(* No job runs, and the next one looks at the path: what a failed job left *)
(* behind, a prompt watcher reports before the retry.                      *)
Waits(p, c) ==
    \/ Sent(state, p, c) \/ ~session \/ pending.catchUp
    \/ p \in pending.dirty \/ (p \in unseen /\ backoff)

(* An effect a note shows is on its way to the server, or there.           *)
OnItsWay(p, c) ==
    c \in disk[p].effects =>
        IF job = NoJob THEN Waits(p, c)
        ELSE /\ Takes(p, c) /\ Returns(p, c)
             /\ Reads(p) => c \in job.read[2].effects

(* The records of the job are the desk's, but for what it sent.            *)
JobFollows(p) ==
    job # NoJob /\ session /\ ~pending.catchUp =>
        \/ job.state.files[p] = state.files[p]
        \/ files[p].deleted \/ ~TrackedBy(state, p)

(* A path the server never had a row of has no record.                     *)
Rowed(p) ==
    files[p].version = 0 =>
        /\ state.files[p] = NoRecord /\ saved.files[p] = NoRecord
        /\ job # NoJob => job.state.files[p] = NoRecord

(* All of it in the first copy: in a later one the records are of others.  *)
AckInv ==
    epoch = 0 =>
        /\ \A p \in Paths : Rowed(p) /\ JobFollows(p)
        /\ PromptWatcher => \A p \in Paths, c \in ClientIds \ revived : OnItsWay(p, c)

(* The files of a copy change by a commit or a removal only.               *)
LEMMA FilesChange ==
    ASSUME TypeInv, Next, epoch' = 0
    PROVE  /\ epoch = 0
           /\ files' = files \/ Commit \/ CommitLost \/ \E p \in Paths : RemoveOne(p)
<1>0. epoch \in Nat
  BY DEF TypeInv, TypeOK
<1>1. ASSUME UNCHANGED <<files, epoch>> PROVE epoch = 0 /\ files' = files
  BY <1>1
<1>2. CASE Poll \/ StartJob \/ Scan \/ Fetch \/ EndDrain \/ EndUploads \/ Finish \/ FailLapsed
           \/ FailMissing \/ Start \/ BlockWrite \/ FailJob \/ FailAuth \/ Crash \/ SyncNow
           \/ LoseKey \/ TurnOff
  BY <1>1, <1>2 DEF Poll, StartJob, Scan, Fetch, EndDrain, EndUploads, Finish, FailLapsed,
     FailMissing, Start, BlockWrite, FailJob, FailAuth, Crash, SyncNow, LoseKey, TurnOff,
     storeVars, historyVars
<1>3. ASSUME NEW p \in Paths, ReadFile(p) \/ Edit(p) \/ Undo(p) \/ Remove(p) \/ Watch(p)
      PROVE  epoch = 0 /\ files' = files
  BY <1>1, <1>3 DEF ReadFile, Edit, Undo, Remove, Watch, storeVars, historyVars
<1>4. ASSUME NEW w, TakeWrite(w) PROVE epoch = 0 /\ files' = files
  BY <1>1, <1>4 DEF TakeWrite, storeVars, historyVars
<1>5. ASSUME NEW c, NEW d, PhoneWrites(c, d) PROVE epoch = 0 /\ files' = files
  BY <1>1, <1>5 DEF PhoneWrites, EnqueueWrite, historyVars
<1>5b. CASE PhonePairs
  BY <1>1, <1>5b DEF PhonePairs, historyVars
<1>6. CASE Lapse \/ Renew
  <2>1. UNCHANGED <<files, epoch>>
    BY <1>6, Zenon DEF Lapse, Renew, SetVaultLapsed, historyVars
  <2>. QED
    BY <1>1, <2>1
<1>7. CASE Ack
  <2>1. UNCHANGED <<files, epoch>>
    BY <1>7 DEF Ack, AckWrites, storeVars, historyVars
  <2>. QED
    BY <1>1, <2>1
<1>8. CASE DeleteCopy \/ SweepVault
  BY <1>0, <1>1, <1>8 DEF DeleteCopy, SweepVault, storeVars
<1>9. ASSUME NEW k, BeginPairing(k) PROVE epoch = 0 /\ files' = files
  <2>1. \/ epoch' = epoch + 1
        \/ UNCHANGED epoch /\ (CreateVault(k) \/ AdoptKey(k) \/ UNCHANGED storeVars)
    BY <1>9 DEF BeginPairing, EnsureVault
  <2>2. epoch' # epoch + 1
    BY <1>0
  <2>3. UNCHANGED <<files, epoch>>
    BY <2>1, <2>2 DEF CreateVault, AdoptKey, storeVars
  <2>. QED
    BY <1>1, <2>3
<1>10. CASE Commit \/ CommitLost
  BY <1>10 DEF Commit, CommitLost
<1>11. ASSUME NEW p \in Paths, RemoveOne(p) PROVE epoch = 0
  BY <1>11 DEF RemoveOne
<1>. QED
  BY <1>2, <1>3, <1>4, <1>5, <1>5b, <1>6, <1>7, <1>8, <1>9, <1>10, <1>11
     DEF Next, Worker, Mishap, Account, User, Watcher

(* A published text is newer than the record the desk had of the path.     *)
LEMMA Outdated ==
    ASSUME TypeInv, Records, Commit \/ CommitLost, NEW p \in Paths
    PROVE  /\ job # NoJob /\ job.read # <<>> /\ job.read[1] \in Paths
           /\ p = job.read[1] => /\ files'[p].version > 0 /\ ~files'[p].deleted
                                 /\ ~TrackedBy(state, p)' /\ Reads(p)
           /\ p # job.read[1] => files'[p] = files[p] /\ ~Reads(p)
                                 /\ (p \in forgotten <=> p \in forgotten')
           /\ UNCHANGED <<state, saved, disk, unseen, session, epoch, revived>>
<1>0. TypeOK /\ Shape
  BY DEF TypeInv
<1>1. /\ job # NoJob /\ job.read # <<>> /\ job.read[1] \in Paths /\ job.read[2] \in Texts
      /\ PublishRead(job.read[1], job.read[2])
  BY <1>0, HeldText DEF Commit, CommitLost
<1>2. UNCHANGED <<state, saved, disk, unseen, session, epoch, revived>>
  BY DEF Commit, CommitLost, diskVars, sessionVars, recordVars
<1>3. ASSUME p = job.read[1]
      PROVE  /\ files'[p].version > 0 /\ ~files'[p].deleted /\ ~TrackedBy(state, p)'
  <2>1. PICK lv \in Nat : lv = vault.latestVersion
    BY <1>0, <1>1, PublishTo
  <2>2. files'[p] = LiveRow(lv + 1, lv + 1, 1)
    BY <1>0, <1>1, <1>3, <2>1, PublishTo
  <2>3. files'[p].version = lv + 1 /\ ~files'[p].deleted
    BY <2>2 DEF LiveRow
  <2>4. IsLive(files'[p])
    BY <2>1, <2>3 DEF IsLive
  <2>5. state.files[p] # NoRecord /\ state.files[p].epoch = epoch => state.files[p].version <= lv
    BY <2>1 DEF Records, KnownNow, Known
  <2>6. state.files[p] = NoRecord => state.files[p].version = 0
    BY DEF NoRecord
  <2>7. state.files[p].version \in Nat
    BY <1>0, RecordTypes DEF TypeOK
  <2>8. ~(/\ state.files[p].version = lv + 1
          /\ state.files[p] # NoRecord => state.files[p].epoch = epoch)
    BY <2>1, <2>5, <2>6, <2>7
  <2>9. ~TrackedBy(state, p)'
    BY <1>2, <2>3, <2>4, <2>8 DEF TrackedBy
  <2>. QED
    BY <2>1, <2>3, <2>9
<1>4. ASSUME p # job.read[1] PROVE files'[p] = files[p] /\ (p \in forgotten <=> p \in forgotten')
  BY <1>0, <1>1, <1>4, PublishTo DEF PublishRead
<1>. QED
  BY <1>1, <1>2, <1>3, <1>4 DEF Reads

(* A removed path is a tombstone, or was never uploaded.                   *)
LEMMA RemovedTo ==
    ASSUME TypeInv, NEW q \in Paths, Rowed(q), RemoveOne(q)
    PROVE  /\ \/ files'[q].deleted /\ files'[q].version > 0
              \/ files' = files /\ job.state.files[q] = NoRecord
                 /\ (q \in forgotten <=> q \in forgotten')
           /\ \A p \in Paths \ {q} : files'[p] = files[p] /\ (p \in forgotten <=> p \in forgotten')
<1>0. TypeOK /\ Shape
  BY DEF TypeInv
<1>1. CASE job.state.files[q] = NoRecord
  BY <1>1 DEF RemoveOne, storeVars
<1>2. CASE job.state.files[q] # NoRecord
  <2>1. job # NoJob
    BY <1>0, RemoveOneTo, NotIdle
  <2>2. files \in [Paths -> FileRow] /\ files[q].version > 0
    <3>1. files \in [Paths -> FileRow]
      BY <1>0 DEF TypeOK, StoreTypeOK
    <3>2. files[q].version \in Nat
      BY <3>1 DEF FileRow
    <3>. QED
      BY <1>2, <2>1, <3>1, <3>2 DEF Rowed
  <2>3. \A p \in Paths \ {q} : p \in forgotten <=> p \in forgotten'
    BY <1>2 DEF RemoveOne
  <2>4. CASE TombstoneFile(q, files[q].version)
    <3>1. PICK n \in Nat : n = vault.latestVersion
      BY <1>0 DEF TypeOK, StoreTypeOK, VaultRow
    <3>2. files' = [files EXCEPT ![q] = Tombstone(n + 1)]
      BY <2>4, <3>1 DEF TombstoneFile
    <3>3. files'[q] = Tombstone(n + 1) /\ \A p \in Paths \ {q} : files'[p] = files[p]
      BY <2>2, <3>2
    <3>4. files'[q].deleted /\ files'[q].version > 0
      BY <3>1, <3>3 DEF Tombstone
    <3>. QED
      BY <2>3, <3>3, <3>4
  <2>5. CASE ~IsLive(files[q]) /\ UNCHANGED storeVars
    <3>1. files' = files /\ files[q].deleted
      BY <2>2, <2>5 DEF IsLive, storeVars
    <3>. QED
      BY <2>2, <2>3, <3>1
  <2>. QED
    BY <1>2, <2>4, <2>5 DEF RemoveOne
<1>. QED
  BY <1>1, <1>2

(* Where a step takes the records of the desk from.                        *)
LEMMA RecordsMove ==
    ASSUME TypeInv, Next
    PROVE  /\ state' \in {state, saved, NoState} \/ (job # NoJob /\ state' = job.state)
           /\ saved' \in {saved, NoState} \/ (job # NoJob /\ saved' = job.state)
           /\ job' # NoJob =>
                 \/ job'.state = state
                 \/ job # NoJob /\ job'.state.files = job.state.files
                 \/ Commit \/ \E p \in Paths : RemoveOne(p)
<1>0. TypeOK /\ Shape /\ Documented
  BY DEF TypeInv
<1>1. CASE Poll \/ SyncNow \/ LoseKey \/ Start \/ Crash \/ TurnOff \/ FailLapsed \/ FailMissing
           \/ FailJob \/ FailAuth \/ SweepVault \/ DeleteCopy \/ CommitLost
  BY <1>1 DEF Poll, SyncNow, LoseKey, Start, Crash, TurnOff, FailLapsed, FailMissing, FailJob,
     FailAuth, SweepVault, DeleteCopy, CommitLost, recordVars, deskVars
<1>2. CASE Lapse \/ Renew
  <2>1. UNCHANGED <<state, saved, job>>
    BY <1>2, Zenon DEF Lapse, Renew, deskVars, recordVars
  <2>. QED
    BY <2>1
<1>3. ASSUME NEW p \in Paths, Edit(p) \/ Undo(p) \/ Remove(p) \/ Watch(p)
      PROVE  UNCHANGED <<state, saved, job>>
  BY <1>3 DEF Edit, Undo, Remove, Watch, deskVars, recordVars
<1>4. ASSUME NEW c, NEW d, PhoneWrites(c, d) PROVE UNCHANGED <<state, saved, job>>
  BY <1>4 DEF PhoneWrites, deskVars, recordVars
<1>4b. CASE PhonePairs
  BY <1>4b DEF PhonePairs, deskVars, recordVars
<1>5. ASSUME NEW k, BeginPairing(k) PROVE UNCHANGED <<state, saved, job>>
  BY <1>5 DEF BeginPairing, recordVars
<1>6. CASE Fetch \/ EndDrain \/ BlockWrite \/ EndUploads
  <2>1. job # NoJob /\ job'.state = job.state
    BY <1>0, <1>6, MoveTo, NotIdle
  <2>. QED
    BY <1>6, <2>1 DEF Fetch, EndDrain, BlockWrite, EndUploads, recordVars
<1>7. CASE Ack
  <2>1. job # NoJob /\ job'.state.files = job.state.files
    BY <1>0, <1>7, AckTo, NotIdle
  <2>. QED
    BY <1>7, <2>1 DEF Ack, recordVars
<1>8. CASE Scan
  <2>1. job # NoJob /\ job'.state = job.state
    BY <1>0, <1>8, ScanTo, RunningJob DEF Scan, TypeOK, Pcs
  <2>. QED
    BY <1>8, <2>1 DEF Scan, recordVars
<1>9. ASSUME NEW p \in Paths, ReadFile(p)
      PROVE  UNCHANGED <<state, saved>> /\ job # NoJob /\ job'.state = job.state
  BY <1>0, <1>9, ReadFileTo, NotIdle DEF ReadFile, recordVars
<1>10. ASSUME job.pc = "take", NEW w \in job.queue, TakeWrite(w)
       PROVE  UNCHANGED <<state, saved>> /\ job # NoJob /\ job'.state = job.state
  <2>1. job # NoJob /\ job'.state = job.state
    BY <1>0, <1>10, TakeWriteTo, NotIdle
  <2>. QED
    BY <1>10, <2>1 DEF TakeWrite, recordVars
<1>11. CASE StartJob
  <2>1. job'.state = state
    BY <1>0, <1>11, StartJobTo
  <2>. QED
    BY <1>11, <2>1 DEF StartJob, recordVars
<1>12. CASE Finish
  <2>1. job # NoJob
    BY <1>0, <1>12, RunningJob DEF Finish, TypeOK, Pcs
  <2>. QED
    BY <1>12, <2>1 DEF Finish
<1>13. ASSUME NEW p \in Paths, RemoveOne(p) PROVE UNCHANGED <<state, saved>>
  BY <1>13 DEF RemoveOne, recordVars
<1>14. CASE Commit
  BY <1>14 DEF Commit, recordVars
<1>. QED
  BY <1>1, <1>2, <1>3, <1>4, <1>4b, <1>5, <1>6, <1>7, <1>8, <1>9, <1>10, <1>11, <1>12, <1>13, <1>14
     DEF Next, Worker, Mishap, Account, User, Watcher

(* Every step keeps what is never uploaded without a record.               *)
LEMMA RowedStep ==
    ASSUME TypeInv, Records, Next, epoch' = 0, \A q \in Paths : Rowed(q), NEW p \in Paths
    PROVE  Rowed(p)'
<1>0. TypeOK /\ Shape
  BY DEF TypeInv
<1>1. NoState.files[p] = NoRecord
  BY DEF NoState
<1>2. CASE files'[p].version = files[p].version /\ (job' # NoJob =>
                \/ job'.state = state
                \/ job # NoJob /\ job'.state.files[p] = job.state.files[p]
                \/ job'.state.files[p] = NoRecord)
  <2>. SUFFICES ASSUME files[p].version = 0
                PROVE  /\ state'.files[p] = NoRecord /\ saved'.files[p] = NoRecord
                       /\ job' # NoJob => job'.state.files[p] = NoRecord
    BY <1>2 DEF Rowed
  <2>1. /\ state.files[p] = NoRecord /\ saved.files[p] = NoRecord
        /\ job # NoJob => job.state.files[p] = NoRecord
    BY DEF Rowed
  <2>. QED
    BY <1>1, <1>2, <2>1, RecordsMove
<1>3. CASE Commit \/ CommitLost
  <2>1. CASE p = job.read[1]
    <3>1. files'[p].version > 0
      BY <1>3, <2>1, Outdated
    <3>2. files'[p].version # 0
      BY <3>1
    <3>. QED
      BY <3>2 DEF Rowed
  <2>2. CASE p # job.read[1]
    <3>1. files'[p] = files[p] /\ job # NoJob
      BY <1>3, <2>2, Outdated
    <3>2. job' # NoJob => job'.state.files[p] = job.state.files[p]
      BY <1>0, <1>3, <2>2, CommitTo DEF CommitLost
    <3>. QED
      BY <1>2, <3>1, <3>2
  <2>. QED
    BY <2>1, <2>2
<1>4. ASSUME NEW q \in Paths, RemoveOne(q) PROVE Rowed(p)'
  <2>1. /\ job # NoJob /\ job'.state.files[q] = NoRecord
        /\ \A r \in Paths \ {q} : job'.state.files[r] = job.state.files[r]
    BY <1>0, <1>4, RemoveOneTo, NotIdle
  <2>2. files'[p].version > 0 => Rowed(p)'
    <3>1. files'[p].version > 0 => files'[p].version # 0
      OBVIOUS
    <3>. QED
      BY <3>1 DEF Rowed
  <2>3. files'[p] = files[p] \/ files'[p].version > 0
    BY <1>4, RemovedTo
  <2>. QED
    BY <1>2, <2>1, <2>2, <2>3
<1>5. CASE files' = files /\ ~Commit /\ ~\E q \in Paths : RemoveOne(q)
  BY <1>2, <1>5, RecordsMove
<1>. QED
  BY <1>3, <1>4, <1>5, FilesChange

(* A job of a session with no catch-up pending had that one step ago, or   *)
(* has just begun.                                                         *)
LEMMA SessionGoesOn ==
    ASSUME TypeInv, Next, job' # NoJob, session', ~pending'.catchUp
    PROVE  \/ job'.state = state'
           \/ job # NoJob /\ session /\ ~pending.catchUp /\ state' = state
<1>0. TypeOK /\ Shape /\ Documented /\ pending \in Job
  BY DEF TypeInv, TypeOK
<1>1. session
  BY SessionStarts
<1>2. ASSUME state' = state, pending.catchUp => pending'.catchUp, job' = job \/ job # NoJob
      PROVE  job # NoJob /\ session /\ ~pending.catchUp /\ state' = state
  BY <1>1, <1>2
<1>3. CASE StartJob
  <2>1. job'.state = state
    BY <1>0, <1>3, StartJobTo
  <2>. QED
    BY <1>3, <2>1 DEF StartJob, recordVars
<1>4. CASE Finish \/ FailLapsed \/ FailMissing \/ FailJob \/ FailAuth \/ Crash \/ CommitLost
           \/ TurnOff \/ Start
  BY <1>1, <1>4 DEF Finish, FailLapsed, FailMissing, FailJob, FailAuth, Crash, CommitLost,
                    TurnOff, Start
<1>5. CASE LoseKey \/ DeleteCopy \/ SweepVault
  BY <1>2, <1>5 DEF LoseKey, DeleteCopy, SweepVault, deskVars, recordVars
<1>6. CASE Poll \/ SyncNow
  <2>1. pending.catchUp => pending'.catchUp
    BY <1>0, <1>6 DEF Poll, SyncNow, FullPass, Job
  <2>. QED
    BY <1>2, <1>6, <2>1 DEF Poll, SyncNow, recordVars
<1>7. CASE Lapse \/ Renew
  <2>1. UNCHANGED <<state, pending, job>>
    BY <1>7, Zenon DEF Lapse, Renew, deskVars, recordVars
  <2>. QED
    BY <1>2, <2>1
<1>8. ASSUME NEW k, BeginPairing(k) PROVE FALSE
  BY <1>0, <1>8 DEF BeginPairing, FullPass, Job
<1>9. CASE Scan \/ Fetch \/ EndDrain \/ BlockWrite \/ EndUploads \/ Commit \/ Ack
  <2>1. job # NoJob
    BY <1>0, <1>9, RunningJob DEF Scan, Fetch, EndDrain, BlockWrite, EndUploads, Commit, Ack,
       TypeOK, Pcs
  <2>. QED
    BY <1>2, <1>9, <2>1 DEF Scan, Fetch, EndDrain, BlockWrite, EndUploads, Commit, Ack, recordVars
<1>10. ASSUME NEW p \in Paths, ReadFile(p) \/ RemoveOne(p)
       PROVE  job # NoJob /\ ~pending.catchUp /\ state' = state
  <2>1. job # NoJob
    BY <1>0, <1>10, RunningJob DEF ReadFile, RemoveOne, TypeOK, Pcs
  <2>. QED
    BY <1>2, <1>10, <2>1 DEF ReadFile, RemoveOne, recordVars
<1>11. ASSUME NEW p \in Paths, Edit(p) \/ Undo(p) \/ Remove(p)
       PROVE  job # NoJob /\ ~pending.catchUp /\ state' = state
  BY <1>2, <1>11 DEF Edit, Undo, Remove, deskVars, recordVars
<1>12. ASSUME NEW p \in Paths, Watch(p) PROVE job # NoJob /\ ~pending.catchUp /\ state' = state
  <2>1. pending'.catchUp = pending.catchUp
    BY <1>0, <1>12 DEF Watch, Job
  <2>. QED
    BY <1>2, <1>12, <2>1 DEF Watch, recordVars
<1>13. ASSUME NEW c, NEW d, PhoneWrites(c, d)
       PROVE  job # NoJob /\ ~pending.catchUp /\ state' = state
  BY <1>2, <1>13 DEF PhoneWrites, deskVars, recordVars
<1>13b. CASE PhonePairs
  BY <1>2, <1>13b DEF PhonePairs, deskVars, recordVars
<1>14. ASSUME job.pc = "take", NEW w \in job.queue, TakeWrite(w)
       PROVE  job # NoJob /\ ~pending.catchUp /\ state' = state
  <2>1. job # NoJob
    BY <1>0, <1>14, TakeWriteTo, NotIdle
  <2>. QED
    BY <1>2, <1>14, <2>1 DEF TakeWrite, recordVars
<1>. QED
  BY <1>1, <1>3, <1>4, <1>5, <1>6, <1>7, <1>8, <1>9, <1>10, <1>11, <1>12, <1>13, <1>13b, <1>14
     DEF Next, Worker, Mishap, Account, User, Watcher

(* Every step keeps the job's records the desk's, but for what it sent.    *)
LEMMA JobFollowsStep ==
    ASSUME TypeInv, Records, Next, epoch' = 0, NEW p \in Paths, \A q \in Paths : Rowed(q),
           JobFollows(p)
    PROVE  JobFollows(p)'
<1>0. TypeOK /\ Shape
  BY DEF TypeInv
<1>. SUFFICES ASSUME job' # NoJob, session', ~pending'.catchUp
              PROVE  \/ job'.state.files[p] = state'.files[p]
                     \/ files'[p].deleted \/ ~TrackedBy(state, p)'
  BY DEF JobFollows
<1>1. CASE job'.state = state'
  BY <1>1
<1>2. CASE job # NoJob /\ session /\ ~pending.catchUp /\ state' = state
  <2>1. \/ job.state.files[p] = state.files[p]
        \/ files[p].deleted \/ ~TrackedBy(state, p)
    BY <1>2 DEF JobFollows
  <2>2. CASE files'[p] = files[p] /\ (\/ job'.state = state
                                      \/ job'.state.files[p] = job.state.files[p])
    <3>1. TrackedBy(state, p)' <=> TrackedBy(state, p)
      BY <1>2, <2>2, FilesChange DEF TrackedBy
    <3>. QED
      BY <1>2, <2>1, <2>2, <3>1
  <2>3. CASE Commit \/ CommitLost
    <3>1. CASE p = job.read[1]
      BY <2>3, <3>1, Outdated
    <3>2. CASE p # job.read[1]
      <4>1. files'[p] = files[p]
        BY <2>3, <3>2, Outdated
      <4>2. job'.state.files[p] = job.state.files[p]
        BY <1>0, <2>3, <3>2, CommitTo DEF CommitLost
      <4>. QED
        BY <2>2, <4>1, <4>2
    <3>. QED
      BY <3>1, <3>2
  <2>4. ASSUME NEW q \in Paths, RemoveOne(q)
        PROVE  \/ job'.state.files[p] = state'.files[p]
               \/ files'[p].deleted \/ ~TrackedBy(state, p)'
    <3>1. /\ job'.state.files[q] = NoRecord
          /\ \A r \in Paths \ {q} : job'.state.files[r] = job.state.files[r]
      BY <1>0, <2>4, RemoveOneTo
    <3>2. \/ files'[p].deleted
          \/ files'[p] = files[p] /\ (p = q => job.state.files[p] = NoRecord)
      BY <2>4, RemovedTo
    <3>. QED
      BY <2>2, <3>1, <3>2
  <2>5. CASE files' = files /\ ~Commit /\ ~\E q \in Paths : RemoveOne(q)
    BY <1>2, <2>2, <2>5, RecordsMove
  <2>. QED
    BY <2>3, <2>4, <2>5, FilesChange
<1>. QED
  BY <1>1, <1>2, SessionGoesOn

-------------------------------------------------------------------------------
(* The steps of a job, for one effect of one note *)

(* A note that shows an effect is on disk.                                 *)
LEMMA Shown == ASSUME NEW p, NEW c, c \in disk[p].effects PROVE OnDisk(p)
BY DEF OnDisk, Gone

(* What one path has in the way of work and of records, and no less than   *)
(* before.                                                                 *)
NoLess(p) ==
    /\ files'[p] = files[p] /\ epoch' = epoch /\ state' = state
    /\ p \in forgotten => p \in forgotten'
    /\ p \in unseen => p \in unseen'
    /\ pending.catchUp => pending'.catchUp
    /\ p \in pending.dirty => p \in pending'.dirty
    /\ session' => session
    /\ backoff => backoff'

(* A step that is none of this path's business.                            *)
LEMMA OnItsWaySame ==
    ASSUME NEW p \in Paths, NEW c, OnItsWay(p, c), c \in disk'[p].effects => c \in disk[p].effects,
           NoLess(p),
           \/ job' = job
           \/ /\ job # NoJob /\ job' # NoJob /\ job'.work = job.work
              /\ p \in job.dirty => p \in job'.dirty
              /\ Reads(p)' <=> Reads(p)
              /\ Reads(p) => job'.read = job.read
              /\ job'.state.files[p] = job.state.files[p]
              /\ job.pc = "scan" => job'.pc = "scan"
    PROVE  OnItsWay(p, c)'
<1>1. Sent(state, p, c) => Sent(state, p, c)'
  BY DEF Sent, TrackedBy, NoLess
<1>2. CASE job' = job
  <2>1. Waits(p, c) => Waits(p, c)'
    BY <1>1 DEF Waits, NoLess
  <2>2. Returns(p, c) => Returns(p, c)'
    BY <1>1, <1>2 DEF Returns, NoLess
  <2>3. Takes(p, c) => Takes(p, c)'
    BY <1>2 DEF Takes, Sent, TrackedBy, NoLess, Reads
  <2>4. Reads(p)' <=> Reads(p)
    BY <1>2 DEF Reads
  <2>. QED
    BY <1>2, <2>1, <2>2, <2>3, <2>4 DEF OnItsWay
<1>3. CASE job' # job
  <2>1. Returns(p, c) => Returns(p, c)'
    BY <1>1, <1>3 DEF Returns, NoLess
  <2>2. Takes(p, c) => Takes(p, c)'
    BY <1>3 DEF Takes, Sent, TrackedBy, NoLess
  <2>. QED
    BY <1>3, <2>1, <2>2 DEF OnItsWay
<1>. QED
  BY <1>2, <1>3

(* The work of a job starts as what was waiting; before a retry a prompt   *)
(* watcher has reported everything.                                        *)
LEMMA OnItsWayStart ==
    ASSUME TypeInv, PromptWatcher, NEW p \in Paths, NEW c, OnItsWay(p, c), StartJob
    PROVE  OnItsWay(p, c)'
<1>1. /\ job = NoJob /\ job' # NoJob /\ job'.pc = "scan" /\ job'.work = pending
      /\ job'.dirty = pending.dirty /\ job'.state = state /\ job'.read = <<>>
  <2>1. job'.pc = "scan"
    BY StartJobTo DEF TypeInv
  <2>2. job' # NoJob
    BY <2>1 DEF NoJob
  <2>. QED
    BY <2>2, StartJobTo DEF StartJob, TypeInv
<1>2. /\ UNCHANGED <<disk, unseen, state, forgotten, files, epoch>> /\ session
      /\ backoff => unseen = {}
  BY DEF StartJob, diskVars, recordVars, historyVars, storeVars
<1>3. Sent(state, p, c) => Sent(state, p, c)' /\ Sent(job.state, p, c)'
  BY <1>1, <1>2 DEF Sent, TrackedBy
<1>4. Waits(p, c) => Takes(p, c)' /\ Returns(p, c)'
  BY <1>1, <1>2, <1>3 DEF Waits, Takes, Returns
<1>5. ~Reads(p)'
  BY <1>1 DEF Reads
<1>. QED
  BY <1>1, <1>2, <1>4, <1>5 DEF OnItsWay

(* The scan finds what differs from the records.                           *)
LEMMA OnItsWayScan ==
    ASSUME TypeInv, NEW p \in Paths, NEW c, OnItsWay(p, c), Scan PROVE OnItsWay(p, c)'
<1>1. /\ job # NoJob /\ job' \in Running /\ SameJob(job', job) /\ job'.state = job.state
      /\ job'.read = job.read /\ job'.pc \in {"fetch", "upload"}
  BY ScanTo, RunningJob DEF TypeInv, TypeOK, Scan, Pcs
<1>2. job' # NoJob /\ ~Reads(p) /\ ~Reads(p)'
  <2>1. job' # NoJob
    BY <1>1 DEF NoJob
  <2>2. job.read = <<>>
    BY <1>1 DEF Scan, TypeInv, Shape
  <2>. QED
    BY <1>1, <2>1, <2>2 DEF Reads
<1>3. UNCHANGED <<disk, unseen, state, pending, files, epoch, session>>
  BY DEF Scan, diskVars, recordVars, storeVars, sessionVars
<1>4. CASE job.work.catchUp
  <2>1. Returns(p, c)'
    BY <1>1, <1>4 DEF Returns, SameJob
  <2>2. c \in disk[p].effects => p \in job'.dirty \/ c \in job'.state.files[p].text.effects
    BY <1>1, <1>4, Shown, ScanTo DEF TypeInv
  <2>3. c \in disk[p].effects => Takes(p, c)'
    BY <2>2 DEF Takes, Sent
  <2>. QED
    BY <1>2, <1>3, <2>1, <2>3 DEF OnItsWay
<1>5. CASE ~job.work.catchUp
  <2>1. job'.dirty = job.dirty /\ forgotten' = forgotten
    BY <1>5, ScanTo DEF Scan, TypeInv
  <2>2. Returns(p, c) => Returns(p, c)'
    BY <1>1, <1>3, <2>1 DEF Returns, Sent, TrackedBy, SameJob
  <2>3. Takes(p, c) => Takes(p, c)'
    BY <1>1, <1>2, <1>3, <1>5, <2>1 DEF Takes, Sent, TrackedBy
  <2>. QED
    BY <1>1, <1>2, <1>3, <2>2, <2>3 DEF OnItsWay
<1>. QED
  BY <1>4, <1>5

(* A file that is read is held with the effects it shows, or is recorded.  *)
LEMMA OnItsWayRead ==
    ASSUME TypeInv, NEW p \in Paths, NEW c, OnItsWay(p, c), ReadFile(p) PROVE OnItsWay(p, c)'
<1>1. /\ job # NoJob /\ SameJob(job', job) /\ job'.state = job.state
      /\ job'.pc \in {"upload", "commit"}
      /\ \/ job'.read = <<p, disk[p]>>
         \/ ~(OnDisk(p) /\ job.state.files[p].text # disk[p]) /\ job'.read = <<>>
  BY ReadFileTo, NotIdle DEF TypeInv
<1>2. job' # NoJob
  BY <1>1 DEF NoJob
<1>3. UNCHANGED <<disk, unseen, state, pending, forgotten, files, epoch, session>>
  BY DEF ReadFile, diskVars, recordVars, historyVars, storeVars, sessionVars
<1>4. Returns(p, c) => Returns(p, c)'
  BY <1>1, <1>3 DEF Returns, Sent, TrackedBy, SameJob
<1>5. c \in disk[p].effects => Takes(p, c)'
  BY <1>1, Shown DEF Takes, Sent, Reads
<1>6. c \in disk[p].effects /\ Reads(p)' => c \in job'.read[2].effects
  BY <1>1 DEF Reads
<1>. QED
  BY <1>1, <1>2, <1>3, <1>4, <1>5, <1>6 DEF OnItsWay

(* The text that was read is recorded, or its answer is lost and the       *)
(* record the desk goes back to is out of date.                            *)
LEMMA OnItsWayPublished ==
    ASSUME TypeInv, Records, NEW p \in Paths, p = job.read[1], NEW c, OnItsWay(p, c),
           Commit \/ CommitLost
    PROVE  OnItsWay(p, c)'
<1>1. /\ job # NoJob /\ Reads(p) /\ ~TrackedBy(state, p)' /\ UNCHANGED disk
  BY Outdated
<1>2. Sent(state, p, c)'
  BY <1>1 DEF Sent
<1>3. CASE CommitLost
  BY <1>2, <1>3 DEF CommitLost, OnItsWay, Waits
<1>4. CASE Commit
  <2>1. job'.pc = "upload" /\ job'.read = <<>> /\ job'.state.files[p].text = job.read[2]
    BY <1>4, CommitTo DEF TypeInv
  <2>2. job' # NoJob /\ ~Reads(p)'
    BY <2>1 DEF NoJob, Reads
  <2>3. c \in disk[p].effects => Takes(p, c)'
    BY <1>1, <2>1 DEF OnItsWay, Takes, Sent
  <2>. QED
    BY <1>1, <1>2, <2>2, <2>3 DEF OnItsWay, Returns
<1>. QED
  BY <1>3, <1>4

(* A path that was tombstoned is one of the gaps.                          *)
LEMMA OnItsWayRemoved ==
    ASSUME TypeInv, NEW p \in Paths, Rowed(p), NEW c, OnItsWay(p, c), RemoveOne(p)
    PROVE  OnItsWay(p, c)'
<1>1. /\ job # NoJob /\ SameJob(job', job) /\ job'.pc = "upload" /\ job.pc = "upload"
      /\ job.read = <<>> /\ job'.read = <<>> /\ job'.state.files[p] = NoRecord
      /\ job.dirty = {}
  BY RemoveOneTo, NotIdle DEF TypeInv
<1>2. job' # NoJob /\ ~Reads(p) /\ ~Reads(p)'
  BY <1>1 DEF NoJob, Reads
<1>3. UNCHANGED <<disk, unseen, state, pending, epoch, session, backoff>>
  BY DEF RemoveOne, diskVars, recordVars, sessionVars
<1>4. CASE files'[p].deleted
  <2>1. Takes(p, c)' /\ Returns(p, c)'
    BY <1>4 DEF Takes, Returns, Sent
  <2>. QED
    BY <1>2, <2>1 DEF OnItsWay
<1>5. CASE files' = files /\ job.state.files[p] = NoRecord /\ (p \in forgotten <=> p \in forgotten')
  <2>1. NoLess(p)
    BY <1>3, <1>5 DEF NoLess
  <2>. QED
    BY <1>1, <1>2, <1>3, <1>5, <2>1, OnItsWaySame DEF SameJob
<1>. QED
  BY <1>4, <1>5, RemovedTo

(* A finished job's records become the desk's.                             *)
LEMMA OnItsWayFinish ==
    ASSUME TypeInv, NEW p \in Paths, NEW c, OnItsWay(p, c), Finish PROVE OnItsWay(p, c)'
<1>1. job # NoJob /\ job.pc = "finish"
  BY RunningJob DEF TypeInv, TypeOK, Finish, Pcs
<1>2. job.dirty = {} /\ job.read = <<>>
  BY <1>1 DEF TypeInv, Shape
<1>3. UNCHANGED <<disk, forgotten, files, epoch>> /\ job' = NoJob /\ state' = job.state
  BY DEF Finish, diskVars, historyVars, storeVars
<1>4. Takes(p, c) => Sent(state, p, c)'
  BY <1>1, <1>2, <1>3 DEF Takes, Reads, Sent, TrackedBy
<1>. QED
  BY <1>1, <1>3, <1>4 DEF OnItsWay, Waits

(* A failed job's work comes again, after a delay.                         *)
LEMMA OnItsWayPutBack ==
    ASSUME NEW p \in Paths, NEW c, OnItsWay(p, c), job # NoJob, job' = NoJob, pending' = PutBack,
           backoff', UNCHANGED <<disk, unseen, state, session, epoch>>, files'[p] = files[p],
           p \in forgotten => p \in forgotten'
    PROVE  OnItsWay(p, c)'
<1>1. Sent(state, p, c) => Sent(state, p, c)'
  BY DEF Sent, TrackedBy
<1>2. Returns(p, c) => Waits(p, c)'
  BY <1>1 DEF Returns, Waits, PutBack
<1>. QED
  BY <1>2 DEF OnItsWay

(* A lapse drops the work, and what the job had not sent is forgotten.     *)
LEMMA OnItsWayLapsed ==
    ASSUME TypeInv, NEW p \in Paths, JobFollows(p), NEW c, OnItsWay(p, c), FailLapsed
    PROVE  OnItsWay(p, c)'
<1>1. job # NoJob /\ job.pc # "scan"
  BY BusyJob DEF TypeInv, FailLapsed, Busy, Asking
<1>2. UNCHANGED <<disk, unseen, state, session, files, epoch>> /\ job' = NoJob
  BY DEF FailLapsed, diskVars, recordVars, sessionVars, storeVars
<1>3. p \notin forgotten' =>
          /\ p \notin forgotten /\ ~pending.catchUp /\ p \notin job.dirty /\ ~Reads(p)
  BY DEF FailLapsed, PutBack, Reads
<1>4. Takes(p, c) /\ p \notin forgotten' /\ session => Sent(state, p, c)
  <2>. SUFFICES ASSUME Takes(p, c), p \notin forgotten', session PROVE Sent(state, p, c)
    OBVIOUS
  <2>1. Sent(job.state, p, c)
    BY <1>1, <1>3 DEF Takes
  <2>2. \/ job.state.files[p] = state.files[p]
        \/ files[p].deleted \/ ~TrackedBy(state, p)
    BY <1>1, <1>3 DEF JobFollows
  <2>. QED
    BY <2>1, <2>2 DEF Sent, TrackedBy
<1>5. p \notin forgotten' /\ Sent(state, p, c) => Sent(state, p, c)'
  BY <1>2, <1>3 DEF Sent, TrackedBy
<1>6. Takes(p, c) => Waits(p, c)'
  BY <1>2, <1>4, <1>5 DEF Waits, Sent
<1>. QED
  BY <1>1, <1>2, <1>6 DEF OnItsWay

(* Every step of the same copy.                                            *)
LEMMA OnItsWayStep ==
    ASSUME TypeInv, Records, PromptWatcher, Next, epoch = 0, epoch' = 0, NEW p \in Paths,
           \A q \in Paths : Rowed(q) /\ JobFollows(q), NEW c \in ClientIds \ revived',
           c \notin revived => OnItsWay(p, c)
    PROVE  OnItsWay(p, c)'
<1>0. TypeOK /\ Shape /\ Documented /\ pending \in Job
  BY DEF TypeInv, TypeOK
<1>1. revived' = revived \/ (\E q \in Paths : Undo(q)) => c \notin revived
  BY DEF Undo
<1>2. ASSUME OnItsWay(p, c), UNCHANGED <<disk, state, job, epoch>>, NoLess(p) PROVE OnItsWay(p, c)'
  BY <1>2, OnItsWaySame
<1>3. ASSUME job' = NoJob, ~session' PROVE OnItsWay(p, c)'
  BY <1>3 DEF OnItsWay, Waits
<1>4. CASE LoseKey \/ (DeleteCopy /\ files' = files)
  BY <1>1, <1>2, <1>4 DEF LoseKey, DeleteCopy, NoLess, storeVars, diskVars, recordVars, historyVars
<1>5. CASE Lapse \/ Renew
  <2>1. UNCHANGED <<disk, unseen, state, session, forgotten, revived, job, pending, backoff,
                    files, epoch>>
    BY <1>5, Zenon DEF Lapse, Renew, SetVaultLapsed, diskVars, deskVars, sessionVars,
       recordVars, historyVars
  <2>. QED
    BY <1>1, <1>2, <2>1 DEF NoLess
<1>6. ASSUME NEW e, NEW d, PhoneWrites(e, d) PROVE OnItsWay(p, c)'
  BY <1>1, <1>2, <1>6 DEF PhoneWrites, EnqueueWrite, NoLess, deskVars, sessionVars, recordVars,
                          historyVars
<1>6b. CASE PhonePairs
  BY <1>1, <1>2, <1>6b DEF PhonePairs, NoLess, diskVars, deskVars, sessionVars, recordVars,
                           historyVars
<1>7. CASE Poll \/ SyncNow
  <2>1. /\ pending.catchUp => pending'.catchUp
        /\ p \in pending.dirty => p \in pending'.dirty
    BY <1>0, <1>7 DEF Poll, SyncNow, FullPass, Job
  <2>. QED
    BY <1>1, <1>2, <1>7, <2>1 DEF Poll, SyncNow, NoLess, storeVars, diskVars, sessionVars,
       recordVars, historyVars
<1>8. ASSUME UNCHANGED <<disk, job, files, epoch, forgotten>>, OnItsWay(p, c),
             ~session' \/ pending'.catchUp
      PROVE  OnItsWay(p, c)'
  <2>1. Takes(p, c) => Takes(p, c)'
    BY <1>8 DEF Takes, Sent, TrackedBy, Reads
  <2>2. Waits(p, c)' /\ Returns(p, c)'
    BY <1>8 DEF Waits, Returns
  <2>3. Reads(p)' <=> Reads(p)
    BY <1>8 DEF Reads
  <2>. QED
    BY <1>8, <2>1, <2>2, <2>3 DEF OnItsWay
<1>9. CASE Start \/ TurnOff
  <2>1. ~session' \/ pending'.catchUp
    BY <1>0, <1>9 DEF Start, TurnOff, FullPass, Job
  <2>. QED
    BY <1>1, <1>8, <1>9, <2>1 DEF Start, TurnOff, storeVars, diskVars, historyVars
<1>10. ASSUME NEW k \in KeyChecks, BeginPairing(k), files' = files PROVE OnItsWay(p, c)'
  <2>1. pending'.catchUp
    BY <1>0, <1>10 DEF BeginPairing, FullPass, Job
  <2>. QED
    BY <1>1, <1>8, <1>10, <2>1 DEF BeginPairing, diskVars
<1>11. CASE FailMissing \/ FailAuth \/ Crash
  BY <1>3, <1>11 DEF FailMissing, FailAuth, Crash
<1>12. CASE Fetch \/ EndDrain \/ BlockWrite \/ EndUploads
  <2>1. job # NoJob /\ MovedJob(job', job) /\ job'.state = job.state /\ job.pc # "scan"
    BY <1>0, <1>12, MoveTo, NotIdle
  <2>2. job' # NoJob
    BY <2>1 DEF MovedJob, NoJob, Running
  <2>3. UNCHANGED <<disk, revived>> /\ NoLess(p)
    BY <1>12 DEF Fetch, EndDrain, BlockWrite, EndUploads, NoLess, storeVars, diskVars,
       sessionVars, recordVars, historyVars
  <2>. QED
    BY <1>1, <2>1, <2>2, <2>3, OnItsWaySame DEF MovedJob, SameJob, Reads
<1>13. CASE Ack
  <2>1. /\ job # NoJob /\ MovedJob(job', job) /\ job'.state.files = job.state.files
        /\ job.pc # "scan" /\ job'.pc = "finish"
    BY <1>0, <1>13, AckTo, NotIdle
  <2>2. job' # NoJob
    BY <2>1 DEF NoJob
  <2>3. UNCHANGED <<disk, revived>> /\ NoLess(p)
    BY <1>13 DEF Ack, AckWrites, NoLess, storeVars, diskVars, sessionVars, recordVars, historyVars
  <2>. QED
    BY <1>1, <2>1, <2>2, <2>3, OnItsWaySame DEF MovedJob, SameJob, Reads
<1>14. ASSUME NEW q \in Paths, Edit(q) \/ Undo(q) \/ Remove(q) PROVE OnItsWay(p, c)'
  <2>1. c \in disk'[p].effects => c \in disk[p].effects
    <3>1. disk \in [Paths -> Texts]
      BY <1>0 DEF TypeOK
    <3>2. CASE Edit(q)
      BY <3>1, <3>2 DEF Edit, Texts
    <3>3. CASE Undo(q)
      BY <3>1, <3>3 DEF Undo
    <3>4. CASE Remove(q)
      BY <3>1, <3>4 DEF Remove, Gone
    <3>. QED
      BY <1>14, <3>2, <3>3, <3>4
  <2>2. c \notin revived
    BY <1>1, <1>14 DEF Edit, Remove, historyVars
  <2>3. job' = job /\ NoLess(p)
    BY <1>14 DEF Edit, Undo, Remove, NoLess, storeVars, deskVars, sessionVars, recordVars,
       historyVars
  <2>. QED
    BY <2>1, <2>2, <2>3, OnItsWaySame
<1>15. ASSUME NEW q \in Paths, Watch(q) PROVE OnItsWay(p, c)'
  <2>1. /\ UNCHANGED <<disk, state, forgotten, revived, job, backoff, session, files, epoch>>
        /\ unseen' = unseen \ {q}
    BY <1>15 DEF Watch, storeVars, recordVars, sessionVars, historyVars
  <2>2. OnItsWay(p, c)
    BY <1>1, <2>1
  <2>3. pending.catchUp => pending'.catchUp
    BY <1>0, <1>15 DEF Watch, Job
  <2>4. CASE p # q \/ p \in pending'.dirty
    <3>1. p \in pending.dirty => p \in pending'.dirty
      BY <1>0, <1>15, <2>4 DEF Watch, Job
    <3>2. /\ Sent(state, p, c) => Sent(state, p, c)'
          /\ Takes(p, c) => Takes(p, c)'
          /\ Reads(p)' <=> Reads(p)
      BY <2>1 DEF Sent, TrackedBy, Takes, Reads
    <3>3. /\ Waits(p, c) => Waits(p, c)'
          /\ Returns(p, c) => Returns(p, c)'
      BY <2>1, <2>3, <2>4, <3>1, <3>2 DEF Waits, Returns
    <3>. QED
      BY <2>1, <2>2, <3>2, <3>3 DEF OnItsWay
  <2>5. CASE p = q /\ ~session
    BY <1>8, <2>1, <2>2, <2>5
  <2>6. CASE p = q /\ session /\ OnDisk(p)
    <3>1. p \in pending'.dirty
      BY <1>0, <1>15, <2>6 DEF Watch, Job
    <3>. QED
      BY <2>4, <3>1
  <2>7. CASE ~OnDisk(p)
    BY <2>1, <2>7, Shown DEF OnItsWay
  <2>. QED
    BY <2>4, <2>5, <2>6, <2>7
<1>16. ASSUME job.pc = "take", NEW w \in job.queue, TakeWrite(w) PROVE OnItsWay(p, c)'
  <2>1. /\ job # NoJob /\ job' \in Running /\ SameJob(job', job) /\ job'.state = job.state
        /\ job'.read = job.read /\ job'.pc = "take"
    BY <1>0, <1>16, TakeWriteTo, NotIdle
  <2>2. PICK changed \in SUBSET Paths, removed \in SUBSET Paths :
            /\ AppliedTo(disk', changed, removed)
            /\ unseen' = unseen \cup changed \cup removed
            /\ job'.dirty = job.dirty \cup changed /\ job'.removed = job.removed \cup removed
    BY <1>0, <1>16, TakeWriteTo
  <2>3. job' # NoJob /\ job.read = <<>>
    <3>1. job' # NoJob
      BY <2>1 DEF NoJob
    <3>. QED
      BY <1>0, <1>16, <2>1, <3>1 DEF Shape
  <2>4. ~Reads(p) /\ ~Reads(p)'
    BY <2>1, <2>3 DEF Reads
  <2>5. UNCHANGED <<state, forgotten, revived, pending, files, epoch, session, backoff>>
    BY <1>16 DEF TakeWrite, storeVars, sessionVars, recordVars, historyVars
  <2>6. CASE p \in changed
    BY <2>2, <2>3, <2>4, <2>6 DEF OnItsWay, Takes, Returns
  <2>7. CASE p \in removed
    <3>1. disk'[p] = Gone
      BY <2>2, <2>7 DEF AppliedTo
    <3>. QED
      BY <3>1 DEF OnItsWay, Gone
  <2>8. CASE p \notin changed \cup removed
    <3>1. disk'[p] = disk[p]
      BY <2>2, <2>8 DEF AppliedTo
    <3>2. NoLess(p) /\ (p \in job.dirty => p \in job'.dirty)
      BY <2>2, <2>5 DEF NoLess
    <3>. QED
      BY <1>1, <1>16, <2>1, <2>3, <2>4, <2>5, <3>1, <3>2, OnItsWaySame DEF SameJob
  <2>. QED
    BY <2>6, <2>7, <2>8
<1>17. CASE StartJob
  BY <1>1, <1>17, OnItsWayStart DEF StartJob, historyVars
<1>18. CASE Scan
  BY <1>1, <1>18, OnItsWayScan DEF Scan
<1>19. ASSUME NEW q \in Paths, ReadFile(q) PROVE OnItsWay(p, c)'
  <2>1. OnItsWay(p, c)
    BY <1>1, <1>19 DEF ReadFile, historyVars
  <2>2. CASE p = q
    BY <1>19, <2>1, <2>2, OnItsWayRead
  <2>3. CASE p # q
    <3>1. /\ job # NoJob /\ SameJob(job', job) /\ job'.state = job.state
          /\ job'.dirty = job.dirty \ {q} /\ job.read = <<>>
          /\ job.pc = "upload" /\ job'.pc \in {"upload", "commit"}
          /\ job'.read \in {<<>>, <<q, disk[q]>>}
      BY <1>0, <1>19, ReadFileTo, NotIdle
    <3>2. job' # NoJob /\ ~Reads(p) /\ ~Reads(p)'
      BY <2>3, <3>1 DEF NoJob, Reads
    <3>3. UNCHANGED disk /\ NoLess(p)
      BY <1>19 DEF ReadFile, NoLess, storeVars, diskVars, sessionVars, recordVars, historyVars
    <3>. QED
      BY <2>1, <2>3, <3>1, <3>2, <3>3, OnItsWaySame DEF SameJob
  <2>. QED
    BY <2>2, <2>3
<1>20. CASE Commit \/ CommitLost
  <2>1. /\ job # NoJob /\ UNCHANGED <<state, saved, disk, unseen, session, epoch, revived>>
        /\ OnItsWay(p, c)
    BY <1>1, <1>20, Outdated
  <2>2. CASE p = job.read[1]
    BY <1>20, <2>1, <2>2, OnItsWayPublished
  <2>3. CASE p # job.read[1]
    <3>1. files'[p] = files[p] /\ ~Reads(p) /\ (p \in forgotten <=> p \in forgotten')
      BY <1>20, <2>3, Outdated
    <3>2. CASE CommitLost
      BY <2>1, <3>1, <3>2, OnItsWayPutBack DEF CommitLost
    <3>3. CASE Commit
      <4>1. /\ SameJob(job', job) /\ job'.read = <<>> /\ job'.pc = "upload"
            /\ job'.dirty = job.dirty /\ job'.state.files[p] = job.state.files[p]
        BY <1>0, <2>3, <3>3, CommitTo
      <4>2. job' # NoJob /\ ~Reads(p)' /\ job.pc # "scan"
        BY <3>3, <4>1 DEF NoJob, Reads, Commit
      <4>3. NoLess(p)
        BY <2>1, <3>1, <3>3 DEF Commit, NoLess
      <4>. QED
        BY <2>1, <3>1, <4>1, <4>2, <4>3, OnItsWaySame DEF SameJob
    <3>. QED
      BY <1>20, <3>2, <3>3
  <2>. QED
    BY <2>2, <2>3
<1>21. ASSUME NEW q \in Paths, RemoveOne(q) PROVE OnItsWay(p, c)'
  <2>1. OnItsWay(p, c)
    BY <1>1, <1>21 DEF RemoveOne
  <2>2. CASE p = q
    BY <1>21, <2>1, <2>2, OnItsWayRemoved
  <2>3. CASE p # q
    <3>1. /\ job # NoJob /\ SameJob(job', job) /\ job'.read = <<>> /\ job.read = <<>>
          /\ job.pc = "upload" /\ job'.pc = "upload" /\ job'.dirty = job.dirty
          /\ job'.state.files[p] = job.state.files[p]
      BY <1>0, <1>21, <2>3, RemoveOneTo, NotIdle
    <3>2. job' # NoJob /\ ~Reads(p) /\ ~Reads(p)'
      BY <3>1 DEF NoJob, Reads
    <3>3. files'[p] = files[p] /\ (p \in forgotten <=> p \in forgotten')
      BY <1>21, <2>3, RemovedTo
    <3>4. UNCHANGED disk /\ NoLess(p)
      BY <1>21, <3>3 DEF RemoveOne, NoLess, diskVars, sessionVars, recordVars
    <3>. QED
      BY <2>1, <3>1, <3>2, <3>4, OnItsWaySame DEF SameJob
  <2>. QED
    BY <2>2, <2>3
<1>22. CASE Finish
  BY <1>1, <1>22, OnItsWayFinish DEF Finish, historyVars
<1>23. CASE FailJob
  <2>1. job # NoJob
    BY <1>0, <1>23, BusyJob DEF FailJob
  <2>. QED
    BY <1>1, <1>23, <2>1, OnItsWayPutBack DEF FailJob, storeVars, diskVars, sessionVars,
       recordVars, historyVars
<1>24. CASE FailLapsed
  BY <1>1, <1>24, OnItsWayLapsed DEF FailLapsed
<1>25. SweepVault => FALSE
  BY DEF SweepVault
<1>26. DeleteCopy => files' = files
  BY DEF DeleteCopy, storeVars
<1>27. ASSUME NEW k \in KeyChecks, BeginPairing(k) PROVE files' = files
  <2>1. \/ epoch' = epoch + 1
        \/ CreateVault(k) \/ AdoptKey(k) \/ UNCHANGED storeVars
    BY <1>27 DEF BeginPairing, EnsureVault
  <2>2. CreateVault(k) \/ AdoptKey(k) \/ UNCHANGED storeVars
    BY <2>1
  <2>. QED
    BY <2>2 DEF CreateVault, AdoptKey, storeVars
<1>. QED
  BY <1>4, <1>5, <1>6, <1>6b, <1>7, <1>9, <1>10, <1>11, <1>12, <1>13, <1>14, <1>15, <1>16, <1>17,
     <1>18, <1>19, <1>20, <1>21, <1>22, <1>23, <1>24, <1>25, <1>26, <1>27
     DEF Next, Worker, Mishap, Account, User, Watcher

(* Every step keeps the effects on their way, ...                          *)
LEMMA AckStep == ASSUME TypeInv, Records, AckInv, Next PROVE AckInv'
<1>1. ASSUME epoch' = 0
      PROVE  /\ \A p \in Paths : Rowed(p)' /\ JobFollows(p)'
             /\ PromptWatcher =>
                    \A p \in Paths, c \in ClientIds \ revived' : OnItsWay(p, c)'
  <2>1. /\ epoch = 0 /\ \A p \in Paths : Rowed(p) /\ JobFollows(p)
        /\ PromptWatcher => \A p \in Paths, c \in ClientIds \ revived : OnItsWay(p, c)
    BY <1>1, FilesChange DEF AckInv
  <2>2. \A p \in Paths : Rowed(p)' /\ JobFollows(p)'
    BY <1>1, <2>1, RowedStep, JobFollowsStep
  <2>3. ASSUME PromptWatcher, NEW p \in Paths, NEW c \in ClientIds \ revived'
        PROVE  OnItsWay(p, c)'
    <3>1. c \notin revived => OnItsWay(p, c)
      BY <2>1, <2>3
    <3>. QED
      BY <1>1, <2>1, <2>3, <3>1, OnItsWayStep
  <2>. QED
    BY <2>2, <2>3
<1>. QED
  BY <1>1 DEF AckInv

(* ... and so does standing still.                                         *)
LEMMA AckInductive == TypeInv /\ Records /\ AckInv /\ [Next]_vars => AckInv'
<1>1. ASSUME AckInv, UNCHANGED vars PROVE AckInv'
  <2>1. UNCHANGED <<files, writes, phone, disk, unseen, state, saved, forgotten, revived, pending,
                    job, backoff, session, epoch>>
    BY <1>1 DEF vars, storeVars, diskVars, deskVars, sessionVars, recordVars, historyVars
  <2>2. \A p \in Paths : (Rowed(p) => Rowed(p)') /\ (JobFollows(p) => JobFollows(p)')
    BY <1>1, <2>1 DEF AckInv, Rowed, JobFollows, TrackedBy
  <2>3. ASSUME NEW p \in Paths, NEW c, OnItsWay(p, c) PROVE OnItsWay(p, c)'
    <3>1. NoLess(p)
      BY <2>1 DEF NoLess
    <3>. QED
      BY <2>1, <2>3, <3>1, OnItsWaySame
  <2>. QED
    BY <1>1, <2>1, <2>2, <2>3 DEF AckInv
<1>. QED
  BY <1>1, AckStep

(* No note shows anything yet.                                             *)
LEMMA AckInit == ASSUME Init PROVE AckInv
<1>1. /\ epoch = 0 /\ job = NoJob /\ \A p \in Paths : disk[p] = Gone
      /\ \A p \in Paths : state.files[p] = NoRecord /\ saved.files[p] = NoRecord
  BY DEF Init, NoState
<1>. QED
  BY <1>1 DEF AckInv, Rowed, JobFollows, OnItsWay, Gone

(* Only the ack moves the acked seq up.                                    *)
LEMMA AckedByAck ==
    ASSUME TypeInv, Next, NEW w \in writes, NewlyAcked(w) PROVE Ack
<1>0. /\ TypeOK /\ Shape /\ vault \in VaultRow
      /\ vault.ackedThroughSeq \in Nat /\ w.seq \in Nat \ {0}
  BY DEF TypeInv, TypeOK, StoreTypeOK, VaultRow, QueuedWrite
<1>1. ASSUME vault'.ackedThroughSeq = vault.ackedThroughSeq \/ vault'.ackedThroughSeq = 0
      PROVE  FALSE
  BY <1>0, <1>1 DEF NewlyAcked
<1>2. CASE Poll \/ StartJob \/ Scan \/ Fetch \/ EndDrain \/ EndUploads \/ Finish \/ FailLapsed
           \/ FailMissing \/ Start \/ BlockWrite \/ FailJob \/ FailAuth \/ Crash \/ SyncNow
           \/ LoseKey \/ TurnOff
  BY <1>1, <1>2 DEF Poll, StartJob, Scan, Fetch, EndDrain, EndUploads, Finish, FailLapsed,
     FailMissing, Start, BlockWrite, FailJob, FailAuth, Crash, SyncNow, LoseKey, TurnOff, storeVars
<1>3. ASSUME NEW p \in Paths, ReadFile(p) \/ Edit(p) \/ Undo(p) \/ Remove(p) \/ Watch(p)
      PROVE  FALSE
  BY <1>1, <1>3 DEF ReadFile, Edit, Undo, Remove, Watch, storeVars
<1>4. ASSUME NEW v, TakeWrite(v) PROVE FALSE
  BY <1>1, <1>4 DEF TakeWrite, storeVars
<1>5. ASSUME NEW c, NEW d, PhoneWrites(c, d) PROVE FALSE
  <2>1. vault' = [vault EXCEPT !.latestSeq = @ + 1]
    BY <1>5 DEF PhoneWrites, EnqueueWrite
  <2>. QED
    BY <1>0, <1>1, <2>1 DEF VaultRow
<1>5b. CASE PhonePairs
  BY <1>0, <1>1, <1>5b DEF PhonePairs, VaultRow
<1>6. CASE Lapse \/ Renew
  <2>1. \E b : vault' = [vault EXCEPT !.lapsed = b]
    BY <1>6, Zenon DEF Lapse, Renew, SetVaultLapsed
  <2>. QED
    BY <1>0, <1>1, <2>1 DEF VaultRow
<1>7. ASSUME DropVault \/ \E k : ResetVault(k) \/ CreateVault(k) \/ AdoptKey(k) PROVE FALSE
  <2>1. CASE DropVault \/ \E k : CreateVault(k)
    BY <1>1, <2>1 DEF DropVault, CreateVault, BlankVault
  <2>2. ASSUME NEW k, ResetVault(k) \/ AdoptKey(k) PROVE FALSE
    BY <1>0, <1>1, <2>2 DEF ResetVault, AdoptKey, VaultRow
  <2>. QED
    BY <1>7, <2>1, <2>2
<1>8. CASE DeleteCopy \/ SweepVault
  BY <1>1, <1>7, <1>8 DEF DeleteCopy, SweepVault, storeVars
<1>9. ASSUME NEW k, BeginPairing(k) PROVE FALSE
  BY <1>1, <1>7, <1>9 DEF BeginPairing, EnsureVault, storeVars
<1>10. CASE Commit \/ CommitLost
  <2>1. \E p, b, n : PublishFile(p, b, n)
    BY <1>10 DEF Commit, CommitLost, PublishRead
  <2>2. vault'.ackedThroughSeq = vault.ackedThroughSeq
    BY <1>0, <2>1 DEF PublishFile, VaultRow
  <2>. QED
    BY <1>1, <2>2
<1>11. ASSUME NEW p \in Paths, RemoveOne(p) PROVE FALSE
  <2>1. UNCHANGED storeVars \/ TombstoneFile(p, files[p].version)
    BY <1>11 DEF RemoveOne, storeVars
  <2>2. vault'.ackedThroughSeq = vault.ackedThroughSeq
    BY <1>0, <2>1 DEF TombstoneFile, storeVars, VaultRow
  <2>. QED
    BY <1>1, <2>2
<1>. QED
  BY <1>2, <1>3, <1>4, <1>5, <1>5b, <1>6, <1>8, <1>9, <1>10, <1>11
     DEF Next, Worker, Mishap, Account, User, Watcher

(* A record that is up to date is of the text in the row's blob.           *)
LEMMA RecordedIsThere ==
    ASSUME TypeInv, Records, job # NoJob, NEW p \in Paths, TrackedBy(job.state, p), NEW c,
           c \in job.state.files[p].text.effects
    PROVE  IsLive(files[p]) /\ c \in contents[files[p].blob].effects
<1>1. job.state.files[p] # NoRecord
  BY DEF NoRecord, Gone
<1>2. job.state.files[p].version > 0 /\ job.state.files[p].epoch = epoch
  BY <1>1 DEF Records, KnownNow, Known, TrackedBy
<1>3. IsLive(files[p]) /\ job.state.files[p].version = files[p].version
  BY <1>2 DEF TrackedBy
<1>4. /\ files[p].blob = job.state.files[p].version
      /\ contents[job.state.files[p].version] = job.state.files[p].text
  BY <1>1, <1>2, <1>3 DEF Records, Rows, KnownNow, Known
<1>. QED
  BY <1>3, <1>4

(* When the desk acks a write, every note that shows its effect is up with *)
(* it, though an earlier job applied the write and failed, the app was     *)
(* killed in between or the plan lapsed: the phone may forget the write.   *)
(* The exceptions are the ones of AckCarriesEffects.                       *)
THEOREM AckedIsCarried == Spec => AckCarriesEffects
<1>1. ASSUME TypeInv, Records, AckInv, Next, PromptWatcher, epoch = 0, NEW w \in writes, NewlyAcked(w),
             w.client \notin revived, NEW p \in Paths \ forgotten, ~files[p].deleted,
             TrackedBy(job.state, p), w.client \in disk[p].effects
      PROVE  IsLive(files[p]) /\ w.client \in contents[files[p].blob].effects
  <2>1. Ack
    BY <1>1, AckedByAck
  <2>2. job # NoJob /\ job.pc = "ack"
    BY <1>1, <2>1, AckTo, NotIdle DEF TypeInv
  <2>3. job.dirty = {} /\ ~Reads(p)
    BY <1>1, <2>2 DEF TypeInv, Shape, Reads
  <2>4. w.client \in ClientIds \ revived
    BY <1>1 DEF TypeInv, TypeOK, StoreTypeOK, QueuedWrite
  <2>5. OnItsWay(p, w.client)
    BY <1>1, <2>4 DEF AckInv
  <2>6. w.client \in job.state.files[p].text.effects
    BY <1>1, <2>2, <2>3, <2>5 DEF OnItsWay, Takes, Sent
  <2>. QED
    BY <1>1, <2>2, <2>6, RecordedIsThere
<1>2. TypeInv /\ Records /\ AckInv /\ [Next]_vars =>
          [PromptWatcher /\ epoch = 0 =>
             \A w \in writes : NewlyAcked(w) /\ w.client \notin revived =>
                 \A p \in Paths \ forgotten :
                     files[p].deleted \/ ~TrackedBy(job.state, p) \/ Carried(p, w.client)]_vars
  BY <1>1 DEF Carried
<1>3. Init => TypeInv /\ Records /\ AckInv
  BY TypeInit, RecordsInit, AckInit
<1>. QED
  BY <1>2, <1>3, TypeStep, RecordsInductive, AckInductive, PTL DEF Spec, AckCarriesEffects
===============================================================================
