------------------------------- MODULE DeskSync --------------------------------
(***************************************************************************)
(* The desk's half of vault sync: VaultSyncService and its worker          *)
(* (crates/thock/src/vault_sync.rs) over the tables of VaultStore.         *)
(*                                                                         *)
(* Disk, watcher, pending job, worker and server move independently:       *)
(*                                                                         *)
(*   disk --(Watch)--> pending --(StartJob)--> Scan -> Fetch -> TakeWrite* *)
(*     -> ReadFile/Commit* -> RemoveOne* -> Ack -> Finish                  *)
(*                                                                         *)
(* A job runs on copies of the pending work and of the state, and puts the *)
(* work back when it fails (finish_job); only a finished job saves the     *)
(* state.  One desk writes a vault, so a stale version is its own lost     *)
(* record and upload_file's second attempt finds the right one.            *)
(*                                                                         *)
(* A note's text is the number of its last edit and the set of phone       *)
(* writes whose effect it shows; equal texts have equal hashes.  Left out: *)
(* files that cannot be sent (size, encoding, quota), folders that cannot  *)
(* be listed, pictures.                                                    *)
(***************************************************************************)
EXTENDS VaultStore

CONSTANTS
    MaxEdits,       \* bound on the user's edits and deletions; one undo may follow them
    MaxFaults,      \* bound on failed requests, blocked writes and crashes
    MaxLapses,      \* bound on lapses of the entitlement
    MaxPairings,    \* bound on begin_pairing and turn_off
    PromptWatcher   \* does the watcher report within the retry delay (5 s)

ASSUME DeskAssumption ==
    /\ MaxEdits \in Nat /\ MaxFaults \in Nat /\ MaxLapses \in Nat /\ MaxPairings \in Nat
    /\ PromptWatcher \in BOOLEAN

VARIABLES
    disk,       \* the notes in the vault folder
    unseen,     \* paths changed since the watcher last reported them
    session,    \* is a session running
    state,      \* LocalState: the records of uploaded files, the acked seq
    saved,      \* the state file
    pending,    \* the work for the next job
    job,        \* the running job, NoJob when the worker is idle
    backoff,    \* did the last job fail
    key,        \* the vault key in the keychain: none or one
    deleting,   \* is turn_off's deletion under way
    doc,        \* the document behind a client id
    contents,   \* the text sealed in each blob
    epoch,      \* history: how many times the server copy was wiped
    forgotten,  \* history: paths whose upload a known gap dropped
    revived,    \* history: writes whose effect an undo brought back to a note
    edits, faults, lapses, pairings

diskVars == <<disk, unseen, doc, edits>>
sessionVars == <<session, key, deleting>>
recordVars == <<state, saved>>
deskVars == <<sessionVars, recordVars, pending, job, backoff>>
historyVars == <<contents, epoch, forgotten, revived>>
boundVars == <<faults, lapses, pairings>>
vars == <<storeVars, diskVars, deskVars, historyVars, boundVars>>

Gone == [edit |-> 0, effects |-> {}]
OnDisk(p) == disk[p] # Gone
NoRecord == [version |-> 0, text |-> Gone, epoch |-> 0]
NoState == [files |-> [p \in Paths |-> NoRecord], acked |-> 0]
NoWork == [catchUp |-> FALSE, drain |-> FALSE, dirty |-> {}, removed |-> {}]
NoJob == [pc |-> "none"]
NoDoc == [kind |-> "none"]
Docs ==
    {NoDoc} \cup [kind: {"text"}, path: Paths] \cup
    {d \in [kind: {"move"}, path: Paths, to: Paths] : d.path # d.to}

Texts == [edit: 0..MaxEdits + 1, effects: SUBSET ClientIds]
LocalState ==
    [files: [Paths -> [version: Nat, text: Texts, epoch: Nat]], acked: Nat]
Job == [catchUp: BOOLEAN, drain: BOOLEAN, dirty: SUBSET Paths, removed: SUBSET Paths]
Running ==
    [pc: {"scan", "fetch", "take", "upload", "commit", "ack", "finish"},
     work: Job, base: LocalState, dirty: SUBSET Paths, removed: SUBSET Paths, state: LocalState,
     queue: SUBSET QueuedWrite, last: Nat, blocked: BOOLEAN,
     read: {<<>>} \cup (Paths \X Texts)]

TypeOK ==
    /\ StoreTypeOK
    /\ disk \in [Paths -> Texts]
    /\ unseen \subseteq Paths
    /\ session \in BOOLEAN /\ backoff \in BOOLEAN /\ deleting \in BOOLEAN
    /\ key \in SUBSET KeyChecks
    /\ state \in LocalState /\ saved \in LocalState
    /\ pending \in Job
    /\ job \in {NoJob} \cup Running
    /\ doc \in [ClientIds -> Docs]
    /\ contents \in [0..MaxVersion -> Texts]
    /\ epoch \in Nat
    /\ forgotten \subseteq Paths /\ revived \subseteq ClientIds
    /\ edits \in 0..MaxEdits + 1 /\ faults \in 0..MaxFaults
    /\ lapses \in 0..MaxLapses /\ pairings \in 0..MaxPairings

(* A full catch-up and a drain, added to what is pending (start_session).  *)
FullPass == [pending EXCEPT !.catchUp = TRUE, !.drain = TRUE]

(* An empty folder, paired and about to catch up.                          *)
Init ==
    /\ \E k \in KeyChecks : vault = BlankVault(TRUE, 1, k) /\ key = {k}
    /\ files = [p \in Paths |-> NoRow]
    /\ pending_uploads = {} /\ writes = {}
    /\ phone = TRUE /\ pairing = FALSE
    /\ disk = [p \in Paths |-> Gone]
    /\ unseen = {}
    /\ session = TRUE /\ backoff = FALSE /\ deleting = FALSE
    /\ state = NoState /\ saved = NoState
    /\ pending = [NoWork EXCEPT !.catchUp = TRUE, !.drain = TRUE]
    /\ job = NoJob
    /\ doc = [c \in ClientIds |-> NoDoc]
    /\ contents = [b \in 0..MaxVersion |-> Gone]
    /\ epoch = 0 /\ forgotten = {} /\ revived = {}
    /\ edits = 0 /\ faults = 0 /\ lapses = 0 /\ pairings = 0

-------------------------------------------------------------------------------
(* The user, the phone and the watcher *)

Edit(p) ==
    /\ edits < MaxEdits /\ edits' = edits + 1
    /\ disk' = [disk EXCEPT ![p].edit = edits + 2]
    /\ unseen' = unseen \cup {p}
    /\ UNCHANGED <<storeVars, doc, deskVars, historyVars, boundVars>>

Remove(p) ==
    /\ OnDisk(p)
    /\ edits < MaxEdits /\ edits' = edits + 1
    /\ disk' = [disk EXCEPT ![p] = Gone]
    /\ unseen' = unseen \cup {p}
    /\ UNCHANGED <<storeVars, doc, deskVars, historyVars, boundVars>>

(* The user takes an edit back: the note is again what was last recorded.  *)
Undo(p) ==
    /\ OnDisk(p) /\ state.files[p].text \notin {disk[p], Gone}
    /\ edits <= MaxEdits /\ edits' = edits + 1
    /\ disk' = [disk EXCEPT ![p] = state.files[p].text]
    /\ unseen' = unseen \cup {p}
    /\ revived' = revived \cup (state.files[p].text.effects \ disk[p].effects)
    /\ UNCHANGED <<storeVars, doc, deskVars, contents, epoch, forgotten, boundVars>>

(* A write of the phone reaches the queue.                                 *)
PhoneWrites(c, d) ==
    /\ phone /\ ~vault.lapsed
    /\ doc[c] = NoDoc /\ d # NoDoc
    /\ EnqueueWrite(c)
    /\ doc' = [doc EXCEPT ![c] = d]
    /\ UNCHANGED <<disk, unseen, edits, deskVars, historyVars, boundVars>>

(* The phone redeems the code that begin_pairing minted for a new copy.    *)
PhonePairs ==
    /\ vault.exists /\ ~vault.lapsed /\ ~phone
    /\ phone' = TRUE
    /\ UNCHANGED <<vault, files, pending_uploads, writes, pairing, diskVars, deskVars,
                   historyVars, boundVars>>

(* handle_project_event: one path, as it is on disk by now.  Without a     *)
(* session the event is ignored.                                           *)
Watch(p) ==
    /\ p \in unseen
    /\ unseen' = unseen \ {p}
    /\ pending' =
         IF ~session THEN pending
         ELSE IF OnDisk(p)
              THEN [pending EXCEPT !.removed = @ \ {p}, !.dirty = @ \cup {p}]
              ELSE [pending EXCEPT !.dirty = @ \ {p}, !.removed = @ \cup {p}]
    /\ UNCHANGED <<storeVars, disk, doc, edits, sessionVars, recordVars, job, backoff,
                   historyVars, boundVars>>

-------------------------------------------------------------------------------
(* The worker *)

(* Mutant: the poll rides along with other work only.                      *)
PollAlong ==
    /\ session /\ ~pending.drain
    /\ writes # {}
    /\ pending # NoWork
    /\ pending' = [pending EXCEPT !.drain = TRUE]
    /\ UNCHANGED <<storeVars, diskVars, sessionVars, recordVars, job, backoff,
                   historyVars, boundVars>>

(* start_polling asks for a drain every minute; the model asks when there  *)
(* is something to drain.                                                  *)
Poll ==
    /\ session /\ ~pending.drain
    /\ writes # {}
    /\ pending' = [pending EXCEPT !.drain = TRUE]
    /\ UNCHANGED <<storeVars, diskVars, sessionVars, recordVars, job, backoff,
                   historyVars, boundVars>>

(* schedule_work takes the pending work, after a retry delay if there is   *)
(* one.                                                                    *)
StartJob ==
    /\ session /\ job = NoJob
    /\ pending # NoWork
    /\ backoff /\ PromptWatcher => unseen = {}
    /\ job' = [pc |-> "scan", work |-> pending, base |-> state, dirty |-> pending.dirty,
               removed |-> pending.removed, state |-> state, queue |-> {}, last |-> 0,
               blocked |-> FALSE, read |-> <<>>]
    /\ pending' = NoWork
    /\ backoff' = FALSE
    /\ UNCHANGED <<storeVars, diskVars, sessionVars, recordVars, historyVars,
                   boundVars>>

(* scan_vault: every file whose text is not the recorded one, and every    *)
(* record without a file.                                                  *)
Scan ==
    LET changed == {p \in Paths : OnDisk(p) /\ job.state.files[p].text # disk[p]}
        removed == {p \in Paths : ~OnDisk(p) /\ job.state.files[p] # NoRecord}
    IN  /\ job.pc = "scan"
        /\ job' = [job EXCEPT
                     !.pc = IF job.work.drain THEN "fetch" ELSE "upload",
                     !.dirty = IF job.work.catchUp THEN @ \cup changed ELSE @,
                     !.removed = IF job.work.catchUp THEN @ \cup removed ELSE @]
        /\ forgotten' = IF job.work.catchUp THEN {} ELSE forgotten
        /\ UNCHANGED <<storeVars, diskVars, sessionVars, recordVars, pending, backoff,
                       contents, epoch, revived, boundVars>>

(* A request the server lets in (withVault).                               *)
Served == vault.exists /\ ~vault.lapsed

Fetch ==
    /\ job.pc = "fetch" /\ Served
    /\ job' = [job EXCEPT !.pc = "take", !.queue = ListWrites(job.state.acked)]
    /\ UNCHANGED <<storeVars, diskVars, sessionVars, recordVars, pending, backoff,
                   historyVars, boundVars>>

NextWrite(w) == w \in job.queue /\ \A x \in job.queue : w.seq <= x.seq

(* What applying a write did (AppliedWrite), with the disk it leaves.      *)
NoOp == [disk |-> disk, changed |-> {}, removed |-> {}]

(* apply_opened_write changes the file, creating it where missing, or      *)
(* finds the effect there already.                                         *)
ApplyText(p, c) ==
    IF c \in disk[p].effects THEN NoOp
    ELSE [disk |-> [disk EXCEPT ![p] = [edit |-> IF @ = Gone THEN 1 ELSE @.edit,
                                        effects |-> @.effects \cup {c}]],
          changed |-> {p}, removed |-> {}]

(* apply_move_file: a source that is gone or a destination that is there   *)
(* is a no-op.                                                             *)
ApplyMove(p, to) ==
    IF ~OnDisk(p) \/ OnDisk(to) THEN NoOp
    ELSE [disk |-> [disk EXCEPT ![to] = disk[p], ![p] = Gone],
          changed |-> {to}, removed |-> {p}]

(* One write of the queue.  One that cannot be read (Refused), or whose    *)
(* line is gone, is answered like the others.                              *)
TakeWrite(w) ==
    /\ job.pc = "take" /\ NextWrite(w)
    /\ LET d == doc[w.client]
           applied == IF d.kind = "text" THEN ApplyText(d.path, w.client)
                                         ELSE ApplyMove(d.path, d.to)
       IN  \E r \in {applied, NoOp} :
             /\ disk' = r.disk
             /\ unseen' = unseen \cup r.changed \cup r.removed
             /\ job' = [job EXCEPT !.queue = @ \ {w}, !.last = w.seq,
                          !.dirty = @ \cup r.changed, !.removed = @ \cup r.removed]
    /\ UNCHANGED <<storeVars, doc, edits, sessionVars, recordVars, pending, backoff,
                   historyVars, boundVars>>

(* The vault cannot be written, or the write needs a newer desk: it and    *)
(* the writes after it stay queued.                                        *)
BlockWrite ==
    /\ job.pc = "take" /\ job.queue # {}
    /\ faults < MaxFaults /\ faults' = faults + 1
    /\ job' = [job EXCEPT !.queue = {}, !.blocked = TRUE]
    /\ UNCHANGED <<storeVars, diskVars, sessionVars, recordVars, pending, backoff,
                   historyVars, lapses, pairings>>

(* Mutant: the ack goes out before the uploads.                            *)
EndDrainAcking ==
    /\ job.pc = "take" /\ job.queue = {}
    /\ job' = [job EXCEPT !.pc = IF job.last > 0 THEN "ack" ELSE "upload"]
    /\ UNCHANGED <<storeVars, diskVars, sessionVars, recordVars, pending, backoff,
                   historyVars, boundVars>>

EndDrain ==
    /\ job.pc = "take" /\ job.queue = {}
    /\ job' = [job EXCEPT !.pc = "upload"]
    /\ UNCHANGED <<storeVars, diskVars, sessionVars, recordVars, pending, backoff,
                   historyVars, boundVars>>

(* The upload loop reads a file: gone or as recorded, it is passed over.   *)
ReadFile(p) ==
    /\ job.pc = "upload" /\ p \in job.dirty
    /\ job' = IF OnDisk(p) /\ job.state.files[p].text # disk[p]
              THEN [job EXCEPT !.pc = "commit", !.dirty = @ \ {p}, !.read = <<p, disk[p]>>]
              ELSE [job EXCEPT !.dirty = @ \ {p}]
    /\ UNCHANGED <<storeVars, diskVars, sessionVars, recordVars, pending, backoff,
                   historyVars, boundVars>>

(* The server publishes the text that was read.                            *)
PublishRead(p, text) ==
    /\ Served
    /\ PublishFile(p, vault.latestVersion + 1, 1)
    /\ contents' = [contents EXCEPT ![vault.latestVersion + 1] = text]
    /\ forgotten' = forgotten \ {p}
    /\ UNCHANGED <<pending_uploads, writes, phone, pairing>>

(* Mutant: the record is of the file as it is now.                         *)
CommitReread ==
    /\ job.pc = "commit"
    /\ LET p == job.read[1]
       IN  /\ PublishRead(p, job.read[2])
           /\ job' = [job EXCEPT !.pc = "upload", !.read = <<>>,
                        !.state.files[p] = [version |-> vault.latestVersion + 1,
                                            text |-> disk[p], epoch |-> epoch]]
    /\ UNCHANGED <<diskVars, sessionVars, recordVars, pending, backoff, epoch, revived,
                   boundVars>>

(* upload_file: begin, put and commit.                                     *)
Commit ==
    /\ job.pc = "commit"
    /\ LET p == job.read[1]
           text == job.read[2]
       IN  /\ PublishRead(p, text)
           /\ job' = [job EXCEPT !.pc = "upload", !.read = <<>>,
                        !.state.files[p] = [version |-> vault.latestVersion + 1, text |-> text,
                                            epoch |-> epoch]]
    /\ UNCHANGED <<diskVars, sessionVars, recordVars, pending, backoff, epoch, revived,
                   boundVars>>

(* Once every changed file is up: tombstone what vanished.                 *)
RemoveOne(p) ==
    /\ job.pc = "upload" /\ job.dirty = {} /\ p \in job.removed
    /\ IF job.state.files[p] = NoRecord THEN UNCHANGED <<storeVars, forgotten>>
       ELSE /\ Served
            /\ \/ TombstoneFile(p, files[p].version)
               \/ ~IsLive(files[p]) /\ UNCHANGED storeVars
            /\ forgotten' = IF OnDisk(p) /\ p \notin unseen \cup pending.dirty
                            THEN forgotten \cup {p} ELSE forgotten \ {p}
    /\ job' = [job EXCEPT !.removed = @ \ {p}, !.state.files[p] = NoRecord]
    /\ UNCHANGED <<diskVars, sessionVars, recordVars, pending, backoff, contents, epoch,
                   revived, boundVars>>

EndUploads ==
    /\ job.pc = "upload" /\ job.dirty = {} /\ job.removed = {}
    /\ job' = [job EXCEPT !.pc = IF job.last > 0 THEN "ack" ELSE "finish"]
    /\ UNCHANGED <<storeVars, diskVars, sessionVars, recordVars, pending, backoff,
                   historyVars, boundVars>>

(* ack; one that the server already has is answered with what it has.      *)
Ack ==
    /\ job.pc = "ack" /\ Served
    /\ AckWrites(job.last) \/ (job.last <= vault.ackedThroughSeq /\ UNCHANGED storeVars)
    /\ job' = [job EXCEPT !.pc = "finish", !.state.acked = vault'.ackedThroughSeq]
    /\ UNCHANGED <<diskVars, sessionVars, recordVars, pending, backoff, historyVars,
                   boundVars>>

(* Mutant: flags set while the job ran are lost.                           *)
FinishClean ==
    /\ job.pc = "finish" /\ vault.exists
    /\ state' = job.state
    /\ saved' = IF job.state # job.base THEN job.state ELSE saved
    /\ pending' = [NoWork EXCEPT !.drain = job.blocked]
    /\ backoff' = job.blocked
    /\ job' = NoJob
    /\ UNCHANGED <<storeVars, diskVars, sessionVars, historyVars, boundVars>>

(* GET /v1/vault, save_state where the job changed the state, and          *)
(* finish_job.                                                             *)
Finish ==
    /\ job.pc = "finish" /\ vault.exists
    /\ state' = job.state
    /\ saved' = IF job.state # job.base THEN job.state ELSE saved
    /\ pending' = [pending EXCEPT !.drain = @ \/ job.blocked]
    /\ backoff' = job.blocked
    /\ job' = NoJob
    /\ UNCHANGED <<storeVars, diskVars, sessionVars, historyVars, boundVars>>

-------------------------------------------------------------------------------
(* Failed jobs: finish_job's Err *)

(* Mutant: the failed job's work is dropped.                               *)
PutNothingBack == pending

(* The work is put back beside what came in meanwhile; what the job did    *)
(* to the state is dropped.                                                *)
PutBack ==
    [catchUp |-> pending.catchUp \/ job.work.catchUp,
     drain |-> pending.drain \/ job.work.drain,
     dirty |-> pending.dirty \cup job.work.dirty,
     removed |-> pending.removed \cup job.work.removed]

Asking == {"fetch", "commit", "ack", "finish"}
Busy == job.pc \in Asking \/ (job.pc = "upload" /\ job.removed # {})

(* A request, or saving the state, fails.                                  *)
FailJob ==
    /\ Busy
    /\ faults < MaxFaults /\ faults' = faults + 1
    /\ pending' = PutBack
    /\ backoff' = TRUE
    /\ job' = NoJob
    /\ UNCHANGED <<storeVars, diskVars, sessionVars, recordVars, historyVars, lapses,
                   pairings>>

(* The server committed, but its answer never arrived.                     *)
CommitLost ==
    /\ job.pc = "commit"
    /\ faults < MaxFaults /\ faults' = faults + 1
    /\ PublishRead(job.read[1], job.read[2])
    /\ pending' = PutBack
    /\ backoff' = TRUE
    /\ job' = NoJob
    /\ UNCHANGED <<diskVars, sessionVars, recordVars, epoch, revived, lapses, pairings>>

(* plus_lapsed: every request but the last.  The work is dropped.          *)
FailLapsed ==
    /\ Busy /\ job.pc # "finish"
    /\ vault.exists /\ vault.lapsed
    /\ pending' = NoWork
    /\ forgotten' = IF PutBack.catchUp THEN Paths
                    ELSE forgotten \cup PutBack.dirty \cup PutBack.removed
                             \cup job.dirty \cup job.removed
                             \cup {p \in Paths : job.read # <<>> /\ job.read[1] = p}
    /\ backoff' = FALSE
    /\ job' = NoJob
    /\ UNCHANGED <<storeVars, diskVars, sessionVars, recordVars, contents, epoch, revived,
                   boundVars>>

(* vault_missing: stop_session, with the state as it was.                  *)
FailMissing ==
    /\ Busy /\ ~vault.exists
    /\ session' = FALSE
    /\ pending' = NoWork
    /\ job' = NoJob
    /\ UNCHANGED <<storeVars, diskVars, key, deleting, recordVars, backoff, historyVars,
                   boundVars>>

(* unauthorized, revoked: stop_session.                                    *)
FailAuth ==
    /\ Busy
    /\ faults < MaxFaults /\ faults' = faults + 1
    /\ session' = FALSE
    /\ pending' = NoWork
    /\ job' = NoJob
    /\ UNCHANGED <<storeVars, diskVars, key, deleting, recordVars, backoff, historyVars,
                   lapses, pairings>>

-------------------------------------------------------------------------------
(* Sessions *)

(* start: sync_now or a reload without a session, or the app started       *)
(* again.  The state comes from its file; without a key sync stays off.    *)
Start ==
    /\ ~session
    /\ state' = saved
    /\ session' = (key # {})
    /\ pending' = IF key # {} THEN FullPass ELSE pending
    /\ backoff' = FALSE
    /\ UNCHANGED <<storeVars, diskVars, key, deleting, saved, job, historyVars,
                   boundVars>>

(* sync_now in a session; refresh_info when it sees the phone arrive.      *)
SyncNow ==
    /\ session /\ pending' = FullPass
    /\ UNCHANGED <<storeVars, diskVars, sessionVars, recordVars, job, backoff,
                   historyVars, boundVars>>

(* The app stops half way through anything; changes made while it is       *)
(* closed are never reported.                                              *)
Crash ==
    /\ faults < MaxFaults /\ faults' = faults + 1
    /\ session' = FALSE
    /\ state' = saved
    /\ pending' = NoWork
    /\ job' = NoJob
    /\ backoff' = FALSE
    /\ unseen' = {}
    /\ deleting' = FALSE
    /\ UNCHANGED <<storeVars, disk, doc, edits, key, saved, historyVars, lapses,
                   pairings>>

(* The keychain entry is gone (another machine, a wiped keychain) while    *)
(* the vault folder, and the state file in it, are still there.            *)
LoseKey ==
    /\ pairings < MaxPairings /\ pairings' = pairings + 1
    /\ ~session /\ job = NoJob /\ key' = {}
    /\ UNCHANGED <<storeVars, diskVars, session, deleting, recordVars, pending, job,
                   backoff, historyVars, faults, lapses>>

(* What the server makes of the key: ensure_vault, and reset_vault where   *)
(* it holds files under another one.                                       *)
EnsureVault(k) ==
    /\ ~vault.lapsed
    /\ \/ CreateVault(k) /\ UNCHANGED epoch
       \/ vault.exists /\ vault.key = k /\ UNCHANGED <<storeVars, epoch>>
       \/ AdoptKey(k) /\ UNCHANGED epoch
       \/ /\ vault.exists /\ vault.key # k /\ \E p \in Paths : IsLive(files[p])
          /\ ResetVault(k)
          /\ epoch' = epoch + 1

(* Mutant: the new session does not look at the folder.                    *)
BeginPairingUnscanned(k) ==
    /\ pairings < MaxPairings /\ pairings' = pairings + 1
    /\ key \subseteq {k} /\ key' = IF session THEN key ELSE {k}
    /\ EnsureVault(k)
    /\ session' = TRUE
    /\ pending' = [pending EXCEPT !.drain = TRUE]
    /\ UNCHANGED <<diskVars, deleting, recordVars, job, backoff, contents, forgotten,
                   revived, faults, lapses>>

(* begin_pairing, with the session's key, the one of the keychain or a new *)
(* one; then a session, or a catch-up in the running one.  The records of  *)
(* an earlier copy stay.                                                   *)
BeginPairing(k) ==
    /\ pairings < MaxPairings /\ pairings' = pairings + 1
    /\ key \subseteq {k} /\ key' = IF session THEN key ELSE {k}
    /\ EnsureVault(k)
    /\ session' = TRUE
    /\ pending' = IF session THEN [pending EXCEPT !.catchUp = TRUE] ELSE FullPass
    /\ UNCHANGED <<diskVars, deleting, recordVars, job, backoff, contents, forgotten,
                   revived, faults, lapses>>

(* turn_off stops the session and forgets the state; a job that runs is    *)
(* not stopped.                                                            *)
TurnOff ==
    /\ session
    /\ pairings < MaxPairings /\ pairings' = pairings + 1
    /\ session' = FALSE
    /\ state' = NoState
    /\ pending' = NoWork
    /\ deleting' = TRUE
    /\ UNCHANGED <<storeVars, diskVars, key, saved, job, backoff, historyVars, faults,
                   lapses>>

(* ... and deletes the server copy, the key and the state file, the last   *)
(* two only if the server still had a copy.                                *)
DeleteCopy ==
    /\ deleting /\ deleting' = FALSE
    /\ \/ /\ DropVault
          /\ epoch' = epoch + 1
          /\ key' = {} /\ saved' = NoState
       \/ ~vault.exists /\ UNCHANGED <<storeVars, epoch, key, saved>>
    /\ UNCHANGED <<diskVars, session, state, pending, job, backoff, contents, forgotten,
                   revived, boundVars>>

Lapse ==
    /\ lapses < MaxLapses /\ lapses' = lapses + 1
    /\ SetVaultLapsed(TRUE)
    /\ UNCHANGED <<diskVars, deskVars, historyVars, faults, pairings>>

Renew ==
    /\ SetVaultLapsed(FALSE)
    /\ UNCHANGED <<diskVars, deskVars, historyVars, boundVars>>

(* The sweeper, thirty days into a lapse.                                  *)
SweepVault ==
    /\ vault.lapsed
    /\ DropVault
    /\ epoch' = epoch + 1
    /\ UNCHANGED <<diskVars, deskVars, contents, forgotten, revived, boundVars>>

-------------------------------------------------------------------------------
Worker ==
    \/ Poll \/ StartJob \/ Scan \/ Fetch
    \/ (job.pc = "take" /\ \E w \in job.queue : TakeWrite(w))
    \/ EndDrain
    \/ \E p \in Paths : ReadFile(p) \/ RemoveOne(p)
    \/ Commit \/ EndUploads \/ Ack \/ Finish
    \/ FailLapsed \/ FailMissing
    \/ Start

Mishap == BlockWrite \/ FailJob \/ CommitLost \/ FailAuth \/ Crash

Account ==
    \/ \E k \in KeyChecks : BeginPairing(k)
    \/ SyncNow \/ LoseKey \/ TurnOff \/ DeleteCopy \/ Lapse \/ Renew \/ SweepVault

User ==
    \/ \E p \in Paths : Edit(p) \/ Undo(p) \/ Remove(p)
    \/ \E c \in ClientIds, d \in Docs : PhoneWrites(c, d)
    \/ PhonePairs

Watcher == \E p \in Paths : Watch(p)

Next == Worker \/ Mishap \/ Account \/ User \/ Watcher

(* The worker's loop runs on while a session does, and the watcher reports *)
(* what changed.                                                           *)
Fairness == WF_vars(Worker) /\ WF_vars(Watcher)

Spec == Init /\ [][Next]_vars
FairSpec == Spec /\ Fairness

-------------------------------------------------------------------------------
(* Properties *)

(* The desk has nothing left to do.                                        *)
Settled ==
    /\ session /\ Served
    /\ job = NoJob /\ pending = NoWork /\ unseen = {}

(* The server holds the note as it is on disk.                             *)
Synced(p) ==
    IF OnDisk(p) THEN IsLive(files[p]) /\ contents[files[p].blob] = disk[p]
                 ELSE ~IsLive(files[p])

(* The record a state has of a path is of this server copy, and up to      *)
(* date.                                                                   *)
TrackedBy(s, p) ==
    LET r == s.files[p]
    IN  /\ r.version = IF IsLive(files[p]) THEN files[p].version ELSE 0
        /\ r # NoRecord => r.epoch = epoch

Tracked(p) == TrackedBy(state, p)

(* Whatever was edited, written by the phone, failed, retried or crashed   *)
(* while jobs ran, a desk with nothing left to do has uploaded every note  *)
(* as it is on disk, apart from the paths its known gaps leave behind: a   *)
(* record behind the server or of another copy, work dropped by a lapse, a *)
(* note tombstoned while on disk.                                          *)
SettledIsSynced ==
    Settled => \A p \in Paths \ forgotten : Tracked(p) => Synced(p)

(* The same with no exception.                                             *)
SettledAlwaysSynced == Settled => \A p \in Paths : Synced(p)

(* And so it is where nothing failed, lapsed or was paired anew, whatever  *)
(* was edited between any two steps of the worker.                         *)
QuietlySynced == faults = 0 /\ lapses = 0 /\ pairings = 0 => SettledAlwaysSynced

(* What the gaps above may hide of the notes on disk, through lapses, new  *)
(* pairings and turning sync off as well: only a note that has not been    *)
(* touched since it was recorded.  One that is new, or was edited while    *)
(* there was no session to see it, is brought up by the next one.          *)
OnlyUntouchedHidden ==
    Settled =>
        \A p \in Paths \ forgotten :
            OnDisk(p) /\ ~Synced(p) => state.files[p].text = disk[p] /\ ~Tracked(p)

(* "Renewing inside the window resumes" (v34-vault-sync.md:375): after a   *)
(* lapse that ended in time, a desk with nothing left to do is synced.     *)
RenewalResumes == epoch = 0 /\ faults = 0 => SettledAlwaysSynced

(* "The desk then re-uploads everything" (v34-vault-sync-api.md:306) after *)
(* a reset, and a swept copy's "pairing starts over with a fresh upload"   *)
(* (v34-vault-sync.md:376): the new copy has every note of the folder.     *)
NewCopyIsFull ==
    epoch > 0 /\ Settled => \A p \in Paths : OnDisk(p) => IsLive(files[p])

(* The effect of a write, where it is on disk, is in the server's copy.    *)
Carried(p, c) ==
    c \in disk[p].effects => IsLive(files[p]) /\ c \in contents[files[p].blob].effects

NewlyAcked(w) == w.seq > vault.ackedThroughSeq /\ w.seq <= vault'.ackedThroughSeq

(* When the desk acks a write, the snapshot that carries its effect is up, *)
(* so the phone may forget the write: wherever the note on disk shows the  *)
(* effect, the server's copy does, though an earlier job applied the write *)
(* and failed.  The exceptions are the gaps above, a watcher later than    *)
(* the retry delay, a path the job itself tombstoned after uploading it,   *)
(* an effect that was taken out of a note and came back with an undo, and  *)
(* a copy that is not the first (NewCopyIsFull, ServedIsAcked).            *)
AckCarriesEffects ==
    [][PromptWatcher /\ epoch = 0 =>
         \A w \in writes : NewlyAcked(w) /\ w.client \notin revived =>
             \A p \in Paths \ forgotten :
                 files[p].deleted \/ ~TrackedBy(job.state, p) \/ Carried(p, w.client)]_vars

(* A failed or killed job leaves the desk a record the server has at least *)
(* reached, so a retry starts from a version the server can answer.        *)
RecordsBehindServer ==
    \A p \in Paths :
        LET r == state.files[p]
        IN  r.epoch = epoch /\ IsLive(files[p]) /\ r # NoRecord =>
                /\ r.version <= files[p].version
                /\ r.version = files[p].version => contents[files[p].blob] = r.text

(* When everyone stops, every note comes to be synced.                     *)
EventuallySynced ==
    <>[](\A p \in Paths \ forgotten : Tracked(p) => Synced(p))

(* Every write of the phone is acked in the end, by the poll if need be.   *)
EventuallyAcked == \A c \in ClientIds : []<>(\A w \in writes : w.client = c => w.acked)

(* "its writes queue; on desk open the drain applies them in seq order,    *)
(* uploads, acks" (v34-vault-sync-api.md:893): in a session that the       *)
(* server goes on serving every write is acked, in whichever copy it came. *)
ServedIsAcked == <>[](session /\ Served) => EventuallyAcked
================================================================================
