------------------------------ MODULE PhoneSync -------------------------------
(***************************************************************************)
(* The phone's half of vault sync: its local store (VaultStore.swift), its *)
(* sync rounds (SyncEngine.swift) and the list route they page through     *)
(* (handleFilesList), over the tables of VaultStore.  The desk is reduced  *)
(* to the order run_job of vault_sync.rs keeps: take a write, upload what  *)
(* it touched, then ack.                                                   *)
(*                                                                         *)
(* A round is one call of round(): send the unsent writes, pull the files  *)
(* page by page, read the vault and prune.  Rounds never overlap (the      *)
(* running flag of sync()), but the user keeps writing and the desk keeps  *)
(* uploading between any two steps of one, and it can fail or the app be   *)
(* killed at each.  The list handler reads the vaults row when it lets the *)
(* request in and the files table later: two steps (ListAuth, ListRead).   *)
(*                                                                         *)
(* Text is abstracted to the set of phone writes whose effect it shows, a  *)
(* blob to its number (a content hash is of the sealed envelope, so it     *)
(* names one blob).  Kinds of writes: "text" for the kinds that edit a     *)
(* note and create it where missing, "move" for move_file.  Left out:      *)
(* pictures (never fetched), pairing and lapse, the week after which an    *)
(* acked write's row goes.                                                 *)
(***************************************************************************)
EXTENDS VaultStore

CONSTANTS
    Kinds,      \* the kinds of write the user makes: {"text"}, {"text", "move"}
    Limit,      \* rows on a page of the list route
    MaxEdits,   \* bound on the desk user's edits and deletions
    MaxFaults   \* bound on failed requests, failed downloads and killed rounds

ASSUME PhoneAssumption ==
    /\ Kinds \subseteq {"text", "move"}
    /\ Limit \in Nat \ {0} /\ MaxEdits \in Nat /\ MaxFaults \in Nat
    /\ IsFiniteSet(Paths) /\ IsFiniteSet(ClientIds)
    \* room for every edit and two changed notes per write
    /\ MaxVersion >= MaxEdits + 2 * Cardinality(ClientIds)
    /\ MaxSeq >= Cardinality(ClientIds)

VARIABLES
    \* the phone's database
    rows,       \* files: the row of each path
    outbox,     \* pending_writes: the client ids that have a row
    localId,    \* the local_id a client id was given; 0 before it has a row
    lastId,     \* the table's AUTOINCREMENT
    seqOf,      \* the seq column of pending_writes; 0 for NULL
    doc,        \* the document behind a client id
    cursor,     \* meta "cursor"
    refetch,    \* meta "refetch"
    \* the engine
    pull,       \* where the round is, and the locals of pull()
    \* the desk
    note,       \* the notes on disk
    dirty,      \* paths the user changed, to be uploaded some time
    touched,    \* paths the job's writes changed, to be uploaded before the ack
    taken,      \* the job has answered the writes up to this seq
    result,     \* what became of each write
    \* history and bounds
    contents,   \* the text sealed in each blob
    changed,    \* the version of the last change of each path
    missed,     \* paths of which a change slipped through a known gap, until
                \* the phone next takes a row of the path or removes it
    parted,     \* writes whose note the desk removed or moved after it had
                \* applied them
    edits, faults

outboxVars == <<outbox, localId, lastId, seqOf, doc>>
phoneVars == <<rows, outboxVars, cursor, refetch>>
deskVars == <<note, dirty, touched, taken, result>>
historyVars == <<contents, changed, missed, parted>>
vars == <<storeVars, phoneVars, pull, deskVars, historyVars, edits, faults>>

Absent == [present |-> FALSE, blob |-> NoBlob, effects |-> {}]
NoDoc == [kind |-> "none"]
Text(p) == [kind |-> "text", path |-> p]
Move(p, q) == [kind |-> "move", path |-> p, to |-> q]
Full == -1   \* since = nil

Idle == [pc |-> "idle"]

Docs == {NoDoc} \cup {Text(p) : p \in Paths} \cup {Move(p, q) : p, q \in Paths}
Row == [present: BOOLEAN, blob: Nat, effects: SUBSET ClientIds]
Note == [present: BOOLEAN, effects: SUBSET ClientIds]

Pull ==
    {Idle}
    \cup [pc: {"flush"}, batch: SUBSET ClientIds]
    \cup [pc: {"list", "auth", "page"}, since: Nat \cup {Full}, full: BOOLEAN,
          listed: SUBSET Paths, failed: SUBSET Paths, latest: Nat,
          page: SUBSET (Paths \X FileRow), next: Nat, more: BOOLEAN]
    \cup [pc: {"remember"}, failed: SUBSET Paths]
    \cup [pc: {"vault"}]

TypeOK ==
    /\ StoreTypeOK
    /\ rows \in [Paths -> Row]
    /\ outbox \subseteq ClientIds
    /\ localId \in [ClientIds -> Nat] /\ lastId \in Nat
    /\ seqOf \in [ClientIds -> Nat]
    /\ doc \in [ClientIds -> Docs]
    /\ cursor \in Nat
    /\ refetch \subseteq Paths
    /\ pull \in Pull
    /\ note \in [Paths -> Note]
    /\ dirty \subseteq Paths /\ touched \subseteq Paths
    /\ taken \in Nat
    /\ result \in [ClientIds -> {"waiting", "applied", "noop", "refused"}]
    /\ contents \in [0..MaxVersion -> SUBSET ClientIds]
    /\ changed \in [Paths -> Nat]
    /\ missed \subseteq Paths /\ parted \subseteq ClientIds
    /\ edits \in 0..MaxEdits /\ faults \in 0..MaxFaults

(* A phone just paired with an empty vault.                                *)
Init ==
    /\ \E k \in KeyChecks : vault = BlankVault(TRUE, 1, k)
    /\ files = [p \in Paths |-> NoRow]
    /\ pending_uploads = {} /\ writes = {}
    /\ phone = TRUE /\ pairing = FALSE
    /\ rows = [p \in Paths |-> Absent]
    /\ outbox = {}
    /\ localId = [c \in ClientIds |-> 0] /\ lastId = 0
    /\ seqOf = [c \in ClientIds |-> 0]
    /\ doc = [c \in ClientIds |-> NoDoc]
    /\ cursor = 0 /\ refetch = {}
    /\ pull = Idle
    /\ note = [p \in Paths |-> [present |-> FALSE, effects |-> {}]]
    /\ dirty = {} /\ touched = {} /\ taken = 0
    /\ result = [c \in ClientIds |-> "waiting"]
    /\ contents = [b \in 0..MaxVersion |-> {}]
    /\ changed = [p \in Paths |-> 0]
    /\ missed = {} /\ parted = {}
    /\ edits = 0 /\ faults = 0

-------------------------------------------------------------------------------
(* The phone's store *)

WaitingTexts(p, box) == {c \in box : doc[c].kind = "text" /\ doc[c].path = p}

(* store: the snapshot with the waiting writes of the path applied again   *)
(* (rebased); no snapshot and nothing waiting leaves no row.  A move_file  *)
(* changes no text.                                                        *)
Stored(p, blob, box) ==
    LET texts == WaitingTexts(p, box)
    IN  IF blob = NoBlob /\ texts = {} THEN Absent
        ELSE [present |-> TRUE, blob |-> blob, effects |-> contents[blob] \cup texts]

(* The row record inserts; local_id never takes a number twice.            *)
Enlist(c, d) ==
    /\ doc[c] = NoDoc /\ doc' = [doc EXCEPT ![c] = d]
    /\ outbox' = outbox \cup {c}
    /\ lastId' = lastId + 1 /\ localId' = [localId EXCEPT ![c] = lastId + 1]
    /\ UNCHANGED seqOf

(* record, of a write that edits a note.                                   *)
RecordText(p, c) ==
    /\ "text" \in Kinds /\ Enlist(c, Text(p))
    /\ rows' = [rows EXCEPT ![p].present = TRUE, ![p].effects = @ \cup {c}]
    /\ UNCHANGED <<storeVars, cursor, refetch, pull, deskVars, historyVars, edits, faults>>

(* renameFile: the row takes its new path at once, without a snapshot, and *)
(* neither path mirrors the desk until it is listed again: a known gap,    *)
(* since a desk that answers with nothing lists nothing.                   *)
RecordMove(p, q, c) ==
    /\ "move" \in Kinds /\ rows[p].present /\ ~rows[q].present
    /\ Enlist(c, Move(p, q))
    /\ rows' = [rows EXCEPT ![q] = [rows[p] EXCEPT !.blob = NoBlob], ![p] = Absent]
    /\ missed' = missed \cup {p, q}
    /\ UNCHANGED <<storeVars, cursor, refetch, pull, deskVars, contents, changed, parted, edits,
                   faults>>

-------------------------------------------------------------------------------
(* A round: flush *)

ListFrom(since) ==
    [pc |-> "list", since |-> since, full |-> since = Full, listed |-> {}, failed |-> {},
     latest |-> 0, page |-> {}, next |-> 0, more |-> FALSE]

Unsent(c) == seqOf[c] = 0

StartRound ==
    /\ pull = Idle
    /\ pull' = [pc |-> "flush", batch |-> {c \in outbox : Unsent(c)}]
    /\ UNCHANGED <<storeVars, phoneVars, deskVars, historyVars, edits, faults>>

(* handleWriteCreate: a client id the table holds keeps its seq.           *)
Post(c) ==
    \/ EnqueueWrite(c)
    \/ (\E w \in writes : w.client = c) /\ UNCHANGED storeVars

SeqAfterPost(c) == (CHOOSE w \in writes' : w.client = c).seq

(* The batch goes out in the order of local_id.                            *)
First(c) == \A x \in pull.batch : localId[c] <= localId[x]

FlushOne ==
    /\ pull.pc = "flush"
    /\ \E c \in pull.batch :
         /\ First(c) /\ Post(c)
         /\ seqOf' = [seqOf EXCEPT ![c] = SeqAfterPost(c)]
         /\ pull' = [pull EXCEPT !.batch = @ \ {c}]
    /\ UNCHANGED <<rows, outbox, localId, lastId, doc, cursor, refetch, deskVars, historyVars,
                   edits, faults>>

(* The queue took the write but the answer never arrived: the round ends.  *)
FlushLost ==
    /\ pull.pc = "flush"
    /\ faults < MaxFaults /\ faults' = faults + 1
    /\ \E c \in pull.batch : First(c) /\ Post(c)
    /\ pull' = Idle
    /\ UNCHANGED <<phoneVars, deskVars, historyVars, edits>>

(* A permanent refusal: discard drops the write and rebuilds its note.     *)
FlushRefused ==
    /\ pull.pc = "flush"
    /\ faults < MaxFaults /\ faults' = faults + 1
    /\ \E c \in pull.batch :
         /\ First(c) /\ \A w \in writes : w.client # c
         /\ outbox' = outbox \ {c}
         /\ rows' = [rows EXCEPT ![doc[c].path] = Stored(doc[c].path, @.blob, outbox \ {c})]
         /\ result' = [result EXCEPT ![c] = "refused"]
         /\ pull' = [pull EXCEPT !.batch = @ \ {c}]
    /\ UNCHANGED <<storeVars, localId, lastId, seqOf, doc, cursor, refetch, note, dirty, touched,
                   taken, historyVars, edits>>

(* pull() begins: without a cursor, or with notes to fetch again, in full. *)
EndFlush ==
    /\ pull.pc = "flush" /\ pull.batch = {}
    /\ pull' = ListFrom(IF cursor > 0 /\ refetch = {} THEN cursor ELSE Full)
    /\ UNCHANGED <<storeVars, phoneVars, deskVars, historyVars, edits, faults>>

-------------------------------------------------------------------------------
(* A round: the pages of the list route *)

(* Mutant: the 410 is answered with the same cursor again.                 *)
ListAuthSame ==
    /\ pull.pc = "list"
    /\ pull' = IF pull.since # Full /\ pull.since < vault.tombstoneHorizon
               THEN [pull EXCEPT !.listed = {}]
               ELSE [pull EXCEPT !.pc = "auth", !.latest = vault.latestVersion]
    /\ UNCHANGED <<storeVars, phoneVars, deskVars, historyVars, edits, faults>>

(* The request is let in and the vaults row read.  A cursor below the      *)
(* horizon is answered 410: pull() starts over in full, and keeps failed.  *)
ListAuth ==
    /\ pull.pc = "list"
    /\ pull' = IF pull.since # Full /\ pull.since < vault.tombstoneHorizon
               THEN [pull EXCEPT !.since = Full, !.full = TRUE, !.listed = {}]
               ELSE [pull EXCEPT !.pc = "auth", !.latest = vault.latestVersion]
    /\ UNCHANGED <<storeVars, phoneVars, deskVars, historyVars, edits, faults>>

(* listFiles: the rows above since in version order, live ones only for a  *)
(* full pull, as <<path, row>>.                                            *)
ListFiles(since) ==
    {<<p, files[p]>> : p \in {q \in Paths :
        IF since = Full THEN IsLive(files[q]) ELSE files[q].version > since}}

FirstPage(all) ==
    {r \in all : Cardinality({s \in all : s[2].version < r[2].version}) < Limit}

LastVersion(page, since) ==
    IF page = {} THEN IF since = Full THEN 0 ELSE since
    ELSE (CHOOSE r \in page : \A s \in page : s[2].version <= r[2].version)[2].version

(* The rest of handleFilesList.  The last page lets the cursor jump to the *)
(* version counter, as it stood when the request was let in.               *)
ListRead ==
    /\ pull.pc = "auth"
    /\ LET all == ListFiles(pull.since)
           page == FirstPage(all)
           more == all # page
           last == LastVersion(page, pull.since)
       IN  pull' = [pull EXCEPT
                      !.pc = "page", !.page = page, !.more = more,
                      !.next = IF ~more /\ last < pull.latest THEN pull.latest ELSE last]
    /\ UNCHANGED <<storeVars, phoneVars, deskVars, historyVars, edits, faults>>

NextRow(r) == r \in pull.page /\ \A s \in pull.page : r[2].version <= s[2].version

(* applyTombstone, or the hash already held.                               *)
TakeKnown(r) ==
    LET p == r[1]
        held == rows[p].present /\ rows[p].blob = r[2].blob
    IN  /\ pull.pc = "page" /\ NextRow(r)
        /\ r[2].deleted \/ held
        /\ rows' = IF r[2].deleted THEN [rows EXCEPT ![p] = Stored(p, NoBlob, outbox)] ELSE rows
        /\ pull' = [pull EXCEPT !.page = @ \ {r},
                      !.listed = IF r[2].deleted THEN @ ELSE @ \cup {p}]
        /\ missed' = missed \ {p}
        /\ UNCHANGED <<storeVars, outboxVars, cursor, refetch, deskVars, contents, changed, parted,
                       edits, faults>>

(* applySnapshot of a downloaded blob; a replaced one may still arrive.    *)
TakeSnapshot(r) ==
    LET p == r[1]
    IN  /\ pull.pc = "page" /\ NextRow(r)
        /\ ~r[2].deleted
        /\ ~(rows[p].present /\ rows[p].blob = r[2].blob)
        /\ rows' = [rows EXCEPT ![p] = Stored(p, r[2].blob, outbox)]
        /\ pull' = [pull EXCEPT !.page = @ \ {r}, !.listed = @ \cup {p}]
        /\ missed' = missed \ {p}
        /\ UNCHANGED <<storeVars, outboxVars, cursor, refetch, deskVars, contents, changed, parted,
                       edits, faults>>

(* The blob does not arrive, hash or open; one that was replaced may be    *)
(* gone from the blob store, which costs no fault.                         *)
TakeFailed(r) ==
    LET p == r[1]
    IN  /\ pull.pc = "page" /\ NextRow(r)
        /\ ~r[2].deleted
        /\ ~(rows[p].present /\ rows[p].blob = r[2].blob)
        /\ IF files[p] = r[2] THEN faults < MaxFaults /\ faults' = faults + 1
                              ELSE UNCHANGED faults
        /\ pull' = [pull EXCEPT !.page = @ \ {r}, !.listed = @ \cup {p}, !.failed = @ \cup {p}]
        /\ UNCHANGED <<storeVars, phoneVars, deskVars, historyVars, edits>>

NextPage ==
    /\ pull.pc = "page" /\ pull.page = {} /\ pull.more
    /\ pull' = [pull EXCEPT !.pc = "list", !.since = pull.next]
    /\ UNCHANGED <<storeVars, phoneVars, deskVars, historyVars, edits, faults>>

(* Mutants: the cursor the page was asked from is saved; a full pull keeps *)
(* the notes it was not told of.                                           *)
SaveSince ==
    /\ pull.pc = "page" /\ pull.page = {} /\ ~pull.more
    /\ rows' = [p \in Paths |-> IF pull.full /\ p \notin pull.listed
                                THEN Stored(p, NoBlob, outbox) ELSE rows[p]]
    /\ cursor' = pull.since
    /\ missed' = IF pull.full THEN missed \cap pull.listed ELSE missed
    /\ pull' = [pc |-> "remember", failed |-> pull.failed]
    /\ UNCHANGED <<storeVars, outboxVars, refetch, deskVars, contents, changed, parted, edits,
                   faults>>

SaveCursorOnly ==
    /\ pull.pc = "page" /\ pull.page = {} /\ ~pull.more
    /\ cursor' = pull.next
    /\ pull' = [pc |-> "remember", failed |-> pull.failed]
    /\ UNCHANGED <<storeVars, rows, missed, outboxVars, refetch, deskVars, contents, changed, parted,
                   edits, faults>>

(* The end of pull(): removeFiles after a full pull, then the cursor.      *)
SaveCursor ==
    /\ pull.pc = "page" /\ pull.page = {} /\ ~pull.more
    /\ rows' = [p \in Paths |-> IF pull.full /\ p \notin pull.listed
                                THEN Stored(p, NoBlob, outbox) ELSE rows[p]]
    /\ cursor' = pull.next
    /\ missed' = IF pull.full THEN missed \cap pull.listed ELSE missed
    /\ pull' = [pc |-> "remember", failed |-> pull.failed]
    /\ UNCHANGED <<storeVars, outboxVars, refetch, deskVars, contents, changed, parted, edits,
                   faults>>

(* Mutant: failed downloads are forgotten.                                 *)
SaveNoRefetch ==
    /\ pull.pc = "remember"
    /\ refetch' = {}
    /\ pull' = [pc |-> "vault"]
    /\ UNCHANGED <<storeVars, rows, outboxVars, cursor, deskVars, historyVars, edits, faults>>

(* ... and, a statement later, the notes to fetch again.                   *)
SaveRefetch ==
    /\ pull.pc = "remember"
    /\ refetch' = pull.failed
    /\ pull' = [pc |-> "vault"]
    /\ UNCHANGED <<storeVars, rows, outboxVars, cursor, deskVars, historyVars, edits, faults>>

-------------------------------------------------------------------------------
(* A round: prune *)

(* Mutants: no regard to the cursor; a cursor that must be past the        *)
(* version.                                                                *)
PrunableAtOnce(c) ==
    /\ seqOf[c] \in 1..vault.ackedThroughSeq
    /\ doc[c].path \notin refetch

PrunableLate(c) ==
    /\ cursor > vault.ackedAtVersion
    /\ seqOf[c] \in 1..vault.ackedThroughSeq
    /\ doc[c].path \notin refetch

(* The acked writes prune drops: those of notes that are not to be fetched *)
(* again, once the cursor has passed the version the desk acked at.        *)
Prunable(c) ==
    /\ cursor >= vault.ackedAtVersion
    /\ seqOf[c] \in 1..vault.ackedThroughSeq
    /\ doc[c].path \notin refetch

(* GET /v1/vault and prune.  The two numbers read only grow, and only this *)
(* round moves the cursor.                                                 *)
Prune ==
    /\ pull.pc = "vault"
    /\ LET kept == {c \in outbox : ~Prunable(c)}
           paths == {doc[c].path : c \in outbox \ kept}
       IN  /\ outbox' = kept
           /\ rows' = [p \in Paths |-> IF p \in paths THEN Stored(p, rows[p].blob, kept)
                                                      ELSE rows[p]]
    /\ pull' = Idle
    /\ UNCHANGED <<storeVars, localId, lastId, seqOf, doc, cursor, refetch, deskVars, historyVars, edits, faults>>

(* A request fails and round() throws, or the app is killed: what the      *)
(* database holds is what is left.  Killed between the cursor and the      *)
(* notes to fetch again, the phone forgets that it missed those.           *)
Abort ==
    /\ pull # Idle
    /\ faults < MaxFaults /\ faults' = faults + 1
    /\ missed' = IF pull.pc = "remember" THEN missed \cup pull.failed ELSE missed
    /\ pull' = Idle
    /\ UNCHANGED <<storeVars, phoneVars, deskVars, contents, changed, parted, edits>>

-------------------------------------------------------------------------------
(* The desk, as far as the phone can tell *)

DeskEdit(p) ==
    /\ edits < MaxEdits /\ edits' = edits + 1
    /\ note' = [note EXCEPT ![p].present = TRUE]
    /\ dirty' = dirty \cup {p}
    /\ UNCHANGED <<storeVars, phoneVars, pull, touched, taken, result, historyVars, faults>>

DeskRemove(p) ==
    /\ note[p].present
    /\ edits < MaxEdits /\ edits' = edits + 1
    /\ note' = [note EXCEPT ![p] = [present |-> FALSE, effects |-> {}]]
    /\ dirty' = dirty \cup {p}
    /\ parted' = parted \cup note[p].effects
    /\ UNCHANGED <<storeVars, phoneVars, pull, touched, taken, result, contents, changed, missed,
                   faults>>

(* The desk takes the next write, in seq order.  It may find nothing to do *)
(* (the line is gone, the destination taken): the write is answered all    *)
(* the same.                                                               *)
DeskTake(w) ==
    /\ w \in ListWrites(taken) /\ \A x \in ListWrites(taken) : w.seq <= x.seq
    /\ taken' = w.seq
    /\ LET d == doc[w.client]
       IN  \/ /\ d.kind = "text"
              /\ note' = [note EXCEPT ![d.path].present = TRUE,
                                      ![d.path].effects = @ \cup {w.client}]
              /\ touched' = touched \cup {d.path}
              /\ result' = [result EXCEPT ![w.client] = "applied"]
              /\ UNCHANGED parted
           \/ /\ d.kind = "move" /\ note[d.path].present /\ ~note[d.to].present
              /\ note' = [note EXCEPT ![d.to] = note[d.path],
                                      ![d.path] = [present |-> FALSE, effects |-> {}]]
              /\ touched' = touched \cup {d.path, d.to}
              /\ result' = [result EXCEPT ![w.client] = "applied"]
              /\ parted' = parted \cup note[d.path].effects
           \/ /\ d.kind = "move" => ~(note[d.path].present /\ ~note[d.to].present)
              /\ result' = [result EXCEPT ![w.client] = "noop"]
              /\ UNCHANGED <<note, touched, parted>>
    /\ UNCHANGED <<storeVars, phoneVars, pull, dirty, contents, changed, missed, edits, faults>>

(* Upload or tombstone one changed path; nothing to do where neither side  *)
(* has the note.                                                           *)
DeskUpload(p) ==
    /\ p \in dirty \cup touched
    /\ IF note[p].present
       THEN /\ PublishFile(p, vault.latestVersion + 1, 1)
            /\ contents' = [contents EXCEPT ![vault.latestVersion + 1] = note[p].effects]
            /\ UNCHANGED <<pending_uploads, writes, phone, pairing>>
       ELSE /\ \/ TombstoneFile(p, files[p].version)
               \/ ~IsLive(files[p]) /\ UNCHANGED storeVars
            /\ UNCHANGED contents
    /\ changed' = [changed EXCEPT ![p] = IF files'[p] = files[p] THEN @ ELSE files'[p].version]
    /\ dirty' = dirty \ {p} /\ touched' = touched \ {p}
    /\ UNCHANGED <<phoneVars, pull, note, taken, result, missed, parted, edits, faults>>

DeskAck ==
    /\ touched = {}
    /\ AckWrites(taken)
    /\ UNCHANGED <<phoneVars, pull, deskVars, historyVars, edits, faults>>

(* The sweeper forgets a tombstone thirty days old.  One that a list       *)
(* request, let in before, was about to return slips through: the phone    *)
(* never hears of that deletion.                                           *)
SweepTombstone(p) ==
    /\ p \in Tombstones
    /\ Sweep({}, {p}, {}, FALSE)
    /\ missed' = IF /\ pull.pc = "auth" /\ pull.since # Full
                    /\ files[p].version > pull.since
                 THEN missed \cup {p} ELSE missed
    /\ UNCHANGED <<phoneVars, pull, deskVars, contents, changed, parted, edits,
                   faults>>

-------------------------------------------------------------------------------
Round ==
    \/ StartRound \/ FlushOne \/ EndFlush
    \/ ListAuth \/ ListRead
    \/ (pull.pc = "page" /\ \E r \in pull.page : TakeKnown(r) \/ TakeSnapshot(r))
    \/ NextPage \/ SaveCursor \/ SaveRefetch \/ Prune

Mishap ==
    \/ FlushLost \/ FlushRefused \/ Abort
    \/ (pull.pc = "page" /\ \E r \in pull.page : TakeFailed(r))

DeskJob ==
    \/ \E w \in writes : DeskTake(w)
    \/ \E p \in Paths : DeskUpload(p)
    \/ DeskAck

User ==
    \/ \E p \in Paths, c \in ClientIds : RecordText(p, c)
    \/ \E p, q \in Paths, c \in ClientIds : RecordMove(p, q, c)
    \/ \E p \in Paths : DeskEdit(p) \/ DeskRemove(p)

Next == Round \/ Mishap \/ DeskJob \/ User \/ \E p \in Paths : SweepTombstone(p)

(* The app runs a round on every feed event and when it comes to the       *)
(* front, the desk works through its job: each keeps taking steps.         *)
Fairness == WF_vars(Round) /\ WF_vars(DeskJob)

Spec == Init /\ [][Next]_vars
FairSpec == Spec /\ Fairness

-------------------------------------------------------------------------------
(* Properties *)

(* What the phone holds of a path, once its cursor has passed the path's   *)
(* last change: the snapshot of the live row, or none.                     *)
Mirrors(p) ==
    changed[p] <= cursor => rows[p].blob = IF IsLive(files[p]) THEN files[p].blob ELSE NoBlob

(* Paging, restarts after a 410, failed downloads and rounds killed half   *)
(* way lose no change: a path the cursor has passed is mirrored, or noted  *)
(* to be fetched again (or slipped through one of the known gaps).         *)
MirrorUpToCursor ==
    \A p \in Paths \ missed :
        Mirrors(p) \/ p \in refetch \/ (pull.pc = "remember" /\ p \in pull.failed)

(* A note the phone shows with the user's own change never loses it again  *)
(* until the desk has answered it without applying it, or has applied it   *)
(* and then removed or moved the note, or the service has refused it:      *)
(* prune waits for the cursor and for the notes to be fetched again.       *)
KeepsOwn(c) ==
    \/ result[c] \in {"noop", "refused"} \/ result'[c] = "refused"
    \/ c \in parted

OwnChangeStaysShown ==
    [][\A p \in Paths \ missed, c \in ClientIds :
         c \in rows[p].effects /\ (\A q \in Paths : c \notin rows'[q].effects)
             => KeepsOwn(c)]_vars

(* The refinement mapping: a change is pending until the desk has taken it *)
(* and kept while its row stands in the outbox; the desk's answers are     *)
(* counted by the seq it has taken, since the service leaves none out.     *)
Unanswered(c) == result[c] = "waiting"

Chan == INSTANCE WriteChannel
            WITH Writes <- ClientIds,
                 made <- lastId,
                 order <- localId,
                 pending <- {c \in outbox : Unanswered(c)},
                 kept <- outbox,
                 answered <- taken

(* Posts that are lost, retried, refused or cut short, rounds killed half  *)
(* way and a desk that runs beside them implement an ordered channel: the  *)
(* desk answers the phone's changes in the order they were made and each   *)
(* once, and the outbox drops one only when it is answered or refused.     *)
DeliversInOrder == Chan!Spec

(* "page until has_more is false" (v34-vault-sync-api.md:883), and after a *)
(* 410 "the client performs a full pull" (:381): so a pull comes to its    *)
(* end, whatever pages and restarts it takes.                              *)
PullCompletes == pull.pc = "list" ~> pull.pc \in {"remember", "idle"}

(* A full pull about to ask for its next page from a version the sweeper   *)
(* has forgotten.                                                          *)
PageBelowHorizon ==
    pull.pc = "list" /\ pull.full /\ pull.since # Full /\ pull.since < vault.tombstoneHorizon

(* Page by page, past rows that move to the end of the list while it is    *)
(* read, failed downloads and a 410 that makes it start over, a pull comes *)
(* to its end, unless a page of a full pull ends below the horizon.        *)
PagedPullCompletes ==
    []<>(pull.pc \in {"remember", "idle"} \/ PageBelowHorizon)

(* Every change made on the phone is answered and leaves the outbox, with  *)
(* the same exception: prune waits for a cursor that such a pull never     *)
(* saves.                                                                  *)
OutboxDrains == \A c \in ClientIds : []<>(c \notin outbox \/ PageBelowHorizon)

(* When both users stop, phone and desk come to show the same notes, or    *)
(* the phone pulls for ever from below the horizon.                        *)
SameNotes ==
    \A p \in Paths \ missed :
        rows[p].present = note[p].present /\ rows[p].effects = note[p].effects

Converges == <>[]SameNotes \/ []<>PageBelowHorizon
================================================================================
