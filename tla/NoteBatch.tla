------------------------------ MODULE NoteBatch -------------------------------
(***************************************************************************)
(* The desk applies a batch of the phone's writes to a note, one after the *)
(* other, each to the text the last one left on disk (the loop of run_job  *)
(* over apply_write).  A job that fails before its ack, on the way or in   *)
(* an upload after it, is run again from the first write.  The phone's     *)
(* rebase of a snapshot that already has its waiting writes in it          *)
(* (rebased in VaultStore.swift) is such a run too.                        *)
(***************************************************************************)
EXTENDS ApplyRules, SequencesExt

CONSTANTS
    Notes,     \* the notes a batch may meet, NoNote among them
    Batches,   \* the batches of writes
    Seed,      \* the expanded template, NoNote when there is none
    MaxFails   \* bound on the jobs that fail

ASSUME BatchAssumption == MaxFails \in Nat

VARIABLES
    note,   \* the note on disk
    batch,  \* the writes the queue holds for it
    done,   \* how many of them this job has applied
    fails,  \* jobs that failed
    \* history
    start   \* the note before the first job

vars == <<note, batch, done, fails, start>>

Init ==
    /\ note \in Notes /\ start = note
    /\ batch \in Batches
    /\ done = 0 /\ fails = 0

\* One turn of the loop: the note is saved when the write changed it.
ApplyNext ==
    /\ done < Len(batch)
    /\ note' = Apply(note, batch[done + 1], Seed)
    /\ done' = done + 1
    /\ UNCHANGED <<batch, fails, start>>

\* The job fails with its writes applied and not acked; the next one drains them again.
JobFails ==
    /\ done > 0 /\ fails < MaxFails
    /\ done' = 0 /\ fails' = fails + 1
    /\ UNCHANGED <<note, batch, start>>

Next == ApplyNext \/ JobFails

Spec == Init /\ [][Next]_vars
-------------------------------------------------------------------------------
\* The lines a write names one of: those of its section's body, or of the group's own lines
\* for a block, that have its identity.
Scope(w, sec)  == IF w.kind \in {"move", "block"} THEN Own(sec) ELSE sec
Twins(d, w)    == IF HasSection(d, w.head) THEN Matches(d, Scope(w, FindSection(d, w.head)), w.id)
                  ELSE {}
NamesTwin(d, w) == Cardinality(Twins(d, w)) > 1

\* A removed line cannot be told from its twin: "the desk's re-application after a crash may
\* remove a second copy" (v34-vault-sync-api.md:728), a trade-off the contract accepts.
RemovesTwin(d, w) == w.kind = "remove" /\ NamesTwin(d, w)

\* The same of a twin that is given another text, moved or removed with its block, which the
\* contract does not mention.  A tick keeps the line's identity and is not among them.
ChangesTwin(d, w) ==
    /\ w.kind \in {"replace", "move", "block"}
    /\ w.kind = "replace" => w.new.id # w.id
    /\ NamesTwin(d, w)

\* One clean pass, and whether a write of it meets the note in such a state.
ApplyAll(d, ws) == FoldLeft(LAMBDA e, w : Apply(e, w, Seed), d, ws)
Meets(Case(_, _)) ==
    \E k \in DOMAIN batch : Case(ApplyAll(start, SubSeq(batch, 1, k - 1)), batch[k])

\* "A crash before the ack re-runs the batch next time; rule 1 of 8.2 makes that a no-op"
\* (v34-vault-sync-api.md:877): wherever jobs fail, the note ends as one clean pass leaves it.
RerunIsNoop ==
    done = Len(batch) => note = ApplyAll(start, batch) \/ Meets(RemovesTwin)

\* So it is, a tick of each of several twins included, where no write rewords, moves or cuts
\* one of several twins.
RerunIsNoopButTwins == RerunIsNoop \/ Meets(ChangesTwin)

\* The write the step from done applies.
Applied == batch[done + 1]

\* What a write may add to a note or take from it: a heading it makes, the lines it brings,
\* the lines it names, and the section it was made from.
Headed(w) == {HeadLine(w[f]) : f \in DOMAIN w \cap {"head", "to", "under"}}

Brought(w) ==
    CASE w.kind \in {"create", "append"} -> ToSet(w.lines)
      [] w.kind = "section" -> ToSet(w.lines) \cup {Mark(l) : l \in ToSet(w.lines)}
      [] w.kind = "replace" -> {w.new, Mark(w.new)}
      [] w.kind = "move" -> ToSet(w.new)
      [] OTHER -> {}

Taken(d, w) ==
    CASE w.kind \in {"replace", "remove"} -> {l \in ToSet(d) : l.id = w.id}
      [] w.kind \in {"move", "block"} /\ Block(d, w) # <<>> ->
             {d[i] : i \in Block(d, w)[1]..Block(d, w)[2]-1}
      [] w.kind = "section" /\ HasSection(d, w.head)
         /\ Body(d, FindSection(d, w.head)) = w.base -> ToSet(w.base)
      [] OTHER -> {}

Named(d, w) == Headed(w) \cup Brought(w) \cup Taken(d, w)

Rest(d, named) == SelectSeq(d, LAMBDA l : ~IsBlank(l) /\ l \notin named)

\* The desk's own lines survive every write, in their order, whatever the desk did to the
\* note since the phone made it: a write touches the lines it names and blank lines.
KeepsOtherLines ==
    [][done' > done /\ note # NoNote =>
           LET named == Named(note, Applied) IN Rest(note', named) = Rest(note, named)]_vars

Texts(d) == Cardinality({i \in DOMAIN d : d[i].is = "text"})

\* "A move must never become a copy", nor lose a line of its block.
MoveNeverCopies ==
    [][done' > done /\ note # NoNote /\ Applied.kind = "move" =>
           Texts(note') = Texts(note)]_vars

\* A write that was applied shows, where the phone asked for it, and a second look finds it
\* there.  Excused: a move of a line that is gone, an emptied section that the desk changed
\* since (the desk's lines win, both by design), and a line with a twin that was removed,
\* moved or reworded, the twin of which the second look finds.
EffectShows ==
    [][done' > done =>
           \/ EffectPresent(note', Applied)
           \/ RemovesTwin(note, Applied) \/ ChangesTwin(note, Applied)
           \/ Applied.kind = "move" /\ Block(note, Applied) = <<>>
           \/ Applied.kind = "section" /\ \A l \in ToSet(Applied.lines) : IsBlank(l)]_vars
===============================================================================
