------------------------------ MODULE ApplyRules ------------------------------
(***************************************************************************)
(* The application rules of thock-sync-core: what a write of the phone     *)
(* does to a note (apply) and when its effect is already there             *)
(* (effect_present), from apply.rs, over the note model of markdown.rs.    *)
(*                                                                         *)
(* A note is a sequence of lines.  A line's id is what its hash is taken   *)
(* of; box is what the hash leaves out (the tick, the time), dent whether  *)
(* it is indented, also how many conflict markers it ends with.  Equal     *)
(* records are equal texts.  A fenced block is one line that nothing       *)
(* matches.  Positions count from 1, ends are exclusive.                   *)
(*                                                                         *)
(* Left out: the spelling of headings (two names match or do not), line    *)
(* endings, front matter, lines with nothing to hash, the outcome (a note  *)
(* is saved when its text changed), and the two kinds that rename or make  *)
(* a file and change no text.                                              *)
(***************************************************************************)
EXTENDS Naturals, Sequences, FiniteSetsExt

Text(id, box)   == [is |-> "text", id |-> id, box |-> box, dent |-> FALSE, also |-> 0, level |-> 0]
Indented(id)    == [Text(id, 0) EXCEPT !.dent = TRUE]
Heading(id, level) == [Text(id, 0) EXCEPT !.is = "head", !.level = level]
Blank           == [Text("", 0) EXCEPT !.is = "blank"]
Rule            == [Text("", 0) EXCEPT !.is = "rule"]
Fence           == [Text("", 0) EXCEPT !.is = "fence"]

NoNote == <<Text("no note", 0)>>   \* existing is None: no note has this line
NoHead   == [id |-> "", level |-> 0, nth |-> 0]
NoAnchor == [id |-> "", nth |-> 0]

IsBlank(line) == line.is = "blank"
Mark(line)    == [line EXCEPT !.also = @ + 1]
HeadLine(h)   == Heading(h.id, h.level)

\* The nth of S from below (n = 0 the first), or else when there are not so many.
Nth(S, n, else) ==
    IF \E i \in S : Cardinality({j \in S : j < i}) = n
    THEN CHOOSE i \in S : Cardinality({j \in S : j < i}) = n ELSE else

First(S, else) == IF S = {} THEN else ELSE Min(S)
-------------------------------------------------------------------------------
(* Sections: start, body, own and end are the four positions of section(). *)

Headings(d) == {i \in DOMAIN d : d[i].is = "head"}

\* Where d, from start to end, has its last line that is not blank.
TrimBlank(d, start, end) == Max({start} \cup {i + 1 : i \in {j \in start..end-1 : ~IsBlank(d[j])}})

\* trim_blank_end: a closing rule is no part of the body either.
WithoutRule(d, start, end) ==
    IF end > start /\ d[end-1].is = "rule" THEN TrimBlank(d, start, end-1) ELSE end
TrimEnd(d, start, end) == WithoutRule(d, start, TrimBlank(d, start, end))

Span(d, h, end, body) ==
    LET own == First({i \in Headings(d) : i > h /\ i < body}, body)
    IN  [head |-> h, start |-> h+1, end |-> end, body |-> body, own |-> TrimEnd(d, h+1, own)]

Section(d, h) ==
    LET end == First({i \in Headings(d) : i > h /\ d[i].level <= d[h].level}, Len(d) + 1)
    IN  Span(d, h, end, TrimEnd(d, h+1, end))

Whole(d) ==
    LET body == TrimBlank(d, 1, Len(d) + 1)
    IN  [head |-> 0, start |-> 1, end |-> Len(d) + 1, body |-> body, own |-> body]

\* own: a block rule never reaches into a subsection.
Own(sec) == [sec EXCEPT !.body = sec.own]

\* resolve_within: 0 when no heading from lo to hi has the name.
Resolve(d, h, lo, hi) ==
    LET found == {i \in Headings(d) : i \in lo..hi-1 /\ d[i].id = h.id}
    IN  IF found = {} THEN 0 ELSE Nth(found, h.nth, Max(found))

HasSection(d, h)  == h = NoHead \/ Resolve(d, h, 1, Len(d) + 1) # 0
FindSection(d, h) == IF h = NoHead THEN Whole(d) ELSE Section(d, Resolve(d, h, 1, Len(d) + 1))

Matchable(d, sec)   == {i \in sec.start..sec.body-1 : d[i].is # "fence"}
Matches(d, sec, id) == {i \in Matchable(d, sec) : d[i].is \in {"text", "head"} /\ d[i].id = id}
Body(d, sec)        == SubSeq(d, sec.start, sec.body - 1)

\* find_line: 0 when no line of the section has the id.
FindLine(d, sec, id, nth) ==
    LET found == Matches(d, sec, id) IN IF found = {} THEN 0 ELSE Nth(found, nth, Min(found))

FindAnchor(d, sec, anchor) == FindLine(d, sec, anchor.id, anchor.nth)

\* block_end: the line at i and the indented lines below it.
BlockEnd(d, sec, i) ==
    LET stop == First({j \in i+1..sec.body-1 : ~IsBlank(d[j]) /\ ~d[j].dent}, sec.body)
    IN  Max({i + 1} \cup {j + 1 : j \in {k \in i+1..stop-1 : d[k].dent}})

FirstBodyLine(d, sec) == First({i \in sec.start..sec.body-1 : ~IsBlank(d[i])}, sec.body)

\* Mutant of ContainsRun: only the section's last lines are looked at.
ContainsRunLast(d, sec, lines) ==
    \/ lines = <<>>
    \/ \E i \in Matchable(d, sec) :
           /\ i + Len(lines) = sec.body
           /\ \A j \in DOMAIN lines : i+j-1 \in Matchable(d, sec) /\ d[i+j-1] = lines[j]

\* contains_run: adjacent lines of the section, none of them fenced.
ContainsRun(d, sec, lines) ==
    \/ lines = <<>>
    \/ \E i \in Matchable(d, sec) :
           /\ i + Len(lines) <= sec.body
           /\ \A j \in DOMAIN lines : i+j-1 \in Matchable(d, sec) /\ d[i+j-1] = lines[j]
-------------------------------------------------------------------------------
(* Edits. *)

Insert(d, at, lines) == SubSeq(d, 1, at-1) \o lines \o SubSeq(d, at, Len(d))
Drain(d, from, to)   == SubSeq(d, 1, from-1) \o SubSeq(d, to, Len(d))

InsertLines(d, sec, at, lines, gap) ==
    IF lines = <<>> THEN d
    ELSE LET needsBlank == gap /\ at > 1 /\ sec.head # at-1 /\ ~IsBlank(d[at-1])
         IN  Insert(d, at, (IF needsBlank THEN <<Blank>> ELSE <<>>) \o lines)

\* Mutant of Cut: the line after the gap is not checked to be blank.
CutOneSided(d, from, to) ==
    LET left == Drain(d, from, to)
    IN  IF from > 1 /\ from <= Len(left) /\ IsBlank(left[from-1])
        THEN Drain(left, from, from + 1) ELSE left

\* cut: of two blank lines left touching, one goes too.
Cut(d, from, to) ==
    LET left == Drain(d, from, to)
    IN  IF from > 1 /\ from <= Len(left) /\ IsBlank(left[from-1]) /\ IsBlank(left[from])
        THEN Drain(left, from, from + 1) ELSE left

\* locate: the note with the heading, made before the first level 1 heading that is not
\* the note's title, or at its end.
Located(d, h) ==
    IF HasSection(d, h) THEN d
    ELSE LET at  == First({i \in Headings(d) : d[i].level = 1 /\ i # Min(Headings(d))}, Len(d) + 1)
             gap == IF at > 1 /\ ~IsBlank(d[at-1]) THEN <<Blank>> ELSE <<>>
         IN  Insert(d, at, gap \o <<HeadLine(h)>> \o IF at > Len(d) THEN <<>> ELSE <<Blank>>)

\* find_group: the heading of to, inside the section of under when one is named.
ResolveIn(d, to, sec) == Resolve(d, to, sec.start, sec.end)

FindGroup(d, to, under) ==
    CASE under = NoHead -> Resolve(d, to, 1, Len(d) + 1)
      [] under # NoHead /\ HasSection(d, under) -> ResolveIn(d, to, FindSection(d, under))
      [] OTHER -> 0

HasGroup(d, to, under) == to = NoHead \/ FindGroup(d, to, under) # 0
Group(d, to, under)    == IF to = NoHead THEN Whole(d) ELSE Section(d, FindGroup(d, to, under))

\* locate_group: the note with that group in it, and the group.
MakeGroup(d, to, parent) ==
    LET made == InsertLines(d, parent, parent.body, <<HeadLine(to)>>, TRUE)
        at   == Resolve(made, to, parent.start, Len(made) + 1)
    IN  [note |-> made, sec |-> IF at = 0 THEN Whole(made) ELSE Section(made, at)]

GroupIn(d, to, under) ==
    IF HasGroup(d, to, under) THEN [note |-> d, sec |-> Group(d, to, under)]
    ELSE MakeGroup(d, to, FindSection(d, under))

LocateGroup(d, to, under) ==
    GroupIn(IF HasGroup(d, to, under) THEN d ELSE Located(d, IF under = NoHead THEN to ELSE under),
            to, under)
-------------------------------------------------------------------------------
(* effect_present and apply, one operator per kind.                        *)

\* Where a block lands in its group.
PlaceIn(d, sec, w) ==
    CASE w.place = "top" -> FirstBodyLine(d, sec)
      [] w.place = "end" -> sec.body
      [] w.place = "after" ->
             LET anchor == FindAnchor(d, sec, w.anchor)
             IN  IF anchor = 0 THEN sec.body ELSE BlockEnd(d, sec, anchor)

\* Mutant of PlacedAt: a block whose anchor is gone is not looked for at the end.
PlacedAtAnchor(d, sec, w, i) ==
    CASE w.place = "top" -> i = FirstBodyLine(d, sec)
      [] w.place = "end" -> BlockEnd(d, sec, i) = sec.body
      [] OTHER -> LET anchor == FindAnchor(d, sec, w.anchor)
                  IN  anchor # 0 /\ BlockEnd(d, sec, anchor) = i

\* Whether the line at i stands where the write would have put it.
PlacedAt(d, sec, w, i) ==
    CASE w.place = "top" -> i = FirstBodyLine(d, sec)
      [] w.place = "end" \/ (w.place = "after" /\ FindAnchor(d, sec, w.anchor) = 0) ->
             BlockEnd(d, sec, i) = sec.body
      [] OTHER -> BlockEnd(d, sec, FindAnchor(d, sec, w.anchor)) = i

Landed(w) == IF w.new = <<>> THEN w.id ELSE w.new[1].id

MovedTo(d, w, dest) ==
    /\ \E i \in Matches(d, dest, Landed(w)) : PlacedAt(d, dest, w, i)
    /\ HasSection(d, w.head) =>
           LET source == Own(FindSection(d, w.head))
           IN  source.head # dest.head => Matches(d, source, w.id) = {}

MovePresent(d, w) ==
    HasGroup(d, w.to, w.under) /\ MovedTo(d, w, Own(Group(d, w.to, w.under)))

ReplacedIn(d, w, sec) ==
    LET at == FindLine(d, sec, w.id, w.nth)
    IN  IF at # 0 THEN d[at] \in {w.new, Mark(w.new)} ELSE Matches(d, sec, w.new.id) # {}

ReplaceLinePresent(d, w) ==
    HasSection(d, w.head) /\ ReplacedIn(d, w, FindSection(d, w.head))

ReplaceSectionPresent(d, w) ==
    HasSection(d, w.head) /\
        LET body    == Body(d, FindSection(d, w.head))
            written == SelectSeq(w.lines, LAMBDA l : ~IsBlank(l))
        IN  \/ body = w.lines
            \/ written # <<>> /\ \E i \in DOMAIN body : body[i] = Mark(written[1])

EffectPresent(d, w) ==
    CASE w.kind = "create"  -> d = w.lines \/ ContainsRun(d, Whole(d), w.lines)
      [] w.kind = "append"  -> HasSection(d, w.head)
                               /\ ContainsRun(d, FindSection(d, w.head), w.lines)
      [] w.kind = "replace" -> ReplaceLinePresent(d, w)
      [] w.kind = "remove"  -> HasSection(d, w.head)
                               => Matches(d, FindSection(d, w.head), w.id) = {}
      [] w.kind = "section" -> ReplaceSectionPresent(d, w)
      [] w.kind = "move"    -> MovePresent(d, w)
      [] w.kind = "block"   -> HasSection(d, w.head)
                               => Matches(d, Own(FindSection(d, w.head)), w.id) = {}

Create(d, w, sec) == InsertLines(d, sec, sec.body, w.lines, TRUE)

AppendTo(d, w, sec) ==
    LET anchor == FindAnchor(d, sec, w.after)
        at     == IF anchor # 0 THEN BlockEnd(d, sec, anchor)
                  ELSE IF w.top THEN sec.own ELSE sec.body
    IN  InsertLines(d, sec, at, w.lines, w.gap)

\* A line that is gone is kept beside the desk's, marked.
ReplaceLine(d, w, sec) ==
    LET at == FindLine(d, sec, w.id, w.nth)
    IN  IF at # 0 THEN [d EXCEPT ![at] = w.new]
        ELSE InsertLines(d, sec, sec.body, <<Mark(w.new)>>, FALSE)

RemoveLine(d, w, sec) ==
    LET at == FindLine(d, sec, w.id, w.nth) IN IF at # 0 THEN Drain(d, at, at + 1) ELSE d

\* A section that changed since is kept, and the write's lines come below it, marked.
ReplaceSection(d, w, sec) ==
    LET written == {i \in DOMAIN w.lines : ~IsBlank(w.lines[i])}
    IN  CASE Body(d, sec) = w.base -> Insert(Drain(d, sec.start, sec.body), sec.start, w.lines)
          [] Body(d, sec) # w.base /\ written = {} -> d
          [] OTHER -> InsertLines(d, sec, sec.body,
                                  [w.lines EXCEPT ![Min(written)] = Mark(@)], TRUE)

\* The block a block write names: none when its line or its group is gone.
BlockIn(d, w, sec) ==
    LET at == FindLine(d, sec, w.id, w.nth) IN IF at = 0 THEN <<>> ELSE <<at, BlockEnd(d, sec, at)>>

Block(d, w) ==
    IF HasSection(d, w.head) THEN BlockIn(d, w, Own(FindSection(d, w.head))) ELSE <<>>

RemoveBlock(d, b) == IF b = <<>> THEN d ELSE Cut(d, b[1], b[2])

\* The texts of a block, put in their place in the group.
Land(group, w, texts) ==
    LET dest == Own(group.sec)
    IN  InsertLines(group.note, dest, PlaceIn(group.note, dest, w), texts, FALSE)

\* Mutant of MoveBlock: a line that is gone is written anew where it was to go.
MoveBlockAnyway(d, w, b) ==
    Land(LocateGroup(RemoveBlock(d, b), w.to, w.under), w,
         w.new \o IF b = <<>> THEN <<>> ELSE SubSeq(d, b[1] + Len(w.new), b[2] - 1))

MoveBlock(d, w, b) ==
    IF b = <<>> THEN d
    ELSE Land(LocateGroup(Cut(d, b[1], b[2]), w.to, w.under), w,
              w.new \o SubSeq(d, b[1] + Len(w.new), b[2] - 1))

\* What a write makes of a note that does not exist, before its own rule.
Fresh(w, seed) ==
    CASE w.kind = "append" /\ w.template /\ seed # NoNote -> seed
      [] w.kind # "create" /\ ~(w.kind = "append" /\ w.template /\ seed # NoNote)
         /\ w.head # NoHead -> <<HeadLine(w.head), Blank>>
      [] OTHER -> <<>>

\* The kinds that make their section where it is missing.
InSection(d, w, sec) ==
    CASE w.kind = "append"  -> AppendTo(d, w, sec)
      [] w.kind = "replace" -> ReplaceLine(d, w, sec)
      [] w.kind = "remove"  -> RemoveLine(d, w, sec)
      [] w.kind = "section" -> ReplaceSection(d, w, sec)

Performed(d, w) ==
    CASE w.kind = "create" -> Create(d, w, Whole(d))
      [] w.kind = "move"   -> MoveBlock(d, w, Block(d, w))
      [] w.kind = "block"  -> RemoveBlock(d, Block(d, w))
      [] OTHER -> InSection(Located(d, w.head), w, FindSection(Located(d, w.head), w.head))

Apply(d, w, seed) ==
    IF d # NoNote /\ EffectPresent(d, w) THEN d
    ELSE Performed(IF d = NoNote THEN Fresh(w, seed) ELSE d, w)
===============================================================================
