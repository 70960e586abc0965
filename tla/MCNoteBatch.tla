----------------------------- MODULE MCNoteBatch ------------------------------
(* All notes of a few lines, and the writes the phone's screens make.      *)
EXTENDS NoteBatch, TLC

CONSTANT MaxLines   \* lines of a note before the batch

x == Text("x", 0)
y == Text("y", 0)
A == [id |-> "A", level |-> 1, nth |-> 0]
B == [id |-> "B", level |-> 2, nth |-> 0]
C == [id |-> "C", level |-> 1, nth |-> 0]

Lines == {x, y, Indented("z"), Blank, Rule, Fence, HeadLine(A), HeadLine(B), HeadLine(C)}

SmallNotes == {NoNote} \cup UNION {[1..n -> Lines] : n \in 0..MaxLines}

\* Longer notes of two groups, where a block with its children has somewhere to go.
Grouped ==
    {<<HeadLine(A)>> \o s \o <<h>> \o t : s \in [1..2 -> {x, Indented("z"), Blank}],
        h \in {HeadLine(B), HeadLine(C)}, t \in UNION {[1..n -> {x, y, Blank}] : n \in 1..2}}

MCNotes == SmallNotes \cup Grouped

Anchors == [id : {"y"}, nth : {0, 1}]

Template == <<HeadLine(A), y>>

Appends(heads, lines) ==
    [kind : {"append"}, head : heads, lines : lines, top : BOOLEAN, gap : BOOLEAN,
     template : BOOLEAN, after : {NoAnchor} \cup Anchors]
Removes(heads) == [kind : {"remove", "block"}, head : heads, id : {"x"}, nth : {0, 1}]
Ticked == Text("x", 1)
Moves(heads, tos, places, unders) ==
    [kind : {"move"}, head : heads, id : {"x"}, nth : {0, 1}, to : tos, place : places,
     anchor : IF "after" \in places THEN Anchors ELSE {NoAnchor},
     new : {<<>>, <<Ticked>>}, under : unders]
Replaces(heads) ==
    [kind : {"replace"}, head : heads, id : {"x"}, nth : {0, 1}, new : {Ticked, y}]

Writes ==
    [kind : {"create"}, lines : {<<x>>, <<HeadLine(A), x>>}]
    \cup Appends({NoHead, A, B}, {<<>>, <<x>>, <<x, Indented("z")>>})
    \cup Replaces({NoHead, A, B}) \cup Removes({NoHead, A, B})
    \cup [kind : {"section"}, head : {A, B}, base : {<<>>, <<x>>},
          lines : {<<>>, <<y>>, <<Blank, x, y>>}]
    \cup Moves({A, B}, {A, B, C}, {"top", "end", "after"}, {NoHead})
    \cup Moves({B}, {B}, {"end"}, {A, C})   \* the category moves with the task

\* Writes to the group A, in the forms the phone's task list makes them.
Plainly(w) == w.template /\ ~w.gap /\ w.after = NoAnchor
Adding     == {w \in Appends({A}, {<<x>>, <<y>>}) : Plainly(w) /\ w.top}
Seeding    == {w \in Appends({NoHead}, {<<>>}) : Plainly(w) /\ ~w.top}
Taking     == {w \in Removes({A}) : w.nth = 0}
Ticking    == [kind : {"replace"}, head : {A}, id : {"x"}, nth : {0}, new : {x, Ticked}]
Moving(tos) == {w \in Moves({A}, tos, {"top", "end"}, {NoHead}) : w.nth = 0 /\ w.new = <<>>}

\* Each write alone, and pairs of which the second leaves the first one to be recognised.
SafeBatches ==
    {<<w>> : w \in Writes}
    \cup {<<v, w>> : v \in Adding \cup Seeding \cup Taking,
                    w \in Adding \cup Seeding \cup Taking \cup Moving({A})}
    \cup {<<v, w>> : v \in Ticking, w \in Ticking \cup Moving({A})}

\* A task is added and then ticked, before the desk has seen either.
AddThenTick == {<<v, w>> : v \in Adding, w \in Ticking}

\* Of the following batches TLC refutes RerunIsNoop, of TickThenMove RerunIsNoopButTwins too.
\* A task is ticked and then moved to another group.
TickThenMove == {<<v, w>> : v \in Ticking, w \in Moving({C})}

\* One line of a group is reworded, moved to another group, or removed with its block.
Rewords == {<<w>> : w \in {u \in Replaces({A}) : u.nth = 0 /\ u.new = y}}
Moved   == {<<w>> : w \in Moving({C})}
CutOut  == {<<w>> : w \in {u \in Taking : u.kind = "block"}}
===============================================================================
