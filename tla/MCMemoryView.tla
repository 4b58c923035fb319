---------------------------- MODULE MCMemoryView ----------------------------
(***************************************************************************)
(* A finite instance of MemoryView, ProjectArtifacts and ProjectMemory,    *)
(* and of MemoryRetrieval beside them.                                     *)
(***************************************************************************)
EXTENDS MemoryView

TwoKinds == <<"decision", "testing">>

\* Two facts that share a term and are not near enough to be one.
TwoTitles == {{"t", "u"}, {"t", "v"}}

\* One note, written by hand.
OneNote == <<[project |-> "p", title |-> {"t", "u"}, status |-> "active",
              supersedes |-> 0, version |-> 1, run |-> FALSE]>>

Note(id, kind, pinned, title, tags, body, updated, line, status) ==
  [id |-> id, project |-> IF id = 7 THEN "q" ELSE "p", kind |-> kind, pinned |-> pinned, title |-> title,
   tags |-> tags, body |-> body, updated |-> updated, line |-> line, status |-> status]

\* Entries of two kinds and two projects: pinned or not, long and short, equal but for their ids, old and better.
SevenNotes ==
  {Note(1, "decision", TRUE, <<"t">>, <<>>, <<"u">>, 1, 3, "active"),
   Note(2, "decision", TRUE, <<"u">>, <<"u">>, <<"t", "t">>, 2, 2, "active"),
   Note(3, "decision", FALSE, <<"t">>, <<"u">>, <<>>, 1, 3, "active"),
   Note(4, "decision", FALSE, <<"t">>, <<"u">>, <<>>, 1, 1, "active"),
   Note(5, "testing", FALSE, <<"u", "t">>, <<>>, <<"t">>, 3, 2, "active"),
   Note(6, "decision", FALSE, <<"u">>, <<>>, <<>>, 2, 1, "archived"),
   Note(7, "testing", FALSE, <<"t">>, <<"t">>, <<"t">>, 4, 1, "active")}

SomeRequests == [query : {<<>>, <<"t">>, <<"t", "u">>}, kinds : {{"decision"}, {"decision", "testing"}},
                 tags : {{}, {"u"}}, limit : {1, 2, 9}]
TwoRooms == {[pinned |-> 4, kind |-> 2], [pinned |-> 5, kind |-> 4]}

Texts == [word : {"", "x", "secret", "long"}, blanks : BOOLEAN]
TagTexts == [word : {"", "x", "X", "long"}, blanks : BOOLEAN]

\* Confidence in percent; 101 stands for what is no number between 0 and 1.
SomeDrafts ==
  [kind : {"decision", "gossip"}, title : Texts, body : Texts, confidence : {0, 100, 101},
   tags : UNION {[1..n -> TagTexts] : n \in 0..2} \cup {<<[word |-> "x", blanks |-> TRUE], [word |-> "X", blanks |-> FALSE],
                                                         [word |-> "x", blanks |-> FALSE]>>}]
=============================================================================
