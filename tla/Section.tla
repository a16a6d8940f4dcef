------------------------------- MODULE Section ------------------------------
(***************************************************************************)
(* report.ReplaceSection: one section of a Markdown document replaced by a *)
(* rendered report.                                                        *)
(*                                                                         *)
(* A line is known by what the scan looks at: [k |-> "heading", level],    *)
(* "fence" (char, n and whether an info string follows), "front" (the      *)
(* delimiter of a front matter), "begin" and "end" of the section name     *)
(* with their indentation, or any other line.  Line endings are left out.  *)
(***************************************************************************)
EXTENDS Integers, Sequences, FiniteSets, SequencesExt

CONSTANT
  Description   \* the line that the description of the suite renders to

(* EscapeMarkdown leaves "#", "~" and "-" as they are, so it may be any    *)
(* line but a marker.                                                      *)
ASSUME SectionAssumption ==
  /\ Description.k \in {"text", "heading", "fence", "front"}
  /\ Description.k = "heading" => Description.level \in 1..6

(* A heading has one to six "#".                                           *)
HeadingLevels(doc) == \A i \in DOMAIN doc : doc[i].k = "heading" => doc[i].level \in 1..6

(* The lines of a front matter at the start of the document (splitLines).  *)
FrontMatter(doc) ==
  LET ends == {i \in 2..Len(doc) : doc[i] = doc[1]}
  IN IF doc # <<>> /\ doc[1].k = "front" /\ ends # {} THEN 1..Min(ends) ELSE {}

NoFence == [k |-> "none"]

(* fence.closes; what opens a fence is a "fence" line (opensFence).        *)
Closes(fence, l) ==
  /\ l.k = "fence" /\ l.char = fence.char /\ l.n >= fence.n /\ ~l.info

(* markerText: a line that is indented further is code.                    *)
IsMarker(l, kind, name) == l.k = kind /\ l.name = name /\ l.indent <= 3

(* One line of the scan: its state is the open fence, where the markers    *)
(* are, and the level of the last heading above the section.               *)
LevelInside(s, l) ==  \* mutant: the headings of the section itself count
  IF l.k = "heading" THEN [s EXCEPT !.parent = l.level] ELSE s

Level(s, l) ==
  IF l.k = "heading" /\ s.begin = <<>> THEN [s EXCEPT !.parent = l.level] ELSE s

Fence(s, l) ==
  IF s.fence = NoFence THEN [s EXCEPT !.fence = l]
  ELSE IF Closes(s.fence, l) THEN [s EXCEPT !.fence = NoFence] ELSE s

ScanLine(s, l, i, name) ==
  IF l.k = "fence" THEN Fence(s, l)
  ELSE IF s.fence # NoFence THEN s
  ELSE IF IsMarker(l, "begin", name) THEN [s EXCEPT !.begin = Append(@, i)]
  ELSE IF IsMarker(l, "end", name) THEN [s EXCEPT !.end = Append(@, i)]
  ELSE Level(s, l)

Unscanned == [fence |-> NoFence, begin |-> <<>>, end |-> <<>>, parent |-> 0]

(* The states of the scan, after each line.                                *)
Scanned(doc, name) ==
  LET front == FrontMatter(doc)
      after[i \in 0..Len(doc)] ==
        IF i = 0 THEN Unscanned
        ELSE IF i \in front THEN after[i - 1]
        ELSE ScanLine(after[i - 1], doc[i], i, name)
  IN after

Scan(doc, name) == Scanned(doc, name)[Len(doc)]

Blank == [k |-> "text"]

(* What himorime renders at a level: headings of that level and of the     *)
(* next, at most 6, the description and the results of a run.              *)
Rendered(level, run) ==
  <<[k |-> "heading", level |-> level], Description,
    [k |-> "heading", level |-> Min({level + 1, 6})],
    [k |-> "results", run |-> run]>>

WholeSection(level, run) == <<Blank>> \o Rendered(level, run) \o <<Blank>>

(* The new document, or <<>> for an error: a marker that is missing, twice *)
(* there or in the wrong place.                                            *)
ReplaceSection(doc, name, run) ==
  LET s == Scan(doc, name)
      level == IF s.parent = 0 THEN 2 ELSE Min({s.parent + 1, 6})
  IN IF Len(s.begin) # 1 \/ Len(s.end) # 1 THEN <<>>
     ELSE IF s.end[1] < s.begin[1] THEN <<>>
     ELSE SubSeq(doc, 1, s.begin[1]) \o WholeSection(level, run)
          \o SubSeq(doc, s.end[1], Len(doc))
=============================================================================
