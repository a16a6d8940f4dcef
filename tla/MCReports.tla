------------------------------ MODULE MCReports -----------------------------
EXTENDS Reports

Heading(level) == [k |-> "heading", level |-> level]
Ticks(n, info) == [k |-> "fence", char |-> "tick", n |-> n, info |-> info]
Tildes(n) == [k |-> "fence", char |-> "tilde", n |-> n, info |-> FALSE]
Mark(kind, name) == [k |-> kind, name |-> name, indent |-> 0, real |-> TRUE]
Shown(kind, name, indent) == [k |-> kind, name |-> name, indent |-> indent, real |-> FALSE]
Delimiter == [k |-> "front", delimiter |-> "---"]

(* Two sections, one under a heading and filled; a section with examples   *)
(* of its markers in code, under a front matter with a comment; and a      *)
(* document that only shows the markers.                                   *)
TwoSections ==
  <<Mark("begin", "a"), Mark("end", "a"), Heading(3), Blank, Mark("begin", "b"), Blank,
    Mark("end", "b"), Blank>>
WithExamples ==
  <<Delimiter, Heading(1), Delimiter, Ticks(4, TRUE), Ticks(3, FALSE), Shown("begin", "a", 0),
    Tildes(4), Shown("end", "a", 0), Ticks(4, FALSE), Heading(6), Shown("end", "a", 4),
    Mark("begin", "a"), Mark("end", "a")>>
OnlyShown ==
  <<Delimiter, Tildes(3), Shown("begin", "a", 0), Ticks(3, FALSE), Shown("end", "a", 0), Tildes(3)>>

MCNames == {"page", "copy", "out", "saved"}
MCResolve ==
  [page |-> "page", viaLink |-> "page", copy |-> "copy", out |-> "out", saved |-> "saved"]

(* "copy" is a hard link of the page, of the saved report or of "out", or  *)
(* neither of them exists yet.                                             *)
MCFiles ==
  [entries : {[page |-> 1, copy |-> c, out |-> IF c = 0 THEN 0 ELSE 3, saved |-> 2] : c \in 0..3},
   content : {<<doc, SavedJSON, <<Blank>>>> : doc \in {TwoSections, WithExamples, OnlyShown}}]

MCDescription == Heading(1)
ASSUME MCDocuments == LegibleFiles /\ PlainDescription

To(spelling, section) == [to |-> spelling, section |-> section, append |-> FALSE]
Summary(spelling) == [to |-> spelling, section |-> "none", append |-> TRUE]

MCRequests ==
  {<<To("page", "a")>>, <<To("page", "b"), To("viaLink", "a")>>,
   <<To("page", "a"), To("copy", "b")>>, <<To("copy", "none"), To("page", "a")>>,
   <<To("out", "none"), To("copy", "none")>>, <<To("page", "none"), To("viaLink", "none")>>,
   <<To("page", "none"), Summary("viaLink")>>, <<To("page", "b"), Summary("copy")>>,
   <<Summary("page")>>}
=============================================================================
