------------------------------- MODULE Reports ------------------------------
(***************************************************************************)
(* The files an invocation leaves: checkReportDestinations, writeReports   *)
(* with writeFile and report.UpdateMarkdownSection, and the report command *)
(* that renders a saved report.  Any step may fail, himorime may be killed *)
(* between any two, and is then run again.                                 *)
(*                                                                         *)
(* A file is an inode with a document; entries gives the inode a name has, *)
(* and several names may have the same (hard links).  A spelling is how a  *)
(* destination is written: Resolve gives the name it leads to, through the *)
(* symbolic links of its directories.                                      *)
(***************************************************************************)
EXTENDS Section

CONSTANTS
  Names,       \* the directory entries
  Resolve,     \* of each spelling, its name (reportPath)
  Files,       \* the directories an invocation may start from
  Requests,    \* the outputs that may be asked for, in the order of writing
  Saved,       \* the name of the saved report, for the report command
  NoFile,
  MaxRuns

ASSUME ReportsAssumption ==
  /\ MaxRuns \in Nat \ {0} /\ Saved \in Names /\ NoFile \notin Nat \ {0}
  /\ \A p \in DOMAIN Resolve : Resolve[p] \in Names
  /\ \A os \in Requests : os \in Seq(Range(os)) \ {<<>>} /\ \A i \in DOMAIN os : os[i].to \in DOMAIN Resolve
  /\ \A f \in Files : /\ f.content \in Seq(Range(f.content))
                      /\ \A i \in DOMAIN f.content : /\ f.content[i] \in Seq(Range(f.content[i]))
                                                     /\ HeadingLevels(f.content[i])
                      /\ f.entries \in [Names -> {NoFile} \cup DOMAIN f.content]

VARIABLES
  pc,
  run,       \* which invocation this is
  command,   \* what it was started for
  outputs,   \* what it was asked to write: [to, section, append]
  at,        \* which of them it writes
  entries,
  content,   \* of each inode
  next,      \* the next inode
  tmp,       \* the temporary file, an inode
  over,      \* history: the files that writeFile opened, and what became of them
  new,       \* the document to write
  errs,      \* the outputs that failed
  status,
  original   \* history: the documents before the first invocation

disk == <<entries, content, next>>
reportsVars == <<pc, run, command, outputs, at, disk, tmp, over, new, errs, status, original>>

SavedJSON == <<[k |-> "saved"]>>
Partial == <<[k |-> "partial"]>>
(* The i-th report of a run, in its own format.                            *)
Report(r, i) == <<[k |-> "results", run |-> r, output |-> i]>>

Exists(e, name) == e[name] # NoFile
DocOf(name) == content[entries[name]]
Name == Resolve[outputs[at].to]

ReportsInit ==
  /\ pc = "start" /\ run = 1 /\ command = "none" /\ outputs = <<>> /\ at = 0
  /\ \E f \in Files : /\ entries = f.entries /\ content = f.content
                      /\ next = Len(f.content) + 1 /\ original = f
  /\ tmp = 0 /\ over = {} /\ new = <<>> /\ errs = {} /\ status = "none"

-----------------------------------------------------------------------------
(* Before measuring.                                                       *)

Same(p, q) ==
  \/ Resolve[p] = Resolve[q]
  \/ /\ Exists(entries, Resolve[p]) /\ Exists(entries, Resolve[q])
     /\ entries[Resolve[p]] = entries[Resolve[q]]

BySpelling(os) ==  \* mutant: destinations are compared as they are written
  \E i, j \in DOMAIN os : i < j /\ os[i].to = os[j].to
    /\ (os[i].section = "none" \/ os[j].section = "none" \/ os[i].section = os[j].section)

(* checkReportDestinations: the same file twice, but for distinct sections.*)
Conflict(os) ==
  \E i, j \in DOMAIN os : i < j /\ Same(os[i].to, os[j].to)
    /\ (os[i].section = "none" \/ os[j].section = "none" \/ os[i].section = os[j].section)

(* execute, up to the measurement.                                         *)
Check ==
  /\ pc = "start" /\ command' = "run" /\ outputs' \in Requests
  /\ IF Conflict(outputs')
     THEN pc' = "done" /\ status' = "usage" /\ UNCHANGED at
     ELSE pc' = "open" /\ at' = 1 /\ UNCHANGED status
  /\ UNCHANGED <<run, disk, tmp, over, new, errs, original>>

SamePath(output) == output = Saved  \* mutant: the paths are compared, not the files

(* reportPathsSame: the saved report is never its own output.              *)
SameFile(output) ==
  Exists(entries, Resolve[output]) /\ entries[Resolve[output]] = entries[Saved]

(* runReport: what it reads is validated by report.Read.                   *)
RenderSaved ==
  /\ pc = "start" /\ command' = "report" /\ Exists(entries, Saved)
  /\ \E to \in DOMAIN Resolve :
       IF SameFile(to) \/ DocOf(Saved) # SavedJSON
       THEN pc' = "done" /\ status' = "config" /\ UNCHANGED <<outputs, at>>
       ELSE /\ outputs' = <<[to |-> to, section |-> "none", append |-> FALSE]>>
            /\ pc' = "open" /\ at' = 1 /\ UNCHANGED status
  /\ UNCHANGED <<run, disk, tmp, over, new, errs, original>>

-----------------------------------------------------------------------------
(* Writing one output.                                                     *)

Output == outputs[at]

NextOutput(failed) ==
  /\ errs' = IF failed THEN errs \cup {at} ELSE errs
  /\ at' = at + 1
  /\ pc' = IF at = Len(outputs) THEN "finish" ELSE "open"

(* writeFile opens its file: created, truncated, or to append to.          *)
OpenFile ==
  /\ pc = "open" /\ Output.section = "none"
  /\ \/ NextOutput(TRUE) /\ UNCHANGED <<disk, over>>
     \/ /\ pc' = "write" /\ UNCHANGED <<at, errs>>
        /\ IF Exists(entries, Name)
           THEN /\ content' = IF Output.append THEN content
                              ELSE [content EXCEPT ![entries[Name]] = <<>>]
                /\ UNCHANGED <<entries, next>>
           ELSE /\ content' = Append(content, <<>>) /\ next' = next + 1
                /\ entries' = [entries EXCEPT ![Name] = next]
        /\ over' = over \cup {entries'[Name]}
  /\ UNCHANGED <<run, command, outputs, tmp, new, status, original>>

WriteFile ==
  /\ pc = "write"
  /\ \E part \in {Report(run, at), Partial} :
       /\ content' = [content EXCEPT ![entries[Name]] = @ \o part]
       /\ NextOutput(part = Partial)
  /\ UNCHANGED <<run, command, outputs, entries, next, tmp, over, new, status, original>>

(* UpdateMarkdownSection, up to replaceFile.                               *)
ReadSection ==
  /\ pc = "open" /\ Output.section # "none"
  /\ LET doc == IF Exists(entries, Name) THEN DocOf(Name) ELSE <<>>
         out == ReplaceSection(doc, Output.section, run)
     IN IF doc = <<>> \/ out = <<>> \/ out = doc
        THEN NextOutput(out # doc \/ doc = <<>>) /\ UNCHANGED new
        ELSE new' = out /\ pc' = "temp" /\ UNCHANGED <<at, errs>>
  /\ UNCHANGED <<run, command, outputs, disk, tmp, over, status, original>>

(* replaceFile.  On an error the temporary file is removed again.          *)
Temp ==
  /\ pc = "temp"
  /\ \/ NextOutput(TRUE) /\ UNCHANGED <<disk, tmp>>
     \/ /\ content' = Append(content, <<>>) /\ tmp' = next /\ next' = next + 1
        /\ pc' = "fill" /\ UNCHANGED <<entries, at, errs>>
  /\ UNCHANGED <<run, command, outputs, over, new, status, original>>

GiveUp == NextOutput(TRUE) /\ tmp' = 0

WriteTemp ==
  /\ pc = "fill"
  /\ \/ /\ content' = [content EXCEPT ![tmp] = new]
        /\ pc' = "close" /\ UNCHANGED <<at, errs, tmp>>
     \/ /\ content' = [content EXCEPT ![tmp] = Partial] /\ GiveUp
  /\ UNCHANGED <<run, command, outputs, entries, next, over, new, status, original>>

CloseTemp ==
  /\ pc = "close"
  /\ \/ pc' = "rename" /\ UNCHANGED <<at, errs, tmp>>
     \/ GiveUp
  /\ UNCHANGED <<run, command, outputs, disk, over, new, status, original>>

WriteInPlace ==  \* mutant: the document is written over in two steps
  /\ pc = "rename" /\ tmp' = 0
  /\ content' = [content EXCEPT ![entries[Name]] = Partial] /\ NextOutput(FALSE)
  /\ UNCHANGED <<run, command, outputs, entries, next, over, new, status, original>>

Rename ==
  /\ pc = "rename"
  /\ \/ /\ entries' = [entries EXCEPT ![Name] = tmp] /\ tmp' = 0 /\ NextOutput(FALSE)
        /\ over' = IF entries[Name] \in over THEN over \cup {tmp} ELSE over
     \/ GiveUp /\ UNCHANGED <<entries, over>>
  /\ UNCHANGED <<run, command, outputs, content, next, new, status, original>>

(* The status of writeReports, or of runReport.                            *)
Finish ==
  /\ pc = "finish" /\ pc' = "done"
  /\ status' = IF errs = {} THEN "ok" ELSE "execution"
  /\ UNCHANGED <<run, command, outputs, at, disk, tmp, over, new, errs, original>>

(* SIGKILL, or the machine goes down between two steps.                    *)
Killed ==
  /\ pc \notin {"start", "done", "killed"} /\ pc' = "killed"
  /\ tmp' = 0
  /\ UNCHANGED <<run, command, outputs, at, disk, over, new, errs, status, original>>

Again ==
  /\ pc \in {"done", "killed"} /\ run < MaxRuns
  /\ pc' = "start" /\ run' = run + 1
  /\ command' = "none" /\ outputs' = <<>> /\ at' = 0 /\ errs' = {} /\ new' = <<>> /\ status' = "none"
  /\ UNCHANGED <<disk, tmp, over, original>>

ReportsNext ==
  \/ Check \/ RenderSaved \/ OpenFile \/ WriteFile \/ ReadSection
  \/ Temp \/ WriteTemp \/ CloseTemp \/ Rename \/ Finish \/ Killed \/ Again

ReportsSpec == ReportsInit /\ [][ReportsNext]_reportsVars

-----------------------------------------------------------------------------
(* Properties.  Which markers of a document are real is part of the        *)
(* document ("real"), and nothing above looks at it.                       *)

RealMarker(doc, i, kind, name) == doc[i].k = kind /\ doc[i].name = name /\ doc[i].real

SectionsIn(doc) == {doc[i].name : i \in {j \in DOMAIN doc : doc[j].k = "begin" /\ doc[j].real}}

Inside(doc, name) ==
  {i \in DOMAIN doc : \E b, e \in DOMAIN doc :
     b < i /\ i < e /\ RealMarker(doc, b, "begin", name) /\ RealMarker(doc, e, "end", name)}

LinesAt(doc, where) ==
  LET lines[i \in 0..Len(doc)] ==
        IF i = 0 THEN <<>>
        ELSE IF i \in where THEN Append(lines[i - 1], doc[i]) ELSE lines[i - 1]
  IN lines[Len(doc)]

Outside(doc) == LinesAt(doc, DOMAIN doc \ UNION {Inside(doc, name) : name \in SectionsIn(doc)})
SectionOf(doc, name) == LinesAt(doc, Inside(doc, name))

(* A document whose markers the scan takes for what they are, and whose    *)
(* sections do not overlap.                                                *)
Legible(doc) ==
  /\ \A i \in DOMAIN doc : doc[i].k \in {"begin", "end"} =>
       doc[i].real = /\ i \notin FrontMatter(doc) /\ doc[i].indent <= 3
                     /\ Scanned(doc, doc[i].name)[i - 1].fence = NoFence
  /\ \A b, m, e \in DOMAIN doc :
       /\ b < m /\ m < e /\ doc[b].k = "begin" /\ doc[e].k = "end" /\ doc[m].k \in {"begin", "end"}
       /\ doc[b].real /\ doc[m].real /\ doc[e].real /\ doc[b].name = doc[e].name
       => doc[m].name = doc[b].name

LegibleFiles == \A f \in Files : \A i \in DOMAIN f.content : Legible(f.content[i])

(* A description that is neither a fence nor like the first line of a      *)
(* document.                                                               *)
PlainDescription == Description.k \in {"text", "heading"}

(* Whatever fails and whenever himorime is killed, a document that only    *)
(* has sections replaced is whole: outside its sections it is what it was, *)
(* and each section holds what it held or all of one run's report          *)
(* (UpdateMarkdownSection, replaceFile).                                   *)
DocumentsWhole ==
  \A name \in Names :
    Exists(original.entries, name) /\ entries[name] \notin over =>
      LET was == original.content[original.entries[name]]
      IN /\ Outside(DocOf(name)) = Outside(was)
         /\ \A s \in SectionsIn(was) :
              SectionOf(DocOf(name), s) \in
                {SectionOf(was, s)} \cup {WholeSection(level, r) : level \in 2..6, r \in 1..run}

(* When an invocation says that its reports are written, each destination  *)
(* holds the whole report of this run, however the destinations are        *)
(* spelled, and no temporary file is left                                  *)
(* (checkReportDestinations, writeReports).                                *)
ReportsHeld ==
  pc = "done" =>
    /\ tmp = 0
    /\ status = "ok" => \A i \in DOMAIN outputs :
         LET o == outputs[i]
             doc == DocOf(Resolve[o.to])
         IN IF o.section # "none"
            THEN \E level \in 2..6 : SectionOf(doc, o.section) = WholeSection(level, run)
            ELSE IF o.append THEN Report(run, i) = <<Last(doc)>> ELSE doc = Report(run, i)

(* The report command never writes over the saved report it renders,       *)
(* whatever its output is called (reportPathsSame, writeSavedReport).      *)
SavedKept == command = "report" /\ outputs # <<>> => DocOf(Saved) = SavedJSON

(* To replace a section by the same report again changes nothing: a run in *)
(* CI that measures the same does not make the page move                   *)
(* (ReplaceSection).                                                       *)
SectionsStable ==
  pc \in {"open", "finish"} /\ at > 1 /\ at - 1 \notin errs =>
    LET o == outputs[at - 1]
    IN o.section # "none" =>
         ReplaceSection(DocOf(Resolve[o.to]), o.section, run) = DocOf(Resolve[o.to])
=============================================================================
