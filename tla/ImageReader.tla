----------------------------- MODULE ImageReader -----------------------------
(***************************************************************************)
(* OsImageReader: what the readers of ELF and of PE images have in common, *)
(* on top of BufferedFile.  ElfImage and PEImage say how an image is read; *)
(* this module has what is read from it, the sections and their contents,  *)
(* which are read when asked for, and the search of symbols.               *)
(*                                                                         *)
(* A cell of a file is a header, a section header, a string, a symbol or a *)
(* piece of data, as a whole.                                              *)
(***************************************************************************)
EXTENDS BufferedFile, SequencesExt

VARIABLES
  pc,           (* what the reader is about to do with what it asked for   *)
  outcome,      (* result of the last call: "ok", or why not               *)
  header,       (* the file header                                         *)
  index,        (* of the section header or symbol at hand                 *)
  names,        (* m_shStrTab, m_strTab of PE: names of sections           *)
  strings,      (* m_strTab: names of symbols                              *)
  sections,     (* m_sectionMap: name -> offset, size and data             *)
  materialized, (* names in m_materializedSectionMap                       *)
  symbols,      (* m_symInfoSet                                            *)
  sources,      (* m_srcFileNames                                          *)
  wanted,       (* sections that the call under way still has to return    *)
  copying,      (* it is getSection, which works on a copy of the entry    *)
  reading,      (* the section it is reading                               *)
  returned      (* sections that the last call returned, with their data   *)

imageVars == <<header, index, names, strings, sections, materialized, symbols, sources>>
callVars == <<wanted, copying, reading, returned>>

NoHeader == [kind |-> "none"]
NotRead == <<[kind |-> "unread"]>>

ImageInit ==
  /\ pc = "new" /\ outcome = "none"
  /\ header = NoHeader /\ index = 0 /\ names = <<>> /\ strings = <<>>
  /\ sections = <<>> /\ materialized = {} /\ symbols = <<>> /\ sources = <<>>
  /\ wanted = {} /\ copying = FALSE /\ reading = "" /\ returned = <<>>

(* A cell that is not of the kind it is taken for. *)
As(kind, cell, default) == IF cell.kind = kind THEN cell ELSE default
NoSection == [kind |-> "section", name |-> 0, type |-> "null", offset |-> 0, size |-> 0]
AsSection(cell) == As("section", cell, NoSection)
StringAt(strs, k) == IF k \in DOMAIN strs THEN As("string", strs[k], [text |-> ""]).text ELSE ""

-----------------------------------------------------------------------------
(* open: it ends with the first failure, and closes the file, except that an
   open which already failed in the file reader leaves it as it is. *)
OpenImage ==
  /\ pc = "new" /\ OpenFile
  /\ IF rc' = "ok" THEN pc' = "opened" /\ outcome' = "none"
     ELSE pc' = "failed" /\ outcome' = rc'
  /\ UNCHANGED <<imageVars, callVars>>

GiveUp(why) ==
  /\ CloseFile /\ pc' = "failed" /\ outcome' = why
  /\ UNCHANGED <<file, scriptVars, imageVars, callVars>>

(* What was asked for at this point is there, or the image cannot be read. *)
Have(at) == pc = at /\ Answered /\ rc = "ok"
ReadFails(points) == pc \in points /\ Answered /\ rc # "ok" /\ GiveUp(rc)

(* The next thing to ask for, once this is dealt with. *)
AskFor(operations, next) ==
  /\ Ask(operations) /\ pc' = next
  /\ UNCHANGED <<file, readerVars, place, spoiled, faults, outcome, callVars>>
ReadOn(next) == pc' = next /\ UNCHANGED <<fileVars, outcome, callVars>>

-----------------------------------------------------------------------------
(* The section map does not take a second section of a name. *)
Section(offset, size) == [offset |-> offset, size |-> size, data |-> NotRead, sound |-> TRUE]
Inserted(map, name, s) == [n \in DOMAIN map \cup {name} |-> IF n = name THEN s ELSE map[n]]

(* Symbols are sorted by offset; the sort is not stable. *)
Permuted(seq) ==
  {[i \in DOMAIN seq |-> seq[p[i]]] : p \in SetToSeqs(DOMAIN seq)}
Sorted(seq) == \A i, j \in DOMAIN seq : i < j => seq[i].offset <= seq[j].offset

(* searchSymbol by address: std::lower_bound for the first symbol that does
   not end at or before the offset, halving the range, and then whether the
   one found contains it. *)
EndsBefore(s, a) == s.offset + s.size <= a
Covers(s, a) == s.offset <= a /\ a < s.offset + s.size
(* A fault: searching by where symbols begin. *)
BeginsBefore(s, a) == s.offset <= a

LowerBound(below) ==
  LET from[r \in Nat \X Nat] ==
        LET first == r[1]
            count == r[2]
            half == count \div 2
            mid == first + half
        IN  IF count = 0 THEN first
            ELSE IF below[mid] THEN from[<<mid + 1, count - half - 1>>]
            ELSE from[<<first, half>>]
  IN  from[<<1, Len(below)>>]

Before(s, a) == EndsBefore(s, a)
NotFound == [kind |-> "none"]
SearchSymbol(a) ==
  LET k == LowerBound([i \in DOMAIN symbols |-> Before(symbols[i], a)])
  IN  IF k <= Len(symbols) /\ Covers(symbols[k], a) THEN symbols[k] ELSE NotFound

(* searchSymbol by name: the map is filled in the order of the symbols and
   keeps the first of a name. *)
Named(n) == {k \in DOMAIN symbols : symbols[k].name = n}
SearchName(n) ==
  IF Named(n) = {} THEN NotFound ELSE symbols[CHOOSE k \in Named(n) : \A j \in Named(n) : k <= j]

-----------------------------------------------------------------------------
(* getSections, for the sections that a prefix selects, and getSection, for
   one.  A section is materialized when it is asked for the first time.  The
   entry for its contents is made before they are read, and stays whatever
   comes of it; getSection forgets where the contents are. *)
CallSections(selected, copy) ==
  /\ pc = "ready" /\ Answered
  /\ pc' = "sections" /\ outcome' = "none"
  /\ wanted' = selected /\ copying' = copy /\ returned' = <<>>
  /\ UNCHANGED <<fileVars, imageVars, reading>>

Unread(n) == sections[n].data = NotRead
Return(n, s) ==
  returned' = Inserted(returned, n, s) /\ wanted' = wanted \ {n}

HandOver(n) ==
  /\ pc = "sections" /\ n \in wanted /\ ~Unread(n)
  /\ Return(n, sections[n])
  /\ UNCHANGED <<fileVars, imageVars, pc, outcome, copying, reading>>

Materialize(n) ==
  /\ pc = "sections" /\ n \in wanted /\ Unread(n) /\ n \notin materialized
  /\ materialized' = materialized \cup {n}
  /\ Ask(<<Seek(sections[n].offset), Read(sections[n].size)>>)
  /\ pc' = "contents" /\ reading' = n
  /\ UNCHANGED <<file, readerVars, place, spoiled, faults, header, index, names, strings,
                 sections, symbols, sources, outcome, wanted, copying, returned>>

Filled ==
  LET s == [sections[reading] EXCEPT !.data = got, !.sound = ~spoiled] IN
  /\ Have("contents")
  /\ Return(reading, s)
  /\ sections' = IF copying THEN sections ELSE [sections EXCEPT ![reading] = s]
  /\ pc' = "sections"
  /\ UNCHANGED <<fileVars, header, index, names, strings, materialized, symbols, sources,
                 outcome, copying, reading>>

EndSections(why) ==
  /\ pc' = "ready" /\ outcome' = why /\ wanted' = {}
  /\ UNCHANGED <<fileVars, imageVars, copying, reading, returned>>

SectionsEnd ==
  \/ pc = "sections" /\ wanted = {} /\ EndSections("ok")
  \/ \E n \in wanted : /\ pc = "sections" /\ Unread(n) /\ n \in materialized
                        /\ EndSections("internal")
  \/ pc = "contents" /\ Answered /\ rc # "ok" /\ EndSections(rc)

(* close, after which the reader is not used again: it would keep names and
   contents of the image it had. *)
CloseImage ==
  /\ pc \in {"ready", "failed"} /\ CloseFile
  /\ pc' = "closed"
  /\ header' = NoHeader /\ sections' = <<>> /\ symbols' = <<>> /\ sources' = <<>>
  /\ returned' = <<>>
  /\ UNCHANGED <<file, scriptVars, index, names, strings, materialized, outcome, wanted, copying,
                 reading>>

-----------------------------------------------------------------------------
(* The contents of a section that a call returned are those in the file;
   except after a read of the image failed, when a seek into the buffer that
   read left behind takes its bytes for those of the section. *)
SectionsIntact ==
  \A n \in DOMAIN returned :
    returned[n].sound => returned[n].data = Cells(returned[n].offset, returned[n].size)
=============================================================================
