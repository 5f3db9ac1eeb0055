------------------------------- MODULE PEImage -------------------------------
(***************************************************************************)
(* Win32PEReader: how a PE image is read (win32_pe_reader.cpp).            *)
(*                                                                         *)
(* The second cell of the file leads to the signature, which the file      *)
(* header, the optional header (two cells, the first its magic number) and *)
(* the section headers follow.  The symbol table is a sequence of symbol   *)
(* and auxiliary records; right behind it is the string table, whose first *)
(* cell is its size.  A cell that is taken for a symbol but is none is     *)
(* given what it then looks like.                                          *)
(***************************************************************************)
EXTENDS ImageReader

VARIABLES
  origin,  (* m_sections: virtual offset and size, in file order           *)
  lengths, (* m_miniSections: of each section, value -> length             *)
  count,   (* symCount: records that the loop still believes in            *)
  symbol,  (* the symbol at hand                                           *)
  auxRead, (* auxiliary records read for it                                *)
  finished (* history: the symbol table was read to its end                *)

peVars == <<origin, lengths, count, symbol, auxRead, finished>>

PEInit ==
  /\ origin = <<>> /\ lengths = <<>> /\ count = 0
  /\ symbol = NoHeader /\ auxRead = 0 /\ finished = FALSE

Keep == UNCHANGED <<imageVars, peVars>>

-----------------------------------------------------------------------------
(* readImage, up to the string table *)
ReadOffset == pc = "opened" /\ AskFor(<<Seek(1), Read(1)>>, "pe offset") /\ Keep

FindSignature ==
  /\ Have("pe offset")
  /\ AskFor(<<Seek(As("lfanew", got[1], [offset |-> 0]).offset), Read(1)>>, "pe signature") /\ Keep

CheckSignature ==
  /\ Have("pe signature")
  /\ IF got[1].kind = "signature" THEN AskFor(<<Read(1)>>, "pe header") /\ Keep
     ELSE GiveUp("invalid argument") /\ UNCHANGED peVars

NoPE == [machine |-> "other", executable |-> FALSE, system |-> FALSE, symtab |-> 0,
         optional |-> 0, symbols |-> 0, sections |-> 0]
FileHeaderFlaw(h) ==
  IF h.machine \notin {"amd64", "i386"} THEN "not implemented"
  ELSE IF ~h.executable THEN "invalid argument"
  ELSE IF h.system THEN "not implemented"
  ELSE IF h.symtab = 0 THEN "invalid argument"
  ELSE IF h.optional = 0 THEN "data corrupt" ELSE "none"

CheckFileHeader ==
  LET h == As("header", got[1], NoPE) IN
  /\ Have("pe header")
  /\ IF FileHeaderFlaw(h) # "none" THEN GiveUp(FileHeaderFlaw(h)) /\ UNCHANGED peVars
     ELSE /\ header' = h
          /\ index' = fileOffset + bufferOffset
          /\ AskFor(<<Read(1)>>, "pe magic")
          /\ UNCHANGED <<names, strings, sections, materialized, symbols, sources, peVars>>

StringTable == header.symtab + header.symbols

CheckMagic ==
  /\ Have("pe magic")
  /\ IF As("magic", got[1], [value |-> "other"]).value \in {"pe32", "pe32+"}
     THEN AskFor(<<Seek(StringTable), Read(1)>>, "pe size") /\ Keep
     ELSE GiveUp("not implemented") /\ UNCHANGED peVars

ReadStrings ==
  /\ Have("pe size")
  /\ AskFor(<<Seek(StringTable), Read(As("size", got[1], [size |-> 0]).size)>>, "pe strings") /\ Keep

HaveStringTable ==
  /\ Have("pe strings")
  /\ strings' = got
  /\ AskFor(<<Seek(index), Read(2)>>, "pe optional")
  /\ UNCHANGED <<header, index, names, sections, materialized, symbols, sources, peVars>>

(* scanHdrs32, scanHdrs64 *)
ScanHeaders ==
  /\ Have("pe optional") /\ AskFor(<<Read(header.sections)>>, "pe sections") /\ Keep

(* readSectionHeaders: a name is in the header or in the string table, and
   none may occur twice. *)
InTable(n) == n.ref = 0 \/ n.ref < Len(strings)
NameOf(n) == IF n.ref = 0 THEN n.text ELSE StringAt(strings, n.ref + 1)
NoPESection == [kind |-> "section", name |-> [ref |-> 0, text |-> ""], offset |-> 0, virtual |-> 0,
                size |-> 0]
PESection(cell) == As("section", cell, NoPESection)

SectionMap(hs) ==
  [n \in {NameOf(hs[i].name) : i \in DOMAIN hs} |->
     LET i == CHOOSE j \in DOMAIN hs : NameOf(hs[j].name) = n
     IN  Section(hs[i].offset, hs[i].size)]

ReadSectionHeaders ==
  LET hs == [i \in DOMAIN got |-> PESection(got[i])] IN
  /\ Have("pe sections")
  /\ IF \/ \E i \in DOMAIN hs : ~InTable(hs[i].name)
        \/ \E i, j \in DOMAIN hs : i # j /\ NameOf(hs[i].name) = NameOf(hs[j].name)
     THEN GiveUp("data corrupt") /\ UNCHANGED peVars
     ELSE /\ sections' = SectionMap(hs)
          /\ origin' = [i \in DOMAIN hs |-> [virtual |-> hs[i].virtual, size |-> hs[i].size]]
          /\ lengths' = [i \in DOMAIN hs |-> <<>>]
          /\ count' = header.symbols /\ index' = 0
          /\ AskFor(<<Seek(header.symtab)>>, "pe next")
          /\ UNCHANGED <<header, names, strings, materialized, symbols, sources, symbol, auxRead,
                         finished>>

-----------------------------------------------------------------------------
(* buildSymTab: one turn of its loop for each symbol.  The loop counts the
   auxiliary records that it skips, and not those that it reads. *)
NoPESymbol == [class |-> "other", type |-> "null", section |-> 0, value |-> 0, aux |-> 0, name |-> ""]
PESymbol(cell) == IF cell.kind \in {"symbol", "aux", "string"} THEN cell.symbol ELSE NoPESymbol

(* The count is unsigned: one below zero is a number that no index gets to. *)
NextSymbol ==
  /\ Have("pe next") /\ (index < count \/ count < 0)
  /\ AskFor(<<Read(1)>>, "pe symbol") /\ Keep

HasFileName(s) == s.class = "file" /\ s.aux = 1
HasLength(s) ==
  s.class = "static" /\ s.type = "null" /\ s.section > 0 /\ s.value > 0 /\ s.aux = 1
(* A function, of a section that is not the last one. *)
TakenForFunction(s) ==
  /\ s.class # "file" /\ ~(s.class = "static" /\ s.type = "null")
  /\ s.type = "function" /\ s.section > 0
InSections(s) == s.section < Len(origin)

ReadAux(next) ==
  /\ AskFor(<<Read(1)>>, next)
  /\ symbol' = PESymbol(got[1]) /\ auxRead' = 1
  /\ UNCHANGED <<imageVars, origin, lengths, count, finished>>

(* On to the next symbol, behind the auxiliary records of this one. *)
SkipAux(s, read) ==
  /\ AskFor(<<Skip(s.aux - read)>>, "pe next")
  /\ count' = count - (s.aux - read)
  /\ index' = index + 1

LengthOf(s) == IF s.value \in DOMAIN lengths[s.section] THEN lengths[s.section][s.value] ELSE 0
PEFunction(s) ==
  [kind |-> "function", offset |-> origin[s.section].virtual + s.value, size |-> LengthOf(s),
   name |-> s.name, source |-> IF sources = <<>> THEN 0 ELSE Len(sources) - 1, section |-> s.section]

TakeSymbol ==
  LET s == PESymbol(got[1]) IN
  /\ Have("pe symbol")
  /\ \/ HasFileName(s) /\ ReadAux("pe file")
     \/ HasLength(s) /\ ReadAux("pe length")
     \/ /\ TakenForFunction(s) /\ ~InSections(s)
        /\ index' = index + 1 /\ ReadOn("pe next")
        /\ UNCHANGED <<header, names, strings, sections, materialized, symbols, sources, peVars>>
     \/ /\ TakenForFunction(s) /\ InSections(s)
        /\ symbols' = Append(symbols, PEFunction(s))
        /\ SkipAux(s, 0)
        /\ UNCHANGED <<header, names, strings, sections, materialized, sources, origin, lengths,
                       symbol, auxRead, finished>>
     \/ /\ ~HasFileName(s) /\ ~HasLength(s) /\ ~TakenForFunction(s)
        /\ SkipAux(s, 0)
        /\ UNCHANGED <<header, names, strings, sections, materialized, symbols, sources, origin,
                       lengths, symbol, auxRead, finished>>

TakeFileName ==
  /\ Have("pe file")
  /\ sources' = Append(sources, As("aux", got[1], [text |-> ""]).text)
  /\ SkipAux(symbol, auxRead)
  /\ UNCHANGED <<header, names, strings, sections, materialized, symbols, origin, lengths, symbol,
                 auxRead, finished>>

TakeLength ==
  LET length == As("aux", got[1], [length |-> 0]).length
      of == lengths[symbol.section]
  IN
  /\ Have("pe length")
  /\ lengths' = [lengths EXCEPT ![symbol.section] =
                   IF symbol.value \in DOMAIN of THEN of ELSE Inserted(of, symbol.value, length)]
  /\ SkipAux(symbol, auxRead)
  /\ UNCHANGED <<header, names, strings, sections, materialized, symbols, sources, origin, symbol,
                 auxRead, finished>>

(* Symbols without a length reach to the next one, and the last one to the
   end of its section. *)
Stretched(seq) ==
  [k \in DOMAIN seq |->
     IF seq[k].size # 0 THEN seq[k]
     ELSE [seq[k] EXCEPT !.size =
             IF k < Len(seq) THEN seq[k + 1].offset - seq[k].offset
             ELSE LET o == origin[seq[k].section] IN o.virtual + o.size - seq[k].offset]]

(* The end of the loop, or a read that failed, which leaves the symbols as
   they are.  readImage goes on either way. *)
FinishSymbols ==
  /\ \/ /\ Have("pe next") /\ count >= 0 /\ index >= count
        /\ \E s \in Permuted(symbols) : Sorted(s) /\ symbols' = Stretched(s)
        /\ finished' = TRUE
     \/ /\ pc \in {"pe next", "pe symbol", "pe file", "pe length"} /\ Answered /\ rc # "ok"
        /\ UNCHANGED <<symbols, finished>>
  /\ strings' = <<>>
  /\ pc' = "ready" /\ outcome' = "ok"
  /\ UNCHANGED <<fileVars, callVars, header, index, names, sections, materialized, sources, origin,
                 lengths, count, symbol, auxRead>>

PEPoints == {"pe offset", "pe signature", "pe header", "pe magic", "pe size", "pe strings",
             "pe optional", "pe sections"}

PEStep ==
  \/ ReadOffset \/ FindSignature \/ CheckSignature \/ CheckFileHeader \/ CheckMagic
  \/ ReadStrings \/ HaveStringTable \/ ScanHeaders \/ ReadSectionHeaders
  \/ NextSymbol \/ TakeSymbol \/ TakeFileName \/ TakeLength \/ FinishSymbols
  \/ ReadFails(PEPoints) /\ UNCHANGED peVars
=============================================================================
