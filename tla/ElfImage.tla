------------------------------ MODULE ElfImage ------------------------------
(***************************************************************************)
(* ElfReader: how an ELF image is read (elf_reader.cpp).                   *)
(*                                                                         *)
(* The first cell of the file is its identification, the second the rest   *)
(* of its header.  Both widths of the format are read alike, so a reader   *)
(* of one stands for both.  A section header takes one cell, and the one   *)
(* at index 0 is void.                                                     *)
(***************************************************************************)
EXTENDS ImageReader

-----------------------------------------------------------------------------
(* verifyHeader *)
VerifyHeader ==
  /\ pc = "opened" /\ AskFor(<<Read(1)>>, "elf ident")
  /\ UNCHANGED imageVars

Ident(cell) == As("ident", cell, [magic |-> FALSE, class |-> "none", abi |-> "other"])
IdentFlaw(e) ==
  IF ~e.magic THEN "invalid argument"
  ELSE IF e.class \notin {"elf32", "elf64"} \/ e.abi \notin {"none", "linux"}
  THEN "not implemented" ELSE "none"

CheckIdent ==
  /\ Have("elf ident")
  /\ IF IdentFlaw(Ident(got[1])) = "none"
     THEN AskFor(<<Seek(0), Read(2)>>, "elf header") /\ UNCHANGED imageVars
     ELSE GiveUp(IdentFlaw(Ident(got[1])))

(* checkHeader *)
ElfHeader(cell) ==
  As("header", cell, [type |-> "none", machine |-> "other", version |-> 0, shoff |-> 0,
                      shnum |-> 0, shstrndx |-> 0])
HeaderFlaw(h) ==
  IF h.type \notin {"exec", "dyn"} \/ h.machine \notin {"386", "x86_64"} THEN "not implemented"
  ELSE IF h.version # 1 THEN "data corrupt" ELSE "none"

(* With debug messages on, the section headers are dumped first. *)
SectionHeader(h, i) == <<Seek(h.shoff + i), Read(1)>>

CheckHeader ==
  LET h == ElfHeader(got[2]) IN
  /\ Have("elf header")
  /\ IF HeaderFlaw(h) # "none" THEN GiveUp(HeaderFlaw(h))
     ELSE /\ header' = h
          /\ UNCHANGED <<index, names, strings, sections, materialized, symbols, sources>>
          /\ \/ AskFor(<<Seek(h.shoff + 1)>> \o [i \in 1 .. h.shnum - 1 |-> Read(1)], "elf dump")
             \/ AskFor(SectionHeader(h, h.shstrndx), "elf names header")

(* dumpSectionHeaders, whatever comes of it *)
Dumped ==
  /\ pc = "elf dump" /\ Answered
  /\ AskFor(SectionHeader(header, header.shstrndx), "elf names header")
  /\ UNCHANGED imageVars

(* getSectionHeaderStrTab *)
GetNames ==
  LET s == AsSection(got[1]) IN
  /\ Have("elf names header")
  /\ IF s.type # "strtab" THEN GiveUp("data corrupt")
     ELSE AskFor(<<Seek(s.offset), Read(s.size)>>, "elf names") /\ UNCHANGED imageVars

-----------------------------------------------------------------------------
(* Running through the section headers: the first is sought, the others are
   read one after the other. *)
FirstHeader == <<Seek(header.shoff + 1)>> \o (IF header.shnum > 1 THEN <<Read(1)>> ELSE <<>>)
NextHeader(at) == AskFor(<<Read(1)>>, at) /\ index' = index + 1
AtLast == index >= header.shnum - 1
(* An image may have none behind the first. *)
AtHand == IF got = <<>> THEN NoSection ELSE AsSection(got[1])

HaveNames ==
  /\ Have("elf names")
  /\ names' = got /\ index' = 1
  /\ AskFor(FirstHeader, "elf map")
  /\ UNCHANGED <<header, strings, sections, materialized, symbols, sources>>

(* buildSectionMap: a second section of a name is refused. *)
MapSection ==
  LET s == AtHand
      name == StringAt(names, s.name)
  IN
  /\ Have("elf map")
  /\ IF got # <<>> /\ name \in DOMAIN sections THEN GiveUp("data corrupt")
     ELSE /\ sections' = IF got = <<>> THEN sections
                        ELSE Inserted(sections, name, Section(s.offset, s.size))
          /\ UNCHANGED <<header, names, strings, materialized, symbols, sources>>
          /\ IF AtLast THEN AskFor(FirstHeader, "elf strtab") /\ index' = 1
             ELSE NextHeader("elf map")

(* getStrTab, getSymTab: the first section that fits, whose contents are
   read at once. *)
IsStrTab(s) == s.type = "strtab" /\ StringAt(names, s.name) = ".strtab"
IsSymTab(s) == s.type = "symtab"

Search(at, s, fits, found) ==
  /\ Have(at)
  /\ \/ /\ fits
        /\ AskFor(<<Seek(s.offset), Read(s.size)>>, found)
        /\ UNCHANGED imageVars
     \/ /\ ~fits /\ ~AtLast
        /\ NextHeader(at)
        /\ UNCHANGED <<header, names, strings, sections, materialized, symbols, sources>>
     \/ ~fits /\ AtLast /\ GiveUp("not found")

SearchStrTab == Search("elf strtab", AtHand, IsStrTab(AtHand), "elf strings")

HaveStrings ==
  /\ Have("elf strings")
  /\ strings' = got /\ index' = 1
  /\ AskFor(FirstHeader, "elf symtab")
  /\ UNCHANGED <<header, names, sections, materialized, symbols, sources>>

SearchSymTab == Search("elf symtab", AtHand, IsSymTab(AtHand), "elf symbols")

-----------------------------------------------------------------------------
(* buildSymInfoSet: the functions that are defined in the image, each with
   the source file named last before it, or with the first if there is none
   before it. *)
NoSymbol == [kind |-> "symbol", type |-> "none", shndx |-> 0, value |-> 0, size |-> 0, name |-> 0]
AsSymbol(cell) == As("symbol", cell, NoSymbol)

IsFunction(c) == AsSymbol(c).type = "func" /\ AsSymbol(c).shndx # 0
IsFile(c) == AsSymbol(c).type = "file" /\ AsSymbol(c).shndx # 0

SourceOf(tab, k) ==
  LET before == Cardinality({j \in 1 .. k - 1 : IsFile(tab[j])})
  IN  IF before = 0 THEN 0 ELSE before - 1
FunctionAt(tab, k) ==
  LET c == AsSymbol(tab[k])
  IN  [kind |-> "function", offset |-> c.value, size |-> c.size, name |-> StringAt(strings, c.name),
       source |-> SourceOf(tab, k)]
(* The functions of the table, in any order. *)
Functions(tab) ==
  {[i \in DOMAIN at |-> FunctionAt(tab, at[i])] :
     at \in SetToSeqs({k \in DOMAIN tab : IsFunction(tab[k])})}
Files(tab) ==
  LET fs == SelectSeq(tab, IsFile) IN [i \in DOMAIN fs |-> StringAt(strings, fs[i].name)]

(* std::sort orders symbols of one offset in any way. *)
BuildSymbols ==
  /\ Have("elf symbols")
  /\ sources' = Files(got)
  /\ \E s \in Functions(got) : Sorted(s) /\ symbols' = s
  /\ pc' = "ready" /\ outcome' = "ok"
  /\ UNCHANGED <<fileVars, callVars, header, index, names, strings, sections, materialized>>

ElfPoints == {"elf ident", "elf header", "elf names header", "elf names", "elf map", "elf strtab",
              "elf strings", "elf symtab", "elf symbols"}

ElfStep ==
  \/ VerifyHeader \/ CheckIdent \/ CheckHeader \/ Dumped \/ GetNames \/ HaveNames
  \/ MapSection \/ SearchStrTab \/ HaveStrings \/ SearchSymTab \/ BuildSymbols
  \/ ReadFails(ElfPoints)
=============================================================================
