---------------------------- MODULE MCImageFiles ----------------------------
(* Images with three to five symbols, sound ones and broken ones. *)
EXTENDS ImageFiles

Data(k) == [kind |-> "data", piece |-> k]
Str(t) == [kind |-> "string", text |-> t, symbol |-> NoPESymbol]
Strings(ts) == [k \in DOMAIN ts |-> Str(ts[k])]

(* ELF: the debug sections, the symbols, their names, the names of sections
   and the section headers. *)
GoodIdent == [kind |-> "ident", magic |-> TRUE, class |-> "elf64", abi |-> "none"]
Header(n) == [kind |-> "header", type |-> "dyn", machine |-> "x86_64", version |-> 1,
              shoff |-> 13 + n, shnum |-> 6, shstrndx |-> 5]
SH(name, type, offset, size) ==
  [kind |-> "section", name |-> name, type |-> type, offset |-> offset, size |-> size]
Headers(n) ==
  <<SH(0, "null", 0, 0), SH(1, "progbits", 2, 1), SH(2, "progbits", 3, 2),
    SH(3, "symtab", 5, n), SH(4, "strtab", 5 + n, 3), SH(5, "strtab", 8 + n, 5)>>
Elf(ident, head, syms, headers) ==
  <<ident, head, Data(1), Data(2), Data(3)>> \o syms \o Strings(<<"f", "g", "f.c">>)
    \o Strings(<<".debug_info", ".debug_line", ".symtab", ".strtab", ".shstrtab">>) \o headers

Sym(type, shndx, value, size, name) ==
  [kind |-> "symbol", type |-> type, shndx |-> shndx, value |-> value, size |-> size, name |-> name]
F(value, size, name) == Sym("func", 1, value, size, name)
FileSym == Sym("file", 9, 0, 0, 3)

Tables ==
  {<<FileSym, F(4, 2, 1), F(1, 3, 2)>>,                       (* side by side  *)
   <<F(5, 1, 1), Sym("func", 0, 2, 2, 3), F(1, 2, 2)>>,       (* one undefined *)
   <<F(1, 1, 1), F(4, 0, 3), F(5, 1, 2)>>,                    (* a label between *)
   <<F(1, 4, 1), F(3, 0, 3), F(5, 1, 2)>>,                    (* a label inside *)
   <<F(1, 2, 1), F(1, 2, 2), Sym("object", 1, 3, 1, 3)>>}     (* aliases        *)

GoodElf(syms) == Elf(GoodIdent, Header(3), syms, Headers(3))
OneTable == <<FileSym, F(4, 2, 1), F(1, 3, 2)>>
BadHeader(field, v) ==
  Elf(GoodIdent, [Header(3) EXCEPT ![field] = v], OneTable, Headers(3))
BadSection(i, s) ==
  Elf(GoodIdent, Header(3), OneTable, [Headers(3) EXCEPT ![i] = s])

MCElfFiles ==
  {GoodElf(syms) : syms \in Tables}
  \cup {<<>>, <<GoodIdent>>, SubSeq(GoodElf(OneTable), 1, 6), SubSeq(GoodElf(OneTable), 1, 18)}
  \cup {Elf([GoodIdent EXCEPT !.magic = FALSE], Header(3), OneTable, Headers(3)),
        Elf([GoodIdent EXCEPT !.class = "none"], Header(3), OneTable, Headers(3)),
        BadHeader("type", "core"), BadHeader("version", 0), BadHeader("shstrndx", 1),
        BadHeader("shnum", 1)}
  \cup {BadSection(2, SH(2, "progbits", 2, 1)),   (* two sections of one name *)
        BadSection(3, SH(2, "progbits", 40, 2)),  (* contents past the end    *)
        BadSection(4, SH(3, "progbits", 5, 3)),   (* no symbols               *)
        BadSection(5, SH(4, "progbits", 8, 3))}   (* no strings               *)

(* PE: the section headers, contents, the symbol table and the strings. *)
PESym(class, type, section, value, aux, name) ==
  [kind |-> "symbol",
   symbol |-> [class |-> class, type |-> type, section |-> section, value |-> value, aux |-> aux,
               name |-> name]]
Fn(section, value, aux, name) == PESym("extern", "function", section, value, aux, name)
Aux(length, looks) == [kind |-> "aux", text |-> "f.c", length |-> length, symbol |-> looks]
FileOf == <<PESym("file", "null", 0, 0, 1, ".file"), Aux(0, NoPESymbol)>>
SizeOfF(value, n) == <<PESym("static", "null", 1, value, 1, ".text"), Aux(n, NoPESymbol)>>

PEHead(n) == [kind |-> "header", machine |-> "amd64", executable |-> TRUE, system |-> FALSE,
              symtab |-> 11, optional |-> 2, symbols |-> n, sections |-> 3]
PESect(ref, text, offset, size, virtual) ==
  [kind |-> "section", name |-> [ref |-> ref, text |-> text], offset |-> offset, size |-> size,
   virtual |-> virtual]
PESects == <<PESect(0, ".text", 9, 5, 1), PESect(1, "", 9, 1, 8), PESect(0, ".data", 10, 1, 9)>>
PEFile(head, sects, syms, behind) ==
  <<[kind |-> "dos"], [kind |-> "lfanew", offset |-> 2], [kind |-> "signature"], head,
    [kind |-> "magic", value |-> "pe32+"], Data(0)>> \o sects \o <<Data(1), Data(2)>>
    \o syms \o <<[kind |-> "size", size |-> 3], Str(".debug_info")>> \o behind

GoodPE(syms, behind) == PEFile(PEHead(Len(syms)), PESects, syms, behind)
Pair == <<Fn(1, 3, 0, "g"), Fn(1, 0, 0, "f")>>
More == <<Str("x"), Str("y")>>

PETables ==
  {Pair,
   FileOf \o Pair,                                        (* one record read     *)
   SizeOfF(1, 2) \o <<Fn(1, 1, 2, "f"), Aux(0, NoPESymbol), Aux(0, NoPESymbol), Fn(1, 3, 0, "g")>>,
   <<Fn(3, 0, 0, "h")>> \o FileOf \o <<Fn(1, 2, 0, "g")>>}   (* in the last section *)

PETable == FileOf \o Pair
MCPEFiles ==
  {GoodPE(syms, More) : syms \in PETables}
  \cup {GoodPE(PETable, <<[Str("x") EXCEPT !.symbol = Fn(1, 1, 0, "x").symbol]>>), (* looks like a function *)
        GoodPE(FileOf \o PETable, <<>>),                  (* the table runs out of the file *)
        GoodPE(<<Fn(3, 0, 1, "h"), Aux(0, Fn(1, 1, 0, "x").symbol)>> \o Pair, More),
        GoodPE(<<Fn(1, 0, 4, "f")>>, More \o More \o More), (* a count below zero *)
        SubSeq(GoodPE(PETable, More), 1, 8),
        PEFile([PEHead(4) EXCEPT !.symtab = 0], PESects, PETable, More),
        PEFile([PEHead(4) EXCEPT !.executable = FALSE], PESects, PETable, More),
        PEFile(PEHead(4), [PESects EXCEPT ![3] = PESects[1]], PETable, More),
        PEFile(PEHead(4), [PESects EXCEPT ![2] = PESect(7, "", 9, 1, 8)], PETable, More),
        [PEFile(PEHead(4), PESects, PETable, More) EXCEPT ![3] = Data(3)],
        [PEFile(PEHead(4), PESects, PETable, More) EXCEPT ![5] = Data(4)]}

MCDebugNames == {".debug_info", ".debug_line"}
MCAddresses == 0 .. 9
=============================================================================
