----------------------------- MODULE ImageFiles -----------------------------
(***************************************************************************)
(* An image file is opened, some of its sections are read, its symbols are *)
(* searched and it is closed: the readers of both formats on top of the    *)
(* buffered file reader.  A build has the one or the other; one thread at  *)
(* a time uses a reader.                                                   *)
(***************************************************************************)
EXTENDS ElfImage, PEImage

CONSTANTS
  ElfFiles, (* files that an ELF reader is given                           *)
  PEFiles,  (* files that a PE reader is given                             *)
  DebugNames, (* section names with the prefix that getSections is asked for *)
  Addresses, (* offsets into an image to search symbols for               *)
  MaxCalls  (* bound: calls of getSection and getSections                  *)

ASSUME CallsAssumption == MaxCalls \in Nat
ASSUME AddressesAssumption == Addresses \subseteq Nat

(* The numbers in a file are unsigned, whatever the file, but for the section
   of a PE symbol. *)
ElfNumbers(c) ==
  /\ c.kind = "header" => c.shoff \in Nat /\ c.shnum \in Nat /\ c.shstrndx \in Nat
  /\ c.kind = "section" => c.offset \in Nat /\ c.size \in Nat
  /\ c.kind = "symbol" => c.value \in Nat /\ c.size \in Nat
PENumbers(c) ==
  /\ c.kind = "header" => c.symtab \in Nat /\ c.symbols \in Nat /\ c.sections \in Nat
  /\ c.kind = "section" => c.offset \in Nat /\ c.size \in Nat /\ c.virtual \in Nat
  /\ c.kind = "lfanew" => c.offset \in Nat
  /\ c.kind = "size" => c.size \in Nat
  /\ c.kind \in {"symbol", "aux", "string"} =>
       c.symbol.aux \in Nat /\ c.symbol.section \in Int /\ c.symbol.value \in Nat
  /\ c.kind = "aux" => c.length \in Nat

ASSUME FilesAssumption ==
  /\ \A f \in ElfFiles : f \in Seq(Range(f)) /\ \A i \in DOMAIN f : ElfNumbers(f[i])
  /\ \A f \in PEFiles : f \in Seq(Range(f)) /\ \A i \in DOMAIN f : PENumbers(f[i])

VARIABLES
  format, (* "elf" or "pe": the platform                                   *)
  calls   (* history: calls of getSection and getSections                  *)

vars == <<fileVars, pc, outcome, imageVars, callVars, peVars, format, calls>>

Init ==
  /\ format \in {"elf", "pe"}
  /\ file \in IF format = "elf" THEN ElfFiles ELSE PEFiles
  /\ FileInit /\ ImageInit /\ PEInit /\ calls = 0

Aside == UNCHANGED <<peVars, format, calls>>

ReadFile ==
  /\ FileStep
  /\ Aside /\ UNCHANGED <<pc, outcome, imageVars, callVars>>

ReadElf == format = "elf" /\ ElfStep /\ Aside
ReadPE == format = "pe" /\ PEStep /\ UNCHANGED <<format, calls>>

Call(selected, copy) ==
  /\ calls < MaxCalls /\ calls' = calls + 1
  /\ CallSections(selected, copy)
  /\ UNCHANGED <<peVars, format>>
GetSections == Call(DebugNames \cap DOMAIN sections, FALSE)
GetSection == \E n \in DOMAIN sections : Call({n}, TRUE)

ReadSections ==
  \/ (\E n \in wanted : HandOver(n) \/ Materialize(n)) /\ Aside
  \/ (Filled \/ SectionsEnd) /\ Aside

Open == OpenImage /\ Aside
Close == CloseImage /\ Aside

Next ==
  \/ Open \/ ReadFile \/ ReadElf \/ ReadPE
  \/ GetSections \/ GetSection \/ ReadSections \/ Close

Spec == Init /\ [][Next]_vars

-----------------------------------------------------------------------------
(* What the file says itself: the functions it defines, each with where it
   begins and its size, 0 when there is none. *)
Plain(c) == c.kind = "symbol" \/ PESymbol(c) = NoPESymbol
SizeRecord(c) ==
  LET before == {k \in 2 .. Len(file) :
                   /\ file[k].kind = "aux" /\ HasLength(PESymbol(file[k - 1]))
                   /\ PESymbol(file[k - 1]).section = c.section
                   /\ PESymbol(file[k - 1]).value = c.value}
  IN  IF before = {} THEN 0 ELSE file[CHOOSE k \in before : TRUE].length

ElfDefined == {[begin |-> c.value, size |-> c.size, name |-> StringAt(strings, c.name)] :
                 c \in {d \in Range(file) : d.kind = "symbol" /\ d.type = "func" /\ d.shndx # 0}}
PEDefined == {[begin |-> origin[c.section].virtual + c.value, size |-> SizeRecord(c),
               name |-> c.name] :
                c \in {d.symbol : d \in {e \in Range(file) : e.kind = "symbol"
                                          /\ TakenForFunction(e.symbol) /\ InSections(e.symbol)}}}
Defined == IF format = "elf" THEN ElfDefined ELSE PEDefined

(* os_image_reader.h: "all intervals are not overlapping".  It has nothing to
   say of images in which they do, or in which two functions begin together;
   nor of tables that end early or have records that look like others. *)
Apart ==
  \A f, g \in Defined :
    f # g => /\ f.begin # g.begin
             /\ f.begin + f.size <= g.begin \/ g.begin + g.size <= f.begin
TableRead == format = "pe" => finished /\ \A k \in DOMAIN file : Plain(file[k])

Inhabits(f, a) ==
  /\ f.begin <= a
  /\ IF f.size > 0 \/ format = "elf" THEN a < f.begin + f.size
     ELSE /\ ~\E g \in Defined : f.begin < g.begin /\ g.begin <= a
          /\ \/ \E g \in Defined : g.begin > a
             \/ \E i \in DOMAIN origin : /\ origin[i].virtual <= f.begin
                                         /\ f.begin < origin[i].virtual + origin[i].size
                                         /\ a < origin[i].virtual + origin[i].size

(* searchSymbol finds for each address the function that contains it, and
   none when no function does, in every image whose functions do not overlap,
   whatever else its table has in it and in whatever order; after the table
   has gone through the buffer in pieces of any size, with the auxiliary
   records of PE that take part in the count of symbols and those that do not. *)
SymbolsRight ==
  pc = "ready" /\ Apart /\ TableRead =>
    \A a \in Addresses :
      LET f == SearchSymbol(a) IN
      IF f = NotFound THEN \A g \in Defined : ~Inhabits(g, a)
      ELSE \E g \in Defined : g.name = f.name /\ Inhabits(g, a)
=============================================================================
