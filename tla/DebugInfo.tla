----------------------------- MODULE DebugInfo -----------------------------
(***************************************************************************)
(* DwarfUtil: the debug information of a module is opened, which collects  *)
(* the address ranges of its compilation units, and addresses are searched *)
(* in it: the unit, its attributes, its line program (dwarf_util.cpp).     *)
(*                                                                         *)
(* A section is a sequence of records, or a function from offsets to them. *)
(* An attribute value is a cell with the width it was written with: its    *)
(* bytes, or "leb" or "text".  A reader that takes it for another width    *)
(* loses its way ("lost", "astray"), and is not followed any further.      *)
(***************************************************************************)
EXTENDS LineProgram

CONSTANTS
  Infos,    (* debug information of modules                                *)
  Addresses (* that are searched                                           *)

VARIABLES
  dwarf,   (* m_dwarfData                                                  *)
  pc,      (* what the reader does next                                    *)
  outcome, (* of the last call: "ok", or why not                           *)
  at,      (* offset of the next record in .debug_aranges                  *)
  limit,   (* setLimit                                                     *)
  ranges,  (* m_rangeCUSet                                                 *)
  valid,   (* m_dwarfUtilValid, which no search asks for                   *)
  target,  (* the address searched                                         *)
  unit,    (* m_debugInfoOffset of the range found                         *)
  attrs,   (* attributes of the unit still to read                         *)
  cells,   (* what is left of it in .debug_info                            *)
  stmt,    (* m_lineProgOffset                                             *)
  answer   (* what was found last                                          *)

unitVars == <<target, unit, attrs, cells, stmt>>
dwarfVars == <<dwarf, pc, outcome, at, limit, ranges, valid, unitVars, answer, lineVars>>

None == [file |-> "none"]

DwarfInit ==
  /\ dwarf \in Infos
  /\ pc = "new" /\ outcome = "none" /\ at = 1 /\ limit = 0 /\ ranges = {}
  /\ valid = FALSE
  /\ target = 0 /\ unit = 0 /\ attrs = <<>> /\ cells = <<>> /\ stmt = 0
  /\ answer = None /\ LineInit

Stop(why) == pc' = "failed" /\ outcome' = why
AddressWidth(size) == IF size = 8 THEN "8" ELSE IF size = 4 THEN "4" ELSE "unsupported"

-----------------------------------------------------------------------------
(* open, which is buildRangeCuMap.  A length of 64 bits is not recognized;
   what is then read as the version is half of it. *)
Aranges == dwarf.aranges

Open ==
  /\ pc = "new" /\ pc' = "sets"
  /\ UNCHANGED <<dwarf, outcome, at, limit, ranges, valid, unitVars, answer, lineVars>>

SetFlaw(s) ==
  s.wide \/ s.version # 2 \/ s.segment # 0 \/ AddressWidth(s.addressSize) = "unsupported"

ReadSet ==
  LET s == Aranges[at] IN
  /\ pc = "sets" /\ at <= Len(Aranges) /\ s.kind = "set"
  /\ at' = at + 1
  /\ IF SetFlaw(s) THEN Stop("not implemented") /\ UNCHANGED limit
     ELSE pc' = "ranges" /\ limit' = at + s.count /\ UNCHANGED outcome
  /\ unit' = s.offset
  /\ UNCHANGED <<dwarf, ranges, valid, target, attrs, cells, stmt, answer, lineVars>>

(* A second range that begins where another does is not taken. *)
Added(r) == IF \E q \in ranges : q.from = r.from THEN ranges ELSE ranges \cup {r}

ReadRange ==
  LET r == Aranges[at]
      end == r.from = 0 /\ r.size = 0
  IN
  /\ pc = "ranges" /\ at <= Len(Aranges) /\ r.kind = "range"
  /\ at' = at + 1
  /\ \/ (at > limit \/ (end /\ at # limit)) /\ Stop("data corrupt") /\ UNCHANGED ranges
     \/ at = limit /\ end /\ pc' = "sets" /\ UNCHANGED <<outcome, ranges>>
     \/ /\ at <= limit /\ ~end
        /\ ranges' = IF r.from = 0 THEN ranges
                     ELSE Added([from |-> r.from, size |-> r.size, unit |-> unit])
        /\ UNCHANGED <<pc, outcome>>
  /\ UNCHANGED <<dwarf, limit, valid, unitVars, answer, lineVars>>

EndOfRanges ==
  /\ at > Len(Aranges)
  /\ \/ pc = "sets" /\ pc' = "ready" /\ outcome' = "ok" /\ valid' = TRUE
     \/ pc = "ranges" /\ Stop("end of stream") /\ UNCHANGED valid
  /\ UNCHANGED <<dwarf, at, limit, ranges, unitVars, answer, lineVars>>

(* A range is read where a set begins, or the other way round. *)
AstrayInRanges ==
  /\ at <= Len(Aranges)
  /\ \/ pc = "sets" /\ Aranges[at].kind = "range"
     \/ pc = "ranges" /\ Aranges[at].kind = "set"
  /\ pc' = "astray"
  /\ UNCHANGED <<dwarf, outcome, at, limit, ranges, valid, unitVars, answer, lineVars>>

-----------------------------------------------------------------------------
(* searchSymbol, in the ranges that there are, also after an open that failed
   half way.  A lower bound in the tree of ranges is a range that does not end
   before the address, the one before it does. *)
(* A fault: a range is taken to include its end. *)
EndsBelow(r, a) == r.from + r.size < a
EndsBefore(r, a) == r.from + r.size <= a
Spans(r, a) == r.from <= a /\ a < r.from + r.size

Previous(r) ==
  {q \in ranges : q.from < r.from /\ ~\E p \in ranges : q.from < p.from /\ p.from < r.from}
LowerBounds(a) ==
  {r \in ranges : ~EndsBefore(r, a) /\ \A q \in Previous(r) : EndsBefore(q, a)}
Found(a) == {r \in LowerBounds(a) : Spans(r, a)}

Search(a) ==
  /\ pc \in {"ready", "failed"}
  /\ target' = a /\ answer' = None
  /\ \/ \E r \in Found(a) :
          unit' = r.unit /\ pc' = "unit" /\ outcome' = "none"
     \/ Found(a) = {} /\ outcome' = "not found" /\ UNCHANGED <<pc, unit>>
  /\ UNCHANGED <<dwarf, at, limit, ranges, valid, attrs, cells, stmt, lineVars>>

(* A search that fails, at whatever point. *)
Return(why) ==
  /\ pc' = "ready" /\ outcome' = why
  /\ attrs' = <<>> /\ cells' = <<>> /\ stmt' = 0
  /\ header' = NoLines /\ next' = 0 /\ machine' = Start /\ matrix' = <<>>
  /\ UNCHANGED <<dwarf, at, limit, ranges, valid, target, unit>>
Fail(why) == Return(why) /\ UNCHANGED answer
Lose ==
  /\ pc' = "lost"
  /\ UNCHANGED <<dwarf, outcome, at, limit, ranges, valid, unitVars, answer, lineVars>>

(* readCUHeader, readAbbrevDecl: declarations come in the order of their
   codes, and the list ends with 0. *)
Declared(ds, u) ==
  LET ends == {k \in DOMAIN ds : ds[k].code = 0 \/ ds[k].code >= u.code}
  IN  IF ends = {} THEN [code |-> -1] ELSE ds[CHOOSE k \in ends : \A j \in ends : k <= j]
Declaration(u) == Declared(dwarf.abbrev[u.abbrev], u)

UnitFlaw(u) ==
  LET d == Declaration(u) IN
  IF u.wide \/ u.version \notin {3, 5} THEN "not implemented"
  ELSE IF u.version = 5 /\ u.type # "compile" THEN "data corrupt"
  ELSE IF d.code = -1 THEN "end of stream"
  ELSE IF d.code # u.code THEN "not found"
  ELSE IF d.tag # "compile_unit" THEN "not implemented" ELSE "none"

ReadUnit ==
  LET u == dwarf.info[unit] IN
  /\ pc = "unit"
  /\ IF UnitFlaw(u) # "none" THEN Fail(UnitFlaw(u))
     ELSE /\ attrs' = Declaration(u).attrs /\ cells' = u.cells
          /\ pc' = "attributes"
          /\ UNCHANGED <<dwarf, outcome, at, limit, ranges, valid, target, unit, stmt, answer,
                         lineVars>>

-----------------------------------------------------------------------------
(* readCUData: the width that is read for an attribute; "none" if nothing is. *)
OffsetForms == {"strp", "line_strp", "sec_offset"}
DataWidth(form) ==
  CASE form = "data1" -> "1" [] form = "data2" -> "2" [] form = "data4" -> "4"
    [] form = "data8" -> "8" [] form = "udata" -> "leb" [] OTHER -> "unsupported"

(* A fault: a constant is not read. *)
HighUnread(form, size) == IF size = 8 /\ form = "addr" THEN "8" ELSE "none"
(* Nothing is read unless addresses have eight bytes. *)
HighWidth(form, size) ==
  IF size # 8 \/ form = "implicit_const" THEN "none"
  ELSE IF form = "addr" THEN "8" ELSE DataWidth(form)

WidthOf(name, form, size) ==
  CASE name = "name" -> IF form = "string" THEN "text"
                        ELSE IF form \in {"strp", "line_strp"} THEN "4" ELSE "unsupported"
    [] name \in {"stmt_list", "addr_base"} -> "4"
    [] name = "low_pc" -> AddressWidth(size)
    [] name = "high_pc" -> HighWidth(form, size)
    [] name = "ranges" -> IF form = "rnglistx" THEN "leb"
                          ELSE IF form = "sec_offset" THEN "4" ELSE "unsupported"
    [] OTHER -> IF form = "string" THEN "text"
                ELSE IF form \in OffsetForms THEN "4"
                ELSE IF form = "addr" THEN AddressWidth(size)
                ELSE IF form = "udata" THEN "unsupported" ELSE DataWidth(form)

(* readRangeListBounds: the bounds are not used for anything, but a list that
   cannot be read ends the search. *)
Pairs == {"start_end", "start_length"}
ListFlaw(list) ==
  LET ends == {k \in DOMAIN list : \/ list[k].kind \notin Pairs \cup {"base_address"}
                                   \/ list[k].kind \in Pairs /\ list[k].from = 0 /\ list[k].to = 0}
      last == list[CHOOSE k \in ends : \A j \in ends : k <= j]
  IN  IF ends = {} THEN "end of stream"
      ELSE IF last.kind \in Pairs \cup {"end_of_list"} THEN "none" ELSE "not implemented"

(* readAddr needs a section that need not be there. *)
ValueFlaw(name, v) ==
  IF name = "ranges" THEN (IF v \in DOMAIN dwarf.rnglists THEN ListFlaw(dwarf.rnglists[v])
                           ELSE "end of stream")
  ELSE IF name = "addr_base" /\ ~dwarf.addr THEN "not implemented" ELSE "none"

ReadAttribute ==
  LET attr == Head(attrs)
      width == WidthOf(attr.name, attr.form, dwarf.info[unit].addressSize)
  IN
  /\ pc = "attributes" /\ attrs # <<>>
  /\ \/ width = "unsupported" /\ Fail("not implemented")
     \/ /\ width = "none"
        /\ attrs' = Tail(attrs)
        /\ UNCHANGED <<dwarf, pc, outcome, at, limit, ranges, valid, target, unit, cells, stmt,
                       answer, lineVars>>
     \/ /\ width \notin {"none", "unsupported"}
        /\ \/ /\ cells = <<>> \/ Head(cells).width # width
              /\ Lose
           \/ /\ cells # <<>> /\ Head(cells).width = width
              /\ ValueFlaw(attr.name, Head(cells).value) # "none"
              /\ Fail(ValueFlaw(attr.name, Head(cells).value))
           \/ /\ cells # <<>> /\ Head(cells).width = width
              /\ ValueFlaw(attr.name, Head(cells).value) = "none"
              /\ attrs' = Tail(attrs) /\ cells' = Tail(cells)
              /\ stmt' = IF attr.name = "stmt_list" THEN Head(cells).value ELSE stmt
              /\ UNCHANGED <<dwarf, pc, outcome, at, limit, ranges, valid, target, unit, answer,
                             lineVars>>

-----------------------------------------------------------------------------
(* searchLineProg, getLineInfo *)
OpenLines ==
  /\ pc = "attributes" /\ attrs = <<>>
  /\ IF stmt \notin DOMAIN dwarf.lines THEN Lose
     ELSE IF LinesFlaw(dwarf.lines[stmt]) # "none" THEN Fail(LinesFlaw(dwarf.lines[stmt]))
     ELSE /\ ReadLines(dwarf.lines[stmt]) /\ pc' = "program"
          /\ UNCHANGED <<dwarf, outcome, at, limit, ranges, valid, unitVars, answer>>

Execute ==
  /\ pc = "program"
  /\ \/ /\ ExecuteOne
        /\ UNCHANGED <<dwarf, pc, outcome, at, limit, ranges, valid, unitVars, answer>>
     \/ /\ ~AtEnd /\ Stops(header.program[next])
        /\ Fail(StopsWith(header.program[next]))
     \/ /\ AtEnd
        /\ matrix' = InOrder(matrix) /\ pc' = "matrix"
        /\ UNCHANGED <<dwarf, outcome, at, limit, ranges, valid, unitVars, answer, header, next,
                       machine>>

SearchLines ==
  LET k == RowAt(target) IN
  /\ pc = "matrix"
  /\ IF k = 0 THEN Fail("not found")
     ELSE IF ~KnownFile(k) \/ ~KnownFile(Preferred(k)) THEN Lose
     ELSE Return("ok") /\ answer' = Answer(Preferred(k))

DwarfNext ==
  \/ Open \/ ReadSet \/ ReadRange \/ EndOfRanges \/ AstrayInRanges
  \/ \E a \in Addresses : Search(a)
  \/ ReadUnit \/ ReadAttribute \/ OpenLines \/ Execute \/ SearchLines

DwarfSpec == DwarfInit /\ [][DwarfNext]_dwarfVars

-----------------------------------------------------------------------------
(* What producers write: addresses and sizes are numbers, sets and units refer
   to units and line programs that are there, the first of which is at the start
   of its section, and values take the width of their form.  Nothing is assumed
   of units whose addresses do not take eight bytes. *)
HasCell(attr) == attr.form # "implicit_const"
CellOf(as, k) == 1 + Cardinality({j \in 1 .. k - 1 : HasCell(as[j])})

FormWidth(form) ==
  CASE form = "string" -> "text" [] form \in OffsetForms -> "4" [] form = "addr" -> "8"
    [] form \in {"rnglistx", "addrx"} -> "leb" [] form = "strx1" -> "1" [] OTHER -> DataWidth(form)
Encoded(attr, cell) ==
  /\ cell.width = FormWidth(attr.form)
  /\ attr.name = "low_pc" => attr.form \in {"addr", "addrx"}
  /\ attr.name \in {"stmt_list", "addr_base"} => attr.form \in {"sec_offset", "data4"}

UnitSound(u, as, lines) ==
  /\ as \in Seq({as[k] : k \in DOMAIN as}) /\ u.cells \in Seq({u.cells[k] : k \in DOMAIN u.cells})
  /\ \A k \in DOMAIN as :
       IF HasCell(as[k])
       THEN CellOf(as, k) \in DOMAIN u.cells /\ Encoded(as[k], u.cells[CellOf(as, k)])
       ELSE as[k].name \notin {"stmt_list", "addr_base", "low_pc"}
  /\ \A k \in DOMAIN as :
       as[k].name = "stmt_list" =>
         /\ u.cells[CellOf(as, k)].value \in DOMAIN lines
         /\ \A j \in DOMAIN as : as[j].name = "stmt_list" => j = k

ArangesSound(rs, info) ==
  /\ rs \in Seq({rs[i] : i \in DOMAIN rs})
  /\ \A i \in DOMAIN rs :
       /\ rs[i].kind = "range" => rs[i].from \in Nat /\ rs[i].size \in Nat
       /\ rs[i].kind = "set" => rs[i].offset \in DOMAIN info /\ rs[i].count \in Nat

NumberOps == {"advance_pc", "fixed_advance_pc", "set_address", "set_file", "set_column", "set_isa",
              "set_discriminator"}
InstructionSound(i) ==
  /\ i.op \in NumberOps \cup Silent \cup {"advance_line", "const_add_pc", "special", "copy",
                            "end_sequence", "unknown"}
  /\ i.op \in NumberOps => i.n \in Nat
  /\ i.op = "special" => i.code \in Nat
  /\ i.op = "advance_line" =>
       /\ Len(i.groups) \in Nat
       /\ Unsigned(i.groups) \in 0 .. 2 ^ (GroupBits * Len(i.groups)) - 1
LinesSound(h) ==
  /\ {"dirs", "files", "program", "minInst", "maxOps", "lineBase", "lineRange", "opBase"}
       \subseteq DOMAIN h
  /\ h.lineBase \in Int /\ h.lineRange \in Nat \ {0} /\ h.opBase \in Nat
  /\ h.program \in Seq({h.program[k] : k \in DOMAIN h.program})
  /\ \A k \in DOMAIN h.program : InstructionSound(h.program[k])

ASSUME InfosAssumption ==
  /\ Addresses \subseteq Nat
  /\ \A d \in Infos :
       /\ ArangesSound(d.aranges, d.info)
       /\ 0 \in DOMAIN d.lines
       /\ \A k \in DOMAIN d.lines : LinesSound(d.lines[k])
       /\ \A k \in DOMAIN d.info :
            LET u == d.info[k]
                declared == Declared(d.abbrev[u.abbrev], u)
            IN  u.addressSize = 8 /\ declared.code = u.code => UnitSound(u, declared.attrs, d.lines)

-----------------------------------------------------------------------------
(* Each address is found in the unit that has it in a range, and in none when
   no unit has, whatever the order of the ranges and of the sets, with ranges
   of no size among them, as long as ranges neither overlap nor begin
   together.  After an open that failed this is so for the ranges that had been
   read by then, none of which is lost or given to another unit. *)
RangeRecords == {i \in DOMAIN Aranges : Aranges[i].kind = "range" /\ Aranges[i].from # 0}
UnitOf(i) ==
  Aranges[CHOOSE k \in 1 .. i : /\ Aranges[k].kind = "set"
                              /\ \A j \in k + 1 .. i : Aranges[j].kind = "range"].offset
RangesApart ==
  \A i, j \in RangeRecords :
    LET q == Aranges[i]
        r == Aranges[j]
    IN  i # j => /\ q.from # r.from
                 /\ q.from + q.size <= r.from \/ r.from + r.size <= q.from

Taken == {i \in RangeRecords : i < at /\ i <= limit}
Searched == IF valid THEN RangeRecords ELSE Taken

UnitRight ==
  pc \in {"ready", "failed"} /\ RangesApart =>
    \A a \in Addresses :
      {r.unit : r \in Found(a)} = {UnitOf(i) : i \in {j \in Searched : Spans(Aranges[j], a)}}

(* The line program that is run is the one which the unit names, whatever its
   attributes are and in whatever order, if addresses take eight bytes and are
   written as addresses: else the end of the unit's range is left unread, and
   the next attribute gets its value, or an index is taken for an address. *)
ProgramNamed(as, cs) ==
  LET ks == {k \in DOMAIN as : as[k].name = "stmt_list"}
  IN  IF ks = {} THEN 0 ELSE cs[CellOf(as, CHOOSE k \in ks : TRUE)].value
NamedProgram(u) == ProgramNamed(Declaration(u).attrs, u.cells)

ByIndex(u) ==
  \E k \in DOMAIN Declaration(u).attrs :
    Declaration(u).attrs[k].name = "low_pc" /\ Declaration(u).attrs[k].form = "addrx"

ProgramOfUnit ==
  LET u == dwarf.info[unit] IN
  pc \in {"program", "matrix", "lost"} /\ u.addressSize = 8 /\ ~ByIndex(u) =>
    header # NoLines /\ stmt = NamedProgram(u)

(* The line that is found for an address is that of a row at the greatest
   address that is not above it, with the advances of lines and addresses,
   negative ones and those in more bytes than they need among them, added up
   over sequences that come in any order; in units whose rows are all of the
   main file: for a row of a header file the line of the next address may be
   returned. *)
LineRight ==
  pc = "matrix" /\ Ordinary /\ OneFile =>
    \A a \in Addresses :
      LET k == RowAt(a) IN
      Claimed(a) => /\ k # 0
                    /\ Answer(Preferred(k)).line \in {LineAt(j) : j \in Applying(a)}
                    /\ Answer(Preferred(k)).file = header.files[1].name
                    /\ Answer(Preferred(k)).dir = header.dirs[header.files[1].dir + 1]
=============================================================================
