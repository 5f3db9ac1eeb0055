---------------------------- MODULE MCDebugInfo ----------------------------
(* Modules of two compilation units: sound ones, and others with one part
   that is unusual or broken. *)
EXTENDS DebugInfo

Set(offset, count) ==
  [kind |-> "set", wide |-> FALSE, version |-> 2, offset |-> offset, addressSize |-> 8,
   segment |-> 0, count |-> count]
R(from, size) == [kind |-> "range", from |-> from, size |-> size]
End == R(0, 0)

A(name, form) == [name |-> name, form |-> form]
Unit(code, cs) ==
  [wide |-> FALSE, version |-> 5, type |-> "compile", addressSize |-> 8, abbrev |-> 0, code |-> code,
   cells |-> cs]
C(width, value) == [width |-> width, value |-> value]

ByPc == <<A("producer", "strp"), A("name", "line_strp"), A("low_pc", "addr"), A("high_pc", "data8"),
          A("stmt_list", "sec_offset")>>
ByPcCells(l) == <<C("4", 0), C("4", 0), C("8", 3), C("8", 4), C("4", l)>>
ByRanges == <<A("name", "string"), A("ranges", "sec_offset"), A("low_pc", "addr"),
              A("high_pc", "implicit_const"), A("stmt_list", "sec_offset")>>
ByRangesCells(l, k) == <<C("text", 0), C("4", k), C("8", 0), C("4", l)>>
Narrow == <<A("low_pc", "addr"), A("high_pc", "data4"), A("stmt_list", "sec_offset")>>
NarrowCells == <<C("4", 1), C("4", 5), C("4", 1)>>

D(code, tag, as) == [code |-> code, tag |-> tag, attrs |-> as]
Abbrevs == <<D(1, "compile_unit", ByPc), D(2, "compile_unit", ByRanges), D(3, "partial_unit", ByPc),
             D(5, "compile_unit", Narrow), D(6, "compile_unit", <<A("name", "strx1")>>),
             D(7, "compile_unit", <<A("name", "string"), A("addr_base", "sec_offset")>>), 
             D(8, "compile_unit", <<A("low_pc", "addrx"), A("stmt_list", "sec_offset")>>),
             D(0, "", <<>>)>>
RL(kind, from, to) == [kind |-> kind, from |-> from, to |-> to]
Lists == [k \in 0 .. 2 |->
  CASE k = 0 -> <<RL("base_address", 0, 0), RL("start_end", 4, 6), RL("end_of_list", 0, 0)>>
    [] k = 1 -> <<RL("start_end", 4, 6)>>
    [] k = 2 -> <<RL("offset_pair", 4, 6), RL("end_of_list", 0, 0)>>]

W(type, form, value) == [type |-> type, form |-> form, value |-> value]
V(type, value) == W(type, IF type = "path" THEN "line_strp" ELSE "udata", value)
FileEntry(name, dir) == <<V("path", name), V("directory_index", dir)>>
Lines(files, program) ==
  [wide |-> FALSE, version |-> 5, minInst |-> 1, maxOps |-> 1, lineBase |-> -1, lineRange |-> 3,
   opBase |-> 250, start |-> "ahead", dirs |-> <<<<V("path", "/src")>>, <<V("path", "/inc")>>>>,
   files |-> files, program |-> program]
TwoFiles == <<FileEntry("a.c", 0), FileEntry("a.c", 0), FileEntry("s.h", 1)>>
I(op) == [op |-> op]
N(op, n) == [op |-> op, n |-> n]
Go(groups) == [op |-> "advance_line", groups |-> groups]
Sp(code) == [op |-> "special", code |-> code]

(* One sequence; two, the later below the first; rows of a header file; a
   number with more bytes than it needs; programs that stop. *)
Programs ==
  <<<<N("set_address", 3), Sp(252), Go(<<3, 1>>), I("copy"), Sp(254), N("set_column", 2), I("flag"),
      N("set_isa", 62), N("set_discriminator", 1),
      I("const_add_pc"), Go(<<3>>), Sp(250), N("fixed_advance_pc", 1), Go(<<2, 3>>), I("copy"),
      N("advance_pc", 1), I("end_sequence")>>,
    <<N("set_address", 6), Go(<<1>>), I("copy"), N("advance_pc", 2), I("end_sequence"),
      N("set_address", 3), Sp(252), Sp(255), N("advance_pc", 1), I("end_sequence")>>,
    <<N("set_address", 3), I("copy"), N("set_file", 2), Go(<<2, 2, 0>>), I("copy"),
      N("set_file", 1), Go(<<1>>), I("copy"), Sp(254), N("set_file", 5), N("advance_pc", 2), I("end_sequence")>>,
    <<N("set_address", 3), Go(<<0, 1>>), I("copy"), N("advance_pc", 1), Go(<<3, 3, 3, 3>>), I("copy"),
      N("advance_pc", 2), I("end_sequence")>>,
    <<N("set_address", 3), Go(<<3>>), I("copy")>>,
    <<N("set_address", 3), Go(<<2, 3, 1>>), I("copy"), Go(<<3, 3, 1>>)>>,
    <<N("set_address", 3), Go(<<2, 3, 1>>), Go(<<0, 0, 2>>), I("copy")>>,
    <<N("set_address", 3), I("copy"), N("set_file", 63)>>,
    <<N("set_address", 3), I("copy"), N("set_isa", 64)>>,
    <<N("set_address", 3), I("unknown")>>, <<>>>>

Good == Lines(TwoFiles, Programs[1])
LineSections ==
  {[k \in 0 .. 1 |-> IF k = 0 THEN Good ELSE Lines(TwoFiles, Programs[p])] : p \in DOMAIN Programs}
  \cup {[k \in 0 .. 1 |-> h] :
          h \in {[Good EXCEPT !.wide = TRUE], [Good EXCEPT !.start = "passed"],
                 [Good EXCEPT !.dirs = <<<<V("size", 0)>>>>],
                 [Good EXCEPT !.dirs = <<<<W("path", "strx", "/src")>>>>],
                 [Good EXCEPT !.files = <<>>],
                 [Good EXCEPT !.files = <<<<V("directory_index", 1), V("path", "a.c")>>>>],
                 [Good EXCEPT !.files = <<<<V("path", "a.c"), V("directory_index", 63)>>>>],
                 [Good EXCEPT !.files = <<<<V("path", "a.c"), W("timestamp", "block", 0)>>>>],
                 [Good EXCEPT !.files = <<<<V("path", "a.c"), V("source", 0)>>>>]}}

TwoSets == <<Set(0, 4), R(3, 4), R(0, 2), R(8, 1), End, Set(1, 2), R(7, 1), End>>
Sets ==
  {TwoSets,
   <<Set(0, 3), R(5, 2), R(3, 1), End, Set(1, 3), R(4, 0), R(4, 1), End>>,
   <<Set(0, 2), R(3, 5), End, Set(1, 2), R(5, 1), End>>,
   <<Set(0, 3), R(3, 5), End>>, <<Set(0, 1), R(3, 5), End>>, <<Set(0, 2), R(3, 5)>>,
   <<Set(0, 1), End, R(3, 1), End>>, <<Set(0, 3), R(3, 5), Set(1, 1), End>>,
   <<[Set(0, 2) EXCEPT !.wide = TRUE], R(3, 5), End>>}

Info(sets, u0, u1, lines) ==
  [aranges |-> sets, info |-> [k \in 0 .. 1 |-> IF k = 0 THEN u0 ELSE u1],
   abbrev |-> [k \in 0 .. 0 |-> Abbrevs], rnglists |-> Lists, addr |-> FALSE, lines |-> lines]

First == Unit(1, ByPcCells(1))
Second == Unit(2, ByRangesCells(0, 0))
Plain == [k \in 0 .. 1 |-> Good]
Units ==
  {Second, Unit(2, ByRangesCells(0, 1)), Unit(2, ByRangesCells(0, 2)), Unit(3, ByPcCells(0)),
   Unit(4, ByPcCells(0)), Unit(9, ByPcCells(0)), Unit(6, <<C("1", 0)>>),
   Unit(8, <<C("leb", 0), C("4", 0)>>),
   Unit(7, <<C("text", 0), C("4", 0)>>), [Second EXCEPT !.version = 4],
   [First EXCEPT !.version = 3, !.type = "none"], [Second EXCEPT !.type = "skeleton"],
   [Unit(5, NarrowCells) EXCEPT !.addressSize = 4]}

MCInfos ==
  {Info(sets, First, Second, Plain) : sets \in Sets}
  \cup {Info(TwoSets, First, u, Plain) : u \in Units}
  \cup {Info(TwoSets, First, Second, ls) : ls \in LineSections}
MCAddresses == 0 .. 9
=============================================================================
