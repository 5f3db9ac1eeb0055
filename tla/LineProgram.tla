---------------------------- MODULE LineProgram ----------------------------
(***************************************************************************)
(* DwarfLineUtil: the line number program of a compilation unit is run,    *)
(* which makes a matrix of rows, and the matrix is searched for an address *)
(* (dwarf_line_util.cpp, with the numbers of dwarf_common.cpp).            *)
(*                                                                         *)
(* The program is a sequence of instructions with their operands.  Only    *)
(* what ends up in the matrix is kept of the state machine's registers.    *)
(***************************************************************************)
EXTENDS Integers, Sequences, FiniteSets

CONSTANTS
  GroupBits, (* bits that a byte of a LEB128 number carries: 7             *)
  LongBits,  (* of the result that it is decoded into: 64                  *)
  IntBits    (* of an int, and of the line register: 32                    *)

ASSUME WidthAssumption ==
  GroupBits \in Nat \ {0} /\ IntBits \in Nat \ {0} /\ LongBits \in Nat /\ LongBits > IntBits

Seqs == INSTANCE SequencesExt

VARIABLES
  header,  (* of the line program, with m_dirs and m_files, and the program *)
  next,    (* instruction to execute                                        *)
  machine, (* m_stateMachine                                                *)
  matrix   (* m_lineMatrix                                                  *)

lineVars == <<header, next, machine, matrix>>

NoLines == [program |-> <<>>]
Start == [address |-> 0, opIndex |-> 0, file |-> 1, line |-> 1, column |-> 0]

LineInit == header = NoLines /\ next = 0 /\ machine = Start /\ matrix = <<>>

Total(s) == Seqs!FoldLeft(LAMBDA a, b : a + b, 0, s)

-----------------------------------------------------------------------------
(* dwarfReadULEB128 and dwarfReadSLEB128, of the groups of bits in the bytes;
   longer numbers than the result has room for do not occur. *)
Unsigned(groups) == Total([i \in DOMAIN groups |-> groups[i] * 2 ^ (GroupBits * (i - 1))])
Negative(groups) == Seqs!Last(groups) >= 2 ^ (GroupBits - 1)

(* A fault: no sign extension. *)
ZeroExtended(groups) == Unsigned(groups)
(* The sign is extended by or-ing -(1 << shift), which is an int.  A shift by
   its width or more is undefined; the processor takes it modulo the width. *)
Signed(groups) ==
  LET shift == GroupBits * Len(groups)
      bit == 2 ^ (IF shift < IntBits THEN shift ELSE shift % IntBits)
  IN  IF Negative(groups) /\ shift < LongBits THEN (Unsigned(groups) % bit) - bit
      ELSE Unsigned(groups)

-----------------------------------------------------------------------------
(* readHeader, readDirList, readFileList: the lists are read value by value,
   in the order of a format that they share.  A file begins with its path;
   a value that comes before it belongs to the file before. *)
Values(list) == Seqs!FlattenSeq(list)
Dirs(list) == [i \in DOMAIN Values(list) |-> Values(list)[i].value]

(* UINT32_MAX, INT32_MAX *)
UintMax == 2 ^ IntBits - 1
IntMax == 2 ^ (IntBits - 1) - 1

NameForms == {"string", "strp", "line_strp"}
ConstForms == {"data1", "data2", "data4", "data8", "udata"}
NewFile(name) == [name |-> name, dir |-> 0]
WithValue(fs, v) ==
  IF v.type = "path" THEN Append(fs, NewFile(v.value))
  ELSE IF v.type = "directory_index" THEN [fs EXCEPT ![Len(fs)].dir = v.value]
  ELSE fs
Files(list) == Seqs!FoldLeft(WithValue, <<>>, Values(list))

Readable(v) ==
  \/ v.type = "path" /\ v.form \in NameForms
  \/ v.type \in {"directory_index", "timestamp", "size"} /\ v.form \in ConstForms
  \/ v.type = "MD5"
DirFlaws(vs) ==
  [i \in DOMAIN vs |-> IF vs[i].type = "path" /\ Readable(vs[i]) THEN "none" ELSE "not implemented"]
FileFlaws(vs) ==
  [i \in DOMAIN vs |->
    IF ~Readable(vs[i]) THEN "not implemented"
    ELSE IF vs[i].type # "path" /\ i = 1 THEN "data corrupt"
    ELSE IF vs[i].type = "directory_index" /\ vs[i].value >= UintMax THEN "data corrupt" ELSE "none"]
FirstOf(flaws) ==
  LET bad == {i \in DOMAIN flaws : flaws[i] # "none"}
  IN  IF bad = {} THEN "none" ELSE flaws[Seqs!Min(bad)]

LinesFlaw(h) ==
  LET inLists == FirstOf(DirFlaws(Values(h.dirs)) \o FileFlaws(Values(h.files))) IN
  IF h.wide \/ h.version # 5 THEN "not implemented"
  ELSE IF inLists # "none" THEN inLists
  ELSE IF h.start = "passed" THEN "internal" ELSE "none"

ReadLines(h) ==
  /\ header' = [h EXCEPT !.dirs = Dirs(h.dirs), !.files = Files(h.files)]
  /\ next' = 1 /\ machine' = Start /\ matrix' = <<>>

-----------------------------------------------------------------------------
(* execLineProgram *)
Wrapped(n, bits) == n % 2 ^ bits
Row == [address |-> machine.address, file |-> machine.file, line |-> machine.line,
        column |-> machine.column]

(* advanceAddress *)
Advanced(m, n) ==
  [m EXCEPT
    !.address = Wrapped(@ + (header.minInst * (m.opIndex + n)) \div header.maxOps, LongBits),
    !.opIndex = (m.opIndex + n) % header.maxOps]

(* advancePC *)
Adjusted(code) == code - header.opBase
ByCode(m, code) == Advanced(m, Adjusted(code) \div header.lineRange)
LineStep(code) == header.lineBase + (Adjusted(code) % header.lineRange)

(* Instructions that change registers only; "flag" stands for those without
   operands whose registers are not in a row. *)
Silent == {"flag", "set_isa", "set_discriminator"}
Executed(i) ==
  CASE i.op \in Silent -> machine
    [] i.op = "advance_pc" -> Advanced(machine, i.n)
    [] i.op = "advance_line" ->
         [machine EXCEPT !.line = Wrapped(@ + Signed(i.groups), IntBits)]
    [] i.op = "set_file" -> [machine EXCEPT !.file = i.n]
    [] i.op = "set_column" -> [machine EXCEPT !.column = i.n]
    [] i.op = "const_add_pc" -> ByCode(machine, 255)
    [] i.op = "fixed_advance_pc" ->
         [machine EXCEPT !.address = Wrapped(@ + i.n, LongBits), !.opIndex = 0]
    [] i.op = "set_address" -> [machine EXCEPT !.address = i.n, !.opIndex = 0]

(* An opcode that is not known, an operand that does not fit in its register,
   and a line that would get below 1. *)
Stops(i) ==
  \/ i.op = "unknown"
  \/ i.op \in {"set_file", "set_column", "set_isa", "set_discriminator"} /\ i.n >= UintMax
  \/ /\ i.op = "advance_line"
     /\ \/ Signed(i.groups) >= IntMax \/ Signed(i.groups) <= -IntMax - 1
        \/ Signed(i.groups) < 0 /\ -Signed(i.groups) >= machine.line
StopsWith(i) ==
  IF i.op = "unknown" \/ (i.op = "set_isa" /\ i.n > UintMax) THEN "internal" ELSE "data corrupt"

AtEnd == next > Len(header.program)

ExecuteOne ==
  LET i == header.program[next] IN
  /\ ~AtEnd /\ ~Stops(i)
  /\ next' = next + 1
  /\ \/ /\ i.op = "copy"
        /\ matrix' = Append(matrix, Row) /\ UNCHANGED machine
     \/ /\ i.op = "end_sequence"
        /\ matrix' = Append(matrix, Row) /\ machine' = Start
     \/ /\ i.op = "special"
        /\ machine' = [ByCode(machine, i.code) EXCEPT
                         !.line = Wrapped(@ + LineStep(i.code), IntBits)]
        /\ matrix' = Append(matrix, Row')
     \/ /\ i.op \notin {"copy", "end_sequence", "special"}
        /\ machine' = Executed(i) /\ UNCHANGED matrix
  /\ UNCHANGED header

(* std::stable_sort by address *)
Precedes(rows, i, j) ==
  \/ rows[i].address < rows[j].address
  \/ rows[i].address = rows[j].address /\ i < j
Place(rows, i) == 1 + Cardinality({j \in DOMAIN rows : Precedes(rows, j, i)})
InOrder(rows) == [k \in DOMAIN rows |-> rows[CHOOSE i \in DOMAIN rows : Place(rows, i) = k]]

-----------------------------------------------------------------------------
(* searchLineMatrix: the first row of the address, or else the last one of
   those below; 0 if there is none, or none above. *)
RowAt(a) ==
  LET above == {k \in DOMAIN matrix : matrix[k].address >= a}
      first == CHOOSE k \in above : \A j \in above : k <= j
  IN  IF above = {} THEN 0
      ELSE IF matrix[first].address = a THEN first ELSE first - 1

(* When that is not in the main file, the loop that looks for another row of
   the address does not look at the rows it runs over. *)
FileOf(k) == header.files[matrix[k].file + 1]
InMainFile(k) == FileOf(k).name = header.files[1].name
Preferred(k) ==
  LET later == {j \in k + 1 .. Len(matrix) : matrix[j].address # matrix[k].address}
  IN  IF InMainFile(k) \/ later = {} THEN k ELSE CHOOSE j \in later : \A i \in later : j <= i

KnownFile(k) == matrix[k].file + 1 \in DOMAIN header.files
Answer(k) ==
  [dir |-> header.dirs[FileOf(k).dir + 1], file |-> FileOf(k).name, line |-> matrix[k].line,
   column |-> matrix[k].column]

-----------------------------------------------------------------------------
(* What the program says by itself, without running it: the row that each
   instruction adds has the address of the last set_address of its sequence
   and all advances since, and the line that the sequence has come to. *)
Program == header.program
Adds == {k \in DOMAIN Program : Program[k].op \in {"copy", "special", "end_sequence"}}
LastOf(op, k, from) == Seqs!Max({from} \cup {j \in from + 1 .. k : Program[j].op = op})
SequenceOf(k) == LastOf("end_sequence", k - 1, 0)

PcStep(i) ==
  CASE i.op \in {"advance_pc", "fixed_advance_pc"} -> i.n
    [] i.op = "const_add_pc" -> (255 - header.opBase) \div header.lineRange
    [] i.op = "special" -> (i.code - header.opBase) \div header.lineRange
    [] OTHER -> 0
Meaning(groups) ==
  Unsigned(groups) - (IF Negative(groups) THEN 2 ^ (GroupBits * Len(groups)) ELSE 0)
LineStepOf(i) ==
  CASE i.op = "advance_line" -> Meaning(i.groups)
    [] i.op = "special" -> header.lineBase + ((i.code - header.opBase) % header.lineRange)
    [] OTHER -> 0

PcSteps == [k \in DOMAIN Program |-> PcStep(Program[k])]
LineSteps == [k \in DOMAIN Program |-> LineStepOf(Program[k])]
Sum(steps, from, to) ==
  LET sum[k \in from .. to] == IF k = from THEN 0 ELSE sum[k - 1] + steps[k] IN sum[to]

AddressAt(k) ==
  LET set == LastOf("set_address", k, SequenceOf(k))
  IN  Sum(PcSteps, set, k) + (IF set = SequenceOf(k) THEN 0 ELSE Program[set].n)
LineAt(k) == 1 + Sum(LineSteps, SequenceOf(k), k)
FileAt(k) ==
  LET set == LastOf("set_file", k, SequenceOf(k))
  IN  1 + (IF set = SequenceOf(k) THEN 1 ELSE Program[set].n)

(* Nothing is claimed for instructions of several operations, for negative
   numbers in as many bits as an int has, for registers that wrap around, and
   for rows of header files. *)
Ordinary ==
  /\ header.minInst = 1 /\ header.maxOps = 1
  /\ \A k \in DOMAIN Program : /\ Wrapped(AddressAt(k), LongBits) = AddressAt(k)
                               /\ Wrapped(LineAt(k), IntBits) = LineAt(k)
  /\ \A k \in DOMAIN Program :
       Program[k].op = "advance_line" =>
         ~Negative(Program[k].groups) \/ GroupBits * Len(Program[k].groups) < IntBits
OneFile ==
  \A k \in Adds : /\ FileAt(k) \in DOMAIN header.files
                  /\ header.files[FileAt(k)] = header.files[1]

(* The rows that apply to an address: those at the greatest address that is
   not above.  Where one of them ends a sequence nothing is claimed. *)
Applying(a) ==
  LET below == {k \in Adds : AddressAt(k) <= a}
  IN  {k \in below : \A j \in below : AddressAt(j) <= AddressAt(k)}
Claimed(a) ==
  /\ Applying(a) # {} /\ \E k \in Adds : AddressAt(k) >= a
  /\ \A k \in Applying(a) : Program[k].op # "end_sequence"
=============================================================================
