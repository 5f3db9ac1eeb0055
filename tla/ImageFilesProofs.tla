-------------------------- MODULE ImageFilesProofs --------------------------
(***************************************************************************)
(* What is proved about the readers of image files, for files of any       *)
(* contents, buffers of any size and any number of failures of the system. *)
(***************************************************************************)
EXTENDS ImageFiles, SequenceTheorems, FiniteSetTheorems, WellFoundedInduction, TLAPS

(* What a reader sees: cells of the file, and what a buffer is filled up with. *)
Cell == Range(file) \cup {Zero}
Operation == [op : {"seek", "skip", "read"}, n : Nat]
Placed == [op : {"seek", "read"}, n : Nat]

ReaderTypes ==
  /\ file \in Seq(Cell) /\ buffer \in Seq(Cell) /\ got \in Seq(Cell)
  /\ isOpen \in BOOLEAN /\ spoiled \in BOOLEAN /\ rc \in {"ok", "eof", "error"}
  /\ position \in Nat /\ fileOffset \in Nat /\ bufferOffset \in 0 .. Len(buffer)
  /\ place \in Nat /\ faults \in Nat
  /\ script \in Seq(Operation)

(* The buffer is a part of the file, unless it is left over. *)
Mirrored ==
  /\ buffer = Cells(fileOffset, Len(buffer))
  /\ position = fileOffset + Len(buffer)
  /\ place = fileOffset + bufferOffset

(* Nothing is skipped from a place that the reader lost. *)
NoneLost ==
  /\ spoiled => script \in Seq(Placed)
  /\ script # <<>> => rc = "ok"

ReaderInv == ReaderTypes /\ NoneLost /\ (~spoiled => Mirrored)

-----------------------------------------------------------------------------
(* What is left of a script that has to bring n cells, and of one that has to
   bring those from an offset on. *)
Fetching(n) ==
  \/ script = <<>> /\ (rc = "ok" => Len(got) = n)
  \/ \E k \in Nat : script = <<Read(k)>> /\ Len(got) + k = n
  \/ \E o \in Operation : o.op # "read" /\ script = <<o, Read(n)>> /\ got = <<>>

Copying(from, n) ==
  \/ script = <<>> /\ (rc = "ok" /\ ~spoiled => got = Cells(from, n))
  \/ /\ \E k \in Nat : script = <<Read(k)>> /\ Len(got) + k = n
     /\ ~spoiled => place = from + Len(got) /\ got = Cells(from, Len(got))
  \/ script = <<Seek(from), Read(n)>> /\ got = <<>>

-----------------------------------------------------------------------------
(* Where the reader of an image is. *)
ElfPlaces == ElfPoints \cup {"elf dump"}
PELoop == {"pe next", "pe symbol", "pe file", "pe length"}
PEPlaces == PEPoints \cup PELoop
Calls == {"ready", "sections", "contents"}
Opened == ElfPlaces \cup PEPlaces \cup Calls \cup {"opened"}
OneCell ==
  {"elf ident", "elf names header", "pe offset", "pe signature", "pe header", "pe magic", "pe size",
   "pe symbol", "pe file", "pe length"}

Formats ==
  /\ pc \in Opened \cup {"new", "failed", "closed"}
  /\ format \in {"elf", "pe"}
  /\ file \in IF format = "elf" THEN ElfFiles ELSE PEFiles
  /\ pc \in ElfPlaces => format = "elf"
  /\ pc \in PEPlaces => format = "pe"
  /\ pc \in Opened => isOpen

Fetches ==
  /\ pc \in OneCell => Fetching(1)
  /\ pc = "elf header" => Fetching(2)
  /\ pc \in PEPlaces /\ rc = "ok" => ~spoiled
  /\ pc = "opened" => script = <<>> /\ ~spoiled

HeadersRead ==
  /\ index \in Nat
  /\ pc \in ElfPlaces \ {"elf ident", "elf header"} =>
       header.shoff \in Nat /\ header.shnum \in Nat /\ header.shstrndx \in Nat
  /\ pc \in PEPlaces \ {"pe offset", "pe signature", "pe header"} =>
       header.symtab \in Nat /\ header.symbols \in Nat /\ header.sections \in Nat
  /\ pc \in {"pe file", "pe length"} => symbol.aux = 1 /\ auxRead = 1

(* The sections and what was read of them. *)
Entry == [offset : Nat, size : Nat, data : Seq(Cell) \cup {NotRead}, sound : BOOLEAN]
Right(s) == s.sound => s.data = Cells(s.offset, s.size)

Contents ==
  /\ (pc \in Opened \ Calls \/ pc = "new") => wanted = {}
  /\ pc \in Calls =>
       /\ wanted \subseteq DOMAIN sections
       /\ pc = "contents" => /\ reading \in DOMAIN sections
                             /\ Copying(sections[reading].offset, sections[reading].size)
  /\ \A n \in DOMAIN sections : sections[n] \in Entry /\ (sections[n].data # NotRead => Right(sections[n]))
  /\ \A n \in DOMAIN returned : returned[n] \in Entry /\ Right(returned[n])

ImageInv ==
  ReaderInv /\ Formats /\ Fetches /\ HeadersRead /\ Contents

-----------------------------------------------------------------------------
(* Cells of the file. *)
LEMMA CellsProperties ==
  ASSUME file \in Seq(Cell), NEW from \in Nat, NEW n \in Nat
  PROVE  /\ Cells(from, n) \in Seq(Cell)
         /\ Len(Cells(from, n)) \in 0 .. n
         /\ from + n <= Len(file) => Len(Cells(from, n)) = n
         /\ Len(Cells(from, n)) = n /\ n > 0 => from + n <= Len(file)
         /\ \A i \in 1 .. Len(Cells(from, n)) : Cells(from, n)[i] = file[from + i]
<1>1. PICK l : l = Len(file)
  OBVIOUS
<1>2. l \in Nat
  BY <1>1
<1>3. PICK m : m = Least(from + n, l)
  OBVIOUS
<1>4. m \in Nat /\ m <= l /\ m <= from + n /\ (from + n <= l => m = from + n)
      /\ (m = from + n => from + n <= l) /\ (m < from + n => m = l)
  BY <1>2, <1>3 DEF Least
<1>5. Cells(from, n) = SubSeq(file, from + 1, m)
  BY <1>1, <1>3 DEF Cells
<1>6. \A i \in from + 1 .. m : file[i] \in Cell
  BY <1>1, <1>2, <1>4
<1>7. PICK c : c = Cells(from, n)
  OBVIOUS
<1>8. /\ c \in Seq(Cell)
      /\ Len(c) = IF from + 1 <= m THEN m - (from + 1) + 1 ELSE 0
      /\ \A i \in 1 .. m - (from + 1) + 1 : c[i] = file[from + 1 + i - 1]
  <2>1. from + 1 \in Int /\ m \in Int
    BY <1>4
  <2>2. QED
    BY <1>5, <1>6, <1>7, <2>1, SubSeqProperties
<1>9. Len(c) \in 0 .. n /\ (from + n <= l => Len(c) = n) /\ (Len(c) = n /\ n > 0 => from + n <= l)
  BY <1>2, <1>4, <1>8
<1>10. \A i \in 1 .. Len(c) : c[i] = file[from + i]
  <2>1. ASSUME NEW i \in 1 .. Len(c)
        PROVE  c[i] = file[from + i]
    <3>1. i \in 1 .. m - (from + 1) + 1 /\ from + 1 + i - 1 = from + i
      BY <1>4, <1>8
    <3>2. QED
      BY <1>8, <3>1
  <2>2. QED
    BY <2>1
<1>11. QED
  BY <1>1, <1>7, <1>8, <1>9, <1>10

LEMMA NoCells ==
  ASSUME file \in Seq(Cell), NEW from \in Nat, NEW n, n = 0
  PROVE  Cells(from, n) = <<>>
<1>1. n \in Nat
  OBVIOUS
<1>2. Cells(from, n) \in Seq(Cell) /\ Len(Cells(from, n)) \in 0 .. n
  BY <1>1, CellsProperties
<1>3. QED
  BY <1>2

(* A part of a part of the file, and two parts side by side. *)
Inner(from, n, k, m, first, last, f) ==
  /\ file \in Seq(Cell) /\ from \in Nat /\ n \in Nat /\ k \in Nat /\ m \in Nat
  /\ from + n <= Len(file) /\ k + m <= n
  /\ first = k + 1 /\ last = k + m /\ f = from + k
Adjacent(from, m, n, f, l) ==
  /\ file \in Seq(Cell) /\ from \in Nat /\ m \in Nat /\ n \in Nat
  /\ from + m + n <= Len(file) /\ f = from + m /\ l = m + n

LEMMA CellsOfCells ==
  ASSUME NEW from, NEW n, NEW k, NEW m, NEW first, NEW last, NEW f,
         Inner(from, n, k, m, first, last, f)
  PROVE  SubSeq(Cells(from, n), first, last) = Cells(f, m)
<1> USE DEF Inner
<1>1. PICK c, d, s : c = Cells(from, n) /\ d = Cells(f, m) /\ s = SubSeq(c, first, last)
  OBVIOUS
<1>2. f \in Nat /\ f + m <= Len(file) /\ first \in Int /\ last \in Int
  <2>1. Len(file) \in Nat
    OBVIOUS
  <2>2. QED
    BY <2>1
<1>3. /\ c \in Seq(Cell) /\ Len(c) = n
      /\ \A i \in 1 .. n : c[i] = file[from + i]
  BY <1>1, CellsProperties
<1>4. /\ d \in Seq(Cell) /\ Len(d) = m
      /\ \A i \in 1 .. m : d[i] = file[f + i]
  BY <1>1, <1>2, CellsProperties
<1>5. \A i \in first .. last : c[i] \in Cell
  BY <1>3
<1>6. /\ s \in Seq(Cell)
      /\ Len(s) = IF first <= last THEN last - first + 1 ELSE 0
      /\ \A i \in 1 .. last - first + 1 : s[i] = c[first + i - 1]
  <2>1. first \in Int /\ last \in Int
    BY <1>2
  <2>2. QED
    BY ONLY <1>1, <1>5, <2>1, SubSeqProperties
<1>7. Len(s) = m
  BY <1>6
<1>8. ASSUME NEW i \in 1 .. m
      PROVE  s[i] = d[i]
  <2>1. i \in 1 .. last - first + 1 /\ first + i - 1 = k + i /\ k + i \in 1 .. n
        /\ from + (k + i) = f + i
    OBVIOUS
  <2>2. s[i] = c[k + i]
    BY <1>6, <2>1
  <2>3. c[k + i] = file[f + i]
    BY <1>3, <2>1
  <2>4. QED
    BY <1>4, <2>2, <2>3
<1>9. s = d
  BY <1>4, <1>6, <1>7, <1>8, SeqEqual
<1>10. QED
  BY <1>1, <1>9

LEMMA CellsJoined ==
  ASSUME NEW from, NEW m, NEW n, NEW f, NEW l, Adjacent(from, m, n, f, l)
  PROVE  Cells(from, m) \o Cells(f, n) = Cells(from, l)
<1> USE DEF Adjacent
<1>1. PICK c, d, e : c = Cells(from, m) /\ d = Cells(f, n) /\ e = Cells(from, l)
  OBVIOUS
<1>2. f \in Nat /\ l \in Nat /\ f + n <= Len(file) /\ from + l <= Len(file) /\ from + m <= Len(file)
  <2>1. Len(file) \in Nat
    OBVIOUS
  <2>2. QED
    BY <1>1, <2>1
<1>3. c \in Seq(Cell) /\ Len(c) = m /\ \A i \in 1 .. m : c[i] = file[from + i]
  BY <1>1, <1>2, CellsProperties
<1>4. d \in Seq(Cell) /\ Len(d) = n /\ \A i \in 1 .. n : d[i] = file[f + i]
  BY <1>1, <1>2, CellsProperties
<1>5. e \in Seq(Cell) /\ Len(e) = l /\ \A i \in 1 .. l : e[i] = file[from + i]
  BY <1>1, <1>2, CellsProperties
<1>6. /\ c \o d \in Seq(Cell) /\ Len(c \o d) = m + n
      /\ \A i \in 1 .. m + n : (c \o d)[i] = IF i <= m THEN c[i] ELSE d[i - m]
  BY ONLY <1>3, <1>4, ConcatProperties
<1>7. ASSUME NEW i \in 1 .. l
      PROVE  (c \o d)[i] = e[i]
  <2>1. CASE i <= m
    <3>1. i \in 1 .. m /\ i \in 1 .. m + n
      BY <1>1, <2>1
    <3>2. QED
      BY <1>3, <1>5, <1>6, <2>1, <3>1
  <2>2. CASE ~ i <= m
    <3>1. i - m \in 1 .. n /\ f + (i - m) = from + i
      BY <1>1, <2>2
    <3>2. d[i - m] = file[from + i]
      BY <1>4, <3>1
    <3>3. QED
      BY <1>1, <1>5, <1>6, <2>2, <3>2
  <2>3. QED
    BY <2>1, <2>2
<1>8. c \o d = e
  BY <1>1, <1>5, <1>6, <1>7, SeqEqual
<1>9. QED
  BY <1>1, <1>8

-----------------------------------------------------------------------------
(* The buffered reader. *)
LEMMA ResizedTypes ==
  ASSUME NEW old \in Seq(Cell)
  PROVE  Resized(old) \in Seq(Cell)
<1>1. Zero \in Cell /\ BufferSize \in Nat
  BY BufferAssumption DEF Cell
<1>2. \A k \in 1 .. BufferSize : (IF k <= Len(old) THEN old[k] ELSE Zero) \in Cell
  BY <1>1
<1>3. QED
  BY <1>1, <1>2 DEF Resized

LEMMA Refilling ==
  ASSUME file \in Seq(Cell), faults \in Nat, NEW old \in Seq(Cell), NEW offset \in Nat,
         NEW from \in Nat, Refill(old, offset, from)
  PROVE  /\ fileOffset' = offset + Len(old) /\ fileOffset' \in Nat
         /\ buffer' \in Seq(Cell) /\ bufferOffset' = 0 /\ bufferOffset' \in 0 .. Len(buffer')
         /\ position' \in Nat /\ faults' \in Nat /\ rc' \in {"ok", "eof", "error"}
         /\ rc' # "error" =>
              /\ buffer' = Cells(from, Len(buffer'))
              /\ position' = from + Len(buffer')
<1>1. Len(old) \in Nat /\ Len(file) \in Nat
  OBVIOUS
<1>2. fileOffset' = offset + Len(old) /\ fileOffset' \in Nat /\ bufferOffset' = 0
  BY <1>1 DEF Refill
<1>3. CASE /\ from < Len(file)
           /\ \E n \in 1 .. Least(BufferSize, Len(file) - from) :
                buffer' = Cells(from, n) /\ position' = from + n
           /\ rc' = "ok" /\ UNCHANGED faults
  <2>1. PICK n \in 1 .. Least(BufferSize, Len(file) - from) :
               buffer' = Cells(from, n) /\ position' = from + n
    BY <1>3
  <2>2. n \in Nat /\ from + n <= Len(file)
    BY <1>1, BufferAssumption DEF Least
  <2>3. buffer' \in Seq(Cell) /\ Len(buffer') = n
    BY <2>1, <2>2, CellsProperties
  <2>4. QED
    BY <1>1, <1>2, <1>3, <2>1, <2>2, <2>3
<1>4. CASE /\ buffer' = <<>> /\ position' = from
           /\ rc' = "eof" /\ UNCHANGED faults
  <2>1. buffer' \in Seq(Cell) /\ Len(buffer') = 0
    BY <1>4
  <2>2. Cells(from, Len(buffer')) = <<>>
    BY <2>1, NoCells
  <2>3. QED
    BY <1>2, <1>4, <2>1, <2>2
<1>5. CASE /\ faults' = faults + 1
           /\ buffer' = Resized(old) /\ position' = from
           /\ rc' = "error"
  <2>1. buffer' \in Seq(Cell)
    BY <1>5, ResizedTypes
  <2>2. QED
    BY <1>2, <1>5, <2>1
<1>6. QED
  BY <1>3, <1>4, <1>5 DEF Refill

(* What is left to do. *)
LEMMA TailOfScript ==
  ASSUME script \in Seq(Operation), script # <<>>
  PROVE  /\ Head(script) \in Operation /\ Head(script).n \in Nat
         /\ Head(script).op \in {"seek", "skip", "read"}
         /\ Tail(script) \in Seq(Operation)
<1>1. Head(script) \in Operation /\ Tail(script) \in Seq(Operation)
  OBVIOUS
<1>2. QED
  BY <1>1 DEF Operation

LEMMA SeekStays ==
  ASSUME ReaderInv, SeekInBuffer
  PROVE  ReaderInv'
<1> USE DEF ReaderInv, ReaderTypes
<1>1. PICK n : n = Target(Head(script))
  OBVIOUS
<1>2. PICK o : o = Head(script)
  OBVIOUS
<1>3. o \in Operation /\ o.n \in Nat /\ Tail(script) \in Seq(Operation)
  BY <1>2, TailOfScript DEF SeekInBuffer
<1>4. /\ o.op \in {"seek", "skip"} /\ n >= fileOffset /\ n < fileOffset + Len(buffer)
      /\ bufferOffset' = n - fileOffset
      /\ place' = IF o.op = "seek" THEN n ELSE place + o.n
      /\ script' = Tail(script) /\ rc' = "ok"
      /\ UNCHANGED <<file, isOpen, position, fileOffset, buffer, got, spoiled, faults>>
  BY <1>1, <1>2 DEF SeekInBuffer, Inside, Done
<1>5. n = IF o.op = "seek" THEN o.n ELSE fileOffset + bufferOffset + o.n
  BY <1>1, <1>2 DEF Target
<1>6. Len(buffer) \in Nat
  OBVIOUS
<1>7. n \in Nat /\ place' \in Nat /\ bufferOffset' \in 0 .. Len(buffer)
  <2>1. fileOffset \in Nat /\ bufferOffset \in Nat /\ place \in Nat
    OBVIOUS
  <2>2. n \in Nat
    BY ONLY <1>3, <1>4, <1>5, <2>1
  <2>3. QED
    BY ONLY <1>3, <1>4, <1>6, <2>1, <2>2
<1>8. Cell' = Cell
  BY <1>4 DEF Cell
<1>9. ReaderTypes'
  BY <1>3, <1>4, <1>7, <1>8
<1>10. ASSUME ~spoiled'
       PROVE  Mirrored'
  <2>1. Mirrored
    BY <1>4, <1>10
  <2>2. place' = fileOffset' + bufferOffset'
    <3>1. PICK f, b : f = fileOffset /\ b = bufferOffset
      OBVIOUS
    <3>2. f \in Nat /\ b \in Nat
      BY <3>1
    <3>3. place = f + b
      BY <2>1, <3>1 DEF Mirrored
    <3>4. place' = IF o.op = "seek" THEN n ELSE f + b + o.n
      BY <1>4, <3>3
    <3>5. n = IF o.op = "seek" THEN o.n ELSE f + b + o.n
      BY <1>5, <3>1
    <3>6. bufferOffset' = n - f /\ fileOffset' = f
      BY <1>4, <3>1
    <3>7. place' = n
      BY ONLY <3>4, <3>5
    <3>8. n \in Nat
      BY <1>7
    <3>9. QED
      BY ONLY <3>2, <3>6, <3>7, <3>8
  <2>3. Cells(fileOffset, Len(buffer))' = Cells(fileOffset, Len(buffer))
    BY <1>4 DEF Cells
  <2>4. QED
    BY <1>4, <2>1, <2>2, <2>3 DEF Mirrored
<1>11. NoneLost'
  <2>1. spoiled => Tail(script) \in Seq(Placed)
    BY DEF NoneLost, SeekInBuffer
  <2>2. QED
    BY <1>4, <2>1 DEF NoneLost, Placed
<1>12. QED
  BY <1>9, <1>10, <1>11

LEMMA SoughtStays ==
  ASSUME ReaderInv, SeekInFile
  PROVE  ReaderInv'
<1> USE DEF ReaderInv, ReaderTypes
<1>1. PICK n, o : n = Target(Head(script)) /\ o = Head(script)
  OBVIOUS
<1>2. o \in Operation /\ o.n \in Nat /\ Tail(script) \in Seq(Operation)
  BY <1>1, TailOfScript DEF SeekInFile
<1>3. /\ o.op \in {"seek", "skip"} /\ Refill(<<>>, n, n)
      /\ place' = IF o.op = "seek" THEN n ELSE place + o.n
      /\ script' = (IF rc' = "ok" THEN Tail(script) ELSE <<>>)
      /\ spoiled' = (rc' = "error")
      /\ UNCHANGED <<file, isOpen, got>>
  BY <1>1 DEF SeekInFile, ForSeek
<1>4. n = IF o.op = "seek" THEN o.n ELSE fileOffset + bufferOffset + o.n
  BY <1>1 DEF Target
<1>5. n \in Nat /\ place' \in Nat
  BY <1>2, <1>3, <1>4
<1>6. <<>> \in Seq(Cell) /\ Len(<<>>) = 0
  OBVIOUS
<1>7. /\ fileOffset' = n + Len(<<>>) /\ fileOffset' \in Nat
      /\ buffer' \in Seq(Cell) /\ bufferOffset' = 0 /\ bufferOffset' \in 0 .. Len(buffer')
      /\ position' \in Nat /\ faults' \in Nat /\ rc' \in {"ok", "eof", "error"}
      /\ rc' # "error" =>
           buffer' = Cells(n, Len(buffer')) /\ position' = n + Len(buffer')
  BY <1>3, <1>5, <1>6, Refilling
<1>8. Cell' = Cell
  BY <1>3 DEF Cell
<1>9. ReaderTypes'
  <2>1. script' \in Seq(Operation) /\ spoiled' \in BOOLEAN
    BY <1>2, <1>3
  <2>2. QED
    BY <1>3, <1>5, <1>7, <1>8, <2>1
<1>10. ASSUME ~spoiled'
       PROVE  Mirrored'
  <2>1. fileOffset' = n /\ rc' # "error"
    <3>1. PICK z : z = Len(<<>>)
      OBVIOUS
    <3>2. z = 0
      BY <3>1
    <3>3. fileOffset' = n
      BY <1>5, <1>7, <3>1, <3>2
    <3>4. QED
      BY <1>3, <1>10, <3>3
  <2>2. Cells(fileOffset, Len(buffer))' = Cells(n, Len(buffer'))
    BY <1>3, <2>1 DEF Cells
  <2>3. place' = fileOffset' + bufferOffset'
    <3>1. CASE o.op = "seek"
      BY <1>3, <1>5, <1>7, <2>1, <3>1
    <3>2. CASE o.op # "seek"
      <4>1. ~spoiled
        <5>1. script \in Seq(Placed) => o.op = "seek"
          <6>1. SUFFICES ASSUME script \in Seq(Placed) PROVE o.op \in {"seek", "read"}
            BY <1>3
          <6>2. script # <<>>
            BY DEF SeekInFile
          <6>3. o \in Placed
            BY <1>1, <6>1, <6>2
          <6>4. QED
            BY <6>3 DEF Placed
        <5>2. QED
          BY <3>2, <5>1 DEF NoneLost
      <4>2. place = fileOffset + bufferOffset
        BY <4>1 DEF Mirrored
      <4>3. QED
        BY <1>2, <1>3, <1>4, <1>5, <1>7, <2>1, <3>2, <4>2
    <3>3. QED
      BY <3>1, <3>2
  <2>4. QED
    BY <1>7, <2>1, <2>2, <2>3 DEF Mirrored
<1>11. NoneLost'
  <2>1. rc' # "ok" => script' = <<>>
    BY <1>3
  <2>2. rc' = "error" => script' = <<>>
    BY <1>3
  <2>3. <<>> \in Seq(Placed)
    OBVIOUS
  <2>4. Placed' = Placed
    BY DEF Placed
  <2>5. QED
    BY <1>3, <2>1, <2>2, <2>3, <2>4 DEF NoneLost
<1>12. QED
  BY <1>9, <1>10, <1>11

LEMMA RefusedStays ==
  ASSUME ReaderInv, SeekFails
  PROVE  ReaderInv'
<1> USE DEF ReaderInv, ReaderTypes
<1>1. /\ faults' = faults + 1 /\ rc' = "error" /\ script' = <<>>
      /\ UNCHANGED <<file, isOpen, position, fileOffset, buffer, bufferOffset, got, place, spoiled>>
  BY DEF SeekFails, readerVars
<1>2. Cell' = Cell /\ Operation' = Operation /\ Placed' = Placed
  BY <1>1 DEF Cell, Operation, Placed
<1>3. ReaderTypes'
  BY <1>1, <1>2
<1>4. NoneLost'
  BY <1>1, <1>2 DEF NoneLost
<1>5. ~spoiled' => Mirrored'
  BY <1>1 DEF Mirrored, Cells
<1>6. QED
  BY <1>3, <1>4, <1>5

LEMMA BufferedStays ==
  ASSUME ReaderInv, ReadFromBuffer
  PROVE  ReaderInv'
<1> USE DEF ReaderInv, ReaderTypes
<1>1. PICK o, n, l : o = Head(script) /\ l = Len(buffer) /\ n = Least(o.n, l - bufferOffset)
  OBVIOUS
<1>2. o \in Operation /\ o.n \in Nat /\ Tail(script) \in Seq(Operation)
  BY <1>1, TailOfScript DEF ReadFromBuffer
<1>3. PICK more : more = IF o.n = n THEN Tail(script) ELSE <<Read(o.n - n)>> \o Tail(script)
  OBVIOUS
<1>4. PICK s : s = SubSeq(buffer, bufferOffset + 1, bufferOffset + n)
  OBVIOUS
<1>5. /\ o.op = "read" /\ script # <<>>
      /\ got' = got \o s /\ bufferOffset' = bufferOffset + n /\ place' = place + n
      /\ script' = more /\ rc' = "ok"
      /\ UNCHANGED <<file, isOpen, position, fileOffset, buffer, spoiled, faults>>
  BY <1>1, <1>3, <1>4 DEF ReadFromBuffer, Done
<1>6. l \in Nat /\ bufferOffset \in 0 .. l
  BY <1>1
<1>7. n \in Nat /\ n <= o.n /\ bufferOffset + n <= l
  BY <1>1, <1>2, <1>6 DEF Least
<1>8. s \in Seq(Cell)
  <2>1. \A i \in bufferOffset + 1 .. bufferOffset + n : buffer[i] \in Cell
    BY <1>1, <1>6, <1>7
  <2>2. bufferOffset + 1 \in Int /\ bufferOffset + n \in Int
    BY <1>6, <1>7
  <2>3. QED
    BY <1>4, <2>1, <2>2, SubSeqProperties
<1>9. got \o s \in Seq(Cell)
  BY <1>8
<1>10. ASSUME NEW P \in {Operation, Placed}, Tail(script) \in Seq(P)
       PROVE  more \in Seq(P)
  <2>1. CASE o.n = n
    BY <1>3, <1>10, <2>1
  <2>2. CASE o.n # n
    <3>1. o.n - n \in Nat
      BY <1>2, <1>7
    <3>2. Read(o.n - n) \in Operation /\ Read(o.n - n) \in Placed
      BY <3>1 DEF Read, Operation, Placed
    <3>3. <<Read(o.n - n)>> \in Seq(P)
      BY <3>2
    <3>4. QED
      BY <1>3, <1>10, <2>2, <3>3
  <2>3. QED
    BY <2>1, <2>2
<1>11. Cell' = Cell /\ Operation' = Operation /\ Placed' = Placed
  BY <1>5 DEF Cell, Operation, Placed
<1>12. more \in Seq(Operation)
  BY <1>2, <1>10
<1>13. ReaderTypes'
  <2>1. PICK b, p : b = bufferOffset /\ p = place
    OBVIOUS
  <2>2. b \in 0 .. l /\ p \in Nat /\ b + n \in 0 .. l /\ p + n \in Nat
    BY <1>6, <1>7, <2>1
  <2>3. bufferOffset' \in 0 .. Len(buffer') /\ place' \in Nat
    BY <1>1, <1>5, <2>1, <2>2
  <2>4. QED
    BY <1>5, <1>9, <1>11, <1>12, <2>3
<1>14. NoneLost'
  <2>1. ASSUME spoiled
        PROVE  Tail(script) \in Seq(Placed)
    BY <1>5, <2>1 DEF NoneLost
  <2>2. spoiled => more \in Seq(Placed)
    BY <1>10, <2>1
  <2>3. QED
    BY <1>5, <1>11, <2>2 DEF NoneLost
<1>15. ASSUME ~spoiled'
       PROVE  Mirrored'
  <2>1. Mirrored
    BY <1>5, <1>15
  <2>2. place' = fileOffset' + bufferOffset'
    BY <1>5, <1>6, <1>7, <2>1 DEF Mirrored
  <2>3. Cells(fileOffset, Len(buffer))' = Cells(fileOffset, Len(buffer))
    BY <1>5 DEF Cells
  <2>4. QED
    BY <1>5, <2>1, <2>2, <2>3 DEF Mirrored
<1>16. QED
  BY <1>13, <1>14, <1>15

LEMMA RefilledStays ==
  ASSUME ReaderInv, ReadFromFile
  PROVE  ReaderInv'
<1> USE DEF ReaderInv, ReaderTypes
<1>1. PICK l : l = Len(buffer)
  OBVIOUS
<1>2. /\ Refill(buffer, fileOffset, position) /\ bufferOffset = l
      /\ script' = (IF rc' = "ok" THEN script ELSE <<>>)
      /\ spoiled' = (spoiled \/ rc' = "error")
      /\ UNCHANGED <<file, isOpen, got, place>>
  BY <1>1 DEF ReadFromFile, RefillNext
<1>3. l \in Nat
  BY <1>1
<1>4. /\ fileOffset' = fileOffset + Len(buffer) /\ fileOffset' \in Nat
      /\ buffer' \in Seq(Cell) /\ bufferOffset' = 0 /\ bufferOffset' \in 0 .. Len(buffer')
      /\ position' \in Nat /\ faults' \in Nat /\ rc' \in {"ok", "eof", "error"}
      /\ rc' # "error" =>
           buffer' = Cells(position, Len(buffer')) /\ position' = position + Len(buffer')
  BY <1>2, Refilling
<1>5. Cell' = Cell /\ Operation' = Operation /\ Placed' = Placed
  BY <1>2 DEF Cell, Operation, Placed
<1>6. <<>> \in Seq(Operation) /\ <<>> \in Seq(Placed)
  OBVIOUS
<1>7. ReaderTypes'
  BY <1>2, <1>4, <1>5, <1>6
<1>8. NoneLost'
  <2>1. rc' = "error" => script' = <<>>
    BY <1>2
  <2>2. CASE script' = <<>>
    BY <1>2, <1>5, <1>6, <2>2 DEF NoneLost
  <2>3. CASE script' # <<>>
    <3>1. script' = script /\ rc' = "ok" /\ spoiled' = spoiled
      BY <1>2, <2>3
    <3>2. QED
      BY <1>5, <3>1 DEF NoneLost
  <2>4. QED
    BY <2>2, <2>3
<1>9. ASSUME ~spoiled'
      PROVE  Mirrored'
  <2>1. Mirrored /\ rc' # "error"
    BY <1>2, <1>9
  <2>2. fileOffset' = position /\ place' = fileOffset' + bufferOffset'
    BY <1>1, <1>2, <1>3, <1>4, <2>1 DEF Mirrored
  <2>3. Cells(fileOffset, Len(buffer))' = Cells(position, Len(buffer'))
    BY <1>2, <2>2 DEF Cells
  <2>4. QED
    BY <1>4, <2>1, <2>2, <2>3 DEF Mirrored
<1>10. QED
  BY <1>7, <1>8, <1>9

(* Every step of the reader. *)
LEMMA FileStays ==
  ASSUME ReaderInv, FileStep
  PROVE  ReaderInv' /\ UNCHANGED <<file, isOpen>>
<1>1. UNCHANGED <<file, isOpen>>
  BY DEF FileStep, SeekInBuffer, SeekInFile, SeekFails, ReadFromBuffer, ReadFromFile, readerVars
<1>2. QED
  BY <1>1, SeekStays, SoughtStays, RefusedStays, BufferedStays, RefilledStays DEF FileStep

-----------------------------------------------------------------------------
(* What becomes of a script that reads. *)
LEMMA Operations ==
  ASSUME NEW k, NEW o, NEW n
  PROVE  /\ <<Read(k)>> # <<>> /\ Head(<<Read(k)>>) = Read(k) /\ Tail(<<Read(k)>>) = <<>>
         /\ Read(k).op = "read" /\ Read(k).n = k /\ Seek(k).op = "seek" /\ Seek(k).n = k
         /\ <<o, Read(n)>> # <<>> /\ Head(<<o, Read(n)>>) = o /\ Tail(<<o, Read(n)>>) = <<Read(n)>>
         /\ <<Read(k)>> \o <<>> = <<Read(k)>>
<1>1. /\ Read(k).op = "read" /\ Read(k).n = k /\ Seek(k).op = "seek" /\ Seek(k).n = k
  BY DEF Read, Seek
<1>2. PICK r, q : r = Read(k) /\ q = Read(n)
  OBVIOUS
<1>3. <<r>> # <<>> /\ Head(<<r>>) = r /\ Tail(<<r>>) = <<>> /\ <<r>> \o <<>> = <<r>>
  OBVIOUS
<1>4. <<o, q>> # <<>> /\ Head(<<o, q>>) = o /\ Tail(<<o, q>>) = <<q>>
  OBVIOUS
<1>5. QED
  BY <1>1, <1>2, <1>3, <1>4

LEMMA ReadGoesOn ==
  ASSUME ReaderInv, FileStep, NEW k \in Nat, script = <<Read(k)>>
  PROVE  \/ \E m \in 0 .. k :
              /\ m <= Len(buffer) - bufferOffset
              /\ got' = got \o SubSeq(buffer, bufferOffset + 1, bufferOffset + m)
              /\ Len(got') = Len(got) + m
              /\ place' = place + m /\ spoiled' = spoiled /\ rc' = "ok"
              /\ \/ m = k /\ script' = <<>>
                 \/ m # k /\ script' = <<Read(k - m)>>
         \/ /\ got' = got /\ place' = place
            /\ \/ script' = script /\ spoiled' = spoiled /\ rc' = "ok"
               \/ script' = <<>> /\ rc' # "ok"
<1>1. Head(script) = Read(k) /\ Tail(script) = <<>> /\ Read(k).op = "read" /\ Read(k).n = k
  BY Operations
<1>2. ReadFromBuffer \/ ReadFromFile
  BY <1>1 DEF FileStep, SeekInBuffer, SeekInFile, SeekFails
<1>3. CASE ReadFromFile
  <2>1. got' = got /\ place' = place /\ script' = (IF rc' = "ok" THEN script ELSE <<>>)
    BY <1>3 DEF ReadFromFile
  <2>2. ASSUME rc' = "ok"
        PROVE  spoiled' = spoiled
    <3>1. spoiled \in BOOLEAN /\ spoiled' = (spoiled \/ FALSE)
      BY <1>3, <2>2 DEF ReadFromFile, ReaderInv, ReaderTypes
    <3>2. QED
      BY <3>1
  <2>3. QED
    BY <2>1, <2>2
<1>4. CASE ReadFromBuffer
  <2>1. PICK m, s : /\ m = Least(k, Len(buffer) - bufferOffset)
                    /\ s = SubSeq(buffer, bufferOffset + 1, bufferOffset + m)
    OBVIOUS
  <2>2. /\ got' = got \o s /\ place' = place + m /\ spoiled' = spoiled /\ rc' = "ok"
        /\ script' = IF k = m THEN <<>> ELSE <<Read(k - m)>> \o <<>>
    BY <1>1, <1>4, <2>1 DEF ReadFromBuffer, Done
  <2>3. /\ Len(buffer) \in Nat /\ bufferOffset \in 0 .. Len(buffer) /\ buffer \in Seq(Cell)
        /\ got \in Seq(Cell) /\ Len(got) \in Nat
    BY DEF ReaderInv, ReaderTypes
  <2>4. m \in 0 .. k /\ m <= Len(buffer) - bufferOffset
    BY <2>1, <2>3 DEF Least
  <2>5. s \in Seq(Cell) /\ Len(s) = m
    <3>1. \A i \in bufferOffset + 1 .. bufferOffset + m : buffer[i] \in Cell
      BY <2>3, <2>4
    <3>2. bufferOffset + 1 \in Int /\ bufferOffset + m \in Int
      BY <2>3, <2>4
    <3>3. PICK i, j : i = bufferOffset + 1 /\ j = bufferOffset + m
      OBVIOUS
    <3>4. /\ s \in Seq(Cell)
          /\ Len(s) = IF i <= j THEN j - i + 1 ELSE 0
      BY <2>1, <3>1, <3>2, <3>3, SubSeqProperties
    <3>5. QED
      BY <2>3, <2>4, <3>3, <3>4
  <2>6. Len(got') = Len(got) + m
    BY <2>2, <2>3, <2>5, ConcatProperties
  <2>7. m # k => script' = <<Read(k - m)>>
    BY <2>2, Operations
  <2>8. QED
    BY <2>1, <2>2, <2>4, <2>6, <2>7
<1>5. QED
  BY <1>2, <1>3, <1>4

LEMMA SeekGoesOn ==
  ASSUME ReaderInv, FileStep, NEW o \in Operation, o.op # "read", NEW n \in Nat,
         script = <<o, Read(n)>>
  PROVE  /\ got' = got
         /\ \/ /\ script' = <<Read(n)>> /\ rc' = "ok"
               /\ o.op = "seek" => place' = o.n
            \/ script' = <<>> /\ rc' # "ok"
<1>1. Head(script) = o /\ Tail(script) = <<Read(n)>> /\ script # <<>>
  BY Operations
<1>2. SeekInBuffer \/ SeekInFile \/ SeekFails
  BY <1>1 DEF FileStep, ReadFromBuffer, ReadFromFile
<1>3. CASE SeekInBuffer
  BY <1>1, <1>3 DEF SeekInBuffer, Target, Done
<1>4. CASE SeekInFile
  BY <1>1, <1>4 DEF SeekInFile, Target
<1>5. CASE SeekFails
  BY <1>5 DEF SeekFails
<1>6. QED
  BY <1>2, <1>3, <1>4, <1>5

LEMMA FetchingGoesOn ==
  ASSUME ReaderInv, FileStep, NEW n \in Nat, Fetching(n)
  PROVE  Fetching(n)'
<1>1. script # <<>>
  BY DEF FileStep, SeekInBuffer, SeekInFile, SeekFails, ReadFromBuffer, ReadFromFile
<1>2. got \in Seq(Cell) /\ Len(got) \in Nat
  BY DEF ReaderInv, ReaderTypes
<1>3. CASE \E k \in Nat : script = <<Read(k)>> /\ Len(got) + k = n
  <2>1. PICK k \in Nat : script = <<Read(k)>> /\ Len(got) + k = n
    BY <1>3
  <2>2. CASE \E m \in 0 .. k :
               /\ Len(got') = Len(got) + m
               /\ \/ m = k /\ script' = <<>>
                  \/ m # k /\ script' = <<Read(k - m)>>
    <3>1. PICK m \in 0 .. k : /\ Len(got') = Len(got) + m
                              /\ \/ m = k /\ script' = <<>>
                                 \/ m # k /\ script' = <<Read(k - m)>>
      BY <2>2
    <3>2. CASE script' = <<>> /\ m = k
      BY <2>1, <3>1, <3>2 DEF Fetching
    <3>3. CASE m # k
      <4>1. PICK j : j = k - m
        OBVIOUS
      <4>2. j \in Nat /\ Len(got') + j = n /\ script' = <<Read(j)>>
        BY <1>2, <2>1, <3>1, <3>3, <4>1
      <4>3. QED
        BY <4>2 DEF Fetching, Read
    <3>4. QED
      BY <3>1, <3>2, <3>3
  <2>3. CASE got' = got /\ script' = script
    BY <2>1, <2>3 DEF Fetching, Read
  <2>4. CASE script' = <<>> /\ rc' # "ok"
    BY <2>4 DEF Fetching
  <2>5. QED
    BY <2>1, <2>2, <2>3, <2>4, ReadGoesOn
<1>4. CASE \E o \in Operation : o.op # "read" /\ script = <<o, Read(n)>> /\ got = <<>>
  <2>1. PICK o \in Operation : o.op # "read" /\ script = <<o, Read(n)>> /\ got = <<>>
    BY <1>4
  <2>2. CASE got' = <<>> /\ script' = <<Read(n)>>
    <3>1. PICK l : l = Len(got')
      OBVIOUS
    <3>2. l = 0
      BY <2>2, <3>1
    <3>3. l + n = n
      BY <3>2
    <3>4. QED
      BY <2>2, <3>1, <3>3 DEF Fetching, Read
  <2>3. CASE script' = <<>> /\ rc' # "ok"
    BY <2>3 DEF Fetching
  <2>4. QED
    BY <2>1, <2>2, <2>3, SeekGoesOn
<1>5. QED
  BY <1>1, <1>3, <1>4 DEF Fetching

(* Reading m more cells makes l of them. *)
ReadsOn(from, m, cells, l) ==
  /\ from \in Nat /\ got = Cells(from, Len(got)) /\ place = from + Len(got)
  /\ m \in Nat /\ m <= Len(buffer) - bufferOffset
  /\ cells = got \o SubSeq(buffer, bufferOffset + 1, bufferOffset + m) /\ l = Len(got) + m

LEMMA CellsReadOn ==
  ASSUME ReaderInv, Mirrored, NEW from, NEW m, NEW cells, NEW t, ReadsOn(from, m, cells, t)
  PROVE  cells = Cells(from, t)
<1> USE DEF ReadsOn
<1>1. /\ got \in Seq(Cell) /\ Len(got) \in Nat /\ Len(buffer) \in Nat /\ buffer \in Seq(Cell)
      /\ bufferOffset \in 0 .. Len(buffer) /\ fileOffset \in Nat /\ file \in Seq(Cell)
  BY DEF ReaderInv, ReaderTypes
<1>2. PICK l, s, b, i, j : /\ l = Len(got) /\ b = Len(buffer)
                           /\ i = bufferOffset + 1 /\ j = bufferOffset + m
                           /\ s = SubSeq(buffer, i, j)
  OBVIOUS
<1>3. PICK f : f = from + l
  OBVIOUS
<1>4. t = l + m
  BY <1>2
<1>5. /\ buffer = Cells(fileOffset, b) /\ fileOffset + bufferOffset = f
      /\ j <= b /\ b \in Nat /\ l \in Nat
  <2>1. buffer = Cells(fileOffset, b)
    BY <1>2 DEF Mirrored
  <2>2. fileOffset + bufferOffset = f
    BY <1>2, <1>3 DEF Mirrored
  <2>3. QED
    BY <1>1, <1>2, <2>1, <2>2
<1>6. CASE m = 0
  <2>1. i \in Int /\ j \in Int /\ j < i
    BY <1>1, <1>2, <1>6
  <2>2. s = <<>>
    BY <1>2, <2>1, SubSeqEmpty
  <2>3. got \o s = got
    BY <1>1, <2>2
  <2>4. t = l
    BY <1>3, <1>4, <1>5, <1>6
  <2>5. QED
    BY <1>2, <2>2, <2>3, <2>4
<1>7. CASE m # 0
  <2>1. fileOffset + b <= Len(file)
    <3>1. Len(Cells(fileOffset, b)) = b
      BY <1>2, <1>5
    <3>2. PICK o : o = bufferOffset
      OBVIOUS
    <3>3. o \in Nat /\ o + m <= b /\ m \in Nat
      BY <1>1, <1>2, <1>5, <3>2
    <3>4. b > 0
      BY ONLY <1>5, <1>7, <3>3
    <3>5. QED
      BY <1>5, <1>1, <3>1, <3>4, CellsProperties
  <2>2. s = Cells(f, m)
    <3>1. bufferOffset \in Nat /\ bufferOffset + m <= b /\ f = fileOffset + bufferOffset
      BY <1>5, <1>1, <1>2
    <3>2. PICK k, g : k = bufferOffset /\ g = fileOffset
      OBVIOUS
    <3>3. Inner(g, b, k, m, i, j, f)
      BY <1>1, <1>2, <1>5, <2>1, <3>1, <3>2 DEF Inner
    <3>4. SubSeq(Cells(g, b), i, j) = Cells(f, m)
      BY ONLY <3>3, CellsOfCells
    <3>5. QED
      BY <1>2, <1>5, <3>2, <3>4
  <2>3. Adjacent(from, l, m, f, t)
    <3>1. bufferOffset \in Nat /\ bufferOffset + m <= b /\ f = fileOffset + bufferOffset
      BY <1>5, <1>1, <1>2
    <3>2. PICK e : e = Len(file)
      OBVIOUS
    <3>3. e \in Nat /\ fileOffset + b <= e /\ from \in Nat /\ m \in Nat /\ f = from + l
      BY <1>1, <1>3, <2>1, <3>2
    <3>4. from + l + m <= e
      BY ONLY <1>1, <1>5, <3>1, <3>3
    <3>5. QED
      BY <1>1, <1>3, <1>4, <1>5, <3>2, <3>3, <3>4 DEF Adjacent
  <2>4. Cells(from, l) \o Cells(f, m) = Cells(from, t)
    BY ONLY <2>3, CellsJoined
  <2>5. QED
    BY <1>2, <1>3, <2>2, <2>4
<1>8. QED
  BY <1>6, <1>7

LEMMA CopyingGoesOn ==
  ASSUME ReaderInv, FileStep, NEW from \in Nat, NEW n \in Nat, Copying(from, n)
  PROVE  Copying(from, n)'
<1>1. script # <<>>
  BY DEF FileStep, SeekInBuffer, SeekInFile, SeekFails, ReadFromBuffer, ReadFromFile
<1>2. /\ got \in Seq(Cell) /\ Len(got) \in Nat /\ file \in Seq(Cell)
      /\ Len(buffer) \in Nat /\ bufferOffset \in 0 .. Len(buffer)
  BY DEF ReaderInv, ReaderTypes
<1>3. ASSUME NEW i \in Nat
      PROVE  Cells(from, i)' = Cells(from, i)
  BY FileStays DEF Cells
<1>4. CASE script' = <<>> /\ rc' # "ok"
  BY <1>4 DEF Copying
<1>5. CASE /\ \E k \in Nat : script = <<Read(k)>> /\ Len(got) + k = n
           /\ ~spoiled => place = from + Len(got) /\ got = Cells(from, Len(got))
  <2>1. PICK k \in Nat : script = <<Read(k)>> /\ Len(got) + k = n
    BY <1>5
  <2>2. CASE \E m \in 0 .. k :
              /\ m <= Len(buffer) - bufferOffset
              /\ got' = got \o SubSeq(buffer, bufferOffset + 1, bufferOffset + m)
              /\ Len(got') = Len(got) + m
              /\ place' = place + m /\ spoiled' = spoiled /\ rc' = "ok"
              /\ \/ m = k /\ script' = <<>>
                 \/ m # k /\ script' = <<Read(k - m)>>
    <3>1. PICK m \in 0 .. k :
              /\ m <= Len(buffer) - bufferOffset
              /\ got' = got \o SubSeq(buffer, bufferOffset + 1, bufferOffset + m)
              /\ Len(got') = Len(got) + m
              /\ place' = place + m /\ spoiled' = spoiled /\ rc' = "ok"
              /\ \/ m = k /\ script' = <<>>
                 \/ m # k /\ script' = <<Read(k - m)>>
      BY <2>2
    <3>2. PICK l : l = Len(got')
      OBVIOUS
    <3>3. l \in Nat /\ l = Len(got) + m
      BY <1>2, <3>1, <3>2
    <3>4. ~spoiled' => got' = Cells(from, l)' /\ place' = from + l
      <4>1. SUFFICES ASSUME ~spoiled'
                     PROVE  got' = Cells(from, l)' /\ place' = from + l
        OBVIOUS
      <4>2. place = from + Len(got) /\ got = Cells(from, Len(got)) /\ Mirrored
        BY <1>5, <3>1, <4>1 DEF ReaderInv
      <4>3. got' = Cells(from, l)
        <5>1. ReadsOn(from, m, got', l)
          BY <3>1, <3>3, <4>2 DEF ReadsOn
        <5>2. QED
          BY <4>2, <5>1, CellsReadOn
      <4>4. place' = from + l
        BY <1>2, <3>1, <3>3, <4>2
      <4>5. QED
        BY <1>3, <3>3, <4>3, <4>4
    <3>5. CASE m = k /\ script' = <<>>
      <4>1. l = n
        BY <2>1, <3>3, <3>5
      <4>2. QED
        BY <3>4, <3>5, <4>1 DEF Copying
    <3>6. CASE m # k /\ script' = <<Read(k - m)>>
      <4>1. PICK j : j = k - m
        OBVIOUS
      <4>2. j \in Nat /\ l + j = n /\ script' = <<Read(j)>>
        <5>1. script' = <<Read(j)>>
          BY <3>6, <4>1
        <5>2. PICK g : g = Len(got)
          OBVIOUS
        <5>3. g \in Nat /\ g + k = n /\ l = g + m
          BY <1>2, <2>1, <3>3, <5>2
        <5>4. j \in Nat /\ l + j = n
          BY ONLY k \in Nat, m \in 0 .. k, <4>1, <5>3
        <5>5. QED
          BY <5>1, <5>4
      <4>3. /\ \E i \in Nat : script' = <<Read(i)>> /\ Len(got') + i = n
            /\ ~spoiled' => place' = from + Len(got') /\ got' = Cells(from, Len(got))'
        BY <3>2, <3>4, <4>2
      <4>4. QED
        BY <4>3 DEF Copying, Read
    <3>7. QED
      BY <3>1, <3>5, <3>6
  <2>3. CASE got' = got /\ place' = place /\ script' = script /\ spoiled' = spoiled
    <3>1. Cells(from, Len(got))' = Cells(from, Len(got))
      BY <2>3, FileStays DEF Cells
    <3>2. QED
      BY <1>5, <2>1, <2>3, <3>1 DEF Copying, Read
  <2>4. QED
    BY <1>4, <2>1, <2>2, <2>3, ReadGoesOn
<1>6. CASE script = <<Seek(from), Read(n)>> /\ got = <<>>
  <2>1. Seek(from) \in Operation /\ Seek(from).op = "seek" /\ Seek(from).n = from
    BY DEF Seek, Operation
  <2>2. CASE got' = <<>> /\ script' = <<Read(n)>> /\ place' = from
    <3>1. PICK l : l = Len(got')
      OBVIOUS
    <3>2. l = 0 /\ l + n = n /\ from = from + l
      BY <2>2, <3>1
    <3>3. Cells(from, l) = <<>>
      BY <1>2, <3>2, NoCells
    <3>4. Cells(from, l)' = <<>>
      BY <1>3, <3>2, <3>3
    <3>5. /\ \E i \in Nat : script' = <<Read(i)>> /\ Len(got') + i = n
          /\ ~spoiled' => place' = from + Len(got') /\ got' = Cells(from, Len(got))'
      BY <2>2, <3>1, <3>2, <3>4
    <3>6. QED
      BY <3>5 DEF Copying, Read
  <2>3. QED
    BY <1>4, <1>6, <2>1, <2>2, SeekGoesOn
<1>7. QED
  BY <1>1, <1>5, <1>6 DEF Copying

-----------------------------------------------------------------------------
(* The numbers that a cell of a file holds. *)
LEMMA Numbers ==
  ASSUME Formats, NEW c \in Cell
  PROVE  (format = "elf" => ElfNumbers(c)) /\ (format = "pe" => PENumbers(c))
<1>1. CASE c \in Range(file)
  <2>1. PICK i \in DOMAIN file : c = file[i]
    BY <1>1 DEF Range
  <2>2. CASE format = "elf"
    BY <2>1, <2>2, FilesAssumption DEF Formats
  <2>3. CASE format = "pe"
    BY <2>1, <2>3, FilesAssumption DEF Formats
  <2>4. QED
    BY <2>2, <2>3
<1>2. CASE c = Zero
  BY <1>2 DEF Zero, ElfNumbers, PENumbers
<1>3. QED
  BY <1>1, <1>2 DEF Cell

LEMMA FirstCell ==
  ASSUME ReaderInv, got # <<>>
  PROVE  got[1] \in Cell
BY DEF ReaderInv, ReaderTypes

(* The cells that were asked for are there. *)
LEMMA Fetched ==
  ASSUME ReaderInv, NEW n \in Nat, n > 0, Fetching(n), Answered, rc = "ok"
  PROVE  got[1] \in Cell /\ got[n] \in Cell
<1>1. Len(got) = n
  <2>1. script = <<>>
    BY DEF Answered
  <2>2. \A k \in Nat : <<Read(k)>> # <<>>
    BY Operations
  <2>3. \A o \in Operation : <<o, Read(n)>> # <<>>
    BY Operations
  <2>4. QED
    BY <2>1, <2>2, <2>3 DEF Fetching
<1>2. QED
  BY <1>1 DEF ReaderInv, ReaderTypes

(* What the reader asks for is a script. *)
LEMMA Scripts ==
  /\ Placed \subseteq Operation
  /\ \A a \in Seq(Placed) : a \in Seq(Operation)
  /\ \A n \in Nat : Read(n) \in Placed /\ Seek(n) \in Placed /\ Skip(n) \in Operation
  /\ \A n \in Nat : <<Read(n)>> \in Seq(Placed) /\ <<Seek(n)>> \in Seq(Placed)
  /\ \A n \in Nat : <<Skip(n)>> \in Seq(Operation)
  /\ \A m, n \in Nat : <<Seek(m), Read(n)>> \in Seq(Placed)
<1>1. Placed \subseteq Operation
  BY DEF Placed, Operation
<1>2. \A a \in Seq(Placed) : a \in Seq(Operation)
  BY <1>1
<1>3. \A n \in Nat : Read(n) \in Placed /\ Seek(n) \in Placed /\ Skip(n) \in Operation
  BY DEF Read, Seek, Skip, Placed, Operation
<1>4. QED
  BY <1>1, <1>2, <1>3

(* A script is handed to the file reader. *)
LEMMA AskedStays ==
  ASSUME ReaderInv, NEW ops \in Seq(Operation), Ask(ops),
         UNCHANGED <<file, readerVars, place, spoiled, faults>>,
         spoiled => ops \in Seq(Placed)
  PROVE  ReaderInv'
<1> USE DEF ReaderInv
<1>1. UNCHANGED <<file, isOpen, position, fileOffset, buffer, bufferOffset, place, spoiled, faults>>
  BY DEF readerVars
<1>2. script' = ops /\ got' = <<>> /\ rc' = "ok"
  BY DEF Ask
<1>3. ReaderTypes'
  <2>1. Cell' = Cell
    BY <1>1 DEF Cell
  <2>2. got' \in Seq(Cell)
    BY <1>2
  <2>3. QED
    BY <1>1, <1>2, <2>1, <2>2 DEF ReaderTypes
<1>4. NoneLost'
  BY <1>1, <1>2 DEF NoneLost
<1>5. ~spoiled' => Mirrored'
  BY <1>1 DEF Mirrored, Cells
<1>6. QED
  BY <1>3, <1>4, <1>5

(* The file is closed, or the system keeps it open, with all that was read. *)
LEMMA ClosedStays ==
  ASSUME ReaderInv, CloseFile, UNCHANGED <<file, scriptVars>>
  PROVE  ReaderInv'
<1>1. UNCHANGED <<file, script, got, rc>> /\ Cell' = Cell
  BY DEF scriptVars, Cell
<1>2. CASE /\ isOpen' = FALSE /\ position' = 0 /\ fileOffset' = 0 /\ buffer' = <<>>
           /\ bufferOffset' = 0 /\ spoiled' = FALSE /\ place' = 0 /\ faults' = faults
  <2>1. PICK l : l = Len(buffer')
    OBVIOUS
  <2>2. l = 0
    BY <1>2, <2>1
  <2>3. bufferOffset' \in 0 .. Len(buffer')
    BY <1>2, <2>1, <2>2
  <2>4. buffer' \in Seq(Cell)
    BY <1>2
  <2>5. ReaderTypes'
    BY <1>1, <1>2, <2>3, <2>4 DEF ReaderInv, ReaderTypes
  <2>6. NoneLost'
    BY <1>1, <1>2 DEF ReaderInv, NoneLost
  <2>7. Mirrored'
    <3>1. file' \in Seq(Cell) /\ Cells(0, l) = <<>>
      BY <1>1, <2>2, NoCells DEF ReaderInv, ReaderTypes
    <3>2. Cells(fileOffset, Len(buffer))' = <<>>
      BY <1>1, <1>2, <2>1, <2>2, <3>1 DEF Cells
    <3>3. position' = fileOffset' + Len(buffer') /\ place' = fileOffset' + bufferOffset'
      BY <1>2, <2>1, <2>2
    <3>4. QED
      BY <1>2, <3>2, <3>3 DEF Mirrored
  <2>8. QED
    BY <2>5, <2>6, <2>7 DEF ReaderInv
<1>3. CASE faults' = faults + 1 /\ UNCHANGED <<readerVars, spoiled, place>>
  <2>1. UNCHANGED <<isOpen, position, fileOffset, buffer, bufferOffset, spoiled, place>>
    BY <1>3 DEF readerVars
  <2>2. ReaderTypes'
    BY <1>1, <1>3, <2>1 DEF ReaderInv, ReaderTypes, Operation, Placed
  <2>3. NoneLost'
    BY <1>1, <2>1 DEF ReaderInv, NoneLost
  <2>4. ~spoiled' => Mirrored'
    BY <1>1, <2>1 DEF ReaderInv, Mirrored, Cells
  <2>5. QED
    BY <2>2, <2>3, <2>4 DEF ReaderInv
<1>4. QED
  BY <1>2, <1>3 DEF CloseFile

LEMMA OpenedStays ==
  ASSUME ReaderInv, OpenFile
  PROVE  /\ ReaderInv' /\ isOpen' /\ UNCHANGED <<file, script>>
         /\ rc' = "ok" => ~spoiled'
<1>1. /\ isOpen' = TRUE /\ got' = <<>> /\ place' = 0
      /\ spoiled' = (rc' = "error") /\ UNCHANGED <<file, script>>
      /\ script = <<>> /\ (Refill(<<>>, 0, 0) \/ NotOpened)
  BY DEF OpenFile, Answered
<1>2. file \in Seq(Cell) /\ faults \in Nat /\ Cell' = Cell
  BY <1>1 DEF ReaderInv, ReaderTypes, Cell
<1>3. PICK old : old = <<>>
  OBVIOUS
<1>4. PICK z : z = 0
  OBVIOUS
<1>5. old \in Seq(Cell) /\ z \in Nat /\ z + Len(old) = z
  <2>1. PICK l : l = Len(old)
    OBVIOUS
  <2>2. l = 0
    BY <1>3, <2>1
  <2>3. QED
    BY <1>3, <1>4, <2>1, <2>2
<1>6. /\ fileOffset' \in Nat
      /\ buffer' \in Seq(Cell) /\ bufferOffset' = 0 /\ bufferOffset' \in 0 .. Len(buffer')
      /\ position' \in Nat /\ faults' \in Nat /\ rc' \in {"ok", "eof", "error"}
      /\ rc' # "error" =>
           /\ fileOffset' = z
           /\ buffer' = Cells(z, Len(buffer'))
           /\ position' = z + Len(buffer')
  <2>1. CASE Refill(old, z, z)
    BY <1>2, <1>5, <2>1, Refilling
  <2>2. CASE NotOpened
    <3>1. /\ faults' \in Nat /\ fileOffset' = 0 /\ bufferOffset' = 0 /\ position' = 0
          /\ rc' = "error" /\ buffer' = <<>>
      BY <1>2, <2>2 DEF NotOpened
    <3>2. buffer' \in Seq(Cell) /\ Len(buffer') \in Nat
      BY <3>1
    <3>3. QED
      BY <3>1, <3>2
  <2>3. QED
    BY <1>1, <1>3, <1>4, <2>1, <2>2
<1>7. ReaderTypes'
  BY <1>1, <1>2, <1>6 DEF ReaderInv, ReaderTypes
<1>8. NoneLost'
  BY <1>1 DEF NoneLost
<1>9. ~spoiled' => Mirrored'
  <2>1. SUFFICES ASSUME ~spoiled'
                 PROVE  Mirrored'
    OBVIOUS
  <2>2. rc' # "error" /\ fileOffset' = z
    BY <1>1, <1>6, <2>1
  <2>3. buffer' = Cells(fileOffset', Len(buffer')) /\ position' = fileOffset' + Len(buffer')
    BY <1>6, <2>2
  <2>4. buffer' = Cells(fileOffset, Len(buffer))'
    BY <1>1, <2>3 DEF Cells
  <2>5. place' = fileOffset' + bufferOffset'
    BY <1>1, <1>4, <1>6, <2>2
  <2>6. QED
    BY <2>3, <2>4, <2>5 DEF Mirrored
<1>10. QED
  BY <1>1, <1>7, <1>8, <1>9 DEF ReaderInv

-----------------------------------------------------------------------------
(* The places of the readers are what they are named. *)
LEMMA Places ==
  /\ ElfPlaces \cap PEPlaces = {} /\ (ElfPlaces \cup PEPlaces) \cap Calls = {}
  /\ ElfPlaces \cup PEPlaces \subseteq Opened \ Calls
  /\ "opened" \in Opened \ Calls /\ "opened" \notin ElfPlaces \cup PEPlaces
  /\ ElfPoints \subseteq ElfPlaces /\ PEPoints \subseteq PEPlaces
  /\ {"new", "failed", "closed"} \cap Opened = {}
BY DEF ElfPlaces, PEPlaces, ElfPoints, PEPoints, PELoop, Calls, Opened

(* Before the sections are asked for, none is wanted, and what is known of
   them stays true. *)
LEMMA ContentsKept ==
  ASSUME ImageInv, pc \in (Opened \ Calls) \cup {"new"}, pc' \notin {"sections", "contents"},
         UNCHANGED <<file, sections, wanted, returned>>
  PROVE  Contents'
<1>1. wanted' = {}
  BY DEF ImageInv, Contents
<1>2. Entry' = Entry /\ \A s : Right(s)' = Right(s)
  BY DEF Entry, Cell, Right, Cells
<1>3. /\ \A n \in DOMAIN sections : sections[n] \in Entry /\ (sections[n].data # NotRead => Right(sections[n]))
      /\ \A n \in DOMAIN returned : returned[n] \in Entry /\ Right(returned[n])
  BY DEF ImageInv, Contents
<1>4. /\ \A n \in DOMAIN sections' :
           sections'[n] \in Entry' /\ (sections'[n].data # NotRead => Right(sections[n])')
      /\ \A n \in DOMAIN returned' : returned'[n] \in Entry' /\ Right(returned[n])'
  BY <1>2, <1>3 DEF Right, Cells
<1>5. QED
  BY <1>1, <1>4 DEF Contents

(* The reader of an image asks for the next cells. *)
Wanting(ops, next) ==
  /\ \/ next \in ElfPlaces /\ format = "elf" /\ ops \in Seq(Placed)
     \/ next \in PEPlaces /\ format = "pe" /\ ops \in Seq(Operation) /\ ~spoiled
  /\ next \in OneCell =>
       ops = <<Read(1)>> \/ \E o \in Operation : o.op # "read" /\ ops = <<o, Read(1)>>
  /\ next = "elf header" => ops = <<Seek(0), Read(2)>>

LEMMA AskedFor ==
  ASSUME ImageInv, NEW ops, NEW next, pc \in Opened \ Calls, AskFor(ops, next), Wanting(ops, next),
         UNCHANGED format
  PROVE  ReaderInv' /\ Formats' /\ Fetches' /\ pc' = next /\ UNCHANGED <<file, wanted, returned>>
<1>1. /\ script' = ops /\ got' = <<>> /\ rc' = "ok" /\ pc' = next
      /\ UNCHANGED <<file, isOpen, spoiled, wanted, returned>>
  BY DEF AskFor, Ask, callVars, readerVars
<1>2. ReaderInv'
  <2>1. ops \in Seq(Operation) /\ (spoiled => ops \in Seq(Placed))
    BY Scripts DEF Wanting
  <2>2. Ask(ops) /\ UNCHANGED <<file, readerVars, place, spoiled, faults>>
    BY DEF AskFor
  <2>3. QED
    BY <2>1, <2>2, AskedStays DEF ImageInv
<1>3. Formats'
  <2>1. isOpen' /\ format' \in {"elf", "pe"} /\ file' \in IF format' = "elf" THEN ElfFiles ELSE PEFiles
    BY <1>1 DEF ImageInv, Formats
  <2>2. next \in Opened /\ (next \in ElfPlaces => format' = "elf") /\ (next \in PEPlaces => format' = "pe")
    BY Places DEF Wanting
  <2>3. QED
    BY <1>1, <2>1, <2>2 DEF Formats
<1>4. Fetches'
  <2>1. PICK l : l = Len(got')
    OBVIOUS
  <2>2. l = 0
    BY <1>1, <2>1
  <2>3. ASSUME NEW n \in Nat, \/ script' = <<Read(n)>>
                              \/ \E o \in Operation : o.op # "read" /\ script' = <<o, Read(n)>>
        PROVE  Fetching(n)'
    <3>1. Len(got') + n = n
      BY <2>1, <2>2
    <3>2. QED
      BY <1>1, <2>3, <3>1 DEF Fetching, Read
  <2>4. next \in OneCell => Fetching(1)'
    BY <1>1, <2>3 DEF Wanting
  <2>5. next = "elf header" => Fetching(2)'
    <3>1. Seek(0) \in Operation /\ Seek(0).op # "read"
      BY DEF Seek, Operation
    <3>2. QED
      BY <1>1, <2>3, <3>1 DEF Wanting
  <2>6. (next \in PEPlaces => ~spoiled') /\ next # "opened"
    BY <1>1, Places DEF Wanting
  <2>7. QED
    BY <1>1, <2>4, <2>5, <2>6 DEF Fetches
<1>5. QED
  BY <1>1, <1>2, <1>3, <1>4

(* It asks for them and knows no more of the sections. *)
LEMMA AskedOn ==
  ASSUME ImageInv, NEW ops, NEW next, pc \in Opened \ Calls, AskFor(ops, next), Wanting(ops, next),
         UNCHANGED <<format, sections>>, HeadersRead'
  PROVE  ImageInv'
<1>1. ReaderInv' /\ Formats' /\ Fetches' /\ pc' = next /\ UNCHANGED <<file, wanted, returned>>
  BY AskedFor
<1>2. next \notin {"sections", "contents"}
  BY Places DEF Wanting, Calls
<1>3. Contents'
  BY <1>1, <1>2, ContentsKept
<1>4. QED
  BY <1>1, <1>3 DEF ImageInv

(* It gives up. *)
LEMMA GivenUp ==
  ASSUME ImageInv, NEW why, pc \in Opened \ Calls, GiveUp(why), UNCHANGED format
  PROVE  ImageInv'
<1>1. /\ pc' = "failed" /\ CloseFile /\ UNCHANGED <<file, scriptVars>>
      /\ UNCHANGED <<index, sections, wanted, returned>>
  BY DEF GiveUp, imageVars, callVars
<1>2. ReaderInv'
  BY <1>1, ClosedStays DEF ImageInv
<1>3. pc' \notin Opened /\ pc' \notin ElfPlaces /\ pc' \notin PEPlaces
  BY <1>1, Places
<1>4. Formats'
  BY <1>1, <1>3 DEF ImageInv, Formats
<1>5. Fetches'
  BY <1>1, <1>3 DEF Fetches, OneCell
<1>6. HeadersRead'
  BY <1>1, <1>3 DEF ImageInv, HeadersRead
<1>7. Contents'
  BY <1>1, ContentsKept
<1>8. QED
  BY <1>2, <1>4, <1>5, <1>6, <1>7 DEF ImageInv

-----------------------------------------------------------------------------
(* The reader of ELF images. *)
LEMMA ElfHeaderNumbers ==
  ASSUME Formats, format = "elf", NEW c \in Cell
  PROVE  ElfHeader(c).shoff \in Nat /\ ElfHeader(c).shnum \in Nat /\ ElfHeader(c).shstrndx \in Nat
<1>1. c.kind = "header" => c.shoff \in Nat /\ c.shnum \in Nat /\ c.shstrndx \in Nat
  BY Numbers DEF ElfNumbers
<1>2. QED
  BY <1>1 DEF ElfHeader, As

LEMMA SectionNumbers ==
  ASSUME Formats, NEW c \in Cell
  PROVE  AsSection(c).offset \in Nat /\ AsSection(c).size \in Nat
<1>1. c.kind = "section" => c.offset \in Nat /\ c.size \in Nat
  BY Numbers DEF ElfNumbers, PENumbers, Formats
<1>2. QED
  BY <1>1 DEF AsSection, As, NoSection

LEMMA AtHandNumbers ==
  ASSUME Formats, ReaderInv
  PROVE  AtHand.offset \in Nat /\ AtHand.size \in Nat
<1>1. CASE got = <<>>
  BY <1>1 DEF AtHand, NoSection
<1>2. CASE got # <<>>
  <2>1. got[1] \in Cell
    BY <1>2, FirstCell
  <2>2. AsSection(got[1]).offset \in Nat /\ AsSection(got[1]).size \in Nat
    BY <2>1, SectionNumbers
  <2>3. QED
    BY <1>2, <2>2 DEF AtHand
<1>3. QED
  BY <1>1, <1>2

LEMMA SectionHeaderWanted ==
  ASSUME NEW h, h.shoff \in Nat, h.shstrndx \in Nat, format = "elf"
  PROVE  Wanting(SectionHeader(h, h.shstrndx), "elf names header")
<1>1. PICK n : n = h.shoff + h.shstrndx
  OBVIOUS
<1>2. n \in Nat /\ SectionHeader(h, h.shstrndx) = <<Seek(n), Read(1)>>
  BY <1>1 DEF SectionHeader
<1>3. Seek(n) \in Operation /\ Seek(n).op # "read" /\ <<Seek(n), Read(1)>> \in Seq(Placed)
  BY <1>2, Scripts DEF Seek, Operation
<1>4. "elf names header" \in ElfPlaces
  BY DEF ElfPlaces, ElfPoints
<1>5. QED
  BY <1>2, <1>3, <1>4 DEF Wanting

LEMMA DumpWanted ==
  ASSUME NEW h, h.shoff \in Nat, h.shnum \in Nat, format = "elf"
  PROVE  Wanting(<<Seek(h.shoff + 1)>> \o [i \in 1 .. h.shnum - 1 |-> Read(1)], "elf dump")
<1>1. PICK n, m, d : /\ n = h.shoff + 1 /\ m = IF h.shnum = 0 THEN 0 ELSE h.shnum - 1
                     /\ d = [i \in 1 .. h.shnum - 1 |-> Read(1)]
  OBVIOUS
<1>2. n \in Nat /\ m \in Nat /\ 1 .. h.shnum - 1 = 1 .. m
  BY <1>1
<1>3. <<Seek(n)>> \in Seq(Placed) /\ Read(1) \in Placed
  BY <1>2, Scripts
<1>4. d = [i \in 1 .. m |-> Read(1)]
  BY <1>1, <1>2
<1>5. d \in Seq(Placed)
  BY <1>2, <1>3, <1>4
<1>6. <<Seek(n)>> \o d \in Seq(Placed)
  BY <1>3, <1>5, ConcatProperties
<1>7. "elf dump" \in ElfPlaces /\ "elf dump" \notin OneCell
  BY DEF ElfPlaces, ElfPoints, OneCell
<1>8. QED
  BY <1>1, <1>6, <1>7 DEF Wanting

LEMMA FirstHeaderScript ==
  ASSUME header.shoff \in Nat
  PROVE  FirstHeader \in Seq(Placed)
<1>1. PICK n, r : n = header.shoff + 1 /\ r = IF header.shnum > 1 THEN <<Read(1)>> ELSE <<>>
  OBVIOUS
<1>2. n \in Nat
  BY <1>1
<1>3. r \in Seq(Placed)
  BY <1>1, Scripts
<1>4. <<Seek(n)>> \o r \in Seq(Placed)
  BY <1>2, <1>3, Scripts, ConcatProperties
<1>5. QED
  BY <1>1, <1>4 DEF FirstHeader

(* The first section header, another one, and what a section has in it. *)
LEMMA ElfWanted ==
  ASSUME format = "elf", NEW next \in {"elf names", "elf map", "elf strtab", "elf strings", "elf symtab",
                                       "elf symbols"}
  PROVE  /\ header.shoff \in Nat => Wanting(FirstHeader, next)
         /\ Wanting(<<Read(1)>>, next)
         /\ \A m, n \in Nat : Wanting(<<Seek(m), Read(n)>>, next)
<1>1. next \in ElfPlaces /\ next \notin OneCell /\ next # "elf header"
  BY DEF ElfPlaces, ElfPoints, OneCell
<1>2. header.shoff \in Nat => FirstHeader \in Seq(Placed)
  BY FirstHeaderScript
<1>3. QED
  BY <1>1, <1>2, Scripts DEF Wanting

LEMMA NextIndex ==
  ASSUME index \in Nat, index' = index + 1
  PROVE  index' \in Nat
OBVIOUS

(* Once the header is read it stays. *)
LEMMA ElfHeaderKept ==
  ASSUME ImageInv, pc' \in ElfPlaces, pc \in ElfPlaces \ {"elf ident", "elf header"},
         header' = header, index' \in Nat
  PROVE  HeadersRead'
<1>1. header.shoff \in Nat /\ header.shnum \in Nat /\ header.shstrndx \in Nat
  BY DEF ImageInv, HeadersRead
<1>2. pc' \notin PEPlaces /\ pc' \notin {"pe file", "pe length"}
  BY Places DEF PEPlaces, PELoop
<1>3. QED
  BY <1>1, <1>2 DEF HeadersRead

LEMMA ElfBegins ==
  ASSUME ImageInv, Aside, format = "elf", VerifyHeader \/ CheckIdent
  PROVE  ImageInv'
<1>1. UNCHANGED format
  BY DEF Aside
<1>2. index \in Nat
  BY DEF ImageInv, HeadersRead
<1>3. CASE VerifyHeader
  <2>1. pc \in Opened \ Calls /\ AskFor(<<Read(1)>>, "elf ident") /\ UNCHANGED imageVars
    BY <1>3, Places DEF VerifyHeader
  <2>2. Wanting(<<Read(1)>>, "elf ident")
    BY Scripts DEF Wanting, ElfPlaces, ElfPoints
  <2>3. HeadersRead'
    BY <1>2, <2>1 DEF HeadersRead, AskFor, imageVars, PEPlaces, PEPoints, PELoop
  <2>4. QED
    BY <1>1, <2>1, <2>2, <2>3, AskedOn DEF imageVars
<1>4. CASE CheckIdent
  <2>1. pc = "elf ident" /\ pc \in Opened \ Calls
    BY <1>4 DEF CheckIdent, Have, Opened, Calls, ElfPlaces, ElfPoints
  <2>2. CASE GiveUp(IdentFlaw(Ident(got[1])))
    BY <1>1, <2>1, <2>2, GivenUp
  <2>3. CASE AskFor(<<Seek(0), Read(2)>>, "elf header") /\ UNCHANGED imageVars
    <3>1. Wanting(<<Seek(0), Read(2)>>, "elf header")
      BY Scripts DEF Wanting, ElfPlaces, ElfPoints, OneCell
    <3>2. HeadersRead'
      BY <1>2, <2>3 DEF HeadersRead, AskFor, imageVars, PEPlaces, PEPoints, PELoop
    <3>3. QED
      BY <1>1, <2>1, <2>3, <3>1, <3>2, AskedOn DEF imageVars
  <2>4. QED
    BY <1>4, <2>2, <2>3 DEF CheckIdent
<1>5. QED
  BY <1>3, <1>4

LEMMA ElfHeaderRead ==
  ASSUME ImageInv, Aside, format = "elf", CheckHeader
  PROVE  ImageInv'
<1>1. UNCHANGED format /\ Formats /\ ReaderInv
  BY DEF Aside, ImageInv
<1>2. pc = "elf header" /\ pc \in Opened \ Calls /\ script = <<>> /\ rc = "ok"
  BY DEF CheckHeader, Have, Answered, Opened, Calls, ElfPlaces, ElfPoints
<1>3. PICK h : h = ElfHeader(got[2])
  OBVIOUS
<1>4. h.shoff \in Nat /\ h.shnum \in Nat /\ h.shstrndx \in Nat
  <2>1. Fetching(2) /\ Answered
    BY <1>2 DEF ImageInv, Fetches, Answered
  <2>2. PICK n : n = 2
    OBVIOUS
  <2>3. n \in Nat /\ n > 0 /\ Fetching(n)
    BY <2>1, <2>2
  <2>4. got[n] \in Cell
    BY <1>1, <1>2, <2>1, <2>3, Fetched
  <2>5. QED
    BY <1>1, <1>3, <2>2, <2>4, ElfHeaderNumbers
<1>5. CASE GiveUp(HeaderFlaw(h))
  BY <1>1, <1>2, <1>5, GivenUp
<1>6. CASE /\ header' = h /\ UNCHANGED <<index, sections>>
           /\ \/ AskFor(<<Seek(h.shoff + 1)>> \o [i \in 1 .. h.shnum - 1 |-> Read(1)], "elf dump")
              \/ AskFor(SectionHeader(h, h.shstrndx), "elf names header")
  <2>1. PICK ops, next :
          /\ AskFor(ops, next) /\ Wanting(ops, next) /\ next \in {"elf dump", "elf names header"}
    BY <1>4, <1>6, DumpWanted, SectionHeaderWanted
  <2>2. HeadersRead'
    <3>1. pc' = next /\ index' \in Nat
      BY <1>6, <2>1 DEF AskFor, ImageInv, HeadersRead
    <3>2. QED
      BY <1>4, <1>6, <2>1, <3>1 DEF HeadersRead, PEPlaces, PEPoints, PELoop
  <2>3. QED
    BY <1>1, <1>2, <1>6, <2>1, <2>2, AskedOn
<1>7. QED
  BY <1>3, <1>5, <1>6 DEF CheckHeader

LEMMA ElfNamesRead ==
  ASSUME ImageInv, Aside, format = "elf", Dumped \/ GetNames \/ HaveNames
  PROVE  ImageInv'
<1>1. UNCHANGED format /\ Formats /\ ReaderInv /\ index \in Nat
  BY DEF Aside, ImageInv, HeadersRead
<1>2. /\ pc \in ElfPlaces \ {"elf ident", "elf header"} /\ pc \in Opened \ Calls
      /\ header.shoff \in Nat /\ header.shnum \in Nat /\ header.shstrndx \in Nat
  <2>1. pc \in {"elf dump", "elf names header", "elf names"}
    BY DEF Dumped, GetNames, HaveNames, Have
  <2>2. pc \in ElfPlaces \ {"elf ident", "elf header"}
    BY <2>1 DEF ElfPlaces, ElfPoints
  <2>3. QED
    BY <2>2, Places DEF ImageInv, HeadersRead
<1>3. CASE Dumped
  <2>1. AskFor(SectionHeader(header, header.shstrndx), "elf names header") /\ UNCHANGED imageVars
    BY <1>3 DEF Dumped
  <2>2. Wanting(SectionHeader(header, header.shstrndx), "elf names header")
    BY <1>2, SectionHeaderWanted
  <2>3. HeadersRead'
    BY <1>1, <1>2, <2>1, ElfHeaderKept DEF AskFor, imageVars, ElfPlaces, ElfPoints
  <2>4. QED
    BY <1>1, <1>2, <2>1, <2>2, <2>3, AskedOn DEF imageVars
<1>4. CASE GetNames
  <2>1. PICK s : s = AsSection(got[1])
    OBVIOUS
  <2>2. s.offset \in Nat /\ s.size \in Nat
    <3>1. Fetching(1) /\ Answered /\ rc = "ok"
      BY <1>4 DEF ImageInv, Fetches, GetNames, Have, OneCell
    <3>2. got[1] \in Cell
      BY <1>1, <3>1, Fetched
    <3>3. QED
      BY <1>1, <2>1, <3>2, SectionNumbers
  <2>3. CASE GiveUp("data corrupt")
    BY <1>1, <1>2, <2>3, GivenUp
  <2>4. CASE AskFor(<<Seek(s.offset), Read(s.size)>>, "elf names") /\ UNCHANGED imageVars
    <3>1. Wanting(<<Seek(s.offset), Read(s.size)>>, "elf names")
      BY <2>2, ElfWanted
    <3>2. HeadersRead'
      BY <1>1, <1>2, <2>4, ElfHeaderKept DEF AskFor, imageVars, ElfPlaces, ElfPoints
    <3>3. QED
      BY <1>1, <1>2, <2>4, <3>1, <3>2, AskedOn DEF imageVars
  <2>5. QED
    BY <1>4, <2>1, <2>3, <2>4 DEF GetNames
<1>5. CASE HaveNames
  <2>1. AskFor(FirstHeader, "elf map") /\ index' = 1 /\ UNCHANGED <<header, sections>>
    BY <1>5 DEF HaveNames
  <2>2. Wanting(FirstHeader, "elf map")
    BY <1>2, ElfWanted
  <2>3. HeadersRead'
    BY <1>2, <2>1, ElfHeaderKept DEF AskFor, ElfPlaces, ElfPoints
  <2>4. QED
    BY <1>1, <1>2, <2>1, <2>2, <2>3, AskedOn
<1>6. QED
  BY <1>3, <1>4, <1>5

(* A section that was found is not read yet. *)
LEMMA SectionFound ==
  ASSUME NEW offset \in Nat, NEW size \in Nat
  PROVE  Section(offset, size) \in Entry /\ Section(offset, size).data = NotRead
BY DEF Section, Entry

LEMMA ContentsGrown ==
  ASSUME ImageInv, pc \in Opened \ Calls, pc' \notin {"sections", "contents"},
         UNCHANGED <<file, wanted, returned>>,
         \A n \in DOMAIN sections' :
           \/ n \in DOMAIN sections /\ sections'[n] = sections[n]
           \/ sections'[n] \in Entry /\ sections'[n].data = NotRead
  PROVE  Contents'
<1>1. wanted' = {}
  BY DEF ImageInv, Contents
<1>2. Entry' = Entry /\ \A s : Right(s)' = Right(s)
  BY DEF Entry, Cell, Right, Cells
<1>3. /\ \A n \in DOMAIN sections : sections[n] \in Entry /\ (sections[n].data # NotRead => Right(sections[n]))
      /\ \A n \in DOMAIN returned : returned[n] \in Entry /\ Right(returned[n])
  BY DEF ImageInv, Contents
<1>4. \A n \in DOMAIN sections' :
        sections'[n] \in Entry' /\ (sections'[n].data # NotRead => Right(sections[n])')
  <2>1. ASSUME NEW n \in DOMAIN sections'
        PROVE  sections'[n] \in Entry /\ (sections'[n].data # NotRead => Right(sections'[n]))
    BY <1>3
  <2>2. \A n \in DOMAIN sections' : Right(sections'[n]) = Right(sections[n])'
    BY DEF Right, Cells
  <2>3. QED
    BY <1>2, <2>1, <2>2
<1>5. \A n \in DOMAIN returned' : returned'[n] \in Entry' /\ Right(returned[n])'
  BY <1>2, <1>3 DEF Right, Cells
<1>6. QED
  BY <1>1, <1>4, <1>5 DEF Contents

LEMMA ElfMapped ==
  ASSUME ImageInv, Aside, format = "elf", MapSection
  PROVE  ImageInv'
<1>1. UNCHANGED format /\ Formats /\ ReaderInv /\ index \in Nat
  BY DEF Aside, ImageInv, HeadersRead
<1>2. /\ pc = "elf map" /\ pc \in ElfPlaces \ {"elf ident", "elf header"} /\ pc \in Opened \ Calls
      /\ header.shoff \in Nat
  <2>1. pc = "elf map" /\ pc \in ElfPlaces \ {"elf ident", "elf header"}
    BY DEF MapSection, Have, ElfPlaces, ElfPoints
  <2>2. QED
    BY <2>1, Places DEF ImageInv, HeadersRead
<1>3. PICK s, name : s = AtHand /\ name = StringAt(names, s.name)
  OBVIOUS
<1>4. s.offset \in Nat /\ s.size \in Nat
  BY <1>1, <1>3, AtHandNumbers
<1>5. CASE GiveUp("data corrupt")
  BY <1>1, <1>2, <1>5, GivenUp
<1>6. CASE /\ sections' = IF got = <<>> THEN sections
                          ELSE Inserted(sections, name, Section(s.offset, s.size))
           /\ header' = header
           /\ \/ AskFor(FirstHeader, "elf strtab") /\ index' = 1
              \/ NextHeader("elf map")
  <2>1. PICK ops, next :
          /\ AskFor(ops, next) /\ Wanting(ops, next) /\ next \in {"elf map", "elf strtab"}
          /\ index' \in Nat
    <3>1. CASE AskFor(FirstHeader, "elf strtab") /\ index' = 1
      BY <1>2, <3>1, ElfWanted
    <3>2. CASE NextHeader("elf map")
      <4>1. AskFor(<<Read(1)>>, "elf map") /\ index' = index + 1
        BY <3>2 DEF NextHeader
      <4>2. index' \in Nat
        BY <1>1, <4>1, NextIndex
      <4>3. Wanting(<<Read(1)>>, "elf map")
        BY ElfWanted
      <4>4. QED
        BY <4>1, <4>2, <4>3
    <3>3. QED
      BY <1>6, <3>1, <3>2
  <2>2. ReaderInv' /\ Formats' /\ Fetches' /\ pc' = next /\ UNCHANGED <<file, wanted, returned>>
    BY <1>1, <1>2, <2>1, AskedFor
  <2>3. HeadersRead'
    BY <1>2, <1>6, <2>1, <2>2, ElfHeaderKept DEF ElfPlaces, ElfPoints
  <2>4. \A n \in DOMAIN sections' :
          \/ n \in DOMAIN sections /\ sections'[n] = sections[n]
          \/ sections'[n] \in Entry /\ sections'[n].data = NotRead
    BY <1>4, <1>6, SectionFound DEF Inserted
  <2>5. Contents'
    BY <1>2, <2>1, <2>2, <2>4, ContentsGrown
  <2>6. QED
    BY <2>2, <2>3, <2>5 DEF ImageInv
<1>7. QED
  BY <1>3, <1>5, <1>6 DEF MapSection

LEMMA ElfSearched ==
  ASSUME ImageInv, Aside, format = "elf", SearchStrTab \/ HaveStrings \/ SearchSymTab
  PROVE  ImageInv'
<1>1. UNCHANGED format /\ Formats /\ ReaderInv /\ index \in Nat
  BY DEF Aside, ImageInv, HeadersRead
<1>2. /\ pc \in ElfPlaces \ {"elf ident", "elf header"} /\ pc \in Opened \ Calls
      /\ header.shoff \in Nat
  <2>1. pc \in {"elf strtab", "elf strings", "elf symtab"}
    BY DEF SearchStrTab, HaveStrings, SearchSymTab, Search, Have
  <2>2. pc \in ElfPlaces \ {"elf ident", "elf header"}
    BY <2>1 DEF ElfPlaces, ElfPoints
  <2>3. QED
    BY <2>2, Places DEF ImageInv, HeadersRead
<1>3. ASSUME NEW at \in {"elf strtab", "elf symtab"}, NEW fits,
             NEW found \in {"elf strings", "elf symbols"}, Search(at, AtHand, fits, found)
      PROVE  ImageInv'
  <2>1. PICK s : s = AtHand
    OBVIOUS
  <2>2. s.offset \in Nat /\ s.size \in Nat
    BY <1>1, <2>1, AtHandNumbers
  <2>3. CASE GiveUp("not found")
    BY <1>1, <1>2, <2>3, GivenUp
  <2>4. CASE \/ AskFor(<<Seek(s.offset), Read(s.size)>>, found) /\ UNCHANGED imageVars
             \/ NextHeader(at) /\ UNCHANGED <<header, sections>>
    <3>1. PICK ops, next :
            /\ AskFor(ops, next) /\ Wanting(ops, next)
            /\ next \in {"elf strtab", "elf symtab", "elf strings", "elf symbols"}
            /\ index' \in Nat /\ UNCHANGED <<header, sections>>
      <4>1. CASE AskFor(<<Seek(s.offset), Read(s.size)>>, found) /\ UNCHANGED imageVars
        <5>1. Wanting(<<Seek(s.offset), Read(s.size)>>, found)
          BY <2>2, ElfWanted
        <5>2. index' \in Nat /\ UNCHANGED <<header, sections>>
          BY <1>1, <4>1 DEF imageVars
        <5>3. QED
          BY <4>1, <5>1, <5>2
      <4>2. CASE NextHeader(at) /\ UNCHANGED <<header, sections>>
        <5>1. AskFor(<<Read(1)>>, at) /\ index' = index + 1
          BY <4>2 DEF NextHeader
        <5>2. index' \in Nat
          BY <1>1, <5>1, NextIndex
        <5>3. Wanting(<<Read(1)>>, at)
          BY ElfWanted
        <5>4. QED
          BY <4>2, <5>1, <5>2, <5>3
      <4>3. QED
        BY <2>4, <4>1, <4>2
    <3>2. HeadersRead'
      BY <1>2, <3>1, ElfHeaderKept DEF AskFor, ElfPlaces, ElfPoints
    <3>3. QED
      BY <1>1, <1>2, <3>1, <3>2, AskedOn
  <2>5. QED
    BY <1>3, <2>1, <2>3, <2>4 DEF Search
<1>4. CASE SearchStrTab
  BY <1>3, <1>4 DEF SearchStrTab
<1>5. CASE HaveStrings
  <2>1. AskFor(FirstHeader, "elf symtab") /\ index' = 1 /\ UNCHANGED <<header, sections>>
    BY <1>5 DEF HaveStrings
  <2>2. Wanting(FirstHeader, "elf symtab")
    BY <1>2, ElfWanted
  <2>3. HeadersRead'
    BY <1>2, <2>1, ElfHeaderKept DEF AskFor, ElfPlaces, ElfPoints
  <2>4. QED
    BY <1>1, <1>2, <2>1, <2>2, <2>3, AskedOn
<1>6. CASE SearchSymTab
  BY <1>3, <1>6 DEF SearchSymTab
<1>7. QED
  BY <1>4, <1>5, <1>6

(* The image is read. *)
LEMMA ImageReady ==
  ASSUME ImageInv, pc \in Opened \ Calls, pc' = "ready",
         UNCHANGED <<fileVars, callVars, index, sections, format>>
  PROVE  ImageInv'
<1>1. UNCHANGED <<file, isOpen, position, fileOffset, buffer, bufferOffset, script, got, rc, place,
                  spoiled, faults, wanted, returned>>
  BY DEF fileVars, readerVars, scriptVars, callVars
<1>2. ReaderInv'
  BY <1>1 DEF ImageInv, ReaderInv, ReaderTypes, NoneLost, Mirrored, Cell, Cells
<1>3. pc' \in Calls /\ pc' \in Opened /\ pc' \notin ElfPlaces /\ pc' \notin PEPlaces
  BY Places DEF Calls, Opened
<1>4. Formats'
  BY <1>1, <1>3 DEF ImageInv, Formats
<1>5. Fetches'
  BY <1>3 DEF Fetches, OneCell
<1>6. HeadersRead'
  BY <1>3 DEF ImageInv, HeadersRead
<1>7. Contents'
  BY <1>1, ContentsKept
<1>8. QED
  BY <1>2, <1>4, <1>5, <1>6, <1>7 DEF ImageInv

LEMMA ElfStays ==
  ASSUME ImageInv, ReadElf
  PROVE  ImageInv'
<1>1. format = "elf" /\ ElfStep /\ Aside /\ UNCHANGED format
  BY DEF ReadElf, Aside
<1>2. CASE BuildSymbols
  BY <1>1, <1>2, ImageReady DEF BuildSymbols, Have, Opened, Calls, ElfPlaces, ElfPoints
<1>3. CASE ReadFails(ElfPoints)
  BY <1>1, <1>3, GivenUp, Places DEF ReadFails
<1>4. QED
  BY <1>1, <1>2, <1>3, ElfBegins, ElfHeaderRead, ElfNamesRead, ElfMapped, ElfSearched DEF ElfStep

-----------------------------------------------------------------------------
(* The reader of PE images. *)
LEMMA PEWanted ==
  ASSUME ImageInv, format = "pe", NEW next \in PEPlaces,
         pc = "opened" \/ (pc \in PEPlaces /\ rc = "ok")
  PROVE  /\ Wanting(<<Read(1)>>, next)
         /\ \A m \in Nat : Wanting(<<Seek(m), Read(1)>>, next)
         /\ next \notin OneCell =>
              /\ \A m, n \in Nat : Wanting(<<Seek(m), Read(n)>>, next)
              /\ \A n \in Nat : /\ Wanting(<<Read(n)>>, next) /\ Wanting(<<Seek(n)>>, next)
                                /\ Wanting(<<Skip(n)>>, next)
<1>1. ~spoiled
  BY DEF ImageInv, Fetches
<1>2. next # "elf header"
  BY DEF PEPlaces, PEPoints, PELoop
<1>3. \A m \in Nat : Seek(m) \in Operation /\ Seek(m).op # "read"
  BY DEF Seek, Operation
<1>4. QED
  BY <1>1, <1>2, <1>3, Scripts DEF Wanting

(* Once the header is read it stays; before, there is nothing to keep. *)
LEMMA PEHeaderKept ==
  ASSUME ImageInv, pc' \in PEPlaces \ {"pe file", "pe length"}, index' \in Nat,
         \/ pc' \in {"pe offset", "pe signature", "pe header"}
         \/ header' = header /\ pc \in PEPlaces \ {"pe offset", "pe signature", "pe header"}
  PROVE  HeadersRead'
<1>1. pc' \notin ElfPlaces
  BY Places
<1>2. QED
  BY <1>1 DEF ImageInv, HeadersRead

(* One cell was asked for and is there. *)
LEMMA OneFetched ==
  ASSUME ImageInv, NEW at \in OneCell, Have(at)
  PROVE  pc = at /\ rc = "ok" /\ got[1] \in Cell
<1>1. Fetching(1) /\ Answered /\ pc = at /\ rc = "ok" /\ ReaderInv
  BY DEF ImageInv, Fetches, Have
<1>2. QED
  BY <1>1, Fetched

LEMMA PEBegins ==
  ASSUME ImageInv, UNCHANGED format, format = "pe", ReadOffset \/ FindSignature \/ CheckSignature
  PROVE  ImageInv'
<1>1. index \in Nat /\ Formats
  BY DEF ImageInv, HeadersRead
<1>2. CASE ReadOffset
  <2>1. pc = "opened" /\ AskFor(<<Seek(1), Read(1)>>, "pe offset") /\ UNCHANGED <<index, sections>>
    BY <1>2 DEF ReadOffset, Keep, imageVars
  <2>2. Wanting(<<Seek(1), Read(1)>>, "pe offset")
    BY <2>1, PEWanted DEF PEPlaces, PEPoints
  <2>3. HeadersRead'
    BY <1>1, <2>1, PEHeaderKept DEF AskFor, PEPlaces, PEPoints
  <2>4. QED
    BY <2>1, <2>2, <2>3, AskedOn, Places
<1>3. CASE FindSignature
  <2>1. PICK n : n = As("lfanew", got[1], [offset |-> 0]).offset
    OBVIOUS
  <2>2. /\ Have("pe offset") /\ AskFor(<<Seek(n), Read(1)>>, "pe signature")
        /\ UNCHANGED <<index, sections>>
    BY <1>3, <2>1 DEF FindSignature, Keep, imageVars
  <2>3. pc = "pe offset" /\ rc = "ok" /\ got[1] \in Cell
    BY <2>2, OneFetched DEF OneCell
  <2>4. n \in Nat
    <3>1. got[1].kind = "lfanew" => got[1].offset \in Nat
      BY <1>1, <2>3, Numbers DEF PENumbers
    <3>2. QED
      BY <2>1, <3>1 DEF As
  <2>5. Wanting(<<Seek(n), Read(1)>>, "pe signature") /\ pc \in PEPlaces
    BY <2>3, <2>4, PEWanted DEF PEPlaces, PEPoints
  <2>6. HeadersRead'
    BY <1>1, <2>2, PEHeaderKept DEF AskFor, PEPlaces, PEPoints
  <2>7. QED
    BY <2>2, <2>5, <2>6, AskedOn, Places
<1>4. CASE CheckSignature
  <2>1. pc = "pe signature" /\ rc = "ok" /\ pc \in PEPlaces
    BY <1>4 DEF CheckSignature, Have, PEPlaces, PEPoints
  <2>2. CASE GiveUp("invalid argument")
    BY <2>1, <2>2, GivenUp, Places
  <2>3. CASE AskFor(<<Read(1)>>, "pe header") /\ UNCHANGED <<index, sections>>
    <3>1. Wanting(<<Read(1)>>, "pe header")
      BY <2>1, PEWanted DEF PEPlaces, PEPoints
    <3>2. HeadersRead'
      BY <1>1, <2>3, PEHeaderKept DEF AskFor, PEPlaces, PEPoints
    <3>3. QED
      BY <2>1, <2>3, <3>1, <3>2, AskedOn, Places
  <2>4. QED
    BY <1>4, <2>2, <2>3 DEF CheckSignature, Keep, imageVars
<1>5. QED
  BY <1>2, <1>3, <1>4

LEMMA PEHeaderRead ==
  ASSUME ImageInv, UNCHANGED format, format = "pe", CheckFileHeader
  PROVE  ImageInv'
<1>1. PICK h : h = As("header", got[1], NoPE)
  OBVIOUS
<1>2. pc = "pe header" /\ rc = "ok" /\ got[1] \in Cell /\ pc \in PEPlaces
  BY OneFetched DEF CheckFileHeader, OneCell, PEPlaces, PEPoints
<1>3. h.symtab \in Nat /\ h.symbols \in Nat /\ h.sections \in Nat
  <2>1. got[1].kind = "header" =>
          got[1].symtab \in Nat /\ got[1].symbols \in Nat /\ got[1].sections \in Nat
    BY <1>2, Numbers DEF PENumbers, ImageInv
  <2>2. QED
    BY <1>1, <2>1 DEF As, NoPE
<1>4. CASE GiveUp(FileHeaderFlaw(h))
  BY <1>2, <1>4, GivenUp, Places
<1>5. CASE /\ header' = h /\ index' = fileOffset + bufferOffset
           /\ AskFor(<<Read(1)>>, "pe magic") /\ UNCHANGED sections
  <2>1. fileOffset \in Nat /\ bufferOffset \in Nat
    <3>1. fileOffset \in Nat /\ bufferOffset \in 0 .. Len(buffer) /\ Len(buffer) \in Nat
      BY DEF ImageInv, ReaderInv, ReaderTypes
    <3>2. QED
      BY <3>1
  <2>2. Wanting(<<Read(1)>>, "pe magic") /\ "pe magic" \notin ElfPlaces \cup {"pe file", "pe length"}
    BY <1>2, PEWanted DEF PEPlaces, PEPoints, ElfPlaces, ElfPoints
  <2>3. HeadersRead'
    <3>1. index' \in Nat
      <4>1. index' = fileOffset + bufferOffset
        BY <1>5
      <4>2. QED
        BY ONLY <2>1, <4>1
    <3>2. pc' = "pe magic"
      BY <1>5 DEF AskFor
    <3>3. QED
      BY <1>3, <1>5, <2>2, <3>1, <3>2 DEF HeadersRead
  <2>4. QED
    BY <1>2, <1>5, <2>2, <2>3, AskedOn, Places
<1>6. QED
  BY <1>1, <1>4, <1>5 DEF CheckFileHeader

LEMMA PETablesRead ==
  ASSUME ImageInv, UNCHANGED format, format = "pe",
         CheckMagic \/ ReadStrings \/ HaveStringTable \/ ScanHeaders
  PROVE  ImageInv'
<1>1. index \in Nat /\ Formats
  BY DEF ImageInv, HeadersRead
<1>2. /\ pc \in {"pe magic", "pe size", "pe strings", "pe optional"} /\ rc = "ok"
      /\ pc \in PEPlaces \ {"pe offset", "pe signature", "pe header"} /\ pc \in Opened \ Calls
  <2>1. pc \in {"pe magic", "pe size", "pe strings", "pe optional"} /\ rc = "ok"
    BY DEF CheckMagic, ReadStrings, HaveStringTable, ScanHeaders, Have
  <2>2. pc \in PEPlaces \ {"pe offset", "pe signature", "pe header"}
    BY <2>1 DEF PEPlaces, PEPoints
  <2>3. QED
    BY <2>1, <2>2, Places
<1>3. header.symtab \in Nat /\ header.symbols \in Nat /\ header.sections \in Nat
  BY <1>2 DEF ImageInv, HeadersRead
<1>4. PICK t : t = StringTable
  OBVIOUS
<1>5. t \in Nat
  BY <1>3, <1>4 DEF StringTable
<1>6. CASE GiveUp("not implemented")
  BY <1>2, <1>6, GivenUp
<1>7. ASSUME NEW ops, NEW next \in {"pe size", "pe strings", "pe optional", "pe sections"},
             AskFor(ops, next), Wanting(ops, next), UNCHANGED <<header, index, sections>>
      PROVE  ImageInv'
  <2>1. next \in PEPlaces \ {"pe file", "pe length"}
    BY DEF PEPlaces, PEPoints
  <2>2. HeadersRead'
    BY <1>1, <1>2, <1>7, <2>1, PEHeaderKept DEF AskFor
  <2>3. QED
    BY <1>2, <1>7, <2>2, AskedOn
<1>8. CASE CheckMagic
  <2>1. CASE AskFor(<<Seek(t), Read(1)>>, "pe size") /\ UNCHANGED <<header, index, sections>>
    <3>1. Wanting(<<Seek(t), Read(1)>>, "pe size")
      BY <1>2, <1>5, PEWanted DEF PEPlaces, PEPoints
    <3>2. QED
      BY <1>7, <2>1, <3>1
  <2>2. QED
    BY <1>4, <1>6, <1>8, <2>1 DEF CheckMagic, Keep, imageVars
<1>9. CASE ReadStrings
  <2>1. PICK n : n = As("size", got[1], [size |-> 0]).size
    OBVIOUS
  <2>2. /\ Have("pe size") /\ AskFor(<<Seek(t), Read(n)>>, "pe strings")
        /\ UNCHANGED <<header, index, sections>>
    BY <1>4, <1>9, <2>1 DEF ReadStrings, Keep, imageVars
  <2>3. got[1] \in Cell
    BY <2>2, OneFetched DEF OneCell
  <2>4. n \in Nat
    <3>1. got[1].kind = "size" => got[1].size \in Nat
      BY <1>1, <2>3, Numbers DEF PENumbers
    <3>2. QED
      BY <2>1, <3>1 DEF As
  <2>5. "pe strings" \in PEPlaces /\ "pe strings" \notin OneCell
    BY DEF PEPlaces, PEPoints, OneCell
  <2>6. Wanting(<<Seek(t), Read(n)>>, "pe strings")
    BY <1>2, <1>5, <2>4, <2>5, PEWanted
  <2>7. QED
    BY <1>7, <2>2, <2>6
<1>10. CASE HaveStringTable
  <2>1. AskFor(<<Seek(index), Read(2)>>, "pe optional") /\ UNCHANGED <<header, index, sections>>
    BY <1>10 DEF HaveStringTable
  <2>2. "pe optional" \in PEPlaces /\ "pe optional" \notin OneCell
    BY DEF PEPlaces, PEPoints, OneCell
  <2>3. Wanting(<<Seek(index), Read(2)>>, "pe optional")
    BY <1>1, <1>2, <2>2, PEWanted
  <2>4. QED
    BY <1>7, <2>1, <2>3
<1>11. CASE ScanHeaders
  <2>1. AskFor(<<Read(header.sections)>>, "pe sections") /\ UNCHANGED <<header, index, sections>>
    BY <1>11 DEF ScanHeaders, Keep, imageVars
  <2>2. "pe sections" \in PEPlaces /\ "pe sections" \notin OneCell
    BY DEF PEPlaces, PEPoints, OneCell
  <2>3. Wanting(<<Read(header.sections)>>, "pe sections")
    BY <1>2, <1>3, <2>2, PEWanted
  <2>4. QED
    BY <1>7, <2>1, <2>3
<1>12. QED
  BY <1>8, <1>9, <1>10, <1>11

(* Every section of the map is one of those whose headers were read. *)
LEMMA SectionsMapped ==
  ASSUME ImageInv, format = "pe", NEW hs, hs = [i \in DOMAIN got |-> PESection(got[i])],
         NEW n \in DOMAIN SectionMap(hs)
  PROVE  SectionMap(hs)[n] \in Entry /\ SectionMap(hs)[n].data = NotRead
<1>1. \E j \in DOMAIN hs : NameOf(hs[j].name) = n
  BY DEF SectionMap
<1>2. PICK i : i = CHOOSE j \in DOMAIN hs : NameOf(hs[j].name) = n
  OBVIOUS
<1>3. i \in DOMAIN hs
  BY <1>1, <1>2
<1>4. SectionMap(hs)[n] = Section(hs[i].offset, hs[i].size)
  BY <1>2 DEF SectionMap
<1>5. hs[i].offset \in Nat /\ hs[i].size \in Nat
  <2>1. got[i] \in Cell /\ hs[i] = PESection(got[i])
    BY <1>3 DEF ImageInv, ReaderInv, ReaderTypes
  <2>2. got[i].kind = "section" => got[i].offset \in Nat /\ got[i].size \in Nat
    BY <2>1, Numbers DEF PENumbers, ImageInv
  <2>3. NoPESection.offset = 0 /\ NoPESection.size = 0
    BY DEF NoPESection
  <2>4. \/ hs[i] = got[i] /\ got[i].kind = "section"
        \/ hs[i] = NoPESection
    BY <2>1 DEF PESection, As
  <2>5. QED
    BY <2>2, <2>3, <2>4
<1>6. QED
  BY <1>4, <1>5, SectionFound

LEMMA PESectionsRead ==
  ASSUME ImageInv, UNCHANGED format, format = "pe", ReadSectionHeaders
  PROVE  ImageInv'
<1>1. PICK hs : hs = [i \in DOMAIN got |-> PESection(got[i])]
  OBVIOUS
<1>2. /\ pc = "pe sections" /\ rc = "ok" /\ pc \in Opened \ Calls
      /\ pc \in PEPlaces \ {"pe offset", "pe signature", "pe header"}
  <2>1. pc = "pe sections" /\ rc = "ok"
    BY DEF ReadSectionHeaders, Have
  <2>2. pc \in PEPlaces \ {"pe offset", "pe signature", "pe header"}
    BY <2>1 DEF PEPlaces, PEPoints
  <2>3. QED
    BY <2>1, <2>2, Places
<1>3. CASE GiveUp("data corrupt")
  BY <1>2, <1>3, GivenUp
<1>4. CASE /\ sections' = SectionMap(hs) /\ index' = 0
           /\ AskFor(<<Seek(header.symtab)>>, "pe next") /\ UNCHANGED header
  <2>1. header.symtab \in Nat
    BY <1>2 DEF ImageInv, HeadersRead
  <2>2. "pe next" \in PEPlaces \ {"pe file", "pe length"} /\ "pe next" \notin OneCell
    BY DEF PEPlaces, PELoop, OneCell
  <2>3. Wanting(<<Seek(header.symtab)>>, "pe next")
    BY <1>2, <2>1, <2>2, PEWanted
  <2>4. ReaderInv' /\ Formats' /\ Fetches' /\ pc' = "pe next" /\ UNCHANGED <<file, wanted, returned>>
    BY <1>2, <1>4, <2>3, AskedFor
  <2>5. HeadersRead'
    BY <1>2, <1>4, <2>2, <2>4, PEHeaderKept
  <2>6. Contents'
    BY <1>1, <1>2, <1>4, <2>4, SectionsMapped, ContentsGrown
  <2>7. QED
    BY <2>4, <2>5, <2>6 DEF ImageInv
<1>5. QED
  BY <1>1, <1>3, <1>4 DEF ReadSectionHeaders

(* The loop over the symbols: what it does not read of a symbol it skips. *)
LEMMA AuxSkipped ==
  ASSUME ImageInv, UNCHANGED format, format = "pe", NEW s, NEW read \in Nat,
         pc \in PELoop, rc = "ok", s.aux - read \in Nat, SkipAux(s, read),
         UNCHANGED <<header, sections>>
  PROVE  ImageInv'
<1>1. PICK n : n = s.aux - read
  OBVIOUS
<1>2. AskFor(<<Skip(n)>>, "pe next") /\ index' = index + 1 /\ n \in Nat
  BY <1>1 DEF SkipAux
<1>3. /\ pc \in PEPlaces \ {"pe offset", "pe signature", "pe header"} /\ pc \in Opened \ Calls
      /\ "pe next" \in PEPlaces \ {"pe file", "pe length"} /\ "pe next" \notin OneCell
  BY Places DEF PEPlaces, PELoop, OneCell
<1>4. Wanting(<<Skip(n)>>, "pe next")
  BY <1>2, <1>3, PEWanted
<1>5. HeadersRead'
  <2>1. index \in Nat
    BY DEF ImageInv, HeadersRead
  <2>2. index' \in Nat
    BY <1>2, <2>1, NextIndex
  <2>3. pc' = "pe next"
    BY <1>2 DEF AskFor
  <2>4. QED
    BY <1>3, <2>2, <2>3, PEHeaderKept
<1>6. QED
  BY <1>2, <1>3, <1>4, <1>5, AskedOn

LEMMA SymbolTaken ==
  ASSUME ImageInv, UNCHANGED format, format = "pe", TakeSymbol
  PROVE  ImageInv'
<1>1. PICK s : s = PESymbol(got[1])
  OBVIOUS
<1>2. /\ pc = "pe symbol" /\ rc = "ok" /\ pc \in PELoop /\ pc \in Opened \ Calls
      /\ pc \in PEPlaces \ {"pe offset", "pe signature", "pe header"}
  <2>1. pc = "pe symbol" /\ rc = "ok"
    BY DEF TakeSymbol, Have
  <2>2. QED
    BY <2>1, Places DEF PEPlaces, PELoop
<1>3. s.aux \in Nat
  <2>1. got[1] \in Cell
    BY OneFetched DEF TakeSymbol, OneCell
  <2>2. got[1].kind \in {"symbol", "aux", "string"} => got[1].symbol.aux \in Nat
    BY <2>1, Numbers DEF PENumbers, ImageInv
  <2>3. QED
    BY <1>1, <2>2 DEF PESymbol, NoPESymbol
<1>4. CASE s.aux = 1 /\ \E next \in {"pe file", "pe length"} : ReadAux(next)
  <2>1. PICK next \in {"pe file", "pe length"} : ReadAux(next)
    BY <1>4
  <2>2. /\ AskFor(<<Read(1)>>, next) /\ symbol' = s /\ auxRead' = 1
        /\ UNCHANGED <<header, index, sections>>
    BY <1>1, <2>1 DEF ReadAux, imageVars
  <2>3. Wanting(<<Read(1)>>, next)
    BY <1>2, PEWanted DEF PEPlaces, PELoop
  <2>4. HeadersRead'
    <3>1. pc' = next /\ next \notin ElfPlaces
      BY <2>2 DEF AskFor, ElfPlaces, ElfPoints
    <3>2. QED
      BY <1>2, <1>4, <2>2, <3>1 DEF ImageInv, HeadersRead
  <2>5. QED
    BY <1>2, <2>2, <2>3, <2>4, AskedOn
<1>5. CASE index' = index + 1 /\ ReadOn("pe next") /\ UNCHANGED <<header, sections>>
  <2>1. /\ pc' = "pe next"
        /\ UNCHANGED <<file, isOpen, position, fileOffset, buffer, bufferOffset, script, got, rc,
                       place, spoiled, faults, wanted, returned>>
    BY <1>5 DEF ReadOn, fileVars, readerVars, scriptVars, callVars
  <2>2. "pe next" \in PEPlaces \ {"pe file", "pe length"} /\ "pe next" \notin OneCell \cup ElfPlaces
        /\ "pe next" \in Opened /\ "pe next" \notin {"sections", "contents", "elf header", "opened"}
    BY DEF PEPlaces, PELoop, OneCell, ElfPlaces, ElfPoints, Opened
  <2>3. ReaderInv'
    BY <2>1 DEF ImageInv, ReaderInv, ReaderTypes, NoneLost, Mirrored, Cell, Cells
  <2>4. Formats'
    BY <1>2, <2>1, <2>2 DEF ImageInv, Formats
  <2>5. Fetches'
    BY <1>2, <2>1, <2>2 DEF ImageInv, Fetches
  <2>6. HeadersRead'
    <3>1. index \in Nat
      BY DEF ImageInv, HeadersRead
    <3>2. index' \in Nat
      BY <1>5, <3>1, NextIndex
    <3>3. QED
      BY <1>2, <1>5, <2>1, <2>2, <3>2, PEHeaderKept
  <2>7. Contents'
    BY <1>2, <1>5, <2>1, <2>2, ContentsKept
  <2>8. QED
    BY <2>3, <2>4, <2>5, <2>6, <2>7 DEF ImageInv
<1>6. CASE SkipAux(s, 0) /\ UNCHANGED <<header, sections>>
  <2>1. PICK z : z = 0
    OBVIOUS
  <2>2. z \in Nat /\ s.aux - z \in Nat /\ SkipAux(s, z)
    BY <1>3, <1>6, <2>1
  <2>3. QED
    BY <1>2, <1>6, <2>2, AuxSkipped
<1>7. QED
  BY <1>1, <1>4, <1>5, <1>6 DEF TakeSymbol, HasFileName, HasLength

LEMMA PELoopStays ==
  ASSUME ImageInv, UNCHANGED format, format = "pe",
         NextSymbol \/ TakeSymbol \/ TakeFileName \/ TakeLength \/ FinishSymbols
  PROVE  ImageInv'
<1>1. CASE NextSymbol
  <2>1. pc = "pe next" /\ rc = "ok" /\ AskFor(<<Read(1)>>, "pe symbol")
        /\ UNCHANGED <<header, index, sections>>
    BY <1>1 DEF NextSymbol, Have, Keep, imageVars
  <2>2. /\ pc \in PEPlaces \ {"pe offset", "pe signature", "pe header"} /\ pc \in Opened \ Calls
        /\ "pe symbol" \in PEPlaces \ {"pe file", "pe length"}
    BY <2>1, Places DEF PEPlaces, PELoop
  <2>3. Wanting(<<Read(1)>>, "pe symbol")
    BY <2>1, <2>2, PEWanted
  <2>4. HeadersRead'
    BY <2>1, <2>2, PEHeaderKept DEF AskFor, ImageInv, HeadersRead
  <2>5. QED
    BY <2>1, <2>2, <2>3, <2>4, AskedOn
<1>2. CASE TakeFileName \/ TakeLength
  <2>1. /\ pc \in {"pe file", "pe length"} /\ rc = "ok" /\ SkipAux(symbol, auxRead)
        /\ UNCHANGED <<header, sections>>
    BY <1>2 DEF TakeFileName, TakeLength, Have
  <2>2. symbol.aux = 1 /\ auxRead = 1
    BY <2>1 DEF ImageInv, HeadersRead
  <2>3. PICK x : x = symbol.aux - auxRead
    OBVIOUS
  <2>4. x = 0 /\ auxRead \in Nat
    BY ONLY <2>2, <2>3
  <2>5. symbol.aux - auxRead \in Nat
    BY ONLY <2>3, <2>4
  <2>6. pc \in PELoop
    BY <2>1 DEF PELoop
  <2>7. QED
    BY <2>1, <2>4, <2>5, <2>6, AuxSkipped
<1>3. CASE FinishSymbols
  <2>1. /\ pc \in PELoop /\ pc' = "ready" /\ UNCHANGED <<fileVars, callVars, index, sections>>
    BY <1>3 DEF FinishSymbols, Have, PELoop
  <2>2. pc \in Opened \ Calls
    BY <2>1, Places DEF PEPlaces
  <2>3. QED
    BY <2>1, <2>2, ImageReady
<1>4. QED
  BY <1>1, <1>2, <1>3, SymbolTaken

LEMMA PEStays ==
  ASSUME ImageInv, ReadPE
  PROVE  ImageInv'
<1>1. format = "pe" /\ PEStep /\ UNCHANGED format
  BY DEF ReadPE
<1>2. CASE ReadFails(PEPoints)
  BY <1>1, <1>2, GivenUp, Places DEF ReadFails
<1>3. QED
  BY <1>1, <1>2, PEBegins, PEHeaderRead, PETablesRead, PESectionsRead, PELoopStays DEF PEStep

-----------------------------------------------------------------------------
(* Both readers, the file reader under them and the sections. *)
LEMMA FileSound ==
  ASSUME ReaderInv, FileStep, rc = "ok" => ~spoiled, rc' = "ok"
  PROVE  ~spoiled'
<1>1. script # <<>>
  BY DEF FileStep, SeekInBuffer, SeekInFile, SeekFails, ReadFromBuffer, ReadFromFile
<1>2. ~spoiled
  BY <1>1 DEF ReaderInv, NoneLost
<1>3. QED
  BY <1>2 DEF FileStep, SeekInBuffer, SeekInFile, SeekFails, ReadFromBuffer, ReadFromFile

LEMMA FileReadOn ==
  ASSUME ImageInv, ReadFile
  PROVE  ImageInv'
<1>1. /\ ReaderInv' /\ FileStep /\ UNCHANGED <<file, isOpen, format, pc, header, index, symbol, auxRead>>
      /\ UNCHANGED <<sections, wanted, reading, returned>> /\ ReaderInv
  BY FileStays DEF ReadFile, ImageInv, Aside, peVars, imageVars, callVars
<1>2. script # <<>>
  BY <1>1 DEF FileStep, SeekInBuffer, SeekInFile, SeekFails, ReadFromBuffer, ReadFromFile
<1>3. Formats'
  BY <1>1 DEF ImageInv, Formats
<1>4. Fetches'
  <2>1. pc \in OneCell => Fetching(1)'
    BY <1>1, FetchingGoesOn DEF ImageInv, Fetches
  <2>2. pc = "elf header" => Fetching(2)'
    BY <1>1, FetchingGoesOn DEF ImageInv, Fetches
  <2>3. pc \in PEPlaces /\ rc' = "ok" => ~spoiled'
    BY <1>1, FileSound DEF ImageInv, Fetches
  <2>4. pc # "opened"
    BY <1>2 DEF ImageInv, Fetches
  <2>5. QED
    BY <1>1, <2>1, <2>2, <2>3, <2>4 DEF Fetches
<1>5. HeadersRead'
  BY <1>1 DEF ImageInv, HeadersRead
<1>6. Contents'
  <2>1. Entry' = Entry /\ \A s : Right(s)' = Right(s)
    BY <1>1 DEF Entry, Cell, Right, Cells
  <2>2. /\ (pc' \in Opened \ Calls \/ pc' = "new") => wanted' = {}
        /\ pc' \in Calls => wanted' \subseteq DOMAIN sections'
    BY <1>1 DEF ImageInv, Contents
  <2>3. pc' = "contents" =>
          /\ reading' \in DOMAIN sections'
          /\ Copying(sections[reading].offset, sections[reading].size)'
    <3>1. SUFFICES ASSUME pc = "contents"
                   PROVE  /\ reading \in DOMAIN sections
                          /\ Copying(sections[reading].offset, sections[reading].size)'
      BY <1>1
    <3>2. PICK o, z : o = sections[reading].offset /\ z = sections[reading].size
      OBVIOUS
    <3>3. reading \in DOMAIN sections /\ Copying(o, z) /\ sections[reading] \in Entry
      BY <3>1, <3>2 DEF ImageInv, Contents, Calls
    <3>4. o \in Nat /\ z \in Nat
      BY <3>2, <3>3 DEF Entry
    <3>5. Copying(o, z)'
      BY <1>1, <3>3, <3>4, CopyingGoesOn
    <3>6. o = sections'[reading'].offset /\ z = sections'[reading'].size
      BY <1>1, <3>2
    <3>7. QED
      BY <3>3, <3>5, <3>6 DEF Copying, Cells
  <2>4. /\ \A n \in DOMAIN sections' :
             sections'[n] \in Entry' /\ (sections'[n].data # NotRead => Right(sections[n])')
        /\ \A n \in DOMAIN returned' : returned'[n] \in Entry' /\ Right(returned[n])'
    BY <1>1, <2>1 DEF ImageInv, Contents, Right, Cells
  <2>5. QED
    BY <2>2, <2>3, <2>4 DEF Contents
<1>7. QED
  BY <1>1, <1>3, <1>4, <1>5, <1>6 DEF ImageInv

(* At the places of the calls only the contents are at stake. *)
LEMMA CallStays ==
  ASSUME ImageInv, ReaderInv', pc' \in Calls, isOpen', UNCHANGED <<file, format, index>>, Contents'
  PROVE  ImageInv'
<1>1. /\ pc' \in Opened
      /\ pc' \notin OneCell \cup ElfPlaces \cup PEPlaces \cup {"elf header", "opened"}
  BY DEF Opened, Calls, OneCell, ElfPlaces, ElfPoints, PEPlaces, PEPoints, PELoop
<1>2. Formats'
  BY <1>1 DEF ImageInv, Formats
<1>3. Fetches'
  BY <1>1 DEF Fetches
<1>4. HeadersRead'
  BY <1>1 DEF ImageInv, HeadersRead, PEPlaces, PELoop
<1>5. QED
  BY <1>2, <1>3, <1>4 DEF ImageInv

LEMMA Untouched ==
  ASSUME ReaderInv, UNCHANGED fileVars
  PROVE  ReaderInv' /\ UNCHANGED <<file, isOpen>>
<1>1. UNCHANGED <<file, isOpen, position, fileOffset, buffer, bufferOffset, script, got, rc, place,
                  spoiled, faults>>
  BY DEF fileVars, readerVars, scriptVars
<1>2. QED
  BY <1>1 DEF ReaderInv, ReaderTypes, NoneLost, Mirrored, Cell, Cells

(* What stays true of the sections while the file stays the same. *)
LEMMA SectionsStay ==
  ASSUME ImageInv, UNCHANGED file,
         \A n \in DOMAIN sections' :
           \/ n \in DOMAIN sections /\ sections'[n] = sections[n]
           \/ sections'[n] \in Entry /\ Right(sections'[n]),
         \A n \in DOMAIN returned' :
           \/ n \in DOMAIN returned /\ returned'[n] = returned[n]
           \/ returned'[n] \in Entry /\ Right(returned'[n])
  PROVE  /\ \A n \in DOMAIN sections' :
              sections'[n] \in Entry' /\ (sections'[n].data # NotRead => Right(sections[n])')
         /\ \A n \in DOMAIN returned' : returned'[n] \in Entry' /\ Right(returned[n])'
<1>1. /\ \A n \in DOMAIN sections : sections[n] \in Entry /\ (sections[n].data # NotRead => Right(sections[n]))
      /\ \A n \in DOMAIN returned : returned[n] \in Entry /\ Right(returned[n])
  BY DEF ImageInv, Contents
<1>2. Entry' = Entry
  BY DEF Entry, Cell
<1>3. /\ \A n \in DOMAIN sections' :
           sections'[n] \in Entry /\ (sections'[n].data # NotRead => Right(sections'[n]))
      /\ \A n \in DOMAIN returned' : returned'[n] \in Entry /\ Right(returned'[n])
  BY <1>1
<1>4. \A n : Right(sections'[n]) = Right(sections[n])' /\ Right(returned'[n]) = Right(returned[n])'
  BY DEF Right, Cells
<1>5. QED
  BY <1>2, <1>3, <1>4

LEMMA Asked ==
  ASSUME ImageInv, Aside, \E n \in wanted : HandOver(n) \/ Materialize(n)
  PROVE  ImageInv'
<1>1. PICK n \in wanted : HandOver(n) \/ Materialize(n)
  OBVIOUS
<1>2. pc = "sections" /\ UNCHANGED format /\ ReaderInv /\ index \in Nat
  BY <1>1 DEF HandOver, Materialize, Aside, ImageInv, HeadersRead
<1>3. wanted \subseteq DOMAIN sections /\ sections[n] \in Entry /\ isOpen
  BY <1>1, <1>2 DEF ImageInv, Contents, Formats, Opened, Calls
<1>4. CASE HandOver(n)
  <2>1. /\ pc' = "sections" /\ sections[n].data # NotRead
        /\ returned' = Inserted(returned, n, sections[n]) /\ wanted' = wanted \ {n}
        /\ UNCHANGED <<fileVars, sections, index>>
    BY <1>2, <1>4 DEF HandOver, Unread, Return, imageVars
  <2>2. ReaderInv' /\ UNCHANGED <<file, isOpen>>
    BY <1>2, <2>1, Untouched
  <2>3. Right(sections[n])
    BY <1>1, <1>3, <2>1 DEF ImageInv, Contents
  <2>4. \A m \in DOMAIN returned' :
          \/ m \in DOMAIN returned /\ returned'[m] = returned[m]
          \/ returned'[m] \in Entry /\ Right(returned'[m])
    BY <1>3, <2>1, <2>3 DEF Inserted
  <2>5. Contents'
    <3>1. /\ wanted' \subseteq DOMAIN sections' /\ pc' \notin (Opened \ Calls) \cup {"new", "contents"}
      BY <1>3, <2>1 DEF Calls, Opened
    <3>2. QED
      BY <2>1, <2>2, <2>4, <3>1, SectionsStay DEF Contents
  <2>6. QED
    BY <1>2, <1>3, <2>1, <2>2, <2>5, CallStays DEF Calls
<1>5. CASE Materialize(n)
  <2>1. PICK o, z : o = sections[n].offset /\ z = sections[n].size
    OBVIOUS
  <2>2. /\ pc' = "contents" /\ reading' = n /\ Ask(<<Seek(o), Read(z)>>)
        /\ UNCHANGED <<file, readerVars, place, spoiled, faults, index, sections, wanted, returned>>
    BY <1>5, <2>1 DEF Materialize
  <2>3. o \in Nat /\ z \in Nat
    BY <1>3, <2>1 DEF Entry
  <2>4. ReaderInv' /\ isOpen'
    <3>1. <<Seek(o), Read(z)>> \in Seq(Placed) /\ <<Seek(o), Read(z)>> \in Seq(Operation)
      BY <2>3, Scripts
    <3>2. ReaderInv'
      BY <1>2, <2>2, <3>1, AskedStays
    <3>3. QED
      BY <1>3, <2>2, <3>2 DEF readerVars
  <2>5. Contents'
    <3>1. Copying(sections[reading].offset, sections[reading].size)'
      <4>1. script' = <<Seek(o), Read(z)>> /\ got' = <<>>
        BY <2>2 DEF Ask
      <4>2. o = sections'[reading'].offset /\ z = sections'[reading'].size
        BY <2>1, <2>2
      <4>3. QED
        BY <4>1, <4>2 DEF Copying, Seek, Read
    <3>2. /\ wanted' \subseteq DOMAIN sections' /\ reading' \in DOMAIN sections'
          /\ pc' \notin (Opened \ Calls) \cup {"new"}
      BY <1>1, <1>3, <2>2 DEF Calls, Opened
    <3>3. QED
      BY <2>2, <3>1, <3>2, SectionsStay DEF Contents
  <2>6. QED
    BY <1>2, <2>2, <2>4, <2>5, CallStays DEF Calls
<1>6. QED
  BY <1>1, <1>4, <1>5

LEMMA ContentsFilled ==
  ASSUME ImageInv, Aside, Filled
  PROVE  ImageInv'
<1>1. PICK s : s = [sections[reading] EXCEPT !.data = got, !.sound = ~spoiled]
  OBVIOUS
<1>2. /\ pc = "contents" /\ script = <<>> /\ rc = "ok" /\ pc' = "sections"
      /\ returned' = Inserted(returned, reading, s) /\ wanted' = wanted \ {reading}
      /\ sections' = IF copying THEN sections ELSE [sections EXCEPT ![reading] = s]
      /\ UNCHANGED <<fileVars, index, format>>
  BY <1>1 DEF Filled, Have, Answered, Return, Aside
<1>3. PICK e : e = sections[reading]
  OBVIOUS
<1>4. /\ wanted \subseteq DOMAIN sections /\ reading \in DOMAIN sections /\ e \in Entry /\ isOpen
      /\ Copying(e.offset, e.size) /\ ReaderInv /\ index \in Nat
  BY <1>2, <1>3 DEF ImageInv, Contents, Calls, Formats, Opened, HeadersRead
<1>5. ~spoiled => got = Cells(e.offset, e.size)
  <2>1. \A k \in Nat : <<Read(k)>> # <<>>
    BY Operations
  <2>2. <<Seek(e.offset), Read(e.size)>> # <<>>
    BY Operations
  <2>3. QED
    BY <1>2, <1>4, <2>1, <2>2 DEF Copying
<1>6. s \in Entry /\ Right(s)
  <2>1. got \in Seq(Cell) /\ spoiled \in BOOLEAN
    BY <1>4 DEF ReaderInv, ReaderTypes
  <2>2. s \in Entry /\ s.offset = e.offset /\ s.size = e.size /\ s.data = got /\ s.sound = ~spoiled
    BY <1>1, <1>3, <1>4, <2>1 DEF Entry
  <2>3. QED
    BY <1>5, <2>2 DEF Right
<1>7. ReaderInv' /\ UNCHANGED <<file, isOpen>>
  BY <1>2, <1>4, Untouched
<1>8. \A n \in DOMAIN sections' :
        \/ n \in DOMAIN sections /\ sections'[n] = sections[n]
        \/ sections'[n] \in Entry /\ Right(sections'[n])
  BY <1>2, <1>6
<1>9. \A n \in DOMAIN returned' :
        \/ n \in DOMAIN returned /\ returned'[n] = returned[n]
        \/ returned'[n] \in Entry /\ Right(returned'[n])
  BY <1>2, <1>6 DEF Inserted
<1>10. Contents'
  <2>1. wanted' \subseteq DOMAIN sections' /\ pc' \notin (Opened \ Calls) \cup {"new", "contents"}
    BY <1>2, <1>4 DEF Calls, Opened
  <2>2. QED
    BY <1>7, <1>8, <1>9, <2>1, SectionsStay DEF Contents
<1>11. QED
  BY <1>2, <1>4, <1>7, <1>10, CallStays DEF Calls

LEMMA CallsStay ==
  ASSUME ImageInv, GetSections \/ GetSection \/ (SectionsEnd /\ Aside)
  PROVE  ImageInv'
<1>1. /\ pc \in Calls /\ UNCHANGED <<fileVars, format, index, sections>>
      /\ \/ pc' = "sections" /\ wanted' \subseteq DOMAIN sections /\ returned' = <<>>
         \/ pc' = "ready" /\ wanted' = {} /\ returned' = returned
  <2>1. CASE SectionsEnd /\ Aside
    BY <2>1 DEF SectionsEnd, EndSections, Aside, imageVars, Calls
  <2>2. CASE GetSections
    BY <2>2 DEF GetSections, Call, CallSections, imageVars, Calls
  <2>3. CASE GetSection
    BY <2>3 DEF GetSection, Call, CallSections, imageVars, Calls
  <2>4. QED
    BY <2>1, <2>2, <2>3
<1>2. ReaderInv' /\ UNCHANGED <<file, isOpen>>
  BY <1>1, Untouched DEF ImageInv
<1>3. isOpen' /\ pc' \in Calls /\ pc' \notin (Opened \ Calls) \cup {"new", "contents"}
  BY <1>1, <1>2 DEF ImageInv, Formats, Opened, Calls
<1>4. Contents'
  <2>1. wanted' \subseteq DOMAIN sections'
    BY <1>1
  <2>2. \A n \in DOMAIN returned' : n \in DOMAIN returned /\ returned'[n] = returned[n]
    BY <1>1
  <2>3. QED
    BY <1>1, <1>2, <1>3, <2>1, <2>2, SectionsStay DEF Contents
<1>5. QED
  BY <1>1, <1>2, <1>3, <1>4, CallStays

LEMMA OpenStays ==
  ASSUME ImageInv, Open
  PROVE  ImageInv'
<1>1. /\ pc = "new" /\ OpenFile /\ UNCHANGED <<format, header, index, sections, wanted, returned>>
      /\ \/ rc' = "ok" /\ pc' = "opened"
         \/ rc' # "ok" /\ pc' = "failed"
  BY DEF Open, OpenImage, Aside, imageVars, callVars
<1>2. ReaderInv' /\ isOpen' /\ UNCHANGED <<file, script>> /\ (rc' = "ok" => ~spoiled') /\ script = <<>>
  BY <1>1, OpenedStays DEF ImageInv, OpenFile, Answered
<1>3. /\ pc' \notin OneCell \cup ElfPlaces \cup PEPlaces \cup Calls \cup {"elf header", "pe file", "pe length"}
      /\ pc' \in Opened \cup {"failed"}
  BY <1>1 DEF Opened, Calls, OneCell, ElfPlaces, ElfPoints, PEPlaces, PEPoints, PELoop
<1>4. Formats'
  BY <1>1, <1>2, <1>3 DEF ImageInv, Formats
<1>5. Fetches'
  BY <1>1, <1>2, <1>3 DEF Fetches
<1>6. HeadersRead'
  BY <1>1, <1>3 DEF ImageInv, HeadersRead
<1>7. Contents'
  BY <1>1, <1>2, ContentsKept
<1>8. QED
  BY <1>2, <1>4, <1>5, <1>6, <1>7 DEF ImageInv

LEMMA CloseStays ==
  ASSUME ImageInv, Close
  PROVE  ImageInv'
<1>1. /\ pc' = "closed" /\ CloseFile /\ UNCHANGED <<file, scriptVars>>
      /\ UNCHANGED <<format, index>> /\ sections' = <<>> /\ returned' = <<>>
  BY DEF Close, CloseImage, Aside
<1>2. ReaderInv'
  BY <1>1, ClosedStays DEF ImageInv
<1>3. pc' \notin Opened /\ pc' \notin OneCell \cup ElfPlaces \cup PEPlaces \cup Calls \cup {"elf header"}
  BY <1>1 DEF Opened, OneCell, Calls, ElfPlaces, ElfPoints, PEPlaces, PEPoints, PELoop
<1>4. Formats'
  BY <1>1, <1>3 DEF ImageInv, Formats, Opened
<1>5. Fetches'
  BY <1>1, <1>3 DEF Fetches
<1>6. HeadersRead'
  BY <1>1, <1>3 DEF ImageInv, HeadersRead, PEPlaces, PELoop
<1>7. Contents'
  <2>1. DOMAIN sections' = {} /\ DOMAIN returned' = {}
    BY <1>1
  <2>2. QED
    BY <1>1, <1>3, <2>1 DEF Contents
<1>8. QED
  BY <1>2, <1>4, <1>5, <1>6, <1>7 DEF ImageInv

LEMMA InitImageInv == Init => ImageInv
<1>1. SUFFICES ASSUME Init
               PROVE  ImageInv
  OBVIOUS
<1>2. /\ isOpen = FALSE /\ position = 0 /\ fileOffset = 0 /\ buffer = <<>> /\ bufferOffset = 0
      /\ script = <<>> /\ got = <<>> /\ rc = "ok" /\ place = 0 /\ spoiled = FALSE /\ faults = 0
      /\ pc = "new" /\ index = 0 /\ wanted = {} /\ sections = <<>> /\ returned = <<>>
      /\ format \in {"elf", "pe"} /\ file \in IF format = "elf" THEN ElfFiles ELSE PEFiles
  BY <1>1 DEF Init, FileInit, ImageInit
<1>3. file \in Seq(Cell)
  <2>1. file \in Seq(Range(file))
    BY <1>2, FilesAssumption
  <2>2. Range(file) \subseteq Cell
    BY DEF Cell
  <2>3. QED
    BY <2>1, <2>2
<1>4. PICK l : l = Len(buffer)
  OBVIOUS
<1>5. l = 0
  BY <1>2, <1>4
<1>6. ReaderTypes
  <2>1. buffer \in Seq(Cell) /\ got \in Seq(Cell) /\ script \in Seq(Operation)
    BY <1>2
  <2>2. bufferOffset \in 0 .. Len(buffer)
    BY <1>2, <1>4, <1>5
  <2>3. QED
    BY <1>2, <1>3, <2>1, <2>2 DEF ReaderTypes
<1>7. NoneLost
  BY <1>2 DEF NoneLost
<1>8. Mirrored
  <2>1. Cells(0, l) = <<>>
    BY <1>3, <1>5, NoCells
  <2>2. QED
    BY <1>2, <1>4, <1>5, <2>1 DEF Mirrored
<1>9. pc \notin Opened /\ pc \notin OneCell \cup ElfPlaces \cup PEPlaces \cup Calls \cup {"elf header"}
  BY <1>2 DEF Opened, OneCell, Calls, ElfPlaces, ElfPoints, PEPlaces, PEPoints, PELoop
<1>10. Formats /\ Fetches /\ HeadersRead
  BY <1>2, <1>9 DEF Formats, Fetches, HeadersRead, Opened, PEPlaces, PELoop
<1>11. Contents
  <2>1. DOMAIN sections = {} /\ DOMAIN returned = {}
    BY <1>2
  <2>2. QED
    BY <1>2, <1>9, <2>1 DEF Contents
<1>12. QED
  BY <1>6, <1>7, <1>8, <1>10, <1>11 DEF ImageInv, ReaderInv

LEMMA NextImageInv == ImageInv /\ [Next]_vars => ImageInv'
<1>1. SUFFICES ASSUME ImageInv, [Next]_vars
               PROVE  ImageInv'
  OBVIOUS
<1>2. CASE Open
  BY <1>1, <1>2, OpenStays
<1>3. CASE ReadFile
  BY <1>1, <1>3, FileReadOn
<1>4. CASE ReadElf
  BY <1>1, <1>4, ElfStays
<1>5. CASE ReadPE
  BY <1>1, <1>5, PEStays
<1>6. CASE GetSections \/ GetSection
  BY <1>1, <1>6, CallsStay
<1>7. CASE ReadSections
  BY <1>1, <1>7, Asked, ContentsFilled, CallsStay DEF ReadSections
<1>8. CASE Close
  BY <1>1, <1>8, CloseStays
<1>9. CASE UNCHANGED vars
  <2>1. /\ UNCHANGED <<file, isOpen, position, fileOffset, buffer, bufferOffset, script, got, rc,
                       place, spoiled, faults>>
        /\ UNCHANGED <<pc, header, index, sections, wanted, reading, returned, symbol, auxRead, format>>
    BY <1>9 DEF vars, fileVars, readerVars, scriptVars, imageVars, callVars, peVars
  <2>2. ReaderInv'
    BY <1>1, <2>1 DEF ImageInv, ReaderInv, ReaderTypes, NoneLost, Mirrored, Cell, Cells
  <2>3. Formats' /\ HeadersRead'
    BY <1>1, <2>1 DEF ImageInv, Formats, HeadersRead
  <2>4. Fetches'
    BY <1>1, <2>1 DEF ImageInv, Fetches, Fetching, Read
  <2>5. Contents'
    BY <1>1, <2>1 DEF ImageInv, Contents, Copying, Right, Entry, Cell, Cells, Read, Seek
  <2>6. QED
    BY <2>2, <2>3, <2>4, <2>5 DEF ImageInv
<1>10. QED
  BY <1>1, <1>2, <1>3, <1>4, <1>5, <1>6, <1>7, <1>8, <1>9 DEF Next

LEMMA ImageInvHolds == Spec => []ImageInv
BY InitImageInv, NextImageInv, PTL DEF Spec

-----------------------------------------------------------------------------
(* An open reader whose buffer was not left over from a failed read holds a
   part of the file, the position that the system keeps is behind that part,
   and the reader is where a plain file would be: for files of any contents,
   a buffer of any size, reads that return any number of bytes, and every mix
   of the seeks, skips and reads with which ELF and PE images are read.      *)
THEOREM MirrorKept == Spec => []BufferMirrorsFile
<1>1. ImageInv => BufferMirrorsFile
  BY DEF ImageInv, ReaderInv, Mirrored, BufferMirrorsFile
<1>2. QED
  BY <1>1, ImageInvHolds, PTL

(* Whatever a call of getSection or getSections returns of a section is what
   the file has at the offset and of the size that its header says, however
   the calls mix, when a read of another section failed before, and for the
   sections that are kept from earlier calls; unless the bytes come out of the
   buffer that a failed read left behind.                                    *)
THEOREM SectionsKept == Spec => []SectionsIntact
<1>1. ImageInv => SectionsIntact
  BY DEF ImageInv, Contents, Right, SectionsIntact
<1>2. QED
  BY <1>1, ImageInvHolds, PTL

-----------------------------------------------------------------------------
(* The binary search.  Every nonempty set of numbers has a least one, which
   stands for an induction. *)
LEMMA LeastNumber ==
  ASSUME NEW S, S \subseteq Nat, S # {}
  PROVE  \E n \in S : \A m \in S : n <= m
<1> DEFINE Less == {ss \in Nat \X Nat : ss[1] < ss[2]}
<1>1. IsWellFoundedOn(Less, Nat)
  BY NatLessThanWellFounded DEF OpToRel
<1> HIDE DEF Less
<1>2. PICK n \in S : \A m \in S : ~ (<<m, n>> \in Less)
  BY <1>1, WFMin
<1>3. \A m \in S : ~ (m < n)
  BY <1>2 DEF Less
<1>4. QED
  BY <1>2, <1>3

(* A range of c elements from i on is halved. *)
Half(below, f, i, c) ==
  LET half == c \div 2
      mid == i + half
  IN  IF c = 0 THEN i
      ELSE IF below[mid] THEN f[<<mid + 1, c - half - 1>>]
      ELSE f[<<i, half>>]

(* The function f halves all ranges of up to n elements. *)
Halves(below, f, n) == \A i \in Nat : \A c \in 0 .. n : f[<<i, c>>] = Half(below, f, i, c)

LEMMA HalfSmaller ==
  ASSUME NEW c \in Nat, c # 0
  PROVE  c \div 2 \in 0 .. c - 1 /\ c - (c \div 2) - 1 \in 0 .. c - 1
OBVIOUS

(* What becomes of a range is up to the smaller ones. *)
LEMMA SameHalf ==
  ASSUME NEW below, NEW f, NEW g, NEW i \in Nat, NEW c \in Nat,
         \A j \in Nat : \A d \in 0 .. c - 1 : f[<<j, d>>] = g[<<j, d>>]
  PROVE  Half(below, f, i, c) = Half(below, g, i, c)
<1>1. CASE c = 0
  BY <1>1 DEF Half
<1>2. CASE c # 0
  <2>1. PICK h : h = c \div 2
    OBVIOUS
  <2>2. h \in 0 .. c - 1 /\ c - h - 1 \in 0 .. c - 1 /\ h \in Nat
    BY <1>2, <2>1, HalfSmaller
  <2>3. i + h + 1 \in Nat
    BY <2>2
  <2>4. f[<<i + h + 1, c - h - 1>>] = g[<<i + h + 1, c - h - 1>>] /\ f[<<i, h>>] = g[<<i, h>>]
    BY <2>2, <2>3
  <2>5. \A e : Half(below, e, i, c) = IF below[i + h] THEN e[<<i + h + 1, c - h - 1>>]
                                      ELSE e[<<i, h>>]
    BY <1>2, <2>1 DEF Half
  <2>6. QED
    BY <2>4, <2>5
<1>3. QED
  BY <1>1, <1>2

LEMMA OneHalving ==
  ASSUME NEW below, NEW f, NEW g, NEW n \in Nat, NEW m \in Nat, Halves(below, f, n),
         Halves(below, g, m)
  PROVE  \A c \in 0 .. n : c <= m => \A i \in Nat : f[<<i, c>>] = g[<<i, c>>]
<1> DEFINE S == {c \in 0 .. n : c <= m /\ \E i \in Nat : f[<<i, c>>] # g[<<i, c>>]}
<1>1. SUFFICES ASSUME S # {} PROVE FALSE
  OBVIOUS
<1>2. S \subseteq Nat
  OBVIOUS
<1>3. PICK c \in S : \A d \in S : c <= d
  BY <1>1, <1>2, LeastNumber
<1>4. c \in 0 .. n /\ c \in 0 .. m /\ \E i \in Nat : f[<<i, c>>] # g[<<i, c>>]
  BY <1>3
<1>5. \A j \in Nat : \A d \in 0 .. c - 1 : f[<<j, d>>] = g[<<j, d>>]
  <2>1. SUFFICES ASSUME NEW j \in Nat, NEW d \in 0 .. c - 1, f[<<j, d>>] # g[<<j, d>>] PROVE FALSE
    OBVIOUS
  <2>2. d \in S
    BY <1>4, <2>1
  <2>3. QED
    BY <1>3, <1>4, <2>2
<1> HIDE DEF S
<1>6. \A i \in Nat : Half(below, f, i, c) = Half(below, g, i, c)
  BY <1>4, <1>5, SameHalf
<1>7. \A i \in Nat : f[<<i, c>>] = g[<<i, c>>]
  BY <1>4, <1>6 DEF Halves
<1>8. QED
  BY <1>4, <1>7

LEMMA SomeHalving ==
  ASSUME NEW below
  PROVE  \A n \in Nat : \E f : Halves(below, f, n)
<1> DEFINE S == {n \in Nat : ~ \E f : Halves(below, f, n)}
<1>1. SUFFICES ASSUME S # {} PROVE FALSE
  OBVIOUS
<1>2. PICK n \in S : \A m \in S : n <= m
  BY <1>1, LeastNumber
<1>3. n \in Nat /\ ~ \E f : Halves(below, f, n)
  BY <1>2
<1>4. \A m \in 0 .. n - 1 : \E f : Halves(below, f, m)
  <2>1. SUFFICES ASSUME NEW m \in 0 .. n - 1, m \in S PROVE FALSE
    BY <1>3
  <2>2. QED
    BY <1>2, <1>3, <2>1
<1> HIDE DEF S
<1>5. PICK f : n # 0 => Halves(below, f, n - 1)
  BY <1>3, <1>4
<1> DEFINE g == [x \in Nat \X Nat |->
                   IF x[2] = n THEN Half(below, f, x[1], n) ELSE f[<<x[1], x[2]>>]]
<1>6. \A i, c \in Nat : g[<<i, c>>] = IF c = n THEN Half(below, f, i, n) ELSE f[<<i, c>>]
  OBVIOUS
<1> HIDE DEF g
<1>7. \A j \in Nat : \A d \in 0 .. n - 1 : f[<<j, d>>] = g[<<j, d>>]
  <2>1. \A d \in 0 .. n - 1 : d \in Nat /\ d # n
    BY <1>3
  <2>2. QED
    BY <1>6, <2>1
<1>8. ASSUME NEW i \in Nat, NEW c \in 0 .. n PROVE g[<<i, c>>] = Half(below, g, i, c)
  <2>1. Half(below, f, i, c) = Half(below, g, i, c)
    BY <1>3, <1>7, <1>8, SameHalf
  <2>2. CASE c = n
    BY <1>3, <1>6, <2>1, <2>2
  <2>3. CASE c # n
    <3>1. n # 0 /\ c \in 0 .. n - 1
      BY <1>3, <2>3
    <3>2. f[<<i, c>>] = Half(below, f, i, c)
      BY <1>5, <3>1 DEF Halves
    <3>3. QED
      BY <1>6, <2>1, <2>3, <3>2
  <2>4. QED
    BY <2>2, <2>3
<1>9. Halves(below, g, n)
  BY <1>8 DEF Halves
<1>10. QED
  BY <1>3, <1>9

(* The function that LowerBound defines halves all ranges. *)
Halving(below) == CHOOSE f : f = [x \in Nat \X Nat |-> Half(below, f, x[1], x[2])]

LEMMA HalvingExists ==
  ASSUME NEW below
  PROVE  \A i, c \in Nat : Halving(below)[<<i, c>>] = Half(below, Halving(below), i, c)
<1> DEFINE F(n) == CHOOSE f : Halves(below, f, n)
<1>1. \A n \in Nat : Halves(below, F(n), n)
  BY SomeHalving
<1> HIDE DEF F
<1> DEFINE g == [x \in Nat \X Nat |-> F(x[2])[<<x[1], x[2]>>]]
<1>2. \A i, c \in Nat : g[<<i, c>>] = F(c)[<<i, c>>]
  OBVIOUS
<1>3. ASSUME NEW i \in Nat, NEW c \in Nat PROVE g[<<i, c>>] = Half(below, g, i, c)
  <2>1. \A j \in Nat : \A d \in 0 .. c - 1 : F(c)[<<j, d>>] = F(d)[<<j, d>>]
    <3>1. ASSUME NEW j \in Nat, NEW d \in 0 .. c - 1 PROVE F(c)[<<j, d>>] = F(d)[<<j, d>>]
      <4>1. d \in Nat /\ d \in 0 .. c /\ d <= d
        OBVIOUS
      <4>2. Halves(below, F(c), c) /\ Halves(below, F(d), d)
        BY <1>1, <4>1
      <4>3. QED
        BY <4>1, <4>2, OneHalving
    <3>2. QED
      BY <3>1
  <2> HIDE DEF g
  <2>2. \A j \in Nat : \A d \in 0 .. c - 1 : F(c)[<<j, d>>] = g[<<j, d>>]
    <3>1. \A d \in 0 .. c - 1 : d \in Nat
      OBVIOUS
    <3>2. QED
      BY <1>2, <2>1, <3>1
  <2>3. Half(below, F(c), i, c) = Half(below, g, i, c)
    BY <2>2, SameHalf
  <2>4. F(c)[<<i, c>>] = Half(below, F(c), i, c)
    BY <1>1 DEF Halves
  <2>5. QED
    BY <1>2, <2>3, <2>4
<1>4. g = [x \in Nat \X Nat |-> Half(below, g, x[1], x[2])]
  <2>1. \A x \in Nat \X Nat : g[x] = Half(below, g, x[1], x[2])
    <3>1. ASSUME NEW x \in Nat \X Nat PROVE g[x] = Half(below, g, x[1], x[2])
      <4>1. PICK i \in Nat, c \in Nat : x = <<i, c>>
        OBVIOUS
      <4>2. g[<<i, c>>] = Half(below, g, i, c)
        BY <1>3
      <4> HIDE DEF g
      <4>3. QED
        BY <4>1, <4>2
    <3>2. QED
      BY <3>1
  <2>2. g = [x \in Nat \X Nat |-> g[x]]
    OBVIOUS
  <2> HIDE DEF g
  <2>3. QED
    BY <2>1, <2>2
<1> HIDE DEF g
<1>5. Halving(below) = [x \in Nat \X Nat |-> Half(below, Halving(below), x[1], x[2])]
  BY <1>4 DEF Halving
<1>6. PICK f : f = Halving(below)
  OBVIOUS
<1>7. f = [x \in Nat \X Nat |-> Half(below, f, x[1], x[2])]
  BY <1>5, <1>6
<1>8. \A i, c \in Nat : f[<<i, c>>] = Half(below, f, i, c)
  BY ONLY <1>7
<1>9. QED
  BY <1>6, <1>8

LEMMA LowerBoundHalves ==
  ASSUME NEW below
  PROVE  LowerBound(below) = Halving(below)[<<1, Len(below)>>]
BY DEF LowerBound, Halving, Half

(* What is below comes first. *)
Parted(below) == \A i, j \in DOMAIN below : i <= j /\ below[j] => below[i]

(* Of a range whose elements below come first, halving finds the first that is
   not, or the end of the range. *)
LEMMA HalvingFinds ==
  ASSUME NEW n \in Nat, NEW below, DOMAIN below = 1 .. n, \A i \in 1 .. n : below[i] \in BOOLEAN,
         Parted(below)
  PROVE  \A c \in 0 .. n : \A i \in 1 .. n + 1 - c :
           /\ Halving(below)[<<i, c>>] \in i .. i + c
           /\ \A k \in i .. i + c - 1 : below[k] <=> k < Halving(below)[<<i, c>>]
<1>1. PICK f : f = Halving(below)
  OBVIOUS
<1>2. \A i, c \in Nat : f[<<i, c>>] = Half(below, f, i, c)
  BY <1>1, HalvingExists
<1> DEFINE Good(i, c) == /\ f[<<i, c>>] \in i .. i + c
                         /\ \A k \in i .. i + c - 1 : below[k] <=> k < f[<<i, c>>]
           S == {c \in 0 .. n : \E i \in 1 .. n + 1 - c : ~ Good(i, c)}
<1>3. SUFFICES ASSUME S # {} PROVE FALSE
  BY <1>1
<1>4. PICK c \in S : \A d \in S : c <= d
  <2>1. S \subseteq Nat
    OBVIOUS
  <2>2. QED
    BY <1>3, <2>1, LeastNumber
<1>5. PICK i \in 1 .. n + 1 - c : ~ Good(i, c)
  BY <1>4
<1>6. c \in 0 .. n
  BY <1>4
<1>7. \A d \in 0 .. c - 1 : \A j \in 1 .. n + 1 - d : Good(j, d)
  <2> HIDE DEF Good
  <2>1. SUFFICES ASSUME NEW d \in 0 .. c - 1, NEW j \in 1 .. n + 1 - d, ~ Good(j, d)
                 PROVE  FALSE
    OBVIOUS
  <2>2. d \in 0 .. n /\ ~ (c <= d)
    BY <1>6
  <2>3. d \in S
    BY <2>1, <2>2
  <2>4. QED
    BY <1>4, <2>2, <2>3
<1> HIDE DEF S
<1>8. f[<<i, c>>] = Half(below, f, i, c) /\ i \in Nat /\ c \in Nat
  BY <1>2, <1>5, <1>6
<1>9. CASE c = 0
  <2>1. f[<<i, c>>] = i
    BY <1>8, <1>9 DEF Half
  <2>2. QED
    BY <1>5, <1>8, <1>9, <2>1
<1>10. CASE c # 0
  <2>1. PICK h : h = c \div 2
    OBVIOUS
  <2>2. h \in 0 .. c - 1 /\ c - h - 1 \in 0 .. c - 1 /\ h \in Nat
    BY <1>8, <1>10, <2>1, HalfSmaller
  <2>3. i + h \in 1 .. n /\ i + h + 1 \in 1 .. n + 1 - (c - h - 1) /\ i \in 1 .. n + 1 - h
    BY <1>5, <1>6, <2>2
  <2>4. f[<<i, c>>] = IF below[i + h] THEN f[<<i + h + 1, c - h - 1>>] ELSE f[<<i, h>>]
    BY <1>8, <1>10, <2>1 DEF Half
  <2>5. CASE below[i + h]
    <3>1. PICK r : r = f[<<i, c>>] /\ r = f[<<i + h + 1, c - h - 1>>]
      BY <2>4, <2>5
    <3>2. Good(i + h + 1, c - h - 1)
      BY <1>7, <2>2, <2>3
    <3>3. /\ r \in i + h + 1 .. (i + h + 1) + (c - h - 1)
          /\ \A k \in i + h + 1 .. (i + h + 1) + (c - h - 1) - 1 : below[k] <=> k < r
      BY <3>1, <3>2
    <3> HIDE DEF Good
    <3>4. r \in i .. i + c /\ \A k \in i + h + 1 .. i + c - 1 : below[k] <=> k < r
      BY <1>8, <2>2, <3>3
    <3>5. \A k \in i .. i + h : below[k] /\ k < r
      BY <1>8, <2>2, <2>3, <2>5, <3>3 DEF Parted
    <3>6. \A k \in i .. i + c - 1 : below[k] <=> k < r
      BY <1>8, <2>2, <3>4, <3>5
    <3>7. QED
      BY <1>5, <3>1, <3>4, <3>6 DEF Good
  <2>6. CASE ~ below[i + h]
    <3>1. PICK r : r = f[<<i, c>>] /\ r = f[<<i, h>>]
      BY <2>4, <2>6
    <3>2. Good(i, h)
      BY <1>7, <2>2, <2>3
    <3>3. r \in i .. i + h /\ \A k \in i .. i + h - 1 : below[k] <=> k < r
      BY <3>1, <3>2
    <3> HIDE DEF Good
    <3>4. r \in i .. i + c
      BY <1>8, <2>2, <3>3
    <3>5. \A k \in i + h .. i + c - 1 : ~ below[k] /\ ~ (k < r)
      <4>1. SUFFICES ASSUME NEW k \in i + h .. i + c - 1 PROVE ~ below[k] /\ ~ (k < r)
        OBVIOUS
      <4>2. k \in 1 .. n /\ i + h <= k /\ ~ (k < r)
        BY <1>5, <1>6, <1>8, <2>2, <3>3
      <4>3. QED
        BY <2>3, <2>6, <4>2 DEF Parted
    <3>6. \A k \in i .. i + c - 1 : below[k] <=> k < r
      BY <1>8, <2>2, <3>3, <3>5
    <3>7. QED
      BY <1>5, <3>1, <3>4, <3>6 DEF Good
  <2>7. QED
    BY <2>5, <2>6
<1>11. QED
  BY <1>8, <1>9, <1>10

LEMMA LowerBoundFinds ==
  ASSUME NEW n \in Nat, NEW below \in [1 .. n -> BOOLEAN], Parted(below)
  PROVE  /\ LowerBound(below) \in 1 .. n + 1
         /\ \A k \in 1 .. n : below[k] <=> k < LowerBound(below)
<1>1. Len(below) = n
  OBVIOUS
<1>2. n \in 0 .. n /\ 1 \in 1 .. n + 1 - n
  OBVIOUS
<1>3. /\ Halving(below)[<<1, n>>] \in 1 .. 1 + n
      /\ \A k \in 1 .. 1 + n - 1 : below[k] <=> k < Halving(below)[<<1, n>>]
  BY <1>2, HalvingFinds
<1>4. QED
  BY <1>1, <1>3, LowerBoundHalves

-----------------------------------------------------------------------------
(* The table of symbols. *)
IsSymbol(s) == s.kind = "function" /\ s.offset \in Nat /\ s.size \in Int
Table(seq) == seq \in Seq(Range(seq)) /\ \A k \in DOMAIN seq : IsSymbol(seq[k])

(* A symbol is one that an ELF file defines. *)
InFile(s) == \E g \in ElfDefined : g.name = s.name /\ g.begin = s.offset /\ g.size = s.size

(* What the reader of PE images needs to know of the sections. *)
Origins ==
  /\ origin \in Seq([virtual : Nat, size : Nat]) /\ DOMAIN lengths = DOMAIN origin
  /\ \A k \in DOMAIN lengths : \A v \in DOMAIN lengths[k] : lengths[k][v] \in Nat
  /\ \A k \in DOMAIN symbols : symbols[k].section \in DOMAIN origin

SymbolsInv ==
  /\ Table(symbols)
  /\ pc \notin Calls \cup PELoop => symbols = <<>>
  /\ format = "elf" /\ pc \in Calls => Sorted(symbols) /\ \A k \in DOMAIN symbols : InFile(symbols[k])
  /\ finished => Sorted(symbols) /\ pc \in Calls \cup {"closed"}
  /\ format = "pe" => Origins

(* The symbols of a table do not overlap, but that one may be there twice. *)
Same(s, t) == s.offset = t.offset /\ s.size = t.size
SideBySide ==
  /\ \A i \in DOMAIN symbols : symbols[i].size >= 0
  /\ \A i, j \in DOMAIN symbols : ~Same(symbols[i], symbols[j]) =>
       /\ symbols[i].offset # symbols[j].offset
       /\ EndsBefore(symbols[i], symbols[j].offset) \/ EndsBefore(symbols[j], symbols[i].offset)

Finds(a) ==
  LET f == SearchSymbol(a) IN
  IF \E i \in DOMAIN symbols : Covers(symbols[i], a)
    THEN f \in Range(symbols) /\ Covers(f, a)
    ELSE f = NotFound

LEMMA SearchSound ==
  ASSUME Table(symbols), Sorted(symbols), SideBySide, NEW a \in Int
  PROVE  Finds(a)
<1>1. PICK n \in Nat : n = Len(symbols) /\ DOMAIN symbols = 1 .. n
  BY DEF Table
<1>2. \A i \in 1 .. n : symbols[i].offset \in Nat /\ symbols[i].size \in Nat
  BY <1>1 DEF Table, IsSymbol, SideBySide
<1>3. \A i, j \in 1 .. n : i < j => \/ symbols[i].offset + symbols[i].size <= symbols[j].offset
                                     \/ Same(symbols[i], symbols[j])
  <2>1. ASSUME NEW i \in 1 .. n, NEW j \in 1 .. n, i < j, ~Same(symbols[i], symbols[j])
        PROVE  symbols[i].offset + symbols[i].size <= symbols[j].offset
    <3>1. symbols[i].offset <= symbols[j].offset /\ symbols[i].offset # symbols[j].offset
      BY <1>1, <2>1 DEF Sorted, SideBySide
    <3>2. \/ symbols[i].offset + symbols[i].size <= symbols[j].offset
          \/ symbols[j].offset + symbols[j].size <= symbols[i].offset
      BY <1>1, <2>1 DEF SideBySide, EndsBefore
    <3>3. QED
      BY <1>2, <2>1, <3>1, <3>2
  <2>2. QED
    BY <2>1
<1> DEFINE below == [i \in 1 .. n |-> Before(symbols[i], a)]
<1>4. \A i \in 1 .. n : below[i] <=> symbols[i].offset + symbols[i].size <= a
  BY DEF Before, EndsBefore
<1>5. below \in [1 .. n -> BOOLEAN]
  BY DEF Before, EndsBefore
<1>6. below = [i \in DOMAIN symbols |-> Before(symbols[i], a)]
  BY <1>1
<1> HIDE DEF below
<1>7. Parted(below)
  <2>1. ASSUME NEW i \in 1 .. n, NEW j \in 1 .. n, i <= j, below[j]
        PROVE  below[i]
    <3>1. CASE i = j
      BY <2>1, <3>1
    <3>2. CASE i < j
      <4>1. \/ symbols[i].offset + symbols[i].size <= symbols[j].offset
            \/ symbols[i].offset = symbols[j].offset /\ symbols[i].size = symbols[j].size
        BY <1>3, <3>2 DEF Same
      <4>2. symbols[j].offset + symbols[j].size <= a
        BY <1>4, <2>1
      <4>3. symbols[i].offset + symbols[i].size <= a
        BY <1>2, <4>1, <4>2
      <4>4. QED
        BY <1>4, <4>3
    <3>3. QED
      BY <2>1, <3>1, <3>2
  <2>2. DOMAIN below = 1 .. n
    BY <1>5
  <2>3. QED
    BY <2>1, <2>2 DEF Parted
<1>8. PICK k : k = LowerBound(below)
  OBVIOUS
<1>9. k \in 1 .. n + 1 /\ \A i \in 1 .. n : below[i] <=> i < k
  BY <1>5, <1>7, <1>8, LowerBoundFinds
<1>10. SearchSymbol(a) = IF k <= n /\ Covers(symbols[k], a) THEN symbols[k] ELSE NotFound
  BY <1>1, <1>6, <1>8 DEF SearchSymbol
<1>11. CASE k <= n /\ Covers(symbols[k], a)
  <2>1. k \in DOMAIN symbols
    BY <1>1, <1>9, <1>11
  <2>2. QED
    BY <1>10, <1>11, <2>1 DEF Finds, Range
<1>12. CASE ~ (k <= n /\ Covers(symbols[k], a))
  <2>1. ASSUME NEW i \in DOMAIN symbols, Covers(symbols[i], a)
        PROVE  FALSE
    <3>1. i \in 1 .. n /\ symbols[i].offset <= a /\ a < symbols[i].offset + symbols[i].size
      BY <1>1, <2>1 DEF Covers
    <3>2. ~ below[i]
      BY <1>2, <1>4, <3>1
    <3>3. k <= i /\ k \in 1 .. n
      BY <1>9, <3>1, <3>2
    <3>4. ~Covers(symbols[k], a)
      BY <1>12, <3>3
    <3>5. k # i /\ ~Same(symbols[k], symbols[i])
      BY <2>1, <3>4 DEF Same, Covers
    <3>6. symbols[k].offset + symbols[k].size <= symbols[i].offset
      BY <1>3, <3>1, <3>3, <3>5
    <3>7. ~ below[k]
      BY <1>9, <3>3
    <3>8. ~ (symbols[k].offset + symbols[k].size <= a)
      BY <1>4, <3>3, <3>7
    <3>9. QED
      BY <1>2, <3>1, <3>3, <3>6, <3>8
  <2>2. QED
    BY <1>10, <1>12, <2>1 DEF Finds
<1>13. QED
  BY <1>11, <1>12

-----------------------------------------------------------------------------
(* The steps that leave the symbols as they are. *)
LEMMA SymbolsStay ==
  ASSUME SymbolsInv, UNCHANGED <<file, format, symbols, origin, lengths, finished>>,
         pc' \notin Calls \cup PELoop => symbols = <<>>,
         format = "elf" /\ pc' \in Calls => pc \in Calls /\ strings' = strings,
         finished => pc' \in Calls \cup {"closed"}
  PROVE  SymbolsInv'
<1>1. Table(symbols)'
  BY DEF SymbolsInv, Table, Range, IsSymbol
<1>2. ASSUME format = "elf", pc' \in Calls
      PROVE  Sorted(symbols)' /\ \A k \in DOMAIN symbols' : InFile(symbols[k])'
  <2>1. Sorted(symbols) /\ \A k \in DOMAIN symbols : InFile(symbols[k])
    BY <1>2 DEF SymbolsInv
  <2>2. ElfDefined' = ElfDefined
    BY <1>2 DEF ElfDefined, Range, StringAt, As
  <2>3. QED
    BY <2>1, <2>2 DEF Sorted, InFile
<1>3. finished => Sorted(symbols)'
  BY DEF SymbolsInv, Sorted
<1>4. format = "pe" => Origins'
  BY DEF SymbolsInv, Origins
<1>5. QED
  BY <1>1, <1>2, <1>3, <1>4 DEF SymbolsInv

(* Before there are any. *)
LEMMA NoneYet ==
  ASSUME SymbolsInv, pc \notin Calls \cup PELoop \cup {"closed"}, pc' \notin Calls,
         UNCHANGED <<file, format, symbols, origin, lengths, finished>>
  PROVE  SymbolsInv'
<1>1. symbols = <<>> /\ ~finished
  BY DEF SymbolsInv
<1>2. QED
  BY <1>1, SymbolsStay

LEMMA Elsewhere ==
  /\ (ElfPlaces \cup {"opened", "new"}) \cap (Calls \cup PELoop \cup {"closed"}) = {}
  /\ PEPoints \cap (Calls \cup PELoop \cup {"closed"}) = {}
  /\ PELoop \cap Calls = {} /\ {"failed", "closed", "opened"} \cap (Calls \cup PELoop) = {}
  /\ "closed" \notin PELoop
BY DEF ElfPlaces, ElfPoints, PEPoints, PELoop, Calls

(* What an action of the ELF reader before the last one changes. *)
Reads ==
  /\ UNCHANGED <<file, symbols>>
  /\ pc \in ElfPlaces \cup {"opened"} /\ pc' \in ElfPlaces \cup {"failed"}

LEMMA ElfReads ==
  ASSUME ElfStep, ~BuildSymbols
  PROVE  Reads
<1>1. \A why : GiveUp(why) => pc' = "failed" /\ UNCHANGED <<file, symbols>>
  BY DEF GiveUp, imageVars
<1>2. \A ops, next : AskFor(ops, next) => pc' = next /\ UNCHANGED file
  BY DEF AskFor
<1>3. CASE VerifyHeader
  BY <1>2, <1>3 DEF Reads, VerifyHeader, imageVars, ElfPlaces, ElfPoints
<1>4. CASE CheckIdent
  BY <1>1, <1>2, <1>4 DEF Reads, CheckIdent, Have, imageVars, ElfPlaces, ElfPoints
<1>5. CASE CheckHeader
  BY <1>1, <1>2, <1>5 DEF Reads, CheckHeader, Have, ElfPlaces, ElfPoints
<1>6. CASE Dumped
  BY <1>2, <1>6 DEF Reads, Dumped, imageVars, ElfPlaces, ElfPoints
<1>7. CASE GetNames
  BY <1>1, <1>2, <1>7 DEF Reads, GetNames, Have, imageVars, ElfPlaces, ElfPoints
<1>8. CASE HaveNames
  BY <1>2, <1>8 DEF Reads, HaveNames, Have, ElfPlaces, ElfPoints
<1>9. CASE MapSection
  BY <1>1, <1>2, <1>9 DEF Reads, MapSection, NextHeader, Have, ElfPlaces, ElfPoints
<1>10. CASE SearchStrTab
  BY <1>1, <1>2, <1>10 DEF Reads, SearchStrTab, Search, NextHeader, Have, imageVars, ElfPlaces, ElfPoints
<1>11. CASE HaveStrings
  BY <1>2, <1>11 DEF Reads, HaveStrings, Have, ElfPlaces, ElfPoints
<1>12. CASE SearchSymTab
  BY <1>1, <1>2, <1>12 DEF Reads, SearchSymTab, Search, NextHeader, Have, imageVars, ElfPlaces, ElfPoints
<1>13. CASE ReadFails(ElfPoints)
  BY <1>1, <1>13 DEF Reads, ReadFails, ElfPlaces
<1>14. QED
  BY <1>3, <1>4, <1>5, <1>6, <1>7, <1>8, <1>9, <1>10, <1>11, <1>12, <1>13 DEF ElfStep

(* The functions of a table, in any order, are a sequence of symbols of the file. *)
LEMMA FunctionsRight ==
  ASSUME ImageInv, format = "elf", NEW s \in Functions(got)
  PROVE  Table(s) /\ \A k \in DOMAIN s : InFile(s[k])
<1> DEFINE S == {k \in DOMAIN got : IsFunction(got[k])}
<1>1. PICK at \in SetToSeqs(S) : s = [i \in DOMAIN at |-> FunctionAt(got, at[i])]
  BY DEF Functions
<1>2. PICK l \in Nat : DOMAIN got = 1 .. l
  BY DEF ImageInv, ReaderInv, ReaderTypes
<1>3. PICK n \in Nat : n = Cardinality(S)
  <2>1. IsFiniteSet(1 .. l)
    BY FS_Interval
  <2>2. IsFiniteSet(S)
    BY <1>2, <2>1, FS_Subset
  <2>3. QED
    BY <2>2, FS_CardinalityType
<1>4. at \in [1 .. n -> S]
  BY <1>1, <1>3 DEF SetToSeqs
<1> HIDE DEF S
<1>5. DOMAIN s = 1 .. n /\ \A k \in 1 .. n : s[k] = FunctionAt(got, at[k])
  BY <1>1, <1>4
<1>6. ASSUME NEW k \in 1 .. n
      PROVE  IsSymbol(s[k]) /\ InFile(s[k])
  <2>1. at[k] \in DOMAIN got /\ IsFunction(got[at[k]])
    BY <1>4 DEF S
  <2>2. PICK c : c = got[at[k]]
    OBVIOUS
  <2>3. c \in Cell
    BY <2>1, <2>2 DEF ImageInv, ReaderInv, ReaderTypes
  <2>4. c.kind = "symbol" /\ AsSymbol(c) = c
    BY <2>1, <2>2 DEF IsFunction, AsSymbol, As, NoSymbol
  <2>5. c.type = "func" /\ c.shndx # 0
    BY <2>1, <2>2, <2>4 DEF IsFunction
  <2>6. c \in Range(file)
    BY <2>3, <2>4 DEF Cell, Zero
  <2>7. c.value \in Nat /\ c.size \in Nat
    BY <2>3, <2>4, Numbers DEF ElfNumbers, ImageInv
  <2>8. /\ s[k].kind = "function" /\ s[k].offset = c.value /\ s[k].size = c.size
        /\ s[k].name = StringAt(strings, c.name)
    BY <1>5, <2>2, <2>4 DEF FunctionAt
  <2>9. [begin |-> c.value, size |-> c.size, name |-> StringAt(strings, c.name)] \in ElfDefined
    BY <2>4, <2>5, <2>6 DEF ElfDefined
  <2>10. InFile(s[k])
    BY <2>8, <2>9 DEF InFile
  <2>11. QED
    BY <2>7, <2>8, <2>10 DEF IsSymbol
<1>7. s \in Seq(Range(s))
  <2>1. \A k \in 1 .. n : s[k] \in Range(s)
    BY <1>5 DEF Range
  <2>2. s = [k \in 1 .. n |-> s[k]]
    BY <1>1, <1>5
  <2>3. QED
    BY <2>1, <2>2
<1>8. QED
  BY <1>5, <1>6, <1>7 DEF Table

LEMMA ElfSymbols ==
  ASSUME ImageInv, SymbolsInv, ReadElf
  PROVE  SymbolsInv'
<1>1. format = "elf" /\ ElfStep /\ UNCHANGED <<format, origin, lengths, finished>>
  BY DEF ReadElf, Aside, peVars
<1>2. CASE BuildSymbols
  <2>1. PICK s \in Functions(got) : Sorted(s) /\ symbols' = s
    BY <1>2 DEF BuildSymbols
  <2>2. pc \in ElfPlaces /\ pc' = "ready" /\ UNCHANGED <<file, strings>>
    BY <1>2 DEF BuildSymbols, Have, fileVars, ElfPlaces, ElfPoints
  <2>3. ~finished /\ pc' \in Calls
    BY <2>2, Elsewhere DEF SymbolsInv, Calls
  <2>4. Table(s) /\ \A k \in DOMAIN s : InFile(s[k])
    BY <1>1, <2>1, FunctionsRight
  <2>5. ElfDefined' = ElfDefined
    BY <2>2 DEF ElfDefined, Range, StringAt, As
  <2>6. Table(symbols)' /\ Sorted(symbols)' /\ \A k \in DOMAIN symbols' : InFile(symbols[k])'
    BY <2>1, <2>4, <2>5 DEF Table, Range, IsSymbol, Sorted, InFile
  <2>7. QED
    BY <1>1, <2>3, <2>6 DEF SymbolsInv
<1>3. CASE ~BuildSymbols
  <2>1. Reads
    BY <1>1, <1>3, ElfReads
  <2>2. pc \notin Calls \cup PELoop \cup {"closed"} /\ pc' \notin Calls
    BY <2>1, Elsewhere DEF Reads
  <2>3. QED
    BY <1>1, <2>1, <2>2, NoneYet DEF Reads
<1>4. QED
  BY <1>2, <1>3

-----------------------------------------------------------------------------
(* The symbols of PE images. *)
PEReads ==
  /\ UNCHANGED <<file, symbols, origin, lengths, finished>>
  /\ pc \in PEPoints \cup {"opened"} /\ pc' \in PEPoints \cup {"failed"}

LEMMA PEBefore ==
  ASSUME \/ ReadOffset \/ FindSignature \/ CheckSignature \/ CheckFileHeader \/ CheckMagic
         \/ ReadStrings \/ HaveStringTable \/ ScanHeaders
         \/ ReadFails(PEPoints) /\ UNCHANGED peVars
  PROVE  PEReads
<1>1. \A why : GiveUp(why) => pc' = "failed" /\ UNCHANGED <<file, symbols>>
  BY DEF GiveUp, imageVars
<1>2. \A ops, next : AskFor(ops, next) => pc' = next /\ UNCHANGED file
  BY DEF AskFor
<1>3. Keep => UNCHANGED <<symbols, origin, lengths, finished>>
  BY DEF Keep, imageVars, peVars
<1>4. CASE ReadOffset
  BY <1>2, <1>3, <1>4 DEF PEReads, ReadOffset, PEPoints
<1>5. CASE FindSignature
  BY <1>2, <1>3, <1>5 DEF PEReads, FindSignature, Have, PEPoints
<1>6. CASE CheckSignature
  BY <1>1, <1>2, <1>6 DEF PEReads, CheckSignature, Have, PEPoints, Keep, imageVars, peVars
<1>7. CASE CheckFileHeader
  BY <1>1, <1>2, <1>7 DEF PEReads, CheckFileHeader, Have, PEPoints, peVars
<1>8. CASE CheckMagic
  BY <1>1, <1>2, <1>8 DEF PEReads, CheckMagic, Have, PEPoints, Keep, imageVars, peVars
<1>9. CASE ReadStrings
  BY <1>2, <1>3, <1>9 DEF PEReads, ReadStrings, Have, PEPoints
<1>10. CASE HaveStringTable
  BY <1>2, <1>10 DEF PEReads, HaveStringTable, Have, PEPoints, peVars
<1>11. CASE ScanHeaders
  BY <1>2, <1>3, <1>11 DEF PEReads, ScanHeaders, Have, PEPoints
<1>12. CASE ReadFails(PEPoints) /\ UNCHANGED peVars
  BY <1>1, <1>12 DEF PEReads, ReadFails, peVars
<1>13. QED
  BY <1>4, <1>5, <1>6, <1>7, <1>8, <1>9, <1>10, <1>11, <1>12

LEMMA OriginsFound ==
  ASSUME ImageInv, SymbolsInv, format = "pe", UNCHANGED format, ReadSectionHeaders
  PROVE  SymbolsInv'
<1>1. PICK hs : hs = [i \in DOMAIN got |-> PESection(got[i])]
  OBVIOUS
<1>2. pc \in PEPoints
  BY DEF ReadSectionHeaders, Have, PEPoints
<1>3. symbols = <<>> /\ ~finished
  BY <1>2, Elsewhere DEF SymbolsInv
<1>4. CASE GiveUp("data corrupt") /\ UNCHANGED peVars
  <2>1. GiveUp("data corrupt") => pc' = "failed" /\ UNCHANGED <<file, symbols>>
    BY DEF GiveUp, imageVars
  <2>2. pc' = "failed" /\ UNCHANGED <<file, symbols, origin, lengths, finished>>
    BY <1>4, <2>1 DEF peVars
  <2>3. pc' \notin Calls /\ pc \notin Calls \cup PELoop \cup {"closed"}
    BY <1>2, <2>2, Elsewhere
  <2>4. QED
    BY <2>2, <2>3, NoneYet
<1>5. CASE /\ origin' = [i \in DOMAIN hs |-> [virtual |-> hs[i].virtual, size |-> hs[i].size]]
           /\ lengths' = [i \in DOMAIN hs |-> <<>>]
           /\ pc' = "pe next" /\ UNCHANGED <<symbols, finished>>
  <2>1. PICK n \in Nat : DOMAIN got = 1 .. n /\ DOMAIN hs = 1 .. n
    BY <1>1 DEF ImageInv, ReaderInv, ReaderTypes
  <2>2. \A i \in 1 .. n : hs[i].virtual \in Nat /\ hs[i].size \in Nat
    <3>1. ASSUME NEW i \in 1 .. n
          PROVE  hs[i].virtual \in Nat /\ hs[i].size \in Nat
      <4>1. got[i] \in Cell /\ hs[i] = PESection(got[i])
        BY <1>1, <2>1 DEF ImageInv, ReaderInv, ReaderTypes
      <4>2. got[i].kind = "section" => got[i].virtual \in Nat /\ got[i].size \in Nat
        BY <4>1, Numbers DEF PENumbers, ImageInv
      <4>3. NoPESection.virtual = 0 /\ NoPESection.size = 0
        BY DEF NoPESection
      <4>4. \/ got[i].kind = "section" /\ hs[i] = got[i]
            \/ hs[i] = NoPESection
        BY <4>1 DEF PESection, As
      <4>5. QED
        BY <4>2, <4>3, <4>4
    <3>2. QED
      BY <3>1
  <2>3. origin' = [i \in 1 .. n |-> [virtual |-> hs[i].virtual, size |-> hs[i].size]]
    BY <1>5, <2>1
  <2>4. origin' \in Seq([virtual : Nat, size : Nat]) /\ DOMAIN origin' = 1 .. n
    BY <2>2, <2>3
  <2>5. DOMAIN lengths' = 1 .. n /\ \A k \in 1 .. n : lengths'[k] = <<>>
    BY <1>5, <2>1
  <2>6. \A k \in DOMAIN lengths' : \A v \in DOMAIN lengths'[k] : lengths'[k][v] \in Nat
    BY <2>5
  <2>7. symbols' = <<>> /\ DOMAIN symbols' = {}
    <3>1. UNCHANGED symbols
      BY <1>5
    <3>2. QED
      BY <1>3, <3>1
  <2>8. Origins'
    BY <2>4, <2>5, <2>6, <2>7 DEF Origins
  <2>9. Table(symbols)'
    BY <2>7 DEF Table, Range
  <2>10. format' = "pe" /\ ~finished'
    BY <1>3, <1>5
  <2>11. QED
    BY <2>7, <2>8, <2>9, <2>10 DEF SymbolsInv
<1>6. QED
  BY <1>1, <1>4, <1>5 DEF ReadSectionHeaders, AskFor

(* A step within the loop over the symbols. *)
LEMMA InLoop ==
  ASSUME SymbolsInv, format = "pe", UNCHANGED <<format, finished>>, pc \in PELoop, pc' \in PELoop,
         Table(symbols)', Origins'
  PROVE  SymbolsInv'
<1>1. ~finished /\ format' = "pe"
  BY Elsewhere DEF SymbolsInv
<1>2. QED
  BY <1>1 DEF SymbolsInv

LEMMA LoopStays ==
  ASSUME SymbolsInv, format = "pe", UNCHANGED <<format, finished, symbols, origin, lengths>>,
         pc \in PELoop, pc' \in PELoop
  PROVE  SymbolsInv'
<1>1. Table(symbols)' /\ Origins'
  BY DEF SymbolsInv, Table, Range, IsSymbol, Origins
<1>2. QED
  BY <1>1, InLoop

LEMMA PESymbolNumbers ==
  ASSUME ImageInv, format = "pe", NEW c \in Cell
  PROVE  PESymbol(c).section \in Int /\ PESymbol(c).value \in Nat
<1>1. PENumbers(c)
  BY Numbers DEF ImageInv
<1>2. CASE c.kind \in {"symbol", "aux", "string"}
  BY <1>1, <1>2 DEF PENumbers, PESymbol
<1>3. CASE c.kind \notin {"symbol", "aux", "string"}
  <2>1. PESymbol(c) = NoPESymbol
    BY <1>3 DEF PESymbol
  <2>2. NoPESymbol.section = 0 /\ NoPESymbol.value = 0
    BY DEF NoPESymbol
  <2>3. QED
    BY <2>1, <2>2
<1>4. QED
  BY <1>2, <1>3

LEMMA FunctionIsSymbol ==
  ASSUME Origins, NEW s, s.section \in Int, s.value \in Nat, TakenForFunction(s), InSections(s)
  PROVE  IsSymbol(PEFunction(s)) /\ PEFunction(s).section \in DOMAIN origin
<1>1. origin \in Seq([virtual : Nat, size : Nat]) /\ DOMAIN lengths = DOMAIN origin
  BY DEF Origins
<1>2. s.section > 0 /\ s.section < Len(origin)
  BY DEF TakenForFunction, InSections
<1>3. PICK l \in Nat : l = Len(origin) /\ DOMAIN origin = 1 .. l
  BY <1>1
<1>4. s.section \in 1 .. l
  BY <1>2, <1>3
<1>5. origin[s.section] \in [virtual : Nat, size : Nat]
  BY <1>1, <1>3, <1>4, ElementOfSeq
<1>6. origin[s.section].virtual \in Nat
  BY <1>5
<1>7. LengthOf(s) \in Nat
  BY <1>1, <1>3, <1>4 DEF LengthOf, Origins
<1>8. /\ PEFunction(s).kind = "function" /\ PEFunction(s).section = s.section
      /\ PEFunction(s).offset = origin[s.section].virtual + s.value
      /\ PEFunction(s).size = LengthOf(s)
  BY DEF PEFunction
<1>9. QED
  BY <1>3, <1>4, <1>6, <1>7, <1>8 DEF IsSymbol

LEMMA OneMore ==
  ASSUME Table(symbols), Origins, NEW f, IsSymbol(f), f.section \in DOMAIN origin,
         NEW next, next = Append(symbols, f)
  PROVE  Table(next) /\ \A k \in DOMAIN next : next[k].section \in DOMAIN origin
<1>1. symbols \in Seq(Range(symbols))
  BY DEF Table
<1>2. PICK n \in Nat : n = Len(symbols) /\ DOMAIN symbols = 1 .. n
  BY <1>1
<1>3. /\ DOMAIN next = 1 .. n + 1 /\ next[n + 1] = f
      /\ \A k \in 1 .. n : next[k] = symbols[k]
  BY <1>1, <1>2
<1>4. next = [k \in 1 .. n + 1 |-> next[k]]
  <2>1. PICK S : S = Range(symbols) \cup {f}
    OBVIOUS
  <2>2. symbols \in Seq(S) /\ f \in S
    BY <1>1, <2>1
  <2>3. next \in Seq(S)
    BY <2>2
  <2>4. PICK m : m = Len(next) /\ next \in [1 .. m -> S]
    BY <2>3, LenProperties
  <2>5. QED
    BY <1>3, <2>4
<1>5. \A k \in 1 .. n + 1 : k = n + 1 \/ k \in 1 .. n
  BY <1>2
<1>6. \A k \in DOMAIN next : IsSymbol(next[k]) /\ next[k].section \in DOMAIN origin
  BY <1>2, <1>3, <1>5 DEF Table, Origins
<1>7. \A k \in 1 .. n + 1 : next[k] \in Range(next)
  BY <1>3 DEF Range
<1>8. next \in Seq(Range(next))
  BY <1>2, <1>4, <1>7
<1>9. QED
  BY <1>6, <1>8 DEF Table

LEMMA FunctionTaken ==
  ASSUME ImageInv, SymbolsInv, format = "pe", UNCHANGED <<format, finished, origin, lengths>>,
         pc \in PELoop, pc' \in PELoop, got[1] \in Cell, NEW s, s = PESymbol(got[1]),
         TakenForFunction(s), InSections(s), symbols' = Append(symbols, PEFunction(s))
  PROVE  SymbolsInv'
<1>1. s.section \in Int /\ s.value \in Nat
  BY PESymbolNumbers
<1>2. Origins /\ Table(symbols)
  BY DEF SymbolsInv
<1>3. PICK f : f = PEFunction(s)
  OBVIOUS
<1>4. IsSymbol(f) /\ f.section \in DOMAIN origin
  BY <1>1, <1>2, <1>3, FunctionIsSymbol
<1>5. PICK next : next = Append(symbols, f)
  OBVIOUS
<1>6. Table(next) /\ \A k \in DOMAIN next : next[k].section \in DOMAIN origin
  BY <1>2, <1>4, <1>5, OneMore
<1>7. symbols' = next
  BY <1>3, <1>5
<1>8. Table(symbols)'
  BY <1>6, <1>7 DEF Table, Range, IsSymbol
<1>9. Origins'
  BY <1>2, <1>6, <1>7 DEF Origins
<1>10. QED
  BY <1>8, <1>9, InLoop

LEMMA LengthTaken ==
  ASSUME ImageInv, SymbolsInv, format = "pe", UNCHANGED format, TakeLength
  PROVE  SymbolsInv'
<1>1. PICK length, of :
        /\ length = As("aux", got[1], [length |-> 0]).length /\ of = lengths[symbol.section]
        /\ lengths' = [lengths EXCEPT ![symbol.section] =
                         IF symbol.value \in DOMAIN of THEN of ELSE Inserted(of, symbol.value, length)]
  BY DEF TakeLength
<1>2. /\ Have("pe length") /\ UNCHANGED <<symbols, origin, finished>>
      /\ pc \in PELoop /\ pc' \in PELoop
  BY DEF TakeLength, Have, SkipAux, AskFor, PELoop
<1>3. length \in Nat
  <2>1. got[1] \in Cell
    BY <1>2, OneFetched DEF OneCell
  <2>2. got[1].kind = "aux" => got[1].length \in Nat
    BY <2>1, Numbers DEF PENumbers, ImageInv
  <2>3. QED
    BY <1>1, <2>2 DEF As
<1>4. Origins
  BY DEF SymbolsInv
<1>5. PICK new : new = IF symbol.value \in DOMAIN of THEN of ELSE Inserted(of, symbol.value, length)
  OBVIOUS
<1>6. symbol.section \in DOMAIN lengths => \A v \in DOMAIN new : new[v] \in Nat
  <2>1. SUFFICES ASSUME symbol.section \in DOMAIN lengths, NEW v \in DOMAIN new PROVE new[v] \in Nat
    OBVIOUS
  <2>2. \A w \in DOMAIN of : of[w] \in Nat
    BY <1>1, <1>4, <2>1 DEF Origins
  <2>3. CASE symbol.value \in DOMAIN of
    BY <1>5, <2>1, <2>2, <2>3
  <2>4. CASE symbol.value \notin DOMAIN of
    <3>1. new = [w \in DOMAIN of \cup {symbol.value} |-> IF w = symbol.value THEN length ELSE of[w]]
      BY <1>5, <2>4 DEF Inserted
    <3>2. QED
      BY <1>3, <2>1, <2>2, <3>1
  <2>5. QED
    BY <2>3, <2>4
<1>7. lengths' = [lengths EXCEPT ![symbol.section] = new]
  BY <1>1, <1>5
<1>8. /\ DOMAIN lengths' = DOMAIN lengths
      /\ \A k \in DOMAIN lengths : lengths'[k] = IF k = symbol.section THEN new ELSE lengths[k]
  BY <1>7
<1>9. Origins'
  BY <1>2, <1>4, <1>6, <1>8 DEF Origins
<1>10. Table(symbols)'
  BY <1>2 DEF SymbolsInv, Table, Range, IsSymbol
<1>11. QED
  BY <1>2, <1>9, <1>10, InLoop

(* Sorting keeps what the symbols are, and stretching keeps where they begin. *)
LEMMA Finished ==
  ASSUME SymbolsInv, Origins, NEW s \in Permuted(symbols), Sorted(s), NEW next, next = Stretched(s)
  PROVE  /\ Table(next) /\ Sorted(next)
         /\ \A k \in DOMAIN next : next[k].section \in DOMAIN origin
<1>1. PICK n \in Nat : DOMAIN symbols = 1 .. n
  BY DEF SymbolsInv, Table
<1>2. PICK p \in SetToSeqs(1 .. n) : s = [i \in 1 .. n |-> symbols[p[i]]]
  BY <1>1 DEF Permuted
<1>3. p \in [1 .. n -> 1 .. n]
  <2>1. Cardinality(1 .. n) = n
    BY FS_Interval
  <2>2. QED
    BY <1>2, <2>1 DEF SetToSeqs
<1>4. \A k \in 1 .. n : IsSymbol(s[k]) /\ s[k].section \in DOMAIN origin
  BY <1>1, <1>2, <1>3 DEF SymbolsInv, Table, Origins
<1>5. DOMAIN s = 1 .. n /\ Len(s) = n
  BY <1>2
<1>6. DOMAIN next = 1 .. n
  BY <1>5 DEF Stretched
<1>7. ASSUME NEW k \in 1 .. n
      PROVE  /\ next[k].kind = "function" /\ next[k].offset = s[k].offset
             /\ next[k].section = s[k].section /\ next[k].size \in Int
  <2>1. s[k].kind = "function" /\ s[k].offset \in Nat /\ s[k].size \in Int
    BY <1>4 DEF IsSymbol
  <2>2. CASE s[k].size # 0
    <3>1. next[k] = s[k]
      BY <1>5, <2>2 DEF Stretched
    <3>2. QED
      BY <2>1, <3>1
  <2>3. CASE s[k].size = 0
    <3>1. PICK x : x = IF k < n THEN s[k + 1].offset - s[k].offset
                       ELSE origin[s[k].section].virtual + origin[s[k].section].size - s[k].offset
      OBVIOUS
    <3>2. next[k] = [s[k] EXCEPT !.size = x]
      BY <1>5, <2>3, <3>1 DEF Stretched
    <3>3. x \in Int
      <4>1. CASE k < n
        <5>1. k + 1 \in 1 .. n
          BY <4>1
        <5>2. s[k + 1].offset \in Nat
          BY <1>4, <5>1 DEF IsSymbol
        <5>3. QED
          BY <2>1, <3>1, <4>1, <5>2
      <4>2. CASE ~ (k < n)
        <5>1. origin \in Seq([virtual : Nat, size : Nat])
          BY DEF Origins
        <5>2. PICK l \in Nat : l = Len(origin) /\ DOMAIN origin = 1 .. l
          BY <5>1
        <5>3. s[k].section \in 1 .. l
          BY <1>4, <5>2
        <5>4. origin[s[k].section] \in [virtual : Nat, size : Nat]
          BY <5>1, <5>2, <5>3, ElementOfSeq
        <5>5. QED
          BY <2>1, <3>1, <4>2, <5>4
      <4>3. QED
        BY <4>1, <4>2
    <3>4. /\ next[k].kind = s[k].kind /\ next[k].offset = s[k].offset
          /\ next[k].section = s[k].section /\ next[k].size = x
      BY <3>2
    <3>5. QED
      BY <2>1, <3>3, <3>4
  <2>4. QED
    BY <2>2, <2>3
<1>8. \A k \in 1 .. n : IsSymbol(next[k]) /\ next[k].section \in DOMAIN origin
  BY <1>4, <1>7 DEF IsSymbol
<1>9. Sorted(next)
  BY <1>5, <1>6, <1>7 DEF Sorted
<1>10. next \in Seq(Range(next))
  <2>1. \A k \in 1 .. n : next[k] \in Range(next)
    BY <1>6 DEF Range
  <2>2. next = [k \in 1 .. n |-> next[k]]
    BY <1>5 DEF Stretched
  <2>3. QED
    BY <2>1, <2>2
<1>11. QED
  BY <1>6, <1>8, <1>9, <1>10 DEF Table

LEMMA InTheLoop ==
  ASSUME NextSymbol \/ TakeSymbol \/ TakeFileName \/ TakeLength
  PROVE  pc \in PELoop /\ pc' \in PELoop /\ UNCHANGED finished
<1>1. \A ops, next : AskFor(ops, next) => pc' = next
  BY DEF AskFor
<1>2. CASE NextSymbol
  BY <1>1, <1>2 DEF NextSymbol, Have, Keep, peVars, PELoop
<1>3. CASE TakeSymbol
  <2>1. pc \in PELoop
    BY <1>3 DEF TakeSymbol, Have, PELoop
  <2>2. \A next : ReadAux(next) => pc' = next /\ UNCHANGED finished
    BY <1>1 DEF ReadAux
  <2>3. \A s, n : SkipAux(s, n) => pc' \in PELoop
    BY <1>1 DEF SkipAux, PELoop
  <2>4. \A next : ReadOn(next) => pc' = next
    BY DEF ReadOn
  <2>5. QED
    BY <1>3, <2>1, <2>2, <2>3, <2>4 DEF TakeSymbol, PELoop, peVars
<1>4. CASE TakeFileName
  BY <1>1, <1>4 DEF TakeFileName, Have, SkipAux, PELoop
<1>5. CASE TakeLength
  BY <1>1, <1>5 DEF TakeLength, Have, SkipAux, PELoop
<1>6. QED
  BY <1>2, <1>3, <1>4, <1>5

(* What a symbol that is taken for a function adds, and only that. *)
LEMMA Taken ==
  ASSUME TakeSymbol
  PROVE  /\ UNCHANGED <<origin, lengths>>
         /\ \/ UNCHANGED symbols
            \/ \E s : /\ s = PESymbol(got[1]) /\ TakenForFunction(s) /\ InSections(s)
                      /\ symbols' = Append(symbols, PEFunction(s))
<1>1. PICK s : s = PESymbol(got[1])
  OBVIOUS
<1>2. \A next : ReadAux(next) => UNCHANGED <<origin, lengths, symbols>>
  BY DEF ReadAux, imageVars
<1>3. QED
  BY <1>1, <1>2 DEF TakeSymbol, peVars

LEMMA FinishedSymbols ==
  ASSUME ImageInv, SymbolsInv, format = "pe", UNCHANGED format, FinishSymbols
  PROVE  SymbolsInv'
<1>1. Origins /\ Table(symbols)
  BY DEF SymbolsInv
<1>2. /\ pc' = "ready" /\ UNCHANGED <<origin, lengths>> /\ pc \in PELoop
      /\ \/ (\E s \in Permuted(symbols) : Sorted(s) /\ symbols' = Stretched(s))
         \/ UNCHANGED <<symbols, finished>>
  BY DEF FinishSymbols, Have, PELoop
<1>3. ~finished
  BY <1>2, Elsewhere DEF SymbolsInv
<1>4. pc' \in Calls /\ format' = "pe"
  BY <1>2 DEF Calls
<1>5. CASE \E s \in Permuted(symbols) : Sorted(s) /\ symbols' = Stretched(s)
  <2>1. PICK s \in Permuted(symbols) : Sorted(s) /\ symbols' = Stretched(s)
    BY <1>5
  <2>2. PICK next : next = Stretched(s)
    OBVIOUS
  <2>3. /\ Table(next) /\ Sorted(next)
        /\ \A k \in DOMAIN next : next[k].section \in DOMAIN origin
    BY <1>1, <2>1, <2>2, Finished
  <2>4. symbols' = next
    BY <2>1, <2>2
  <2>5. Table(symbols)' /\ Sorted(symbols)'
    BY <2>3, <2>4 DEF Table, Range, IsSymbol, Sorted
  <2>6. Origins'
    BY <1>1, <1>2, <2>3, <2>4 DEF Origins
  <2>7. QED
    BY <1>4, <2>5, <2>6 DEF SymbolsInv
<1>6. CASE UNCHANGED <<symbols, finished>>
  <2>1. Table(symbols)' /\ Origins'
    BY <1>1, <1>2, <1>6 DEF Table, Range, IsSymbol, Origins
  <2>2. ~finished'
    BY <1>3, <1>6
  <2>3. QED
    BY <1>4, <2>1, <2>2 DEF SymbolsInv
<1>7. QED
  BY <1>2, <1>5, <1>6

LEMMA PESymbols ==
  ASSUME ImageInv, SymbolsInv, ReadPE
  PROVE  SymbolsInv'
<1>1. format = "pe" /\ PEStep /\ UNCHANGED format
  BY DEF ReadPE
<1>2. CASE \/ ReadOffset \/ FindSignature \/ CheckSignature \/ CheckFileHeader \/ CheckMagic
           \/ ReadStrings \/ HaveStringTable \/ ScanHeaders
           \/ ReadFails(PEPoints) /\ UNCHANGED peVars
  <2>1. PEReads
    BY <1>2, PEBefore
  <2>2. pc \notin Calls \cup PELoop \cup {"closed"} /\ pc' \notin Calls
    BY <2>1, Elsewhere DEF PEReads
  <2>3. QED
    BY <1>1, <2>1, <2>2, NoneYet DEF PEReads
<1>3. CASE ReadSectionHeaders
  BY <1>1, <1>3, OriginsFound
<1>4. CASE NextSymbol
  <2>1. UNCHANGED <<symbols, origin, lengths>>
    BY <1>4 DEF NextSymbol, Keep, imageVars, peVars
  <2>2. QED
    BY <1>1, <1>4, <2>1, InTheLoop, LoopStays
<1>5. CASE TakeSymbol
  <2>1. /\ UNCHANGED <<origin, lengths>>
        /\ \/ UNCHANGED symbols
           \/ \E s : /\ s = PESymbol(got[1]) /\ TakenForFunction(s) /\ InSections(s)
                     /\ symbols' = Append(symbols, PEFunction(s))
    BY <1>5, Taken
  <2>2. pc \in PELoop /\ pc' \in PELoop /\ UNCHANGED finished
    BY <1>5, InTheLoop
  <2>3. CASE UNCHANGED symbols
    BY <1>1, <2>1, <2>2, <2>3, LoopStays
  <2>4. CASE \E s : /\ s = PESymbol(got[1]) /\ TakenForFunction(s) /\ InSections(s)
                    /\ symbols' = Append(symbols, PEFunction(s))
    <3>1. got[1] \in Cell
      BY <1>5, OneFetched DEF TakeSymbol, OneCell
    <3>2. QED
      BY <1>1, <2>1, <2>2, <2>4, <3>1, FunctionTaken
  <2>5. QED
    BY <2>1, <2>3, <2>4
<1>6. CASE TakeFileName
  <2>1. UNCHANGED <<symbols, origin, lengths>>
    BY <1>6 DEF TakeFileName
  <2>2. QED
    BY <1>1, <1>6, <2>1, InTheLoop, LoopStays
<1>7. CASE TakeLength
  BY <1>1, <1>7, LengthTaken
<1>8. CASE FinishSymbols
  BY <1>1, <1>8, FinishedSymbols
<1>9. QED
  BY <1>1, <1>2, <1>3, <1>4, <1>5, <1>6, <1>7, <1>8 DEF PEStep

-----------------------------------------------------------------------------
(* The other steps. *)
LEMMA InitSymbolsInv == Init => SymbolsInv
<1>1. SUFFICES ASSUME Init
               PROVE  SymbolsInv
  OBVIOUS
<1>2. /\ pc = "new" /\ symbols = <<>> /\ origin = <<>> /\ lengths = <<>> /\ finished = FALSE
  BY <1>1 DEF Init, ImageInit, PEInit
<1>3. pc \notin Calls \cup PELoop
  BY <1>2 DEF Calls, PELoop
<1>4. Table(symbols) /\ DOMAIN symbols = {} /\ DOMAIN lengths = {} /\ DOMAIN origin = {}
  BY <1>2 DEF Table, Range
<1>5. Origins
  BY <1>2, <1>4 DEF Origins
<1>6. QED
  BY <1>2, <1>3, <1>4, <1>5 DEF SymbolsInv

LEMMA OthersStay ==
  ASSUME SymbolsInv, [Next]_vars, ~ReadElf, ~ReadPE
  PROVE  SymbolsInv'
<1>1. CASE ReadFile
  <2>1. UNCHANGED <<file, format, pc, strings, symbols, origin, lengths, finished>>
    BY <1>1 DEF ReadFile, FileStep, SeekInBuffer, SeekInFile, SeekFails, ReadFromBuffer,
                ReadFromFile, Aside, imageVars, peVars
  <2>2. QED
    BY <2>1, SymbolsStay DEF SymbolsInv
<1>2. CASE GetSections \/ GetSection \/ ReadSections
  <2>1. /\ UNCHANGED <<file, format, strings, symbols, origin, lengths, finished>>
        /\ pc \in Calls /\ pc' \in Calls
    <3>1. CASE GetSections \/ GetSection
      BY <3>1 DEF GetSections, GetSection, Call, CallSections, fileVars, imageVars, peVars, Calls
    <3>2. CASE ReadSections
      BY <3>2 DEF ReadSections, HandOver, Materialize, Filled, SectionsEnd, EndSections, Have, Aside,
                  fileVars, imageVars, peVars, Calls
    <3>3. QED
      BY <1>2, <3>1, <3>2
  <2>2. QED
    BY <2>1, SymbolsStay
<1>3. CASE Open
  <2>1. /\ UNCHANGED <<file, format, symbols, origin, lengths, finished>>
        /\ pc = "new" /\ pc' \in {"opened", "failed"}
    BY <1>3 DEF Open, OpenImage, OpenFile, Aside, imageVars, peVars
  <2>2. pc \notin Calls \cup PELoop \cup {"closed"} /\ pc' \notin Calls
    BY <2>1, Elsewhere
  <2>3. QED
    BY <2>1, <2>2, NoneYet
<1>4. CASE Close
  <2>1. /\ pc' = "closed" /\ symbols' = <<>> /\ UNCHANGED <<format, origin, lengths, finished>>
    BY <1>4 DEF Close, CloseImage, Aside, peVars
  <2>2. pc' \notin Calls /\ pc' \in Calls \cup {"closed"}
    BY <2>1, Elsewhere
  <2>3. Table(symbols)' /\ Sorted(symbols)' /\ DOMAIN symbols' = {}
    BY <2>1 DEF Table, Range, Sorted
  <2>4. format = "pe" => Origins'
    BY <2>1, <2>3 DEF SymbolsInv, Origins
  <2>5. QED
    BY <2>1, <2>2, <2>3, <2>4 DEF SymbolsInv
<1>5. CASE UNCHANGED vars
  <2>1. UNCHANGED <<file, format, pc, strings, symbols, origin, lengths, finished>>
    BY <1>5 DEF vars, fileVars, imageVars, peVars
  <2>2. QED
    BY <2>1, SymbolsStay DEF SymbolsInv
<1>6. QED
  BY <1>1, <1>2, <1>3, <1>4, <1>5 DEF Next

LEMMA NextSymbolsInv == ImageInv /\ SymbolsInv /\ [Next]_vars => SymbolsInv'
BY ElfSymbols, PESymbols, OthersStay

LEMMA SymbolsInvHolds == Spec => []SymbolsInv
BY InitSymbolsInv, NextSymbolsInv, ImageInvHolds, PTL DEF Spec

-----------------------------------------------------------------------------
(* searchSymbol, in an image of either format whose symbols do not overlap,
   finds the one that contains an address, whatever the address and however
   many symbols there are, and none when there is no such symbol: at every
   moment between the opening of the image and its closing, whatever the reads
   of the table returned at a time.  It has nothing to say of PE images whose
   table could not be read to its end, which leaves it unsorted.             *)
SearchFinds ==
  pc \in Calls /\ (format = "pe" => finished) /\ SideBySide => \A a \in Int : Finds(a)

THEOREM SearchKept == Spec => []SearchFinds
<1>1. SymbolsInv /\ Formats => SearchFinds
  <2>1. SUFFICES ASSUME SymbolsInv, Formats, pc \in Calls, format = "pe" => finished, SideBySide,
                        NEW a \in Int
                 PROVE  Finds(a)
    BY DEF SearchFinds
  <2>2. format \in {"elf", "pe"}
    BY <2>1 DEF Formats
  <2>3. Table(symbols) /\ Sorted(symbols)
    BY <2>1, <2>2 DEF SymbolsInv
  <2>4. QED
    BY <2>1, <2>3, SearchSound
<1>2. ImageInv => Formats
  BY DEF ImageInv
<1>3. QED
  BY <1>1, <1>2, ImageInvHolds, SymbolsInvHolds, PTL

(* What searchSymbol finds in an ELF file whose functions do not overlap is a
   function that the file defines, under the name the file gives it, and one
   that contains the address; when it finds nothing, no symbol it has read
   does.  This is SymbolsRight for every ELF file and address, but for what
   the symbol table leaves out.                                              *)
FoundIsDefined ==
  format = "elf" /\ pc \in Calls /\ Apart =>
    \A a \in Int :
      LET f == SearchSymbol(a) IN
      IF f = NotFound THEN \A k \in DOMAIN symbols : ~Covers(symbols[k], a)
      ELSE \E g \in Defined : g.name = f.name /\ Inhabits(g, a)

LEMMA ApartSideBySide ==
  ASSUME SymbolsInv, format = "elf", pc \in Calls, Apart, Formats
  PROVE  SideBySide
<1>1. \A k \in DOMAIN symbols : InFile(symbols[k]) /\ IsSymbol(symbols[k])
  BY DEF SymbolsInv, Table
<1>2. Defined = ElfDefined
  BY DEF Defined
<1>3. ASSUME NEW g \in ElfDefined
      PROVE  g.begin \in Nat /\ g.size \in Nat
  <2>1. PICK c \in Range(file) : /\ c.kind = "symbol"
                                 /\ g = [begin |-> c.value, size |-> c.size,
                                         name |-> StringAt(strings, c.name)]
    BY DEF ElfDefined
  <2>2. c \in Cell
    BY DEF Cell
  <2>3. c.value \in Nat /\ c.size \in Nat
    BY <2>1, <2>2, Numbers DEF ElfNumbers
  <2>4. QED
    BY <2>1, <2>3
<1>4. ASSUME NEW i \in DOMAIN symbols
      PROVE  symbols[i].size >= 0
  BY <1>1, <1>3 DEF InFile
<1>5. ASSUME NEW i \in DOMAIN symbols, NEW j \in DOMAIN symbols, ~Same(symbols[i], symbols[j])
      PROVE  /\ symbols[i].offset # symbols[j].offset
             /\ \/ EndsBefore(symbols[i], symbols[j].offset)
                \/ EndsBefore(symbols[j], symbols[i].offset)
  <2>1. PICK f \in ElfDefined : f.begin = symbols[i].offset /\ f.size = symbols[i].size
    BY <1>1 DEF InFile
  <2>2. PICK g \in ElfDefined : g.begin = symbols[j].offset /\ g.size = symbols[j].size
    BY <1>1 DEF InFile
  <2>3. f # g
    BY <1>5, <2>1, <2>2 DEF Same
  <2>4. f.begin # g.begin /\ (f.begin + f.size <= g.begin \/ g.begin + g.size <= f.begin)
    BY <1>2, <2>3 DEF Apart
  <2>5. QED
    BY <2>1, <2>2, <2>4 DEF EndsBefore
<1>6. QED
  BY <1>4, <1>5 DEF SideBySide

THEOREM FoundKept == Spec => []FoundIsDefined
<1>1. SymbolsInv /\ Formats => FoundIsDefined
  <2>1. SUFFICES ASSUME SymbolsInv, Formats, format = "elf", pc \in Calls, Apart, NEW a \in Int
                 PROVE  LET f == SearchSymbol(a) IN
                        IF f = NotFound THEN \A k \in DOMAIN symbols : ~Covers(symbols[k], a)
                        ELSE \E g \in Defined : g.name = f.name /\ Inhabits(g, a)
    BY DEF FoundIsDefined
  <2>2. Table(symbols) /\ Sorted(symbols) /\ \A k \in DOMAIN symbols : InFile(symbols[k])
    BY <2>1 DEF SymbolsInv
  <2>3. PICK f : f = SearchSymbol(a)
    OBVIOUS
  <2>4. IF \E i \in DOMAIN symbols : Covers(symbols[i], a)
          THEN f \in Range(symbols) /\ Covers(f, a)
          ELSE f = NotFound
    BY <2>1, <2>2, <2>3, ApartSideBySide, SearchSound DEF Finds
  <2>5. CASE \E i \in DOMAIN symbols : Covers(symbols[i], a)
    <3>1. PICK k \in DOMAIN symbols : f = symbols[k]
      BY <2>4, <2>5 DEF Range
    <3>2. f.kind = "function" /\ InFile(f)
      BY <2>2, <3>1 DEF Table, IsSymbol
    <3>3. f # NotFound
      BY <3>2 DEF NotFound
    <3>4. PICK g \in ElfDefined : g.name = f.name /\ g.begin = f.offset /\ g.size = f.size
      BY <3>2 DEF InFile
    <3>5. Inhabits(g, a) /\ g \in Defined
      BY <2>1, <2>4, <2>5, <3>4 DEF Inhabits, Covers, Defined
    <3>6. QED
      BY <2>3, <3>3, <3>4, <3>5
  <2>6. CASE ~ \E i \in DOMAIN symbols : Covers(symbols[i], a)
    BY <2>3, <2>4, <2>6
  <2>7. QED
    BY <2>5, <2>6
<1>2. ImageInv => Formats
  BY DEF ImageInv
<1>3. QED
  BY <1>1, <1>2, ImageInvHolds, SymbolsInvHolds, PTL

-----------------------------------------------------------------------------
(* The symbol table of an ELF file is read as a whole. *)
SymTables == {s \in Range(file) : s.kind = "section" /\ s.type = "symtab"}
AtTable == pc = "elf symbols"

Stands(f, c) == f.offset = c.value /\ f.size = c.size /\ f.name = StringAt(strings, c.name)
HasAll(s) ==
  \A c \in Range(Cells(s.offset, s.size)) :
    IsFunction(c) => \E k \in DOMAIN symbols : Stands(symbols[k], c)

TableInv ==
  /\ spoiled => faults # 0
  /\ format = "elf" /\ AtTable => \E s \in SymTables : Copying(s.offset, s.size)
  /\ format = "elf" /\ pc \in Calls /\ faults = 0 => \E s \in SymTables : HasAll(s)

LEMMA TableStays ==
  ASSUME TableInv, UNCHANGED <<file, format, symbols, strings>>,
         spoiled' => faults' # 0, faults' = 0 => faults = 0,
         format = "elf" /\ AtTable' => \E s \in SymTables : Copying(s.offset, s.size)',
         format = "elf" /\ pc' \in Calls => pc \in Calls
  PROVE  TableInv'
<1>1. SymTables' = SymTables
  BY DEF SymTables, Range
<1>2. \A s : HasAll(s)' <=> HasAll(s)
  BY DEF HasAll, Cells, Range, Stands, StringAt, As
<1>3. ASSUME format' = "elf", pc' \in Calls, faults' = 0
      PROVE  \E s \in SymTables' : HasAll(s)'
  <2>1. PICK s \in SymTables : HasAll(s)
    BY <1>3 DEF TableInv
  <2>2. QED
    BY <1>1, <1>2, <2>1
<1>4. ASSUME format' = "elf", AtTable'
      PROVE  \E s \in SymTables' : Copying(s.offset, s.size)'
  BY <1>1, <1>4
<1>5. QED
  BY <1>3, <1>4 DEF TableInv

(* Where no table is being read and none was. *)
LEMMA NoTable ==
  ASSUME spoiled' => faults' # 0, format' = "elf" => ~AtTable' /\ pc' \notin Calls
  PROVE  TableInv'
BY DEF TableInv

LEMMA FileFaults ==
  ASSUME ReaderInv, FileStep, spoiled => faults # 0
  PROVE  (spoiled' => faults' # 0) /\ (faults' = 0 => faults = 0)
<1>1. faults \in Nat
  BY DEF ReaderInv, ReaderTypes
<1>2. ASSUME NEW old, NEW offset, NEW from, Refill(old, offset, from)
      PROVE  \/ faults' = faults /\ rc' # "error"
             \/ faults' = faults + 1
  BY <1>2 DEF Refill
<1>3. CASE SeekInBuffer \/ ReadFromBuffer
  BY <1>3 DEF SeekInBuffer, ReadFromBuffer
<1>4. CASE SeekFails
  BY <1>1, <1>4 DEF SeekFails
<1>5. CASE SeekInFile
  <2>1. (\E n : Refill(ForSeek, n, n)) /\ (spoiled' => rc' = "error")
    BY <1>5 DEF SeekInFile
  <2>2. \/ faults' = faults /\ rc' # "error"
        \/ faults' = faults + 1
    BY <1>2, <2>1
  <2>3. CASE faults' = faults /\ rc' # "error"
    BY <2>1, <2>3
  <2>4. CASE faults' = faults + 1
    BY <1>1, <2>4
  <2>5. QED
    BY <2>2, <2>3, <2>4
<1>6. CASE ReadFromFile
  <2>1. Refill(buffer, fileOffset, position) /\ (spoiled' => spoiled \/ rc' = "error")
    BY <1>6 DEF ReadFromFile, RefillNext
  <2>2. \/ faults' = faults /\ rc' # "error"
        \/ faults' = faults + 1
    BY <1>2, <2>1
  <2>3. CASE faults' = faults /\ rc' # "error"
    <3>1. spoiled' => spoiled
      BY <2>1, <2>3
    <3>2. QED
      BY <2>3, <3>1
  <2>4. CASE faults' = faults + 1
    BY <1>1, <2>4
  <2>5. QED
    BY <2>2, <2>3, <2>4
<1>7. QED
  BY <1>3, <1>4, <1>5, <1>6 DEF FileStep

LEMMA TableNumbers ==
  ASSUME Formats, format = "elf", NEW s \in SymTables
  PROVE  s.offset \in Nat /\ s.size \in Nat
<1>1. s \in Cell /\ s.kind = "section"
  BY DEF SymTables, Cell
<1>2. QED
  BY <1>1, Numbers DEF ElfNumbers

LEMMA TableReadOn ==
  ASSUME ImageInv, TableInv, ReadFile
  PROVE  TableInv'
<1>1. ReaderInv /\ Formats /\ FileStep /\ UNCHANGED <<file, format, pc, symbols, strings>>
  BY DEF ReadFile, Aside, imageVars, ImageInv, FileStep, SeekInBuffer, SeekInFile, SeekFails,
         ReadFromBuffer, ReadFromFile
<1>2. (spoiled' => faults' # 0) /\ (faults' = 0 => faults = 0)
  BY <1>1, FileFaults DEF TableInv
<1>3. ASSUME format = "elf", AtTable'
      PROVE  \E s \in SymTables : Copying(s.offset, s.size)'
  <2>1. AtTable
    BY <1>1, <1>3 DEF AtTable
  <2>2. PICK s \in SymTables : Copying(s.offset, s.size)
    BY <1>3, <2>1 DEF TableInv
  <2>3. PICK o, z : o = s.offset /\ z = s.size
    OBVIOUS
  <2>4. o \in Nat /\ z \in Nat
    BY <1>1, <1>3, <2>2, <2>3, TableNumbers
  <2>5. Copying(o, z)'
    BY <1>1, <2>2, <2>3, <2>4, CopyingGoesOn
  <2>6. QED
    BY <2>2, <2>3, <2>5
<1>4. pc' = pc
  BY <1>1
<1>5. QED
  BY <1>1, <1>2, <1>3, <1>4, TableStays

(* The symbol table is found. *)
LEMMA TableFound ==
  ASSUME ImageInv, IsSymTab(AtHand), NEW s, s = AtHand,
         script' = <<Seek(s.offset), Read(s.size)>>, got' = <<>>, UNCHANGED file
  PROVE  \E t \in SymTables : Copying(t.offset, t.size)'
<1>1. s.type = "symtab"
  BY DEF IsSymTab
<1>2. got # <<>> /\ s = AsSection(got[1])
  BY <1>1 DEF AtHand, NoSection
<1>3. s = got[1] /\ got[1].kind = "section"
  BY <1>1, <1>2 DEF AsSection, As, NoSection
<1>4. got[1] \in Range(file)
  <2>1. got \in Seq(Cell)
    BY DEF ImageInv, ReaderInv, ReaderTypes
  <2>2. got[1] \in Cell
    BY <1>2, <2>1, FirstCell
  <2>3. got[1] # Zero
    BY <1>3 DEF Zero
  <2>4. QED
    BY <2>2, <2>3 DEF Cell
<1>5. s \in SymTables
  BY <1>1, <1>3, <1>4 DEF SymTables
<1>6. Copying(s.offset, s.size)'
  BY DEF Copying, Seek, Read
<1>7. QED
  BY <1>5, <1>6

(* The table in any order: nothing of it is left out. *)
LEMMA FunctionsAll ==
  ASSUME ImageInv, format = "elf", NEW s \in Functions(got), NEW c \in Range(got), IsFunction(c)
  PROVE  \E k \in DOMAIN s : Stands(s[k], c)
<1> DEFINE S == {k \in DOMAIN got : IsFunction(got[k])}
<1>1. PICK at \in SetToSeqs(S) : s = [i \in DOMAIN at |-> FunctionAt(got, at[i])]
  BY DEF Functions
<1>2. PICK l \in Nat : DOMAIN got = 1 .. l
  BY DEF ImageInv, ReaderInv, ReaderTypes
<1>3. IsFiniteSet(S)
  <2>1. IsFiniteSet(1 .. l)
    BY FS_Interval
  <2>2. QED
    BY <1>2, <2>1, FS_Subset
<1>4. PICK n \in Nat : n = Cardinality(S)
  BY <1>3, FS_CardinalityType
<1>5. at \in [1 .. n -> S] /\ \A i, j \in 1 .. n : i # j => at[i] # at[j]
  BY <1>1, <1>4 DEF SetToSeqs
<1>6. PICK k \in DOMAIN got : c = got[k]
  BY DEF Range
<1>7. k \in S
  BY <1>6
<1> HIDE DEF S
<1>8. at \in Injection(1 .. n, S)
  BY <1>5 DEF Injection, IsInjective
<1>9. Cardinality(1 .. n) = n
  BY FS_Interval
<1>10. at \in Surjection(1 .. n, S)
  BY <1>3, <1>4, <1>8, <1>9, FS_Injection
<1>11. PICK i \in 1 .. n : at[i] = k
  BY <1>7, <1>10 DEF Surjection
<1>12. i \in DOMAIN s /\ s[i] = FunctionAt(got, k)
  BY <1>1, <1>5, <1>11
<1>13. AsSymbol(c) = c
  BY DEF IsFunction, AsSymbol, As, NoSymbol
<1>14. Stands(FunctionAt(got, k), c)
  BY <1>6, <1>13 DEF FunctionAt, Stands
<1>15. QED
  BY <1>12, <1>14

LEMMA TableBuilt ==
  ASSUME ImageInv, TableInv, format = "elf", UNCHANGED format, BuildSymbols
  PROVE  TableInv'
<1>1. PICK f \in Functions(got) : symbols' = f
  BY DEF BuildSymbols
<1>2. /\ AtTable /\ script = <<>> /\ rc = "ok" /\ pc' = "ready"
      /\ UNCHANGED <<file, strings, spoiled, faults>>
  BY DEF BuildSymbols, Have, Answered, AtTable, fileVars
<1>3. PICK s \in SymTables : Copying(s.offset, s.size)
  BY <1>2 DEF TableInv
<1>4. ~AtTable'
  BY <1>2 DEF AtTable
<1>5. ASSUME faults' = 0
      PROVE  HasAll(s)'
  <2>1. ~spoiled
    BY <1>2, <1>5 DEF TableInv
  <2>2. \A k : script # <<Read(k)>>
    BY <1>2
  <2>3. script # <<Seek(s.offset), Read(s.size)>>
    BY <1>2
  <2>4. got = Cells(s.offset, s.size)
    BY <1>2, <1>3, <2>1, <2>2, <2>3 DEF Copying
  <2>5. Cells(s.offset, s.size)' = got
    BY <1>2, <2>4 DEF Cells
  <2>6. ASSUME NEW c \in Range(got), IsFunction(c)
        PROVE  \E k \in DOMAIN f : Stands(f[k], c)
    BY <1>1, <2>6, FunctionsAll
  <2>7. \A g, c : Stands(g, c)' = Stands(g, c)
    BY <1>2 DEF Stands, StringAt, As
  <2>8. Range(Cells(s.offset, s.size)') = Range(got)
    BY <2>5
  <2>9. QED
    BY <1>1, <2>6, <2>7, <2>8 DEF HasAll, Range
<1>6. SymTables' = SymTables
  BY <1>2 DEF SymTables, Range
<1>7. spoiled' => faults' # 0
  BY <1>2 DEF TableInv
<1>8. QED
  BY <1>3, <1>4, <1>5, <1>6, <1>7 DEF TableInv

LEMMA ElfTable ==
  ASSUME ImageInv, TableInv, ReadElf
  PROVE  TableInv'
<1>1. format = "elf" /\ ElfStep /\ UNCHANGED format
  BY DEF ReadElf, Aside
<1>2. CASE BuildSymbols
  BY <1>1, <1>2, TableBuilt
<1>3. CASE SearchSymTab /\ IsSymTab(AtHand)
  <2>1. PICK s : s = AtHand
    OBVIOUS
  <2>2. /\ script' = <<Seek(s.offset), Read(s.size)>> /\ got' = <<>> /\ pc' = "elf symbols"
        /\ UNCHANGED <<file, spoiled, faults, symbols, strings>>
    BY <1>3, <2>1 DEF SearchSymTab, Search, AskFor, Ask, imageVars
  <2>3. \E t \in SymTables : Copying(t.offset, t.size)'
    BY <1>3, <2>1, <2>2, TableFound
  <2>4. pc' \notin Calls
    BY <2>2 DEF Calls
  <2>5. (spoiled' => faults' # 0) /\ (faults' = 0 => faults = 0)
    BY <2>2 DEF TableInv
  <2>6. QED
    BY <1>1, <2>2, <2>3, <2>4, <2>5, TableStays
<1>4. CASE ~BuildSymbols /\ ~(SearchSymTab /\ IsSymTab(AtHand))
  <2>1. pc' # "elf symbols"
    <3>1. \A why : GiveUp(why) => pc' = "failed"
      BY DEF GiveUp, CloseFile
    <3>2. \A ops, next : AskFor(ops, next) => pc' = next
      BY DEF AskFor
    <3>3. CASE VerifyHeader
      BY <3>2, <3>3 DEF VerifyHeader
    <3>4. CASE CheckIdent
      BY <3>1, <3>2, <3>4 DEF CheckIdent
    <3>5. CASE CheckHeader
      BY <3>1, <3>2, <3>5 DEF CheckHeader
    <3>6. CASE Dumped
      BY <3>2, <3>6 DEF Dumped
    <3>7. CASE GetNames
      BY <3>1, <3>2, <3>7 DEF GetNames
    <3>8. CASE HaveNames
      BY <3>2, <3>8 DEF HaveNames
    <3>9. CASE MapSection
      BY <3>1, <3>2, <3>9 DEF MapSection, NextHeader
    <3>10. CASE SearchStrTab
      BY <3>1, <3>2, <3>10 DEF SearchStrTab, Search, NextHeader
    <3>11. CASE HaveStrings
      BY <3>2, <3>11 DEF HaveStrings
    <3>12. CASE SearchSymTab
      BY <1>4, <3>1, <3>2, <3>12 DEF SearchSymTab, Search, NextHeader
    <3>13. CASE ReadFails(ElfPoints)
      BY <3>1, <3>13 DEF ReadFails
    <3>14. QED
      BY <1>1, <1>4, <3>3, <3>4, <3>5, <3>6, <3>7, <3>8, <3>9, <3>10, <3>11, <3>12, <3>13 DEF ElfStep
  <2>2. spoiled' => spoiled
    <3>1. \A why : GiveUp(why) => (spoiled' => spoiled)
      BY DEF GiveUp, CloseFile
    <3>2. \A ops, next : AskFor(ops, next) => spoiled' = spoiled
      BY DEF AskFor
    <3>3. CASE VerifyHeader
      BY <3>2, <3>3 DEF VerifyHeader
    <3>4. CASE CheckIdent
      BY <3>1, <3>2, <3>4 DEF CheckIdent
    <3>5. CASE CheckHeader
      BY <3>1, <3>2, <3>5 DEF CheckHeader
    <3>6. CASE Dumped
      BY <3>2, <3>6 DEF Dumped
    <3>7. CASE GetNames
      BY <3>1, <3>2, <3>7 DEF GetNames
    <3>8. CASE HaveNames
      BY <3>2, <3>8 DEF HaveNames
    <3>9. CASE MapSection
      BY <3>1, <3>2, <3>9 DEF MapSection, NextHeader
    <3>10. CASE SearchStrTab
      BY <3>1, <3>2, <3>10 DEF SearchStrTab, Search, NextHeader
    <3>11. CASE HaveStrings
      BY <3>2, <3>11 DEF HaveStrings
    <3>12. CASE SearchSymTab
      BY <1>4, <3>1, <3>2, <3>12 DEF SearchSymTab, Search, NextHeader
    <3>13. CASE ReadFails(ElfPoints)
      BY <3>1, <3>13 DEF ReadFails
    <3>14. QED
      BY <1>1, <1>4, <3>3, <3>4, <3>5, <3>6, <3>7, <3>8, <3>9, <3>10, <3>11, <3>12, <3>13 DEF ElfStep
  <2>3. faults' \in {faults, faults + 1}
    <3>1. \A why : GiveUp(why) => faults' \in {faults, faults + 1}
      BY DEF GiveUp, CloseFile
    <3>2. \A ops, next : AskFor(ops, next) => faults' \in {faults, faults + 1}
      BY DEF AskFor
    <3>3. CASE VerifyHeader
      BY <3>2, <3>3 DEF VerifyHeader
    <3>4. CASE CheckIdent
      BY <3>1, <3>2, <3>4 DEF CheckIdent
    <3>5. CASE CheckHeader
      BY <3>1, <3>2, <3>5 DEF CheckHeader
    <3>6. CASE Dumped
      BY <3>2, <3>6 DEF Dumped
    <3>7. CASE GetNames
      BY <3>1, <3>2, <3>7 DEF GetNames
    <3>8. CASE HaveNames
      BY <3>2, <3>8 DEF HaveNames
    <3>9. CASE MapSection
      BY <3>1, <3>2, <3>9 DEF MapSection, NextHeader
    <3>10. CASE SearchStrTab
      BY <3>1, <3>2, <3>10 DEF SearchStrTab, Search, NextHeader
    <3>11. CASE HaveStrings
      BY <3>2, <3>11 DEF HaveStrings
    <3>12. CASE SearchSymTab
      BY <1>4, <3>1, <3>2, <3>12 DEF SearchSymTab, Search, NextHeader
    <3>13. CASE ReadFails(ElfPoints)
      BY <3>1, <3>13 DEF ReadFails
    <3>14. QED
      BY <1>1, <1>4, <3>3, <3>4, <3>5, <3>6, <3>7, <3>8, <3>9, <3>10, <3>11, <3>12, <3>13 DEF ElfStep
  <2>4. ~AtTable' /\ (spoiled' => faults' # 0)
    <3>1. faults \in Nat
      BY DEF ImageInv, ReaderInv, ReaderTypes
    <3>2. spoiled => faults # 0
      BY DEF TableInv
    <3>3. faults # 0 => faults' # 0
      BY <2>3, <3>1
    <3>4. ~AtTable'
      BY <2>1 DEF AtTable
    <3>5. QED
      BY <2>2, <3>2, <3>3, <3>4
  <2>5. pc' \notin Calls
    BY <1>1, <1>4, ElfReads, Elsewhere DEF Reads
  <2>6. QED
    BY <2>4, <2>5, NoTable
<1>5. QED
  BY <1>2, <1>3, <1>4

LEMMA PETable ==
  ASSUME ImageInv, TableInv, ReadPE
  PROVE  TableInv'
<1>1. format = "pe" /\ PEStep /\ UNCHANGED format
  BY DEF ReadPE
<1>2. (spoiled' => spoiled) /\ faults' \in {faults, faults + 1}
  <2>1. \A why :
          GiveUp(why) => (spoiled' => spoiled) /\ faults' \in {faults, faults + 1}
    BY DEF GiveUp, CloseFile
  <2>2. \A ops, next : AskFor(ops, next) => UNCHANGED <<spoiled, faults>>
    BY DEF AskFor
  <2>3. \A next : ReadOn(next) => UNCHANGED <<spoiled, faults>>
    BY DEF ReadOn, fileVars
  <2>4. CASE ReadOffset \/ FindSignature \/ CheckSignature \/ CheckFileHeader \/ CheckMagic
    BY <2>1, <2>2, <2>4 DEF ReadOffset, FindSignature, CheckSignature, CheckFileHeader, CheckMagic
  <2>5. CASE ReadStrings \/ HaveStringTable \/ ScanHeaders \/ ReadSectionHeaders \/ NextSymbol
    BY <2>1, <2>2, <2>5 DEF ReadStrings, HaveStringTable, ScanHeaders, ReadSectionHeaders, NextSymbol
  <2>6. CASE TakeSymbol \/ TakeFileName \/ TakeLength
    BY <2>2, <2>3, <2>6 DEF TakeSymbol, TakeFileName, TakeLength, ReadAux, SkipAux
  <2>7. CASE FinishSymbols
    BY <2>7 DEF FinishSymbols, fileVars
  <2>8. CASE ReadFails(PEPoints)
    BY <2>1, <2>8 DEF ReadFails
  <2>9. QED
    BY <1>1, <2>4, <2>5, <2>6, <2>7, <2>8 DEF PEStep
<1>3. (spoiled' => faults' # 0) /\ format' # "elf"
  <2>1. faults \in Nat
    BY DEF ImageInv, ReaderInv, ReaderTypes
  <2>2. QED
    BY <1>1, <1>2, <2>1 DEF TableInv
<1>4. QED
  BY <1>3, NoTable

LEMMA CallsKeepTable ==
  ASSUME TableInv, GetSections \/ GetSection \/ ReadSections
  PROVE  TableInv'
<1>1. /\ UNCHANGED <<file, format, symbols, strings, spoiled, faults>>
      /\ pc \in Calls /\ pc' \in Calls
  <2>1. CASE GetSections \/ GetSection
    BY <2>1 DEF GetSections, GetSection, Call, CallSections, fileVars, imageVars, Calls
  <2>2. CASE ReadSections
    BY <2>2 DEF ReadSections, HandOver, Materialize, Filled, SectionsEnd, EndSections, Have, Aside,
                fileVars, imageVars, Calls
  <2>3. QED
    BY <2>1, <2>2
<1>2. ~AtTable'
  BY <1>1 DEF AtTable, Calls
<1>3. (spoiled' => faults' # 0) /\ (faults' = 0 => faults = 0)
  BY <1>1 DEF TableInv
<1>4. QED
  BY <1>1, <1>2, <1>3, TableStays

LEMMA NextTableInv == ImageInv /\ TableInv /\ [Next]_vars => TableInv'
<1>1. SUFFICES ASSUME ImageInv, TableInv, [Next]_vars
               PROVE  TableInv'
  OBVIOUS
<1>2. CASE ReadFile
  BY <1>1, <1>2, TableReadOn
<1>3. CASE ReadElf
  BY <1>1, <1>3, ElfTable
<1>4. CASE ReadPE
  BY <1>1, <1>4, PETable
<1>5. CASE GetSections \/ GetSection \/ ReadSections
  BY <1>1, <1>5, CallsKeepTable
<1>6. CASE Open
  <2>1. pc' \in {"opened", "failed"}
    BY <1>6 DEF Open, OpenImage
  <2>2. ~AtTable' /\ pc' \notin Calls
    BY <2>1 DEF AtTable, Calls
  <2>3. faults \in Nat /\ (spoiled' => rc' = "error") /\ (Refill(<<>>, 0, 0) \/ NotOpened)
    BY <1>1, <1>6 DEF Open, OpenImage, OpenFile, ImageInv, ReaderInv, ReaderTypes
  <2>4. rc' = "error" => faults' = faults + 1
    BY <2>3 DEF Refill, NotOpened
  <2>5. QED
    BY <2>2, <2>3, <2>4, NoTable
<1>7. CASE Close
  <2>1. pc' = "closed" /\ (spoiled' => faults' # 0)
    <3>1. pc' = "closed" /\ CloseFile /\ faults \in Nat
      BY <1>1, <1>7 DEF Close, CloseImage, ImageInv, ReaderInv, ReaderTypes
    <3>2. (spoiled' => spoiled) /\ faults' \in {faults, faults + 1}
      BY <3>1 DEF CloseFile
    <3>3. QED
      BY <1>1, <3>1, <3>2 DEF TableInv
  <2>2. ~AtTable' /\ pc' \notin Calls
    BY <2>1 DEF AtTable, Calls
  <2>3. QED
    BY <2>1, <2>2, NoTable
<1>8. CASE UNCHANGED vars
  <2>1. UNCHANGED <<file, format, pc, script, got, rc, place, spoiled, faults, strings, symbols>>
    BY <1>8 DEF vars, fileVars, scriptVars, imageVars
  <2>2. (spoiled' => faults' # 0) /\ (faults' = 0 => faults = 0)
    BY <1>1, <2>1 DEF TableInv
  <2>3. \A o, z : Copying(o, z)' <=> Copying(o, z)
    BY <2>1 DEF Copying, Cells, Read, Seek
  <2>4. AtTable' <=> AtTable
    BY <2>1 DEF AtTable
  <2>5. format = "elf" /\ AtTable' => \E s \in SymTables : Copying(s.offset, s.size)'
    <3>1. SUFFICES ASSUME format = "elf", AtTable
                   PROVE  \E s \in SymTables : Copying(s.offset, s.size)'
      BY <2>4
    <3>2. PICK s \in SymTables : Copying(s.offset, s.size)
      BY <1>1, <3>1 DEF TableInv
    <3>3. QED
      BY <2>3, <3>2
  <2>6. QED
    BY <1>1, <2>1, <2>2, <2>5, TableStays
<1>9. QED
  BY <1>1, <1>2, <1>3, <1>4, <1>5, <1>6, <1>7, <1>8 DEF Next

LEMMA TableInvHolds == Spec => []TableInv
<1>1. Init => TableInv
  <2>1. SUFFICES ASSUME Init PROVE TableInv
    OBVIOUS
  <2>2. pc = "new" /\ spoiled = FALSE
    BY <2>1 DEF Init, ImageInit, FileInit
  <2>3. ~AtTable /\ pc \notin Calls
    BY <2>2 DEF AtTable, Calls
  <2>4. QED
    BY <2>2, <2>3 DEF TableInv
<1>2. QED
  BY <1>1, NextTableInv, ImageInvHolds, PTL DEF Spec

-----------------------------------------------------------------------------
(* The symbol table of an ELF file has all the symbols that the file has. *)
TableWhole ==
  \A s \in SymTables : \A c \in Range(file) : c.kind = "symbol" => c \in Range(Cells(s.offset, s.size))

(* searchSymbol finds for each address the function of an ELF file that
   contains it, and none when no function does: for any file whose functions
   do not overlap and whose symbol table is whole, with any number of symbols
   in any order, and through a buffer of any size with reads of any length, as
   long as the system has failed none of them.                               *)
THEOREM ElfSymbolsRight == Spec => [](format = "elf" /\ faults = 0 /\ TableWhole => SymbolsRight)
<1>1. SymbolsInv /\ TableInv /\ FoundIsDefined =>
        (format = "elf" /\ faults = 0 /\ TableWhole => SymbolsRight)
  <2>1. SUFFICES ASSUME SymbolsInv, TableInv, FoundIsDefined, format = "elf", faults = 0,
                        TableWhole, pc = "ready", Apart, NEW a \in Addresses
                 PROVE  LET f == SearchSymbol(a) IN
                        IF f = NotFound THEN \A g \in Defined : ~Inhabits(g, a)
                        ELSE \E g \in Defined : g.name = f.name /\ Inhabits(g, a)
    BY DEF SymbolsRight
  <2>2. pc \in Calls /\ a \in Int
    BY <2>1, AddressesAssumption DEF Calls
  <2>3. PICK f : f = SearchSymbol(a)
    OBVIOUS
  <2>4. IF f = NotFound THEN \A k \in DOMAIN symbols : ~Covers(symbols[k], a)
        ELSE \E g \in Defined : g.name = f.name /\ Inhabits(g, a)
    BY <2>1, <2>2, <2>3 DEF FoundIsDefined
  <2>5. ASSUME f = NotFound, NEW g \in Defined
        PROVE  ~Inhabits(g, a)
    <3>1. PICK c \in Range(file) : /\ c.kind = "symbol" /\ c.type = "func" /\ c.shndx # 0
                                   /\ g = [begin |-> c.value, size |-> c.size,
                                           name |-> StringAt(strings, c.name)]
      BY <2>1, <2>5 DEF Defined, ElfDefined
    <3>2. PICK s \in SymTables : HasAll(s)
      BY <2>1, <2>2 DEF TableInv
    <3>3. c \in Range(Cells(s.offset, s.size)) /\ IsFunction(c)
      BY <2>1, <3>1 DEF TableWhole, IsFunction, AsSymbol, As
    <3>4. PICK k \in DOMAIN symbols : Stands(symbols[k], c)
      BY <3>2, <3>3 DEF HasAll
    <3>5. ~Covers(symbols[k], a)
      BY <2>4, <2>5
    <3>6. g.begin = symbols[k].offset /\ g.size = symbols[k].size
      BY <3>1, <3>4 DEF Stands
    <3>7. QED
      BY <2>1, <3>5, <3>6 DEF Inhabits, Covers
  <2>6. QED
    BY <2>3, <2>4, <2>5
<1>2. QED
  BY <1>1, SymbolsInvHolds, TableInvHolds, FoundKept, PTL

-----------------------------------------------------------------------------
(* The symbol table of a PE image: the cells that are symbols, those of
   functions of a section that the reader takes, and those that a function's
   length comes behind. *)
SymbolCells == {k \in DOMAIN file : file[k].kind = "symbol"}
SymbolIn(k) == file[k].symbol
PEFunctions == {k \in SymbolCells : TakenForFunction(SymbolIn(k)) /\ InSections(SymbolIn(k))}
PELengths == {k \in SymbolCells : HasLength(SymbolIn(k))}
Begin(k) == origin[SymbolIn(k).section].virtual + SymbolIn(k).value
SamePlace(j, k) ==
  SymbolIn(j).section = SymbolIn(k).section /\ SymbolIn(j).value = SymbolIn(k).value
Within(a, i) == origin[i].virtual <= a /\ a < origin[i].virtual + origin[i].size

(* A table as a compiler writes it: no record looks like another, the symbols
   are where the header says and none among the auxiliary records of another;
   a function has at most one length, which comes before it; no two functions
   begin together, and each is in its own section and in no other. *)
TableSound ==
  /\ \A k \in DOMAIN file : Plain(file[k])
  /\ \A k \in SymbolCells : header.symtab < k /\ k <= header.symtab + header.symbols
  /\ \A j, k \in SymbolCells : j < k => j + SymbolIn(j).aux < k
  /\ \A k \in PELengths : k + 1 \in DOMAIN file /\ file[k + 1].kind = "aux"
  /\ \A j, k \in PELengths : SamePlace(j, k) => j = k
  /\ \A j \in PELengths, k \in PEFunctions : SamePlace(j, k) => j < k
  /\ \A j, k \in PEFunctions : Begin(j) = Begin(k) => j = k
  /\ \A k \in PEFunctions, i \in DOMAIN origin : Within(Begin(k), i) <=> i = SymbolIn(k).section

(* What the loop over the table has when it is at an offset: it does not stop
   before the end, and has the functions and the lengths up to there. *)
Made(s, k) == s.offset = Begin(k) /\ s.name = SymbolIn(k).name /\ s.section = SymbolIn(k).section

Pace(p) ==
  /\ count \in Int
  /\ header.symtab <= p /\ p + count >= header.symtab + header.symbols + index
FunctionsRead(p) ==
  /\ \A j \in DOMAIN symbols :
       \E k \in PEFunctions :
         k <= p /\ Made(symbols[j], k) /\ symbols[j].size = SizeRecord(SymbolIn(k))
  /\ \A k \in PEFunctions : k <= p => \E j \in DOMAIN symbols : Made(symbols[j], k)
  /\ \A i, j \in DOMAIN symbols : symbols[i].offset = symbols[j].offset => i = j
LengthsRead(p) ==
  /\ \A s \in DOMAIN lengths : \A v \in DOMAIN lengths[s] :
       \E k \in PELengths : /\ k <= p /\ SymbolIn(k).section = s /\ SymbolIn(k).value = v
                            /\ lengths[s][v] = file[k + 1].length
  /\ \A k \in PELengths :
       k <= p /\ SymbolIn(k).section \in DOMAIN lengths =>
         SymbolIn(k).value \in DOMAIN lengths[SymbolIn(k).section]

(* Where the file reader is while the loop waits for it. *)
Standing(p) ==
  \/ script = <<>> /\ place = p
  \/ script = <<Seek(p)>>
  \/ \E n \in Nat : script = <<Skip(n)>> /\ place + n = p
Bringing(p) ==
  \/ script = <<Read(1)>> /\ got = <<>> /\ place = p
  \/ script = <<>> /\ place = p + 1 /\ p + 1 \in DOMAIN file /\ got[1] = file[p + 1]

AtNext == pc = "pe next"
AtSymbol == pc = "pe symbol"
AtFile == pc = "pe file"
AtLength == pc = "pe length"
Stage(p) ==
  /\ AtNext => Standing(p)
  /\ AtSymbol => Bringing(p)
  /\ AtFile \/ AtLength =>
       p + 1 \in DOMAIN file /\ symbol = PESymbol(file[p + 1]) /\ Bringing(p + 1)
  /\ AtFile => HasFileName(symbol)
  /\ AtLength => HasLength(symbol)
Track(p) == Stage(p) /\ Pace(p) /\ FunctionsRead(p) /\ LengthsRead(p)

(* The table in the end. *)
Reach(j, k) ==
  IF SizeRecord(SymbolIn(k)) # 0 THEN SizeRecord(SymbolIn(k))
  ELSE IF j < Len(symbols) THEN symbols[j + 1].offset - symbols[j].offset
  ELSE LET o == origin[SymbolIn(k).section] IN o.virtual + o.size - symbols[j].offset
Complete ==
  /\ \A j \in DOMAIN symbols :
       \E k \in PEFunctions : Made(symbols[j], k) /\ symbols[j].size = Reach(j, k)
  /\ \A k \in PEFunctions : \E j \in DOMAIN symbols : Made(symbols[j], k)
  /\ \A i, j \in DOMAIN symbols : i < j => symbols[i].offset < symbols[j].offset

PETableInv ==
  format = "pe" =>
    /\ pc \in PELoop /\ rc = "ok" /\ TableSound => \E p \in Nat : Track(p)
    /\ pc \in Calls /\ finished /\ TableSound => Complete

-----------------------------------------------------------------------------
(* The file reader, while the loop waits. *)
LEMMA StandingGoesOn ==
  ASSUME FileStep, rc' = "ok", NEW p \in Nat, Standing(p)
  PROVE  Standing(p)'
<1>1. script # <<>>
  BY DEF FileStep, SeekInBuffer, SeekInFile, SeekFails, ReadFromBuffer, ReadFromFile
<1>2. ASSUME NEW o, script = <<o>>, o.op \in {"seek", "skip"},
             (IF o.op = "seek" THEN o.n ELSE place + o.n) = p
      PROVE  script' = <<>> /\ place' = p
  <2>1. Head(script) = o /\ Tail(script) = <<>>
    BY <1>2
  <2>2. SeekInBuffer \/ SeekInFile
    BY <1>2, <2>1 DEF FileStep, SeekFails, ReadFromBuffer, ReadFromFile
  <2>3. CASE SeekInBuffer
    <3>1. place' = (IF o.op = "seek" THEN o.n ELSE place + o.n) /\ script' = <<>>
      BY <2>1, <2>3 DEF SeekInBuffer, Target, Done
    <3>2. QED
      BY <1>2, <3>1
  <2>4. CASE SeekInFile
    <3>1. place' = (IF o.op = "seek" THEN o.n ELSE place + o.n) /\ script' = <<>>
      BY <2>1, <2>4 DEF SeekInFile, Target
    <3>2. QED
      BY <1>2, <3>1
  <2>5. QED
    BY <2>2, <2>3, <2>4
<1>3. script' = <<>> /\ place' = p
  <2>1. CASE script = <<Seek(p)>>
    <3>1. Seek(p).op = "seek" /\ Seek(p).n = p
      BY DEF Seek
    <3>2. QED
      BY <1>2, <2>1, <3>1
  <2>2. CASE \E n \in Nat : script = <<Skip(n)>> /\ place + n = p
    <3>1. PICK n \in Nat : script = <<Skip(n)>> /\ place + n = p
      BY <2>2
    <3>2. Skip(n).op = "skip" /\ Skip(n).n = n
      BY DEF Skip
    <3>3. QED
      BY <1>2, <3>1, <3>2
  <2>3. QED
    BY <1>1, <2>1, <2>2 DEF Standing
<1>4. QED
  BY <1>3 DEF Standing

LEMMA BringingGoesOn ==
  ASSUME ReaderInv, ReaderInv', FileStep, ~spoiled, rc' = "ok", NEW p \in Nat, Bringing(p)
  PROVE  Bringing(p)'
<1>1. script # <<>> /\ UNCHANGED file
  BY DEF FileStep, SeekInBuffer, SeekInFile, SeekFails, ReadFromBuffer, ReadFromFile
<1>2. script = <<Read(1)>> /\ got = <<>> /\ place = p
  BY <1>1 DEF Bringing
<1>3. PICK l, b, f : l = Len(buffer) /\ b = bufferOffset /\ f = fileOffset
  OBVIOUS
<1>4. l \in Nat /\ b \in 0 .. l /\ f \in Nat /\ file \in Seq(Cell) /\ buffer \in Seq(Cell)
  BY <1>3 DEF ReaderInv, ReaderTypes
<1>5. buffer = Cells(f, l) /\ p = f + b
  BY <1>2, <1>3 DEF ReaderInv, Mirrored
<1>6. PICK one : one = 1
  OBVIOUS
<1>7. script = <<Read(one)>> /\ one \in Nat
  BY <1>2, <1>6
<1>8. CASE /\ got' = got /\ place' = place
           /\ \/ script' = script
              \/ script' = <<>> /\ rc' # "ok"
  BY <1>2, <1>8 DEF Bringing, Read
<1>9. ASSUME NEW m \in 0 .. one, m <= l - b, got' = got \o SubSeq(buffer, b + 1, b + m),
             Len(got') = Len(got) + m, place' = place + m,
             \/ m = one /\ script' = <<>>
             \/ m # one /\ script' = <<Read(one - m)>>
      PROVE  Bringing(p)'
  <2>1. CASE m # one
    <3>1. m = 0 /\ one - m = 1
      BY <1>6, <1>9, <2>1
    <3>2. script' = <<Read(1)>> /\ place' = p
      BY <1>2, <1>4, <1>5, <1>9, <2>1, <3>1
    <3>3. got' = <<>>
      <4>1. PICK g : g = got'
        OBVIOUS
      <4>2. g \in Seq(Cell')
        BY <4>1 DEF ReaderInv, ReaderTypes
      <4>3. PICK a : a = Len(got)
        OBVIOUS
      <4>4. a = 0
        BY <1>2, <4>3
      <4>5. Len(g) = a + m
        BY <1>9, <4>1, <4>3
      <4>6. Len(g) = 0
        BY ONLY <3>1, <4>4, <4>5
      <4>7. QED
        BY ONLY <4>1, <4>2, <4>6
    <3>4. QED
      BY <3>2, <3>3 DEF Bringing, Read
  <2>2. CASE m = one
    <3>1. b + 1 \in 1 .. l /\ l > 0
      BY <1>4, <1>6, <1>9, <2>2
    <3>2. Len(Cells(f, l)) = l
      BY <1>3, <1>5
    <3>3. f + l <= Len(file) /\ \A i \in 1 .. l : Cells(f, l)[i] = file[f + i]
      BY <1>4, <3>1, <3>2, CellsProperties
    <3>4. buffer[b + 1] = file[p + 1]
      <4>1. f + (b + 1) = p + 1
        BY <1>4, <1>5
      <4>2. QED
        BY <1>5, <3>1, <3>3, <4>1
    <3>5. p + 1 \in DOMAIN file
      <4>1. p + 1 \in 1 .. Len(file)
        BY <1>4, <1>5, <3>1, <3>3
      <4>2. QED
        BY <1>4, <4>1
    <3>6. got'[1] = buffer[b + 1]
      <4>1. PICK s, k : s = SubSeq(buffer, k, k) /\ k = b + 1
        OBVIOUS
      <4>2. k \in 1 .. l
        BY <3>1, <4>1
      <4>3. Len(s) = 1 /\ s[1] = buffer[k] /\ s \in Seq(Cell)
        BY <1>3, <1>4, <4>1, <4>2
      <4>4. got' = <<>> \o s
        BY <1>2, <1>6, <1>9, <2>2, <4>1
      <4>5. QED
        BY <4>1, <4>3, <4>4
    <3>7. script' = <<>> /\ place' = p + 1
      BY <1>2, <1>6, <1>9, <2>2
    <3>8. QED
      BY <1>1, <3>4, <3>5, <3>6, <3>7 DEF Bringing
  <2>3. QED
    BY <2>1, <2>2
<1>10. QED
  BY <1>3, <1>7, <1>8, <1>9, ReadGoesOn

(* What the file says stays as long as the headers do. *)
LEMMA FileStaysSo ==
  ASSUME UNCHANGED <<file, header, origin>>
  PROVE  /\ SymbolCells' = SymbolCells /\ PEFunctions' = PEFunctions /\ PELengths' = PELengths
         /\ \A k : SymbolIn(k)' = SymbolIn(k) /\ Begin(k)' = Begin(k) /\ SizeRecord(SymbolIn(k))' = SizeRecord(SymbolIn(k))
         /\ \A s, k : Made(s, k)' <=> Made(s, k)
         /\ TableSound' <=> TableSound
<1>1. /\ SymbolCells' = SymbolCells
      /\ \A k : SymbolIn(k)' = SymbolIn(k)
  BY DEF SymbolCells, SymbolIn
<1>2. /\ \A s : (TakenForFunction(s)' <=> TakenForFunction(s)) /\ (HasLength(s)' <=> HasLength(s))
      /\ \A s : InSections(s)' <=> InSections(s)
      /\ \A c : (Plain(c)' <=> Plain(c)) /\ PESymbol(c)' = PESymbol(c)
  BY DEF TakenForFunction, HasLength, InSections, Plain, PESymbol
<1>3. PEFunctions' = PEFunctions /\ PELengths' = PELengths
  BY <1>1, <1>2 DEF PEFunctions, PELengths
<1>4. \A k : Begin(k)' = Begin(k)
  BY <1>1 DEF Begin
<1>5. \A s, k : Made(s, k)' <=> Made(s, k)
  BY <1>1, <1>4 DEF Made
<1>6. \A k : SizeRecord(SymbolIn(k))' = SizeRecord(SymbolIn(k))
  <2>1. \A c : SizeRecord(c)' = SizeRecord(c)
    BY <1>2 DEF SizeRecord
  <2>2. QED
    BY <1>1, <2>1
<1>7. /\ \A j, k : SamePlace(j, k)' <=> SamePlace(j, k)
      /\ \A a, i : Within(a, i)' <=> Within(a, i)
  BY <1>1 DEF SamePlace, Within
<1>8. TableSound' <=> TableSound
  BY <1>1, <1>2, <1>3, <1>4, <1>7 DEF TableSound
<1>9. QED
  BY <1>1, <1>3, <1>4, <1>5, <1>6, <1>8

LEMMA LikeNone ==
  /\ NoPESymbol.aux = 0
  /\ ~TakenForFunction(NoPESymbol) /\ ~HasLength(NoPESymbol) /\ ~HasFileName(NoPESymbol)
<1>1. NoPESymbol.aux = 0 /\ NoPESymbol.class = "other" /\ NoPESymbol.type = "null"
  BY DEF NoPESymbol
<1>2. QED
  BY <1>1 DEF TakenForFunction, HasLength, HasFileName

(* A cell is a symbol, or looks like none. *)
LEMMA Classified ==
  ASSUME TableSound, NEW n \in DOMAIN file, NEW s, s = PESymbol(file[n])
  PROVE  /\ n \in SymbolCells => s = SymbolIn(n)
         /\ n \notin SymbolCells => s = NoPESymbol
         /\ n \in PEFunctions <=> TakenForFunction(s) /\ InSections(s)
         /\ n \in PELengths <=> HasLength(s)
         /\ HasFileName(s) => n \in SymbolCells
<1>1. CASE n \in SymbolCells
  <2>1. file[n].kind = "symbol"
    BY <1>1 DEF SymbolCells
  <2>2. s = SymbolIn(n)
    BY <2>1 DEF PESymbol, SymbolIn
  <2>3. QED
    BY <1>1, <2>2 DEF PEFunctions, PELengths
<1>2. CASE n \notin SymbolCells
  <2>1. file[n].kind # "symbol"
    BY <1>2 DEF SymbolCells
  <2>2. s = NoPESymbol
    BY <2>1 DEF TableSound, Plain
  <2>3. ~TakenForFunction(s) /\ ~HasLength(s) /\ ~HasFileName(s)
    BY <2>2, LikeNone
  <2>4. QED
    BY <1>2, <2>2, <2>3 DEF PEFunctions, PELengths
<1>3. QED
  BY <1>1, <1>2

(* A function is no file name and has no length, and the other way round. *)
LEMMA OneClass ==
  ASSUME NEW s
  PROVE  /\ HasFileName(s) \/ HasLength(s) => ~TakenForFunction(s) /\ s.aux = 1
         /\ HasFileName(s) => ~HasLength(s)
BY DEF HasFileName, HasLength, TakenForFunction

(* From the symbol at an offset to another offset there is no other symbol. *)
Gap(p, q) == q \in Nat /\ p + 1 <= q /\ \A k \in SymbolCells : k <= q => k <= p + 1

LEMMA GapSkipped ==
  ASSUME TableSound, file \in Seq(Cell), NEW p \in Nat, p + 1 \in DOMAIN file,
         NEW s, s = PESymbol(file[p + 1]), NEW x \in Nat, x = s.aux
  PROVE  Gap(p, p + 1) /\ Gap(p, p + 1 + x)
<1>1. SymbolCells \subseteq Nat
  BY DEF SymbolCells
<1>2. Gap(p, p + 1)
  BY <1>1 DEF Gap
<1>3. CASE p + 1 \in SymbolCells
  <2>1. s = SymbolIn(p + 1)
    BY <1>3, Classified
  <2>2. \A k \in SymbolCells : p + 1 < k => p + 1 + x < k
    BY <1>3, <2>1 DEF TableSound
  <2>3. QED
    BY <1>1, <1>2, <2>2 DEF Gap
<1>4. CASE p + 1 \notin SymbolCells
  <2>1. s = NoPESymbol
    BY <1>4, Classified
  <2>2. x = 0
    BY <2>1, LikeNone
  <2>3. QED
    BY <1>2, <2>2
<1>5. QED
  BY <1>3, <1>4

(* The length that the file has for a function. *)
LEMMA SizeGiven ==
  ASSUME TableSound, file \in Seq(Cell), NEW c, NEW j \in PELengths,
         SymbolIn(j).section = c.section, SymbolIn(j).value = c.value
  PROVE  SizeRecord(c) = file[j + 1].length
<1>1. PICK before :
        before = {k \in 2 .. Len(file) :
                   /\ file[k].kind = "aux" /\ HasLength(PESymbol(file[k - 1]))
                   /\ PESymbol(file[k - 1]).section = c.section
                   /\ PESymbol(file[k - 1]).value = c.value}
  OBVIOUS
<1>2. SizeRecord(c) = IF before = {} THEN 0 ELSE file[CHOOSE k \in before : TRUE].length
  BY <1>1 DEF SizeRecord
<1>3. PICK l \in Nat : l = Len(file) /\ DOMAIN file = 1 .. l
  OBVIOUS
<1>4. j \in 1 .. l /\ j + 1 \in 1 .. l /\ file[j + 1].kind = "aux"
  BY <1>3 DEF TableSound, PELengths, SymbolCells
<1>5. j + 1 \in before
  <2>1. j \in SymbolCells /\ HasLength(SymbolIn(j))
    BY DEF PELengths
  <2>2. PESymbol(file[j]) = SymbolIn(j)
    BY <1>3, <1>4, <2>1, Classified
  <2>3. (j + 1) - 1 = j /\ j + 1 \in 2 .. Len(file)
    BY <1>3, <1>4
  <2>4. QED
    BY <1>1, <1>4, <2>1, <2>2, <2>3
<1>6. ASSUME NEW k \in before
      PROVE  k = j + 1
  <2>1. PICK i \in 1 .. l : i = k - 1 /\ k = i + 1
    BY <1>1, <1>3
  <2>2. HasLength(PESymbol(file[i]))
    BY <1>1, <2>1
  <2>3. i \in PELengths /\ i \in SymbolCells
    BY <1>3, <2>2, Classified DEF PELengths
  <2>4. PESymbol(file[i]) = SymbolIn(i)
    BY <1>3, <2>3, Classified
  <2>5. SymbolIn(i).section = c.section /\ SymbolIn(i).value = c.value
    BY <1>1, <2>1, <2>4
  <2>6. i = j
    BY <2>3, <2>5 DEF TableSound, SamePlace
  <2>7. QED
    BY <2>1, <2>6
<1>7. (CHOOSE k \in before : TRUE) = j + 1
  BY <1>5, <1>6
<1>8. QED
  BY <1>2, <1>5, <1>7

LEMMA SizeUnknown ==
  ASSUME TableSound, file \in Seq(Cell), NEW c,
         \A j \in PELengths : ~ (SymbolIn(j).section = c.section /\ SymbolIn(j).value = c.value)
  PROVE  SizeRecord(c) = 0
<1>1. PICK before :
        before = {k \in 2 .. Len(file) :
                   /\ file[k].kind = "aux" /\ HasLength(PESymbol(file[k - 1]))
                   /\ PESymbol(file[k - 1]).section = c.section
                   /\ PESymbol(file[k - 1]).value = c.value}
  OBVIOUS
<1>2. SizeRecord(c) = IF before = {} THEN 0 ELSE file[CHOOSE k \in before : TRUE].length
  BY <1>1 DEF SizeRecord
<1>3. PICK l \in Nat : l = Len(file) /\ DOMAIN file = 1 .. l
  OBVIOUS
<1>4. ASSUME NEW k \in before
      PROVE  FALSE
  <2>1. PICK i \in 1 .. l : i = k - 1
    BY <1>1, <1>3
  <2>2. HasLength(PESymbol(file[i]))
    BY <1>1, <2>1
  <2>3. i \in PELengths /\ i \in SymbolCells
    BY <1>3, <2>2, Classified DEF PELengths
  <2>4. PESymbol(file[i]) = SymbolIn(i)
    BY <1>3, <2>3, Classified
  <2>5. QED
    BY <1>1, <2>1, <2>3, <2>4
<1>5. QED
  BY <1>2, <1>4

-----------------------------------------------------------------------------
(* One turn of the loop. *)
LEMMA PaceKept ==
  ASSUME header.symtab \in Nat, header.symbols \in Nat, index \in Nat, UNCHANGED header,
         NEW p \in Nat, NEW q \in Nat, Pace(p), NEW y \in Nat, p + 1 + y <= q,
         count' = count - y, index' = index + 1
  PROVE  Pace(q)'
<1>1. PICK a, b, i, c : a = header.symtab /\ b = header.symbols /\ i = index /\ c = count
  OBVIOUS
<1>2. a \in Nat /\ b \in Nat /\ i \in Nat /\ c \in Int /\ a <= p /\ p + c >= a + b + i
  BY <1>1 DEF Pace
<1>3. c - y \in Int /\ a <= q /\ q + (c - y) >= a + b + (i + 1)
  BY <1>2
<1>4. QED
  BY <1>1, <1>3 DEF Pace

(* Another symbol than a function, and than one with a length. *)
LEMMA FunctionsPassed ==
  ASSUME UNCHANGED <<file, header, origin>>, UNCHANGED symbols, file \in Seq(Cell),
         NEW p \in Nat, NEW q, Gap(p, q), p + 1 \notin PEFunctions, FunctionsRead(p)
  PROVE  FunctionsRead(q)'
<1>1. PEFunctions \subseteq SymbolCells /\ SymbolCells \subseteq Nat
  BY DEF PEFunctions, SymbolCells
<1>2. \A k \in PEFunctions : k <= p <=> k <= q
  <2>1. \A k \in PEFunctions : k <= q => k <= p + 1 /\ k # p + 1 /\ k \in Nat
    BY <1>1 DEF Gap
  <2>2. \A k \in PEFunctions : k <= p => k <= q
    BY <1>1 DEF Gap
  <2>3. QED
    BY <1>1, <2>1, <2>2
<1>3. FunctionsRead(q)
  BY <1>2 DEF FunctionsRead
<1>4. FunctionsRead(q)' <=> FunctionsRead(q)
  BY FileStaysSo DEF FunctionsRead
<1>5. QED
  BY <1>3, <1>4

LEMMA LengthsPassed ==
  ASSUME UNCHANGED <<file, header, origin>>, UNCHANGED lengths, file \in Seq(Cell),
         NEW p \in Nat, NEW q, Gap(p, q), p + 1 \notin PELengths, LengthsRead(p)
  PROVE  LengthsRead(q)'
<1>1. PELengths \subseteq SymbolCells /\ SymbolCells \subseteq Nat
  BY DEF PELengths, SymbolCells
<1>2. \A k \in PELengths : k <= p <=> k <= q
  <2>1. \A k \in PELengths : k <= q => k <= p + 1 /\ k # p + 1 /\ k \in Nat
    BY <1>1 DEF Gap
  <2>2. \A k \in PELengths : k <= p => k <= q
    BY <1>1 DEF Gap
  <2>3. QED
    BY <1>1, <2>1, <2>2
<1>3. LengthsRead(q)
  BY <1>2 DEF LengthsRead
<1>4. LengthsRead(q)' <=> LengthsRead(q)
  BY FileStaysSo DEF LengthsRead
<1>5. QED
  BY <1>3, <1>4

(* The size that the reader gives a function is the one that the file has. *)
LEMMA LengthFound ==
  ASSUME TableSound, Origins, file \in Seq(Cell), NEW p \in Nat, LengthsRead(p), p + 1 \in PEFunctions,
         SymbolIn(p + 1).section \in Int
  PROVE  LengthOf(SymbolIn(p + 1)) = SizeRecord(SymbolIn(p + 1))
<1>1. PICK n, c : n = p + 1 /\ c = SymbolIn(n)
  OBVIOUS
<1>2. n \in Nat /\ n \in PEFunctions /\ n = p + 1
  BY <1>1
<1>3. c.section \in DOMAIN lengths
  <2>1. TakenForFunction(c) /\ InSections(c)
    BY <1>1 DEF PEFunctions
  <2>2. c.section > 0 /\ c.section < Len(origin)
    BY <2>1 DEF TakenForFunction, InSections
  <2>3. c.section \in Int
    BY <1>1
  <2>4. QED
    BY <2>2, <2>3 DEF Origins
<1>4. CASE c.value \in DOMAIN lengths[c.section]
  <2>1. PICK k \in PELengths : /\ SymbolIn(k).section = c.section /\ SymbolIn(k).value = c.value
                               /\ lengths[c.section][c.value] = file[k + 1].length
    BY <1>3, <1>4 DEF LengthsRead
  <2>2. SizeRecord(c) = file[k + 1].length
    BY <2>1, SizeGiven
  <2>3. QED
    BY <1>1, <1>4, <2>1, <2>2 DEF LengthOf
<1>5. CASE c.value \notin DOMAIN lengths[c.section]
  <2>1. ASSUME NEW j \in PELengths, SymbolIn(j).section = c.section, SymbolIn(j).value = c.value
        PROVE  FALSE
    <3>1. j < n
      BY <1>1, <1>2, <2>1 DEF TableSound, SamePlace
    <3>2. j <= p
      BY <1>2, <3>1 DEF PELengths, SymbolCells
    <3>3. QED
      BY <1>3, <1>5, <2>1, <3>2 DEF LengthsRead
  <2>2. SizeRecord(c) = 0
    BY <2>1, SizeUnknown
  <2>3. QED
    BY <1>1, <1>5, <2>2 DEF LengthOf
<1>6. QED
  BY <1>4, <1>5

(* A function is added to those that there are. *)
LEMMA FunctionAdded ==
  ASSUME UNCHANGED <<file, header, origin>>, file \in Seq(Cell), TableSound, Table(symbols), Origins,
         NEW p \in Nat, NEW q, Gap(p, q), p + 1 \in PEFunctions, NEW c, c = SymbolIn(p + 1),
         c.section \in Int, LengthsRead(p), FunctionsRead(p), symbols' = Append(symbols, PEFunction(c))
  PROVE  FunctionsRead(q)'
<1>1. PICK m, f : m = p + 1 /\ f = PEFunction(c)
  OBVIOUS
<1>2. m \in Nat /\ m \in PEFunctions /\ m <= q /\ q \in Nat /\ c = SymbolIn(m)
  BY <1>1 DEF Gap
<1>3. Made(f, m) /\ f.size = SizeRecord(SymbolIn(m))
  <2>1. /\ f.offset = origin[c.section].virtual + c.value /\ f.size = LengthOf(c)
        /\ f.name = c.name /\ f.section = c.section
    BY <1>1 DEF PEFunction
  <2>2. LengthOf(c) = SizeRecord(SymbolIn(m))
    BY <1>1, LengthFound
  <2>3. QED
    BY <1>1, <2>1, <2>2 DEF Made, Begin
<1>4. PEFunctions \subseteq Nat
  BY DEF PEFunctions, SymbolCells
<1>5. \A k \in PEFunctions : k <= q <=> (k <= p \/ k = m)
  <2>1. ASSUME NEW k \in PEFunctions, k <= q
        PROVE  k <= p \/ k = m
    <3>1. k \in Nat /\ k <= p + 1
      BY <1>4, <2>1 DEF Gap, PEFunctions
    <3>2. QED
      BY <1>1, <3>1
  <2>2. \A k \in PEFunctions : k <= p => k <= q
    BY <1>1, <1>2, <1>4
  <2>3. QED
    BY <1>2, <2>1, <2>2
<1>6. PICK n \in Nat : n = Len(symbols) /\ DOMAIN symbols = 1 .. n
  BY DEF Table
<1>7. PICK next : next = Append(symbols, f)
  OBVIOUS
<1>8. DOMAIN next = 1 .. n + 1 /\ next[n + 1] = f /\ \A j \in 1 .. n : next[j] = symbols[j]
  BY <1>6, <1>7 DEF Table
<1>9. \A j \in 1 .. n + 1 : j \in 1 .. n \/ j = n + 1
  BY <1>6
<1>10. ASSUME NEW j \in 1 .. n + 1
       PROVE  \E k \in PEFunctions :
                k <= q /\ Made(next[j], k) /\ next[j].size = SizeRecord(SymbolIn(k))
  <2>1. CASE j = n + 1
    BY <1>2, <1>3, <1>8, <2>1
  <2>2. CASE j \in 1 .. n
    <3>1. PICK k \in PEFunctions : /\ k <= p /\ Made(symbols[j], k)
                                   /\ symbols[j].size = SizeRecord(SymbolIn(k))
      BY <1>6, <2>2 DEF FunctionsRead
    <3>2. QED
      BY <1>5, <1>8, <2>2, <3>1
  <2>3. QED
    BY <1>9, <2>1, <2>2
<1>11. ASSUME NEW k \in PEFunctions, k <= q
       PROVE  \E j \in 1 .. n + 1 : Made(next[j], k)
  <2>1. CASE k = m
    <3>1. n + 1 \in 1 .. n + 1
      BY <1>6
    <3>2. QED
      BY <1>3, <1>8, <2>1, <3>1
  <2>2. CASE k # m
    <3>1. PICK j \in 1 .. n : Made(symbols[j], k)
      BY <1>5, <1>6, <1>11, <2>2 DEF FunctionsRead
    <3>2. j \in 1 .. n + 1 /\ next[j] = symbols[j]
      BY <1>6, <1>8
    <3>3. QED
      BY <3>1, <3>2
  <2>3. QED
    BY <2>1, <2>2
<1>12. ASSUME NEW i \in 1 .. n
       PROVE  next[i].offset # next[n + 1].offset
  <2>1. PICK k \in PEFunctions : k <= p /\ Made(symbols[i], k)
    BY <1>6 DEF FunctionsRead
  <2>2. k # m
    BY <1>1, <1>4, <2>1
  <2>3. Begin(k) # Begin(m)
    BY <1>2, <2>2 DEF TableSound
  <2>4. next[i].offset = Begin(k) /\ next[n + 1].offset = Begin(m)
    BY <1>3, <1>8, <2>1 DEF Made
  <2>5. QED
    BY <2>3, <2>4
<1>13. \A i, j \in 1 .. n : next[i].offset = next[j].offset => i = j
  BY <1>6, <1>8 DEF FunctionsRead
<1>14. \A i, j \in 1 .. n + 1 : next[i].offset = next[j].offset => i = j
  <2>1. ASSUME NEW i \in 1 .. n + 1, NEW j \in 1 .. n + 1, next[i].offset = next[j].offset, i # j
        PROVE  FALSE
    <3>1. \/ i \in 1 .. n /\ j \in 1 .. n
          \/ i \in 1 .. n /\ j = n + 1
          \/ i = n + 1 /\ j \in 1 .. n
      BY <1>9, <2>1
    <3>2. QED
      BY <1>12, <1>13, <2>1, <3>1
  <2>2. QED
    BY <2>1
<1>15. symbols' = next
  BY <1>1, <1>7
<1>16. /\ \A j \in DOMAIN next :
            \E k \in PEFunctions :
              k <= q /\ Made(next[j], k) /\ next[j].size = SizeRecord(SymbolIn(k))
       /\ \A k \in PEFunctions : k <= q => \E j \in DOMAIN next : Made(next[j], k)
       /\ \A i, j \in DOMAIN next : next[i].offset = next[j].offset => i = j
  BY <1>8, <1>10, <1>11, <1>14
<1>17. /\ PEFunctions' = PEFunctions
       /\ \A k : SizeRecord(SymbolIn(k))' = SizeRecord(SymbolIn(k))
       /\ \A k : SymbolIn(k)' = SymbolIn(k) /\ Begin(k)' = Begin(k)
  BY FileStaysSo
<1>18. \A j \in DOMAIN symbols' :
         \E k \in PEFunctions' :
           k <= q /\ Made(symbols[j], k)' /\ symbols'[j].size = SizeRecord(SymbolIn(k))'
  BY <1>15, <1>16, <1>17 DEF Made
<1>19. \A k \in PEFunctions' : k <= q => \E j \in DOMAIN symbols' : Made(symbols[j], k)'
  BY <1>15, <1>16, <1>17 DEF Made
<1>20. \A i, j \in DOMAIN symbols' : symbols'[i].offset = symbols'[j].offset => i = j
  BY <1>15, <1>16
<1>21. QED
  BY <1>18, <1>19, <1>20 DEF FunctionsRead

(* A length is added, if there is none for the place. *)
LEMMA LengthAdded ==
  ASSUME UNCHANGED <<file, header, origin>>, file \in Seq(Cell), TableSound, 
         NEW p \in Nat, NEW q, Gap(p, q), p + 1 \in PELengths, NEW c, c = SymbolIn(p + 1),
         NEW of, of = lengths[c.section], NEW new,
         new = IF c.value \in DOMAIN of THEN of ELSE Inserted(of, c.value, file[p + 2].length),
         LengthsRead(p), lengths' = [lengths EXCEPT ![c.section] = new]
  PROVE  LengthsRead(q)'
<1>1. PICK m, z : m = p + 1 /\ z = file[p + 2].length
  OBVIOUS
<1>2. m \in Nat /\ m \in PELengths /\ m <= q /\ q \in Nat /\ c = SymbolIn(m) /\ m + 1 = p + 2
  BY <1>1 DEF Gap
<1>3. PELengths \subseteq Nat
  BY DEF PELengths, SymbolCells
<1>4. \A k \in PELengths : k <= q <=> (k <= p \/ k = m)
  <2>1. ASSUME NEW k \in PELengths, k <= q
        PROVE  k <= p \/ k = m
    <3>1. k \in Nat /\ k <= p + 1
      BY <1>3, <2>1 DEF Gap, PELengths
    <3>2. QED
      BY <1>1, <3>1
  <2>2. \A k \in PELengths : k <= p => k <= q
    BY <1>1, <1>2, <1>3
  <2>3. QED
    BY <1>2, <2>1, <2>2
<1>5. PICK to : to = [lengths EXCEPT ![c.section] = new]
  OBVIOUS
<1>6. /\ DOMAIN to = DOMAIN lengths
      /\ \A s \in DOMAIN lengths : to[s] = IF s = c.section THEN new ELSE lengths[s]
  BY <1>5
<1>7. new = IF c.value \in DOMAIN of THEN of
            ELSE [v \in DOMAIN of \cup {c.value} |-> IF v = c.value THEN z ELSE of[v]]
  BY <1>1 DEF Inserted
<1>8. /\ DOMAIN new = DOMAIN of \cup {c.value}
      /\ \A v \in DOMAIN of : new[v] = of[v]
      /\ c.value \notin DOMAIN of => new[c.value] = z
  BY <1>7
<1>9. ASSUME NEW s \in DOMAIN to, NEW v \in DOMAIN to[s]
      PROVE  \E k \in PELengths : /\ k <= q /\ SymbolIn(k).section = s /\ SymbolIn(k).value = v
                                  /\ to[s][v] = file[k + 1].length
  <2>1. CASE v \in DOMAIN lengths[s] /\ to[s][v] = lengths[s][v]
    <3>1. PICK k \in PELengths : /\ k <= p /\ SymbolIn(k).section = s /\ SymbolIn(k).value = v
                                 /\ lengths[s][v] = file[k + 1].length
      BY <1>6, <2>1 DEF LengthsRead
    <3>2. QED
      BY <1>4, <2>1, <3>1
  <2>2. CASE s = c.section /\ v = c.value /\ to[s][v] = z
    BY <1>1, <1>2, <2>2
  <2>3. QED
    BY <1>6, <1>8, <2>1, <2>2
<1>10. ASSUME NEW k \in PELengths, k <= q, SymbolIn(k).section \in DOMAIN to
       PROVE  SymbolIn(k).value \in DOMAIN to[SymbolIn(k).section]
  <2>1. CASE k = m
    BY <1>2, <1>6, <1>8, <1>10, <2>1
  <2>2. CASE k <= p
    <3>1. SymbolIn(k).value \in DOMAIN lengths[SymbolIn(k).section]
      BY <1>6, <1>10, <2>2 DEF LengthsRead
    <3>2. QED
      BY <1>6, <1>8, <1>10, <3>1
  <2>3. QED
    BY <1>4, <1>10, <2>1, <2>2
<1>11. lengths' = to
  BY <1>5
<1>12. QED
  BY <1>9, <1>10, <1>11, FileStaysSo DEF LengthsRead

(* What is known of the state in the loop. *)
LEMMA LoopState ==
  ASSUME ImageInv, SymbolsInv, format = "pe", pc \in PELoop, rc = "ok"
  PROVE  /\ file \in Seq(Cell) /\ ~spoiled /\ ReaderInv
         /\ header.symtab \in Nat /\ header.symbols \in Nat /\ index \in Nat
         /\ Origins /\ Table(symbols) /\ ~finished
<1>1. pc \in PEPlaces \ {"pe offset", "pe signature", "pe header"}
  BY DEF PEPlaces, PELoop
<1>2. header.symtab \in Nat /\ header.symbols \in Nat /\ index \in Nat
  BY <1>1 DEF ImageInv, HeadersRead
<1>3. pc \in PEPlaces
  BY <1>1
<1>4. ~spoiled /\ ReaderInv
  BY <1>3 DEF ImageInv, Fetches
<1>5. file \in Seq(Cell)
  BY <1>4 DEF ReaderInv, ReaderTypes
<1>6. Origins /\ Table(symbols)
  BY DEF SymbolsInv
<1>7. ~finished
  BY Elsewhere DEF SymbolsInv
<1>8. QED
  BY <1>2, <1>4, <1>5, <1>6, <1>7

LEMMA PESymbolAux ==
  ASSUME ImageInv, format = "pe", file \in Seq(Cell), NEW n \in DOMAIN file
  PROVE  /\ PESymbol(file[n]).section \in Int /\ PESymbol(file[n]).value \in Nat
         /\ PESymbol(file[n]).aux \in Nat
<1>1. PICK c : c = file[n]
  OBVIOUS
<1>2. c \in Cell
  BY <1>1 DEF Cell, Range
<1>3. PESymbol(c).section \in Int /\ PESymbol(c).value \in Nat
  BY <1>2, PESymbolNumbers
<1>4. PENumbers(c)
  BY <1>2, Numbers DEF ImageInv
<1>5. PESymbol(c).aux \in Nat
  <2>1. CASE c.kind \in {"symbol", "aux", "string"}
    BY <1>4, <2>1 DEF PENumbers, PESymbol
  <2>2. CASE c.kind \notin {"symbol", "aux", "string"}
    <3>1. PESymbol(c) = NoPESymbol
      BY <2>2 DEF PESymbol
    <3>2. QED
      BY <3>1, LikeNone
  <2>3. QED
    BY <2>1, <2>2
<1>6. QED
  BY <1>1, <1>3, <1>5

(* The places of the loop. *)
LEMMA PlacesApart ==
  /\ AtNext => ~AtSymbol /\ ~AtFile /\ ~AtLength
  /\ AtSymbol => ~AtNext /\ ~AtFile /\ ~AtLength
  /\ AtFile => ~AtNext /\ ~AtSymbol /\ ~AtLength
  /\ AtLength => ~AtNext /\ ~AtSymbol /\ ~AtFile
  /\ pc \in PELoop <=> AtNext \/ AtSymbol \/ AtFile \/ AtLength
BY DEF AtNext, AtSymbol, AtFile, AtLength, PELoop

LEMMA NextPlaces ==
  /\ AtNext' => ~AtSymbol' /\ ~AtFile' /\ ~AtLength'
  /\ AtSymbol' => ~AtNext' /\ ~AtFile' /\ ~AtLength'
  /\ AtFile' => ~AtNext' /\ ~AtSymbol' /\ ~AtLength'
  /\ AtLength' => ~AtNext' /\ ~AtSymbol' /\ ~AtFile'
  /\ pc' \in PELoop <=> AtNext' \/ AtSymbol' \/ AtFile' \/ AtLength'
BY DEF AtNext, AtSymbol, AtFile, AtLength, PELoop

(* The symbol at hand is dealt with. *)
LEMMA TurnEnds ==
  ASSUME file \in Seq(Cell), header.symtab \in Nat, header.symbols \in Nat, index \in Nat,
         Origins, Table(symbols), TableSound, UNCHANGED <<file, header, origin>>,
         NEW p \in Nat, NEW q, Gap(p, q), NEW y \in Nat, p + 1 + y <= q,
         Pace(p), FunctionsRead(p), LengthsRead(p),
         count' = count - y, index' = index + 1, AtNext', Standing(q)',
         \/ p + 1 \notin PEFunctions /\ UNCHANGED symbols
         \/ /\ p + 1 \in PEFunctions /\ SymbolIn(p + 1).section \in Int
            /\ symbols' = Append(symbols, PEFunction(SymbolIn(p + 1))),
         \/ p + 1 \notin PELengths /\ UNCHANGED lengths
         \/ LengthsRead(q)'
  PROVE  \E x \in Nat : Track(x)'
<1>1. q \in Nat
  BY DEF Gap
<1>2. Pace(q)'
  BY <1>1, PaceKept
<1>3. FunctionsRead(q)'
  BY FunctionsPassed, FunctionAdded
<1>4. LengthsRead(q)'
  BY LengthsPassed
<1>5. Stage(q)'
  BY NextPlaces DEF Stage
<1>6. QED
  BY <1>1, <1>2, <1>3, <1>4, <1>5 DEF Track

LEMMA AuxPassed ==
  ASSUME NEW s, NEW r, SkipAux(s, r), NEW n \in Nat, n = s.aux - r
  PROVE  /\ AtNext' /\ count' = count - n /\ index' = index + 1 /\ UNCHANGED file
         /\ \A q : place + n = q => Standing(q)'
<1>1. \A ops, next : AskFor(ops, next) => /\ script' = ops /\ pc' = next
                                          /\ UNCHANGED <<file, place>>
  BY DEF AskFor, Ask
<1>2. script' = <<Skip(n)>> /\ pc' = "pe next" /\ UNCHANGED <<file, place>>
  BY <1>1 DEF SkipAux
<1>3. count' = count - n /\ index' = index + 1
  BY DEF SkipAux
<1>4. AtNext'
  BY <1>2 DEF AtNext
<1>5. script' = <<Skip(n)>> /\ UNCHANGED <<file, place>>
  BY <1>2
<1>6. ASSUME NEW q, place + n = q
      PROVE  Standing(q)'
  BY <1>5, <1>6 DEF Standing, Skip
<1>7. QED
  BY <1>3, <1>4, <1>5, <1>6

LEMMA DataKept ==
  ASSUME UNCHANGED <<file, header, origin>>, UNCHANGED <<symbols, lengths, count, index>>, NEW p,
         Pace(p), FunctionsRead(p), LengthsRead(p)
  PROVE  Pace(p)' /\ FunctionsRead(p)' /\ LengthsRead(p)'
<1>1. Pace(p)'
  BY DEF Pace
<1>2. FunctionsRead(p)' <=> FunctionsRead(p)
  BY FileStaysSo DEF FunctionsRead
<1>3. LengthsRead(p)' <=> LengthsRead(p)
  BY FileStaysSo DEF LengthsRead
<1>4. QED
  BY <1>1, <1>2, <1>3

(* What was asked for is there. *)
LEMMA Brought ==
  ASSUME script = <<>>, NEW p \in Nat
  PROVE  /\ Standing(p) => place = p
         /\ Bringing(p) => place = p + 1 /\ p + 1 \in DOMAIN file /\ got[1] = file[p + 1]
<1>1. \A o : <<o>> # <<>>
  OBVIOUS
<1>2. QED
  BY <1>1 DEF Standing, Bringing

LEMMA AskedOne ==
  ASSUME NEW next, AskFor(<<Read(1)>>, next)
  PROVE  pc' = next /\ UNCHANGED <<file, place>> /\ \A q : q = place => Bringing(q)'
<1>1. pc' = next /\ script' = <<Read(1)>> /\ got' = <<>> /\ UNCHANGED <<file, place>>
  BY DEF AskFor, Ask
<1>2. \A q : q = place => Bringing(q)'
  BY <1>1 DEF Bringing, Read
<1>3. QED
  BY <1>1, <1>2

LEMMA NextTracked ==
  ASSUME NextSymbol, NEW p \in Nat, Track(p)
  PROVE  \E x \in Nat : Track(x)'
<1>1. /\ AtNext /\ script = <<>> /\ UNCHANGED <<header, origin, symbols, lengths, count, index>>
      /\ AskFor(<<Read(1)>>, "pe symbol")
  BY DEF NextSymbol, Have, Answered, AtNext, Keep, imageVars, peVars
<1>2. AtNext /\ script = <<>> /\ UNCHANGED <<header, origin, symbols, lengths, count, index>>
  BY <1>1
<1>3. /\ pc' = "pe symbol" /\ UNCHANGED <<file, place>> /\ \A q : q = place => Bringing(q)'
  BY <1>1, AskedOne
<1>4. AtSymbol'
  BY <1>3 DEF AtSymbol
<1>5. UNCHANGED <<file, place>> /\ \A q : q = place => Bringing(q)'
  BY <1>3
<1>6. place = p
  BY <1>2, Brought DEF Track, Stage
<1>7. Stage(p)'
  BY <1>4, <1>5, <1>6, NextPlaces DEF Stage
<1>8. Pace(p)' /\ FunctionsRead(p)' /\ LengthsRead(p)'
  BY <1>2, <1>5, DataKept DEF Track
<1>9. QED
  BY <1>7, <1>8 DEF Track

LEMMA AuxAsked ==
  ASSUME NEW next \in {"pe file", "pe length"}, ReadAux(next), NEW p \in Nat, Track(p), AtSymbol,
         script = <<>>, NEW s, s = PESymbol(got[1]),
         next = "pe file" => HasFileName(s), next = "pe length" => HasLength(s)
  PROVE  \E x \in Nat : Track(x)'
<1>1. /\ AskFor(<<Read(1)>>, next) /\ symbol' = PESymbol(got[1])
      /\ UNCHANGED <<header, origin, symbols, lengths, count, index>>
  BY DEF ReadAux, imageVars
<1>2. /\ pc' = next /\ UNCHANGED <<file, place>> /\ \A q : q = place => Bringing(q)'
  BY <1>1, AskedOne
<1>3. (AtFile' \/ AtLength') /\ (AtFile' => HasFileName(s)) /\ (AtLength' => HasLength(s))
  BY <1>2 DEF AtFile, AtLength
<1>4. UNCHANGED <<file, place>> /\ (\A q : q = place => Bringing(q)')
      /\ symbol' = s /\ UNCHANGED <<header, origin, symbols, lengths, count, index>>
  BY <1>1, <1>2
<1>5. place = p + 1 /\ p + 1 \in DOMAIN file /\ got[1] = file[p + 1]
  BY Brought DEF Track, Stage
<1>6. (PESymbol(file[p + 1]))' = PESymbol(file[p + 1])
  BY <1>4 DEF PESymbol
<1>7. Stage(p)'
  <2>1. p + 1 \in DOMAIN file' /\ symbol' = (PESymbol(file[p + 1]))' /\ Bringing(p + 1)'
    BY <1>4, <1>5, <1>6
  <2>2. (AtFile' => HasFileName(symbol)') /\ (AtLength' => HasLength(symbol)')
    BY <1>3, <1>4 DEF HasFileName, HasLength
  <2>3. ~AtNext' /\ ~AtSymbol'
    BY <1>3, NextPlaces
  <2>4. QED
    BY <2>1, <2>2, <2>3 DEF Stage
<1>8. Pace(p)' /\ FunctionsRead(p)' /\ LengthsRead(p)'
  BY <1>4, DataKept DEF Track
<1>9. QED
  BY <1>7, <1>8 DEF Track

LEMMA SymbolTracked ==
  ASSUME ImageInv, SymbolsInv, format = "pe", TableSound, TakeSymbol, NEW p \in Nat, Track(p)
  PROVE  \E x \in Nat : Track(x)'
<1>1. AtSymbol /\ script = <<>> /\ rc = "ok"
  BY DEF TakeSymbol, Have, Answered, AtSymbol
<1>2. /\ file \in Seq(Cell) /\ header.symtab \in Nat /\ header.symbols \in Nat /\ index \in Nat
      /\ Origins /\ Table(symbols)
  BY <1>1, PlacesApart, LoopState
<1>3. place = p + 1 /\ p + 1 \in DOMAIN file /\ got[1] = file[p + 1]
  BY <1>1, Brought DEF Track, Stage
<1>4. PICK s : s = PESymbol(got[1])
  OBVIOUS
<1>5. s = PESymbol(file[p + 1])
  BY <1>3, <1>4
<1>6. s.section \in Int /\ s.aux \in Nat
  BY <1>2, <1>3, <1>5, PESymbolAux
<1>7. /\ p + 1 \in PEFunctions <=> TakenForFunction(s) /\ InSections(s)
      /\ p + 1 \in PELengths <=> HasLength(s)
      /\ p + 1 \in SymbolCells => s = SymbolIn(p + 1)
  BY <1>3, <1>5, Classified
<1>8. PICK a \in Nat : a = s.aux
  BY <1>6
<1>9. Gap(p, p + 1) /\ Gap(p, p + 1 + a)
  BY <1>2, <1>3, <1>5, <1>8, GapSkipped
<1>10. Pace(p) /\ FunctionsRead(p) /\ LengthsRead(p)
  BY DEF Track
<1>11. CASE HasFileName(s) /\ ReadAux("pe file")
  BY <1>1, <1>4, <1>11, AuxAsked
<1>12. CASE HasLength(s) /\ ReadAux("pe length")
  BY <1>1, <1>4, <1>12, AuxAsked
<1>13. ASSUME TakenForFunction(s), ~InSections(s), index' = index + 1, ReadOn("pe next"),
              UNCHANGED <<header, symbols, peVars>>
       PROVE  \E x \in Nat : Track(x)'
  <2>1. pc' = "pe next" /\ UNCHANGED <<file, script, place>>
    BY <1>13 DEF ReadOn, fileVars, scriptVars
  <2>2. AtNext' /\ UNCHANGED <<file, script, place>>
    BY <2>1 DEF AtNext
  <2>3. Standing(p + 1)'
    BY <1>1, <1>3, <2>2 DEF Standing
  <2>4. UNCHANGED <<header, origin, count, symbols, lengths>> /\ index' = index + 1
    BY <1>13 DEF peVars
  <2>5. p + 1 \notin PEFunctions /\ p + 1 \notin PELengths
    BY <1>7, <1>13, OneClass
  <2>6. PICK y \in Nat : y = 0
    OBVIOUS
  <2>7. count \in Int
    BY <1>10 DEF Pace
  <2>8. p + 1 + y <= p + 1 /\ count' = count - y
    BY <2>4, <2>6, <2>7
  <2>9. QED
    BY <1>2, <1>9, <1>10, <2>2, <2>3, <2>4, <2>5, <2>8, TurnEnds
<1>14. ASSUME SkipAux(s, 0), UNCHANGED <<header, origin, lengths>>, p + 1 \notin PELengths,
              \/ p + 1 \notin PEFunctions /\ UNCHANGED symbols
              \/ /\ p + 1 \in PEFunctions
                 /\ symbols' = Append(symbols, PEFunction(s))
       PROVE  \E x \in Nat : Track(x)'
  <2>1. PICK z : z = 0
    OBVIOUS
  <2>2. SkipAux(s, z) /\ a = s.aux - z
    BY <1>8, <1>14, <2>1
  <2>3. /\ AtNext' /\ count' = count - a /\ index' = index + 1 /\ UNCHANGED file
        /\ \A q : place + a = q => Standing(q)'
    BY <2>2, AuxPassed
  <2>4. Standing(p + 1 + a)'
    BY <1>3, <2>3
  <2>5. \/ p + 1 \notin PEFunctions /\ UNCHANGED symbols
        \/ /\ p + 1 \in PEFunctions /\ SymbolIn(p + 1).section \in Int
           /\ symbols' = Append(symbols, PEFunction(SymbolIn(p + 1)))
    BY <1>6, <1>7, <1>14 DEF PEFunctions
  <2>6. p + 1 + a <= p + 1 + a
    OBVIOUS
  <2>7. QED
    BY <1>2, <1>9, <1>10, <1>14, <2>3, <2>4, <2>5, <2>6, TurnEnds
<1>15. ASSUME TakenForFunction(s), InSections(s), SkipAux(s, 0),
              symbols' = Append(symbols, PEFunction(s)), UNCHANGED <<header, origin, lengths>>
       PROVE  \E x \in Nat : Track(x)'
  <2>1. p + 1 \in PEFunctions /\ p + 1 \notin PELengths
    BY <1>7, <1>15, OneClass
  <2>2. QED
    BY <1>14, <1>15, <2>1
<1>16. ASSUME ~HasLength(s), ~TakenForFunction(s), SkipAux(s, 0),
              UNCHANGED <<header, symbols, origin, lengths>>
       PROVE  \E x \in Nat : Track(x)'
  <2>1. p + 1 \notin PEFunctions /\ p + 1 \notin PELengths
    BY <1>7, <1>16
  <2>2. QED
    BY <1>14, <1>16, <2>1
<1>17. QED
  BY <1>4, <1>11, <1>12, <1>13, <1>15, <1>16 DEF TakeSymbol

LEMMA AuxTracked ==
  ASSUME ImageInv, SymbolsInv, format = "pe", TableSound, TakeFileName \/ TakeLength,
         NEW p \in Nat, Track(p)
  PROVE  \E x \in Nat : Track(x)'
<1>1. /\ AtFile \/ AtLength
      /\ script = <<>> /\ rc = "ok" /\ SkipAux(symbol, auxRead)
      /\ UNCHANGED <<header, origin, symbols>>
  BY DEF TakeFileName, TakeLength, Have, Answered, AtFile, AtLength
<1>2. /\ file \in Seq(Cell) /\ header.symtab \in Nat /\ header.symbols \in Nat /\ index \in Nat
      /\ Origins /\ Table(symbols)
  BY <1>1, PlacesApart, LoopState
<1>3. PICK m : m = p + 1
  OBVIOUS
<1>4. Bringing(m) /\ m \in Nat /\ m \in DOMAIN file /\ symbol = PESymbol(file[m])
  BY <1>1, <1>3 DEF Track, Stage
<1>5. place = m + 1 /\ m + 1 \in DOMAIN file /\ got[1] = file[m + 1]
  BY <1>1, <1>4, Brought
<1>6. symbol.aux = 1 /\ auxRead = 1
  <2>1. pc \in {"pe file", "pe length"}
    BY <1>1 DEF AtFile, AtLength
  <2>2. QED
    BY <2>1 DEF ImageInv, HeadersRead
<1>7. PICK z, one \in Nat : z = 0 /\ one = 1
  OBVIOUS
<1>8. z \in Nat /\ z = symbol.aux - auxRead /\ one = symbol.aux
  <2>1. \A x, y : x = 1 /\ y = 1 => z = x - y
    BY <1>7
  <2>2. QED
    BY <1>6, <1>7, <2>1
<1>9. /\ AtNext' /\ count' = count - z /\ index' = index + 1 /\ UNCHANGED file
      /\ \A q : place + z = q => Standing(q)'
  BY <1>1, <1>8, AuxPassed
<1>10. PICK q : q = p + 2
  OBVIOUS
<1>11. q = m + 1 /\ place + z = q /\ q = p + 1 + one /\ p + 1 + z <= q
  BY <1>3, <1>5, <1>7, <1>10
<1>12. Gap(p, q)
  BY <1>2, <1>3, <1>4, <1>8, <1>11, GapSkipped
<1>13. /\ m \in PEFunctions <=> TakenForFunction(symbol) /\ InSections(symbol)
       /\ m \in PELengths <=> HasLength(symbol)
       /\ m \in SymbolCells => symbol = SymbolIn(m)
  BY <1>4, Classified
<1>14. Pace(p) /\ FunctionsRead(p) /\ LengthsRead(p)
  BY DEF Track
<1>15. Standing(q)'
  BY <1>9, <1>11
<1>16. CASE TakeFileName
  <2>1. AtFile /\ UNCHANGED lengths
    BY <1>16 DEF TakeFileName, Have, AtFile
  <2>2. HasFileName(symbol)
    BY <2>1 DEF Track, Stage
  <2>3. p + 1 \notin PEFunctions /\ p + 1 \notin PELengths
    BY <1>3, <1>13, <2>2, OneClass
  <2>4. QED
    BY <1>1, <1>2, <1>7, <1>9, <1>11, <1>12, <1>14, <1>15, <2>1, <2>3, TurnEnds
<1>17. CASE TakeLength
  <2>1. AtLength
    BY <1>17 DEF TakeLength, Have, AtLength
  <2>2. HasLength(symbol)
    BY <2>1 DEF Track, Stage
  <2>3. m \in PELengths /\ m \notin PEFunctions
    BY <1>13, <2>2, OneClass
  <2>4. symbol = SymbolIn(m) /\ file[m + 1].kind = "aux"
    BY <1>13, <2>3 DEF PELengths, TableSound
  <2>5. PICK length, of, new :
          /\ length = As("aux", got[1], [length |-> 0]).length /\ of = lengths[symbol.section]
          /\ new = IF symbol.value \in DOMAIN of THEN of ELSE Inserted(of, symbol.value, length)
          /\ lengths' = [lengths EXCEPT ![symbol.section] = new]
    BY <1>17 DEF TakeLength
  <2>6. length = file[m + 1].length
    BY <1>5, <2>4, <2>5 DEF As
  <2>7. m + 1 = p + 2
    BY <1>3
  <2>8. length = file[p + 2].length
    BY <2>6, <2>7
  <2>9. UNCHANGED <<file, header, origin>>
    BY <1>1, <1>9
  <2>10. PICK c : c = symbol
    OBVIOUS
  <2>11. /\ p + 1 \in PELengths /\ c = SymbolIn(p + 1) /\ of = lengths[c.section]
         /\ new = IF c.value \in DOMAIN of THEN of ELSE Inserted(of, c.value, file[p + 2].length)
         /\ lengths' = [lengths EXCEPT ![c.section] = new]
    BY <1>3, <2>3, <2>4, <2>5, <2>8, <2>10
  <2>12. LengthsRead(q)'
    BY <1>2, <1>12, <1>14, <2>9, <2>11, LengthAdded
  <2>13. p + 1 \notin PEFunctions
    BY <1>3, <2>3
  <2>14. QED
    BY <1>1, <1>2, <1>7, <1>9, <1>11, <1>12, <1>14, <1>15, <2>12, <2>13, TurnEnds
<1>18. QED
  BY <1>16, <1>17

-----------------------------------------------------------------------------
(* The loop is over. *)
LEMMA AllRead ==
  ASSUME TableSound, file \in Seq(Cell), header.symtab \in Nat, header.symbols \in Nat, index \in Nat,
         NEW p \in Nat, Pace(p), index >= count
  PROVE  \A k \in SymbolCells : k <= p
<1>1. PICK a, b, i, c : a = header.symtab /\ b = header.symbols /\ i = index /\ c = count
  OBVIOUS
<1>2. a \in Nat /\ b \in Nat /\ i \in Nat /\ c \in Int /\ p + c >= a + b + i /\ i >= c
  BY <1>1 DEF Pace
<1>3. a + b <= p
  BY <1>2
<1>4. \A k \in SymbolCells : k \in Nat /\ k <= a + b
  BY <1>1 DEF TableSound, SymbolCells
<1>5. QED
  BY <1>2, <1>3, <1>4

(* A permutation has all that the sequence had. *)
Permutes(f, n, s, t) ==
  /\ f \in [1 .. n -> 1 .. n] /\ DOMAIN s = 1 .. n /\ Len(s) = n
  /\ \A i \in 1 .. n : s[i] = t[f[i]]
  /\ \A i, j \in 1 .. n : i # j => f[i] # f[j]
  /\ \A k \in 1 .. n : \E i \in 1 .. n : f[i] = k

LEMMA PermutedWhole ==
  ASSUME NEW n \in Nat, NEW t, DOMAIN t = 1 .. n, NEW s \in Permuted(t)
  PROVE  \E f : Permutes(f, n, s, t)
<1>1. PICK f \in SetToSeqs(1 .. n) : s = [i \in 1 .. n |-> t[f[i]]]
  BY DEF Permuted
<1>2. Cardinality(1 .. n) = n /\ IsFiniteSet(1 .. n)
  BY FS_Interval
<1>3. f \in [1 .. n -> 1 .. n] /\ \A i, j \in 1 .. n : i # j => f[i] # f[j]
  BY <1>1, <1>2 DEF SetToSeqs
<1>4. PICK S : S = 1 .. n
  OBVIOUS
<1>5. f \in Injection(S, S)
  BY <1>3, <1>4 DEF Injection, IsInjective
<1>6. f \in Surjection(S, S)
  BY <1>2, <1>4, <1>5, FS_Injection
<1>7. \A k \in 1 .. n : \E i \in 1 .. n : f[i] = k
  BY <1>4, <1>6 DEF Surjection
<1>8. DOMAIN s = 1 .. n /\ Len(s) = n /\ \A i \in 1 .. n : s[i] = t[f[i]]
  BY <1>1
<1>9. QED
  BY <1>3, <1>7, <1>8 DEF Permutes

LEMMA FinishedComplete ==
  ASSUME TableSound, UNCHANGED <<file, header, origin>>, Table(symbols), NEW p \in Nat, FunctionsRead(p),
         \A k \in SymbolCells : k <= p, NEW s \in Permuted(symbols), Sorted(s), symbols' = Stretched(s)
  PROVE  Complete'
<1>1. PICK n \in Nat : n = Len(symbols) /\ DOMAIN symbols = 1 .. n
  BY DEF Table
<1>2. PICK f : Permutes(f, n, s, symbols)
  BY <1>1, PermutedWhole
<1>3. DOMAIN s = 1 .. n /\ Len(s) = n /\ \A i \in 1 .. n : s[i] = symbols[f[i]] /\ f[i] \in 1 .. n
  BY <1>2 DEF Permutes
<1>4. \A i \in 1 .. n : s[i].offset \in Nat
  BY <1>1, <1>3 DEF Table, IsSymbol
<1>5. PICK next : next = Stretched(s)
  OBVIOUS
<1>6. DOMAIN next = 1 .. n /\ next \in [1 .. n -> {next[i] : i \in 1 .. n}]
  BY <1>3, <1>5 DEF Stretched
<1>7. Len(next) = n
  BY <1>6
<1>8. \A i \in 1 .. n : next[i] =
        IF s[i].size # 0 THEN s[i]
        ELSE [s[i] EXCEPT !.size =
                IF i < n THEN s[i + 1].offset - s[i].offset
                ELSE LET o == origin[s[i].section] IN o.virtual + o.size - s[i].offset]
  BY <1>3, <1>5 DEF Stretched
<1>9. \A i \in 1 .. n : \E k \in PEFunctions : Made(s[i], k) /\ s[i].size = SizeRecord(SymbolIn(k))
  <2>1. SUFFICES ASSUME NEW i \in 1 .. n
                 PROVE  \E k \in PEFunctions : Made(s[i], k) /\ s[i].size = SizeRecord(SymbolIn(k))
    OBVIOUS
  <2>2. PICK j \in DOMAIN symbols : s[i] = symbols[j]
    BY <1>1, <1>3
  <2>3. PICK k \in PEFunctions : Made(symbols[j], k) /\ symbols[j].size = SizeRecord(SymbolIn(k))
    BY DEF FunctionsRead
  <2>4. Made(s[i], k) /\ s[i].size = SizeRecord(SymbolIn(k))
    BY <2>2, <2>3
  <2>5. QED
    BY <2>4
<1>10. \A i, j \in 1 .. n : i < j => s[i].offset < s[j].offset
  <2>1. ASSUME NEW i \in 1 .. n, NEW j \in 1 .. n, i < j
        PROVE  s[i].offset < s[j].offset
    <3>1. s[i].offset <= s[j].offset
      BY <1>3, <2>1 DEF Sorted
    <3>2. f[i] # f[j]
      BY <1>2, <2>1 DEF Permutes
    <3>3. s[i].offset # s[j].offset
      BY <1>1, <1>3, <3>2 DEF FunctionsRead
    <3>4. QED
      BY <1>4, <3>1, <3>3
  <2>2. QED
    BY <2>1
<1>11. ASSUME NEW i \in 1 .. n
       PROVE  /\ next[i].offset = s[i].offset /\ next[i].name = s[i].name
              /\ next[i].section = s[i].section
              /\ next[i].size = IF s[i].size # 0 THEN s[i].size
                                ELSE IF i < n THEN s[i + 1].offset - s[i].offset
                                ELSE LET o == origin[s[i].section]
                                     IN  o.virtual + o.size - s[i].offset
  <2>1. CASE s[i].size # 0
    BY <1>8, <2>1
  <2>2. CASE s[i].size = 0
    <3>1. PICK x : x = IF i < n THEN s[i + 1].offset - s[i].offset
                       ELSE LET o == origin[s[i].section] IN o.virtual + o.size - s[i].offset
      OBVIOUS
    <3>2. next[i] = [s[i] EXCEPT !.size = x]
      BY <1>8, <2>2, <3>1
    <3>3. /\ next[i].offset = s[i].offset /\ next[i].name = s[i].name
          /\ next[i].section = s[i].section /\ next[i].size = x
      BY <3>2
    <3>4. QED
      BY <2>2, <3>1, <3>3
  <2>3. QED
    BY <2>1, <2>2
<1>12. symbols' = next
  BY <1>5
<1>13. /\ PEFunctions' = PEFunctions /\ UNCHANGED origin
       /\ \A k : /\ SizeRecord(SymbolIn(k))' = SizeRecord(SymbolIn(k))
                 /\ SymbolIn(k)' = SymbolIn(k) /\ Begin(k)' = Begin(k)
  BY FileStaysSo
<1>14. ASSUME NEW j \in 1 .. n
       PROVE  \E k \in PEFunctions : Made(symbols[j], k)' /\ symbols'[j].size = Reach(j, k)'
  <2>1. PICK k \in PEFunctions : Made(s[j], k) /\ s[j].size = SizeRecord(SymbolIn(k))
    BY <1>9
  <2>2. Made(symbols[j], k)'
    BY <1>11, <1>12, <1>13, <2>1 DEF Made
  <2>3. j < n => j + 1 \in 1 .. n
    OBVIOUS
  <2>4. symbols'[j].size = Reach(j, k)'
    BY <1>7, <1>11, <1>12, <1>13, <2>1, <2>3 DEF Made, Reach
  <2>5. QED
    BY <2>2, <2>4
<1>15. ASSUME NEW k \in PEFunctions
       PROVE  \E j \in 1 .. n : Made(symbols[j], k)'
  <2>1. k <= p
    BY DEF PEFunctions
  <2>2. PICK i \in 1 .. n : Made(symbols[i], k)
    BY <1>1, <2>1 DEF FunctionsRead
  <2>3. PICK j \in 1 .. n : f[j] = i
    BY <1>2 DEF Permutes
  <2>4. Made(s[j], k)
    BY <1>3, <2>2, <2>3
  <2>5. Made(symbols[j], k)'
    BY <1>11, <1>12, <1>13, <2>4 DEF Made
  <2>6. QED
    BY <2>5
<1>16. \A i, j \in 1 .. n : i < j => symbols'[i].offset < symbols'[j].offset
  BY <1>10, <1>11, <1>12
<1>17. DOMAIN symbols' = 1 .. n
  BY <1>6, <1>12
<1>18. QED
  BY <1>13, <1>14, <1>15, <1>16, <1>17 DEF Complete

-----------------------------------------------------------------------------
(* What each step makes of the table. *)
LEMMA PEInLoop ==
  ASSUME pc' \in PELoop, format = "pe" /\ rc' = "ok" /\ TableSound' => \E p \in Nat : Track(p)',
         UNCHANGED format
  PROVE  PETableInv'
<1>1. pc' \notin Calls
  BY Elsewhere
<1>2. QED
  BY <1>1 DEF PETableInv

LEMMA PEBeyondLoop ==
  ASSUME pc' \notin PELoop, pc' \in Calls /\ finished' /\ format = "pe" /\ TableSound' => Complete',
         UNCHANGED format
  PROVE  PETableInv'
BY DEF PETableInv

LEMMA CompleteKept ==
  ASSUME PETableInv, UNCHANGED <<file, header, origin>>, UNCHANGED <<symbols, finished, format>>,
         pc \in Calls, pc' \in Calls
  PROVE  PETableInv'
<1>1. pc' \notin PELoop
  BY Elsewhere
<1>2. ASSUME finished', format = "pe", TableSound'
      PROVE  Complete'
  <2>1. TableSound
    BY <1>2, FileStaysSo
  <2>2. Complete
    BY <1>2, <2>1 DEF PETableInv
  <2>3. Complete' <=> Complete
    <3>1. /\ PEFunctions' = PEFunctions /\ UNCHANGED <<origin, symbols>>
          /\ \A k : /\ SizeRecord(SymbolIn(k))' = SizeRecord(SymbolIn(k))
                    /\ SymbolIn(k)' = SymbolIn(k) /\ Begin(k)' = Begin(k)
      BY FileStaysSo
    <3>2. \A j, k : Reach(j, k)' = Reach(j, k)
      BY <3>1 DEF Reach
    <3>3. QED
      BY <3>1, <3>2 DEF Complete, Made
  <2>4. QED
    BY <2>2, <2>3
<1>3. QED
  BY <1>1, <1>2, PEBeyondLoop

(* The table is found behind the section headers. *)
LEMMA TableBegins ==
  ASSUME ImageInv, SymbolsInv, format = "pe", UNCHANGED format, ReadSectionHeaders
  PROVE  PETableInv'
<1>1. PICK hs : hs = [i \in DOMAIN got |-> PESection(got[i])]
  OBVIOUS
<1>2. pc \in PEPoints /\ pc \in PEPlaces \ {"pe offset", "pe signature", "pe header"}
  BY DEF ReadSectionHeaders, Have, PEPoints, PEPlaces
<1>3. symbols = <<>> /\ ~finished
  <2>1. pc \notin Calls \cup PELoop \cup {"closed"}
    BY <1>2, Elsewhere
  <2>2. QED
    BY <2>1 DEF SymbolsInv
<1>4. header.symtab \in Nat /\ header.symbols \in Nat
  BY <1>2 DEF ImageInv, HeadersRead
<1>5. CASE GiveUp("data corrupt") /\ UNCHANGED peVars
  <2>1. pc' = "failed"
    BY <1>5 DEF GiveUp
  <2>2. pc' \notin PELoop /\ pc' \notin Calls
    BY <2>1, Elsewhere
  <2>3. QED
    BY <2>2, PEBeyondLoop
<1>6. CASE /\ origin' = [i \in DOMAIN hs |-> [virtual |-> hs[i].virtual, size |-> hs[i].size]]
           /\ lengths' = [i \in DOMAIN hs |-> <<>>]
           /\ count' = header.symbols /\ index' = 0
           /\ script' = <<Seek(header.symtab)>> /\ pc' = "pe next"
           /\ UNCHANGED <<file, header, symbols>>
  <2>1. AtNext' /\ pc' \in PELoop
    BY <1>6 DEF AtNext, PELoop
  <2>2. /\ lengths' = [i \in DOMAIN hs |-> <<>>]
        /\ count' = header.symbols /\ index' = 0
        /\ script' = <<Seek(header.symtab)>> /\ UNCHANGED <<file, header, symbols>>
    BY <1>6
  <2>3. PICK p : p = header.symtab
    OBVIOUS
  <2>4. SUFFICES ASSUME TableSound'
                 PROVE  p \in Nat /\ Track(p)'
    BY <2>1, PEInLoop
  <2>5. Stage(p)'
    BY <2>1, <2>2, <2>3, NextPlaces DEF Stage, Standing, Seek
  <2>6. Pace(p)'
    BY <1>4, <2>2, <2>3 DEF Pace
  <2>7. \A k \in SymbolCells' : ~ (k <= p)
    <3>1. \A k \in SymbolCells' : p < k /\ k \in DOMAIN file'
      BY <2>2, <2>3, <2>4 DEF TableSound, SymbolCells
    <3>2. file' \in Seq(Cell)
      BY <2>2 DEF ImageInv, ReaderInv, ReaderTypes
    <3>3. QED
      BY <1>4, <2>3, <3>1, <3>2
  <2>8. FunctionsRead(p)'
    <3>1. symbols' = <<>> /\ DOMAIN symbols' = {}
      BY <1>3, <2>2
    <3>2. \A k \in PEFunctions' : ~ (k <= p)
      BY <2>7 DEF PEFunctions
    <3>3. QED
      BY <3>1, <3>2 DEF FunctionsRead
  <2>9. LengthsRead(p)'
    <3>1. \A s \in DOMAIN lengths' : DOMAIN lengths'[s] = {}
      BY <2>2
    <3>2. \A k \in PELengths' : ~ (k <= p)
      BY <2>7 DEF PELengths
    <3>3. QED
      BY <3>1, <3>2 DEF LengthsRead
  <2>10. QED
    BY <1>4, <2>3, <2>5, <2>6, <2>8, <2>9 DEF Track
<1>7. QED
  BY <1>1, <1>5, <1>6 DEF ReadSectionHeaders, AskFor, Ask

LEMMA TableGoesOn ==
  ASSUME ImageInv, SymbolsInv, PETableInv, format = "pe", UNCHANGED format,
         NextSymbol \/ TakeSymbol \/ TakeFileName \/ TakeLength
  PROVE  PETableInv'
<1>1. pc \in PELoop /\ pc' \in PELoop /\ rc = "ok"
  BY InTheLoop DEF NextSymbol, TakeSymbol, TakeFileName, TakeLength, Have
<1>2. UNCHANGED <<file, header, origin>>
  <2>1. \A ops, next : AskFor(ops, next) => UNCHANGED file
    BY DEF AskFor
  <2>2. \A next : ReadOn(next) => UNCHANGED file
    BY DEF ReadOn, fileVars
  <2>3. CASE NextSymbol
    BY <2>1, <2>3 DEF NextSymbol, Keep, imageVars, peVars
  <2>4. CASE TakeSymbol
    <3>1. \A next : ReadAux(next) => UNCHANGED <<file, header>>
      BY <2>1 DEF ReadAux, imageVars
    <3>2. \A s, n : SkipAux(s, n) => UNCHANGED file
      BY <2>1 DEF SkipAux
    <3>3. UNCHANGED <<file, header>>
      BY <2>2, <2>4, <3>1, <3>2 DEF TakeSymbol
    <3>4. QED
      BY <2>4, <3>3, Taken
  <2>5. CASE TakeFileName \/ TakeLength
    BY <2>1, <2>5 DEF TakeFileName, TakeLength, SkipAux
  <2>6. QED
    BY <2>3, <2>4, <2>5
<1>3. SUFFICES ASSUME TableSound'
               PROVE  \E p \in Nat : Track(p)'
  BY <1>1, PEInLoop
<1>4. TableSound
  BY <1>2, <1>3, FileStaysSo
<1>5. PICK p \in Nat : Track(p)
  BY <1>1, <1>4 DEF PETableInv
<1>6. QED
  BY <1>4, <1>5, NextTracked, SymbolTracked, AuxTracked

LEMMA TableEnds ==
  ASSUME ImageInv, SymbolsInv, PETableInv, format = "pe", UNCHANGED format, FinishSymbols
  PROVE  PETableInv'
<1>1. /\ pc' = "ready" /\ UNCHANGED <<fileVars, header, origin>> /\ pc \in PELoop
      /\ \/ /\ pc = "pe next" /\ script = <<>> /\ rc = "ok" /\ index >= count
            /\ \E s \in Permuted(symbols) : Sorted(s) /\ symbols' = Stretched(s)
         \/ UNCHANGED finished
  BY DEF FinishSymbols, Have, Answered, PELoop
<1>2. pc' \in Calls /\ pc' \notin PELoop
  BY <1>1 DEF Calls, PELoop
<1>3. UNCHANGED <<file, header, origin>>
  BY <1>1 DEF fileVars
<1>4. ~finished
  BY <1>1, Elsewhere DEF SymbolsInv
<1>5. SUFFICES ASSUME finished', TableSound'
               PROVE  Complete'
  BY <1>2, PEBeyondLoop
<1>6. /\ AtNext /\ script = <<>> /\ rc = "ok" /\ index >= count
      /\ \E s \in Permuted(symbols) : Sorted(s) /\ symbols' = Stretched(s)
  BY <1>1, <1>4, <1>5 DEF AtNext
<1>7. TableSound
  BY <1>3, <1>5, FileStaysSo
<1>8. PICK p \in Nat : Track(p)
  BY <1>1, <1>6, <1>7 DEF PETableInv
<1>9. /\ file \in Seq(Cell) /\ header.symtab \in Nat /\ header.symbols \in Nat /\ index \in Nat
      /\ Table(symbols)
  BY <1>1, <1>6, LoopState
<1>10. Pace(p) /\ FunctionsRead(p)
  BY <1>8 DEF Track
<1>11. \A k \in SymbolCells : k <= p
  BY <1>6, <1>7, <1>9, <1>10, AllRead
<1>12. QED
  BY <1>3, <1>6, <1>7, <1>9, <1>10, <1>11, FinishedComplete

LEMMA PEKeepsTable ==
  ASSUME ImageInv, SymbolsInv, PETableInv, ReadPE
  PROVE  PETableInv'
<1>1. format = "pe" /\ PEStep /\ UNCHANGED format
  BY DEF ReadPE
<1>2. CASE \/ ReadOffset \/ FindSignature \/ CheckSignature \/ CheckFileHeader \/ CheckMagic
           \/ ReadStrings \/ HaveStringTable \/ ScanHeaders
           \/ ReadFails(PEPoints) /\ UNCHANGED peVars
  <2>1. PEReads
    BY <1>2, PEBefore
  <2>2. pc' \notin PELoop /\ pc' \notin Calls
    BY <2>1, Elsewhere DEF PEReads
  <2>3. QED
    BY <1>1, <2>2, PEBeyondLoop
<1>3. CASE ReadSectionHeaders
  BY <1>1, <1>3, TableBegins
<1>4. CASE NextSymbol \/ TakeSymbol \/ TakeFileName \/ TakeLength
  BY <1>1, <1>4, TableGoesOn
<1>5. CASE FinishSymbols
  BY <1>1, <1>5, TableEnds
<1>6. QED
  BY <1>1, <1>2, <1>3, <1>4, <1>5 DEF PEStep

LEMMA TableWaits ==
  ASSUME ImageInv, SymbolsInv, PETableInv, format = "pe", ReadFile, pc \in PELoop
  PROVE  PETableInv'
<1>1. /\ ReaderInv /\ ReaderInv' /\ FileStep /\ UNCHANGED <<file, format, pc, header, origin>>
      /\ UNCHANGED <<symbols, lengths, count, index, symbol>>
  BY FileStays DEF ReadFile, ImageInv, Aside, peVars, imageVars
<1>2. script # <<>>
  BY <1>1 DEF FileStep, SeekInBuffer, SeekInFile, SeekFails, ReadFromBuffer, ReadFromFile
<1>3. rc = "ok"
  BY <1>1, <1>2 DEF ReaderInv, NoneLost
<1>4. ~spoiled
  BY <1>3, LoopState
<1>5. UNCHANGED <<file, header, origin>> /\ UNCHANGED <<symbols, lengths, count, index>>
  BY <1>1
<1>6. /\ AtNext' <=> AtNext
      /\ AtSymbol' <=> AtSymbol
      /\ AtFile' <=> AtFile
      /\ AtLength' <=> AtLength
  BY <1>1 DEF AtNext, AtSymbol, AtFile, AtLength
<1>7. SUFFICES ASSUME TableSound', rc' = "ok"
               PROVE  \E p \in Nat : Track(p)'
  BY <1>1, PEInLoop
<1>8. TableSound
  BY <1>5, <1>7, FileStaysSo
<1>9. PICK p \in Nat : Track(p)
  BY <1>3, <1>8 DEF PETableInv
<1>10. Pace(p)' /\ FunctionsRead(p)' /\ LengthsRead(p)'
  BY <1>5, <1>9, DataKept DEF Track
<1>11. Standing(p) => Standing(p)'
  BY <1>1, <1>7, StandingGoesOn
<1>12. \A q \in Nat : Bringing(q) => Bringing(q)'
  BY <1>1, <1>4, <1>7, BringingGoesOn
<1>13. p + 1 \in Nat
  OBVIOUS
<1>14. Stage(p)'
  <2>1. (PESymbol(file[p + 1]))' = PESymbol(file[p + 1])
    BY <1>1 DEF PESymbol
  <2>2. (HasFileName(symbol)' <=> HasFileName(symbol)) /\ (HasLength(symbol)' <=> HasLength(symbol))
    BY <1>1 DEF HasFileName, HasLength
  <2>3. QED
    BY <1>1, <1>6, <1>9, <1>11, <1>12, <1>13, <2>1, <2>2 DEF Track, Stage
<1>15. QED
  BY <1>10, <1>14 DEF Track

LEMMA OthersKeepTable ==
  ASSUME ImageInv, SymbolsInv, PETableInv, [Next]_vars, ~ReadPE
  PROVE  PETableInv'
<1>1. CASE ReadFile
  <2>1. UNCHANGED <<file, header, origin>> /\ UNCHANGED <<symbols, finished, format>> /\ UNCHANGED pc
    BY <1>1, FileStays DEF ReadFile, ImageInv, Aside, peVars, imageVars
  <2>2. CASE pc \in PELoop /\ format = "pe"
    BY <1>1, <2>2, TableWaits
  <2>3. CASE pc \in Calls
    BY <2>1, <2>3, CompleteKept
  <2>4. CASE pc \notin PELoop /\ pc \notin Calls
    BY <2>1, <2>4, PEBeyondLoop
  <2>5. CASE format # "pe"
    BY <2>1, <2>5 DEF PETableInv
  <2>6. QED
    BY <2>2, <2>3, <2>4, <2>5
<1>2. CASE ReadElf
  BY <1>2 DEF ReadElf, Aside, PETableInv
<1>3. CASE GetSections \/ GetSection \/ ReadSections
  <2>1. /\ UNCHANGED <<file, header, origin>> /\ UNCHANGED <<symbols, finished, format>>
        /\ pc \in Calls /\ pc' \in Calls
    <3>1. CASE GetSections \/ GetSection
      BY <3>1 DEF GetSections, GetSection, Call, CallSections, fileVars, imageVars, peVars, Calls
    <3>2. CASE ReadSections
      BY <3>2 DEF ReadSections, HandOver, Materialize, Filled, SectionsEnd, EndSections, Have, Aside,
                  fileVars, imageVars, peVars, Calls
    <3>3. QED
      BY <1>3, <3>1, <3>2
  <2>2. QED
    BY <2>1, CompleteKept
<1>4. CASE Open \/ Close
  <2>1. pc' \in {"opened", "failed", "closed"} /\ UNCHANGED format
    BY <1>4 DEF Open, OpenImage, Close, CloseImage, Aside
  <2>2. pc' \notin PELoop /\ pc' \notin Calls
    BY <2>1, Elsewhere
  <2>3. QED
    BY <2>1, <2>2, PEBeyondLoop
<1>5. CASE UNCHANGED vars
  <2>1. /\ UNCHANGED <<file, header, origin>> /\ UNCHANGED <<symbols, lengths, count, index>>
        /\ UNCHANGED <<pc, format, finished, symbol, script, got, rc, place>>
    BY <1>5 DEF vars, fileVars, scriptVars, imageVars, peVars
  <2>2. CASE pc \in PELoop /\ format = "pe"
    <3>1. SUFFICES ASSUME TableSound', rc' = "ok"
                   PROVE  \E p \in Nat : Track(p)'
      BY <2>1, <2>2, PEInLoop
    <3>2. TableSound
      BY <2>1, <3>1, FileStaysSo
    <3>3. PICK p \in Nat : Track(p)
      BY <2>1, <2>2, <3>1, <3>2 DEF PETableInv
    <3>4. Pace(p)' /\ FunctionsRead(p)' /\ LengthsRead(p)'
      BY <2>1, <3>3, DataKept DEF Track
    <3>5. /\ AtNext' <=> AtNext
          /\ AtSymbol' <=> AtSymbol
          /\ AtFile' <=> AtFile
          /\ AtLength' <=> AtLength
      BY <2>1 DEF AtNext, AtSymbol, AtFile, AtLength
    <3>6. /\ \A q : Standing(q)' <=> Standing(q)
          /\ \A q : Bringing(q)' <=> Bringing(q)
      BY <2>1 DEF Standing, Bringing, Seek, Skip, Read
    <3>7. /\ (PESymbol(file[p + 1]))' = PESymbol(file[p + 1])
          /\ HasFileName(symbol)' <=> HasFileName(symbol)
          /\ HasLength(symbol)' <=> HasLength(symbol)
      BY <2>1 DEF PESymbol, HasFileName, HasLength
    <3>8. Stage(p)'
      BY <2>1, <3>3, <3>5, <3>6, <3>7 DEF Track, Stage
    <3>9. QED
      BY <3>4, <3>8 DEF Track
  <2>3. CASE pc \in Calls
    BY <2>1, <2>3, CompleteKept
  <2>4. CASE pc \notin PELoop /\ pc \notin Calls
    BY <2>1, <2>4, PEBeyondLoop
  <2>5. CASE format # "pe"
    BY <2>1, <2>5 DEF PETableInv
  <2>6. QED
    BY <2>2, <2>3, <2>4, <2>5
<1>6. QED
  BY <1>1, <1>2, <1>3, <1>4, <1>5 DEF Next

LEMMA NextPETableInv == ImageInv /\ SymbolsInv /\ PETableInv /\ [Next]_vars => PETableInv'
BY PEKeepsTable, OthersKeepTable

LEMMA PETableInvHolds == Spec => []PETableInv
<1>1. Init => PETableInv
  <2>1. SUFFICES ASSUME Init PROVE PETableInv
    OBVIOUS
  <2>2. pc = "new"
    BY <2>1 DEF Init, ImageInit
  <2>3. pc \notin PELoop /\ pc \notin Calls
    BY <2>2 DEF PELoop, Calls
  <2>4. QED
    BY <2>3 DEF PETableInv
<1>2. QED
  BY <1>1, NextPETableInv, ImageInvHolds, SymbolsInvHolds, PTL DEF Spec

-----------------------------------------------------------------------------
(* What the search finds in the table. *)
DefinedBy(k) == [begin |-> Begin(k), size |-> SizeRecord(SymbolIn(k)), name |-> SymbolIn(k).name]

LEMMA DefinedFunctions ==
  ASSUME format = "pe"
  PROVE  Defined = {DefinedBy(k) : k \in PEFunctions}
<1>1. Defined = PEDefined
  BY DEF Defined
<1>2. ASSUME NEW g \in PEDefined
      PROVE  \E k \in PEFunctions : g = DefinedBy(k)
  <2>1. PICK e \in Range(file) :
          /\ e.kind = "symbol" /\ TakenForFunction(e.symbol) /\ InSections(e.symbol)
          /\ g = [begin |-> origin[e.symbol.section].virtual + e.symbol.value,
                  size |-> SizeRecord(e.symbol), name |-> e.symbol.name]
    BY DEF PEDefined
  <2>2. PICK k \in DOMAIN file : e = file[k]
    BY DEF Range
  <2>3. k \in PEFunctions
    BY <2>1, <2>2 DEF PEFunctions, SymbolCells, SymbolIn
  <2>4. g = DefinedBy(k)
    BY <2>1, <2>2 DEF DefinedBy, SymbolIn, Begin
  <2>5. QED
    BY <2>3, <2>4
<1>3. ASSUME NEW k \in PEFunctions
      PROVE  DefinedBy(k) \in PEDefined
  <2>1. PICK e : e = file[k]
    OBVIOUS
  <2>2. e \in Range(file) /\ e.kind = "symbol" /\ TakenForFunction(e.symbol) /\ InSections(e.symbol)
    BY <2>1 DEF PEFunctions, SymbolCells, SymbolIn, Range
  <2>3. DefinedBy(k) = [begin |-> origin[e.symbol.section].virtual + e.symbol.value,
                        size |-> SizeRecord(e.symbol), name |-> e.symbol.name]
    BY <2>1 DEF DefinedBy, SymbolIn, Begin
  <2>4. QED
    BY <2>2, <2>3 DEF PEDefined
<1>4. QED
  BY <1>1, <1>2, <1>3

LEMMA DefinedNumbers ==
  ASSUME ImageInv, Origins, format = "pe", TableSound, NEW k \in PEFunctions
  PROVE  /\ Begin(k) \in Nat /\ SizeRecord(SymbolIn(k)) \in Nat
         /\ SymbolIn(k).section \in DOMAIN origin
         /\ origin[SymbolIn(k).section].virtual \in Nat /\ origin[SymbolIn(k).section].size \in Nat
<1>1. PICK c : c = SymbolIn(k)
  OBVIOUS
<1>2. file \in Seq(Cell) /\ k \in DOMAIN file /\ k \in SymbolCells
  BY DEF PEFunctions, SymbolCells, ImageInv, ReaderInv, ReaderTypes
<1>3. c = PESymbol(file[k])
  BY <1>1, <1>2, Classified
<1>4. c.section \in Int /\ c.value \in Nat
  BY <1>2, <1>3, PESymbolAux
<1>5. TakenForFunction(c) /\ InSections(c)
  BY <1>1 DEF PEFunctions
<1>6. c.section > 0 /\ c.section < Len(origin)
  BY <1>5 DEF TakenForFunction, InSections
<1>7. origin \in Seq([virtual : Nat, size : Nat])
  BY DEF Origins
<1>8. PICK l \in Nat : l = Len(origin) /\ DOMAIN origin = 1 .. l
  BY <1>7
<1>9. c.section \in 1 .. l
  BY <1>4, <1>6, <1>8
<1>10. origin[c.section] \in [virtual : Nat, size : Nat]
  BY <1>7, <1>8, <1>9, ElementOfSeq
<1>11. origin[c.section].virtual \in Nat /\ origin[c.section].size \in Nat
  BY <1>10
<1>12. Begin(k) \in Nat
  BY <1>1, <1>4, <1>11 DEF Begin
<1>13. SizeRecord(c) \in Nat
  <2>1. CASE \E j \in PELengths : SymbolIn(j).section = c.section /\ SymbolIn(j).value = c.value
    <3>1. PICK j \in PELengths : SymbolIn(j).section = c.section /\ SymbolIn(j).value = c.value
      BY <2>1
    <3>2. SizeRecord(c) = file[j + 1].length
      BY <1>2, <3>1, SizeGiven
    <3>3. PICK x : x = file[j + 1]
      OBVIOUS
    <3>4. x \in Cell /\ x.kind = "aux"
      BY <3>1, <3>3 DEF TableSound, Cell, Range
    <3>5. PENumbers(x)
      BY <3>4, Numbers DEF ImageInv
    <3>6. QED
      BY <3>2, <3>3, <3>4, <3>5 DEF PENumbers
  <2>2. CASE ~ \E j \in PELengths : SymbolIn(j).section = c.section /\ SymbolIn(j).value = c.value
    <3>1. SizeRecord(c) = 0
      BY <1>2, <2>2, SizeUnknown
    <3>2. QED
      BY <3>1
  <2>3. QED
    BY <2>1, <2>2
<1>14. QED
  BY <1>1, <1>8, <1>9, <1>11, <1>12, <1>13

LEMMA ReachOf ==
  ASSUME NEW j, NEW k, NEW z, z = SizeRecord(SymbolIn(k)), NEW o, o = origin[SymbolIn(k).section]
  PROVE  /\ z # 0 => Reach(j, k) = z
         /\ z = 0 /\ j < Len(symbols) => Reach(j, k) = symbols[j + 1].offset - symbols[j].offset
         /\ z = 0 /\ ~(j < Len(symbols)) => Reach(j, k) = o.virtual + o.size - symbols[j].offset
<1>1. CASE z # 0
  BY <1>1 DEF Reach
<1>2. CASE z = 0 /\ j < Len(symbols)
  BY <1>2 DEF Reach
<1>3. CASE z = 0 /\ ~(j < Len(symbols))
  <2>1. Reach(j, k) = o.virtual + o.size - symbols[j].offset
    BY <1>3 DEF Reach
  <2>2. QED
    BY <1>3, <2>1
<1>4. QED
  BY <1>1, <1>2, <1>3

(* A symbol of the table covers what its function has of the image. *)
LEMMA CoversFunction ==
  ASSUME ImageInv, SymbolsInv, format = "pe", TableSound, Complete,
         NEW j \in DOMAIN symbols, NEW k \in PEFunctions, Made(symbols[j], k),
         symbols[j].size = Reach(j, k), NEW a \in Int
  PROVE  Covers(symbols[j], a) <=> Inhabits(DefinedBy(k), a)
<1>1. Origins /\ Table(symbols)
  BY DEF SymbolsInv
<1>2. PICK n \in Nat : n = Len(symbols) /\ DOMAIN symbols = 1 .. n
  BY <1>1 DEF Table
<1>3. PICK b, z, e : /\ b = Begin(k) /\ z = SizeRecord(SymbolIn(k))
                     /\ e = origin[SymbolIn(k).section].virtual + origin[SymbolIn(k).section].size
  OBVIOUS
<1>4. b \in Nat /\ z \in Nat /\ e \in Nat /\ SymbolIn(k).section \in DOMAIN origin
  BY <1>1, <1>3, DefinedNumbers
<1>5. symbols[j].offset = b
  BY <1>3 DEF Made
<1>6. symbols[j].size = IF z # 0 THEN z
                        ELSE IF j < n THEN symbols[j + 1].offset - b ELSE e - b
  <2>1. CASE z # 0
    BY <1>3, symbols[j].size = Reach(j, k), <2>1, ReachOf
  <2>2. CASE z = 0 /\ j < n
    <3>1. Reach(j, k) = symbols[j + 1].offset - symbols[j].offset
      BY <1>2, <1>3, <2>2, ReachOf
    <3>2. QED
      BY <1>5, symbols[j].size = Reach(j, k), <2>2, <3>1
  <2>3. CASE z = 0 /\ ~(j < n)
    <3>1. PICK o : o = origin[SymbolIn(k).section]
      OBVIOUS
    <3>2. o.virtual \in Nat /\ o.size \in Nat /\ e = o.virtual + o.size
      BY <1>1, <1>3, <3>1, DefinedNumbers
    <3>3. Reach(j, k) = o.virtual + o.size - symbols[j].offset
      <4>1. j \in 1 .. n /\ ~(j < Len(symbols))
        BY <1>2, <2>3
      <4>2. z = SizeRecord(SymbolIn(k)) /\ z = 0
        BY <1>3, <2>3
      <4>3. QED
        BY ONLY <3>1, <4>1, <4>2, ReachOf
    <3>4. Reach(j, k) = e - b
      BY <1>4, <1>5, <3>2, <3>3
    <3>5. QED
      BY symbols[j].size = Reach(j, k), <2>3, <3>4
  <2>4. QED
    BY <2>1, <2>2, <2>3
<1>7. \A i \in 1 .. n : symbols[i].offset \in Nat
  BY <1>1, <1>2 DEF Table, IsSymbol
<1>8. Inhabits(DefinedBy(k), a) <=>
        /\ b <= a
        /\ IF z > 0 THEN a < b + z
           ELSE /\ ~ \E g \in Defined : b < g.begin /\ g.begin <= a
                /\ \/ \E g \in Defined : g.begin > a
                   \/ \E i \in DOMAIN origin : Within(b, i) /\ a < origin[i].virtual + origin[i].size
  <2>1. DefinedBy(k).begin = b /\ DefinedBy(k).size = z
    BY <1>3 DEF DefinedBy
  <2>2. QED
    BY <2>1 DEF Inhabits, Within
<1>9. /\ \A g \in Defined : \E i \in 1 .. n : symbols[i].offset = g.begin
      /\ \A i \in 1 .. n : \E g \in Defined : symbols[i].offset = g.begin
  <2>1. \A x \in PEFunctions : DefinedBy(x).begin = Begin(x) /\ DefinedBy(x) \in Defined
    BY DefinedFunctions DEF DefinedBy
  <2>2. ASSUME NEW g \in Defined
        PROVE  \E i \in 1 .. n : symbols[i].offset = g.begin
    <3>1. PICK x \in PEFunctions : g = DefinedBy(x)
      BY DefinedFunctions
    <3>2. PICK i \in 1 .. n : Made(symbols[i], x)
      BY <1>2 DEF Complete
    <3>3. QED
      BY <2>1, <3>1, <3>2 DEF Made
  <2>3. ASSUME NEW i \in 1 .. n
        PROVE  \E g \in Defined : symbols[i].offset = g.begin
    <3>1. PICK x \in PEFunctions : Made(symbols[i], x)
      BY <1>2 DEF Complete
    <3>2. QED
      BY <2>1, <3>1 DEF Made
  <2>4. QED
    BY <2>2, <2>3
<1>10. j \in 1 .. n /\ \A i, l \in 1 .. n : i < l => symbols[i].offset < symbols[l].offset
  BY <1>2 DEF Complete
<1>11. \A i \in 1 .. n : /\ j < i => b < symbols[i].offset
                         /\ b < symbols[i].offset => j < i
  <2>1. ASSUME NEW i \in 1 .. n, j < i
        PROVE  b < symbols[i].offset
    BY <1>5, <1>10, <2>1
  <2>2. ASSUME NEW i \in 1 .. n, b < symbols[i].offset
        PROVE  j < i
    <3>1. i # j
      BY <1>4, <1>5, <2>2
    <3>2. ~ (i < j)
      <4>1. SUFFICES ASSUME i < j PROVE FALSE
        OBVIOUS
      <4>2. symbols[i].offset < b
        BY <1>5, <1>10, <4>1
      <4>3. QED
        BY <1>4, <1>7, <2>2, <4>2
    <3>3. QED
      BY <1>2, <3>1, <3>2
  <2>3. QED
    BY <2>1, <2>2
<1>12. CASE z # 0
  <2>1. z > 0 /\ symbols[j].size = z
    BY <1>4, <1>6, <1>12
  <2>2. QED
    BY <1>5, <1>8, <2>1 DEF Covers
<1>13. CASE z = 0 /\ j < n
  <2>1. j + 1 \in 1 .. n /\ j < j + 1
    BY <1>2, <1>13
  <2>2. PICK c \in Nat : c = symbols[j + 1].offset
    BY <1>7, <2>1
  <2>3. b < c
    BY <1>11, <2>1, <2>2
  <2>4. Covers(symbols[j], a) <=> b <= a /\ a < c
    BY <1>4, <1>5, <1>6, <1>13, <2>2 DEF Covers
  <2>5. PICK h \in Defined : h.begin = c
    BY <1>9, <2>1, <2>2
  <2>6. ASSUME b <= a, a < c
        PROVE  /\ ~ \E g \in Defined : b < g.begin /\ g.begin <= a
               /\ \E g \in Defined : g.begin > a
    <3>1. ASSUME NEW g \in Defined, b < g.begin, g.begin <= a
          PROVE  FALSE
      <4>1. PICK i \in 1 .. n : symbols[i].offset = g.begin
        BY <1>9
      <4>2. j < i
        BY <1>11, <3>1, <4>1
      <4>3. i = j + 1 \/ j + 1 < i
        BY <1>2, <4>2
      <4>4. c <= symbols[i].offset
        BY <1>7, <1>10, <2>1, <2>2, <4>3
      <4>5. QED
        BY <1>7, <2>6, <3>1, <4>1, <4>4
    <3>2. QED
      BY <2>5, <2>6, <3>1
  <2>7. ASSUME b <= a, ~ \E g \in Defined : b < g.begin /\ g.begin <= a
        PROVE  a < c
    BY <2>3, <2>5, <2>7
  <2>8. QED
    BY <1>8, <1>13, <2>4, <2>6, <2>7
<1>14. CASE z = 0 /\ ~ (j < n)
  <2>1. Covers(symbols[j], a) <=> b <= a /\ a < e
    BY <1>4, <1>5, <1>6, <1>14 DEF Covers
  <2>2. ASSUME NEW g \in Defined, b < g.begin
        PROVE  FALSE
    <3>1. PICK i \in 1 .. n : symbols[i].offset = g.begin
      BY <1>9
    <3>2. j < i
      BY <1>11, <2>2, <3>1
    <3>3. QED
      BY <1>2, <1>14, <3>2
  <2>3. \A i \in DOMAIN origin : Within(b, i) <=> i = SymbolIn(k).section
    BY <1>3 DEF TableSound
  <2>4. (\E i \in DOMAIN origin : Within(b, i) /\ a < origin[i].virtual + origin[i].size) <=> a < e
    BY <1>3, <1>4, <2>3
  <2>5. ASSUME b <= a, NEW g \in Defined, g.begin > a
        PROVE  FALSE
    <3>1. PICK i \in 1 .. n : symbols[i].offset = g.begin
      BY <1>9
    <3>2. b < g.begin
      BY <1>4, <1>7, <2>5, <3>1
    <3>3. QED
      BY <2>2, <3>2
  <2>6. QED
    BY <1>8, <1>14, <2>1, <2>2, <2>4, <2>5
<1>15. QED
  BY <1>6, <1>12, <1>13, <1>14

(* As functions do not overlap, neither do the symbols. *)
LEMMA TableSideBySide ==
  ASSUME ImageInv, SymbolsInv, format = "pe", TableSound, Complete, Apart
  PROVE  SideBySide
<1>1. Origins /\ Table(symbols)
  BY DEF SymbolsInv
<1>2. PICK n \in Nat : n = Len(symbols) /\ DOMAIN symbols = 1 .. n
  BY <1>1 DEF Table
<1>3. \A i \in 1 .. n : symbols[i].offset \in Nat /\ symbols[i].size \in Int
  BY <1>1, <1>2 DEF Table, IsSymbol
<1>4. \A i, l \in 1 .. n : i < l => symbols[i].offset < symbols[l].offset
  BY <1>2 DEF Complete
<1>5. ASSUME NEW i \in 1 .. n
      PROVE  /\ symbols[i].size >= 0
             /\ \A j \in 1 .. n : i < j => symbols[i].offset + symbols[i].size <= symbols[j].offset
  <2>1. PICK k \in PEFunctions : Made(symbols[i], k) /\ symbols[i].size = Reach(i, k)
    BY <1>2 DEF Complete
  <2>2. PICK b, z, e : /\ b = Begin(k) /\ z = SizeRecord(SymbolIn(k))
                       /\ e = origin[SymbolIn(k).section].virtual + origin[SymbolIn(k).section].size
    OBVIOUS
  <2>3. b \in Nat /\ z \in Nat /\ e \in Nat /\ SymbolIn(k).section \in DOMAIN origin
    BY <1>1, <2>2, DefinedNumbers
  <2>4. symbols[i].offset = b
    BY <2>1, <2>2 DEF Made
  <2>5. symbols[i].size = IF z # 0 THEN z
                          ELSE IF i < n THEN symbols[i + 1].offset - b ELSE e - b
    <3>1. CASE z # 0
      BY <2>2, <2>1, <3>1, ReachOf
    <3>2. CASE z = 0 /\ i < n
      <4>1. Reach(i, k) = symbols[i + 1].offset - symbols[i].offset
        BY <1>2, <2>2, <3>2, ReachOf
      <4>2. QED
        BY <2>4, <2>1, <3>2, <4>1
    <3>3. CASE z = 0 /\ ~(i < n)
      <4>1. PICK o : o = origin[SymbolIn(k).section]
        OBVIOUS
      <4>2. o.virtual \in Nat /\ o.size \in Nat /\ e = o.virtual + o.size
        BY <1>1, <2>2, <4>1, DefinedNumbers
      <4>3. Reach(i, k) = o.virtual + o.size - symbols[i].offset
        BY <1>2, <2>2, <3>3, <4>1, ReachOf
      <4>4. Reach(i, k) = e - b
        BY <2>3, <2>4, <4>2, <4>3
      <4>5. QED
        BY <2>1, <3>3, <4>4
    <3>4. QED
      BY <3>1, <3>2, <3>3
  <2>6. CASE z # 0
    <3>1. ASSUME NEW j \in 1 .. n, i < j
          PROVE  b + z <= symbols[j].offset
      <4>1. b < symbols[j].offset
        BY <1>4, <2>4, <3>1
      <4>2. PICK x \in PEFunctions : Made(symbols[j], x)
        BY <1>2 DEF Complete
      <4>3. PICK c, w : c = Begin(x) /\ w = SizeRecord(SymbolIn(x))
        OBVIOUS
      <4>4. c \in Nat /\ w \in Nat /\ c = symbols[j].offset
        BY <1>1, <4>2, <4>3, DefinedNumbers DEF Made
      <4>5. /\ DefinedBy(k) \in Defined /\ DefinedBy(x) \in Defined
            /\ DefinedBy(k).begin = b /\ DefinedBy(k).size = z
            /\ DefinedBy(x).begin = c /\ DefinedBy(x).size = w
        BY <2>2, <4>3, DefinedFunctions DEF DefinedBy
      <4>6. DefinedBy(k) # DefinedBy(x)
        BY <2>3, <4>1, <4>4, <4>5
      <4>7. b + z <= c \/ c + w <= b
        BY <4>5, <4>6 DEF Apart
      <4>8. QED
        BY <2>3, <4>1, <4>4, <4>7
    <3>2. QED
      BY <2>3, <2>4, <2>5, <2>6, <3>1
  <2>7. CASE z = 0 /\ i < n
    <3>1. i + 1 \in 1 .. n /\ i < i + 1
      BY <1>2, <2>7
    <3>2. b < symbols[i + 1].offset
      BY <1>4, <2>4, <3>1
    <3>3. symbols[i].size >= 0 /\ symbols[i].offset + symbols[i].size = symbols[i + 1].offset
      BY <1>3, <2>3, <2>4, <2>5, <2>7, <3>1, <3>2
    <3>4. ASSUME NEW j \in 1 .. n, i < j
          PROVE  symbols[i + 1].offset <= symbols[j].offset
      <4>1. j = i + 1 \/ i + 1 < j
        BY <1>2, <3>4
      <4>2. QED
        BY <1>3, <1>4, <3>1, <4>1
    <3>5. QED
      BY <3>3, <3>4
  <2>8. CASE z = 0 /\ ~ (i < n)
    <3>1. Within(b, SymbolIn(k).section)
      BY <2>2, <2>3 DEF TableSound
    <3>2. b < e
      BY <2>2, <3>1 DEF Within
    <3>3. symbols[i].size >= 0
      BY <2>3, <2>5, <2>8, <3>2
    <3>4. \A j \in 1 .. n : ~ (i < j)
      BY <1>2, <2>8
    <3>5. QED
      BY <3>3, <3>4
  <2>9. QED
    BY <2>6, <2>7, <2>8
<1>6. ASSUME NEW i \in 1 .. n, NEW j \in 1 .. n, ~Same(symbols[i], symbols[j])
      PROVE  /\ symbols[i].offset # symbols[j].offset
             /\ \/ EndsBefore(symbols[i], symbols[j].offset)
                \/ EndsBefore(symbols[j], symbols[i].offset)
  <2>1. i < j \/ j < i
    BY <1>2, <1>6 DEF Same
  <2>2. symbols[i].offset # symbols[j].offset
    BY <1>3, <1>4, <2>1
  <2>3. QED
    BY <1>5, <2>1, <2>2 DEF EndsBefore
<1>7. QED
  BY <1>2, <1>5, <1>6 DEF SideBySide

(* With its table read, the search answers with the function that contains
   the address, and with none when there is no such function. *)
LEMMA SearchAnswers ==
  ASSUME ImageInv, SymbolsInv, format = "pe", finished, TableSound, Complete, Apart, NEW a \in Int
  PROVE  LET f == SearchSymbol(a) IN
         IF f = NotFound THEN \A g \in Defined : ~Inhabits(g, a)
         ELSE \E g \in Defined : g.name = f.name /\ Inhabits(g, a)
<1>1. Table(symbols) /\ Sorted(symbols)
  BY DEF SymbolsInv
<1>2. SideBySide
  BY TableSideBySide
<1>3. PICK f : f = SearchSymbol(a)
  OBVIOUS
<1>4. IF \E i \in DOMAIN symbols : Covers(symbols[i], a)
        THEN f \in Range(symbols) /\ Covers(f, a)
        ELSE f = NotFound
  BY <1>1, <1>2, <1>3, SearchSound DEF Finds
<1>5. CASE \E i \in DOMAIN symbols : Covers(symbols[i], a)
  <2>1. PICK j \in DOMAIN symbols : f = symbols[j] /\ Covers(symbols[j], a)
    BY <1>4, <1>5 DEF Range
  <2>2. PICK k \in PEFunctions : Made(symbols[j], k) /\ symbols[j].size = Reach(j, k)
    BY DEF Complete
  <2>3. Inhabits(DefinedBy(k), a)
    BY <2>1, <2>2, CoversFunction
  <2>4. DefinedBy(k) \in Defined /\ DefinedBy(k).name = f.name
    BY <2>1, <2>2, DefinedFunctions DEF DefinedBy, Made
  <2>5. IsSymbol(f)
    BY <1>1, <2>1 DEF Table
  <2>6. f # NotFound
    BY <2>5 DEF IsSymbol, NotFound
  <2>7. QED
    BY <1>3, <2>3, <2>4, <2>6
<1>6. CASE ~ \E i \in DOMAIN symbols : Covers(symbols[i], a)
  <2>1. f = NotFound
    BY <1>4, <1>6
  <2>2. ASSUME NEW g \in Defined
        PROVE  ~Inhabits(g, a)
    <3>1. PICK k \in PEFunctions : g = DefinedBy(k)
      BY DefinedFunctions
    <3>2. PICK j \in DOMAIN symbols : Made(symbols[j], k)
      BY DEF Complete
    <3>3. PICK x \in PEFunctions : Made(symbols[j], x) /\ symbols[j].size = Reach(j, x)
      BY DEF Complete
    <3>4. Begin(x) = Begin(k)
      BY <3>2, <3>3 DEF Made
    <3>5. x = k
      BY <3>4 DEF TableSound
    <3>6. QED
      BY <1>6, <3>1, <3>3, <3>5, CoversFunction
  <2>3. QED
    BY <1>3, <2>1, <2>2
<1>7. QED
  BY <1>5, <1>6

(* The other half of it, for PE: in every image whose symbol table is as
   compilers write it (TableSound: the symbols where the header says, at most
   one length for a function and before it, no two functions at one place,
   each in the section that it names) and was read to its end, without faults
   or after any, searchSymbol answers with the function that contains the
   address, the one whose record gives no length reaching to the next function
   or to the end of its section, and with none when no function contains it.  *)

THEOREM PESymbolsRight == Spec => [](format = "pe" /\ TableSound => SymbolsRight)
<1>1. ImageInv /\ SymbolsInv /\ PETableInv => (format = "pe" /\ TableSound => SymbolsRight)
  <2>1. SUFFICES ASSUME ImageInv, SymbolsInv, PETableInv, format = "pe", TableSound,
                        pc = "ready", Apart, TableRead, NEW a \in Addresses
                 PROVE  LET f == SearchSymbol(a) IN
                        IF f = NotFound THEN \A g \in Defined : ~Inhabits(g, a)
                        ELSE \E g \in Defined : g.name = f.name /\ Inhabits(g, a)
    BY DEF SymbolsRight
  <2>2. pc \in Calls /\ a \in Int
    BY <2>1, AddressesAssumption DEF Calls
  <2>3. finished
    BY <2>1 DEF TableRead
  <2>4. Complete
    BY <2>1, <2>2, <2>3 DEF PETableInv
  <2>5. QED
    BY <2>1, <2>2, <2>3, <2>4, SearchAnswers
<1>2. QED
  BY <1>1, ImageInvHolds, SymbolsInvHolds, PETableInvHolds, PTL
=============================================================================
