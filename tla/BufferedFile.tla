---------------------------- MODULE BufferedFile ----------------------------
(***************************************************************************)
(* BufferedFileReader: sequential and random reads of a file through a     *)
(* buffer (buffered_file_reader.cpp, with OsUtil's file operations).       *)
(*                                                                         *)
(* A file is a sequence of cells, each of which stands for some bytes that *)
(* are read or skipped together.  A read of the system may return fewer    *)
(* cells than asked for, and may fail.                                     *)
(*                                                                         *)
(* A user of the reader hands it a script, a sequence of seek, skip and    *)
(* read operations of which each is done if the one before was.  A seek    *)
(* inside of the buffer moves an offset, any other one and every refill is *)
(* a system call and a step.                                               *)
(***************************************************************************)
EXTENDS Integers, Sequences

CONSTANTS
  BufferSize, (* cells that fit into the buffer                            *)
  MaxFaults   (* bound: system calls that fail                             *)

ASSUME BufferAssumption == BufferSize \in Nat \ {0} /\ MaxFaults \in Nat

VARIABLES
  file,         (* what the file contains                                  *)
  isOpen,       (* m_fd # 0                                                *)
  position,     (* the file position that the system keeps                 *)
  fileOffset,   (* m_fileOffset: where in the file the buffer begins       *)
  buffer,       (* m_buffer                                                *)
  bufferOffset, (* m_bufferOffset: how much of the buffer is consumed      *)
  script,       (* operations still to do                                  *)
  got,          (* cells read by the script                                *)
  rc,           (* its result once it ended: "ok", "eof" or "error"        *)
  place,        (* history: where a plain file would read next             *)
  spoiled,      (* history: the buffer is left over from a failed read     *)
  faults

readerVars == <<isOpen, position, fileOffset, buffer, bufferOffset>>
scriptVars == <<script, got, rc>>
fileVars == <<file, readerVars, scriptVars, place, spoiled, faults>>

Zero == [kind |-> "zero"]
Seek(n) == [op |-> "seek", n |-> n]
Skip(n) == [op |-> "skip", n |-> n]
Read(n) == [op |-> "read", n |-> n]

Least(a, b) == IF a <= b THEN a ELSE b
Cells(from, count) == SubSeq(file, from + 1, Least(from + count, Len(file)))

FileInit ==
  /\ isOpen = FALSE /\ position = 0
  /\ fileOffset = 0 /\ buffer = <<>> /\ bufferOffset = 0
  /\ script = <<>> /\ got = <<>> /\ rc = "ok"
  /\ place = 0 /\ spoiled = FALSE /\ faults = 0

Answered == script = <<>>
Ask(operations) == script' = operations /\ got' = <<>> /\ rc' = "ok"
(* The operation at hand succeeded. *)
Done(more) == script' = more /\ rc' = "ok"

-----------------------------------------------------------------------------
(* refillBuffer, from what is left of the old buffer.  The offset advances
   and the buffer gets its full size before the system is asked; a failed
   read leaves both like this. *)
Resized(old) ==
  [k \in 1 .. BufferSize |-> IF k <= Len(old) THEN old[k] ELSE Zero]

Refill(old, offset, from) ==
  /\ fileOffset' = offset + Len(old)
  /\ bufferOffset' = 0
  /\ \/ /\ from < Len(file)
        /\ \E n \in 1 .. Least(BufferSize, Len(file) - from) :
             /\ buffer' = Cells(from, n)
             /\ position' = from + n
        /\ rc' = "ok" /\ UNCHANGED faults
     \/ /\ from >= Len(file)
        /\ buffer' = <<>> /\ position' = from
        /\ rc' = "eof" /\ UNCHANGED faults
     \/ /\ faults < MaxFaults /\ faults' = faults + 1
        /\ buffer' = Resized(old) /\ position' = from
        /\ rc' = "error"

(* open: a file that is empty is reported as such, and stays open.  One that
   the system does not open counts as open too: -1 is not 0. *)
NotOpened ==
  /\ faults < MaxFaults /\ faults' = faults + 1
  /\ fileOffset' = 0 /\ buffer' = <<>> /\ bufferOffset' = 0 /\ position' = 0
  /\ rc' = "error"

OpenFile ==
  /\ ~isOpen /\ Answered
  /\ isOpen' = TRUE
  /\ Refill(<<>>, 0, 0) \/ NotOpened
  /\ got' = <<>> /\ place' = 0
  /\ spoiled' = (rc' = "error")
  /\ UNCHANGED <<file, script>>

(* close: all is kept when the system does not close the file.  Neither of the
   callers looks at the result. *)
CloseFile ==
  \/ /\ isOpen' = FALSE /\ position' = 0
     /\ fileOffset' = 0 /\ buffer' = <<>> /\ bufferOffset' = 0
     /\ spoiled' = FALSE /\ place' = 0
     /\ UNCHANGED faults
  \/ /\ faults < MaxFaults /\ faults' = faults + 1
     /\ UNCHANGED <<readerVars, spoiled, place>>

-----------------------------------------------------------------------------
(* seek, and skip, which seeks from the current offset. *)
Target(o) == IF o.op = "seek" THEN o.n ELSE fileOffset + bufferOffset + o.n
Inside(n) == n >= fileOffset /\ n < fileOffset + Len(buffer)

SeekInBuffer ==
  /\ script # <<>> /\ Head(script).op \in {"seek", "skip"}
  /\ LET n == Target(Head(script)) IN
       /\ Inside(n)
       /\ bufferOffset' = n - fileOffset
       /\ place' = IF Head(script).op = "seek" THEN n ELSE place + Head(script).n
  /\ Done(Tail(script))
  /\ UNCHANGED <<file, isOpen, position, fileOffset, buffer, got, spoiled, faults>>

(* A fault: the old buffer is not discarded before it is filled again. *)
KeptForSeek == buffer
ForSeek == <<>>

SeekInFile ==
  /\ script # <<>> /\ Head(script).op \in {"seek", "skip"}
  /\ LET n == Target(Head(script)) IN
       /\ ~Inside(n)
       /\ Refill(ForSeek, n, n)
       /\ place' = IF Head(script).op = "seek" THEN n ELSE place + Head(script).n
  /\ script' = IF rc' = "ok" THEN Tail(script) ELSE <<>>
  /\ spoiled' = (rc' = "error")
  /\ UNCHANGED <<file, isOpen, got>>

(* The system refuses the seek: nothing has changed yet. *)
SeekFails ==
  /\ script # <<>> /\ Head(script).op \in {"seek", "skip"}
  /\ ~Inside(Target(Head(script)))
  /\ faults < MaxFaults /\ faults' = faults + 1
  /\ rc' = "error" /\ script' = <<>>
  /\ UNCHANGED <<file, readerVars, got, place, spoiled>>

(* readFull, which is read: as many turns of its loop as it needs. *)
ReadFromBuffer ==
  LET o == Head(script)
      n == Least(o.n, Len(buffer) - bufferOffset)
      more == IF o.n = n THEN Tail(script) ELSE <<Read(o.n - n)>> \o Tail(script)
  IN
  /\ script # <<>> /\ o.op = "read"
  /\ o.n = 0 \/ bufferOffset < Len(buffer)
  /\ got' = got \o SubSeq(buffer, bufferOffset + 1, bufferOffset + n)
  /\ bufferOffset' = bufferOffset + n
  /\ place' = place + n
  /\ Done(more)
  /\ UNCHANGED <<file, isOpen, position, fileOffset, buffer, spoiled, faults>>

(* A fault: the bytes read last are read again. *)
RefillBehind == Refill(buffer, fileOffset, fileOffset)
RefillNext == Refill(buffer, fileOffset, position)

ReadFromFile ==
  /\ script # <<>> /\ Head(script).op = "read" /\ Head(script).n > 0
  /\ bufferOffset = Len(buffer)
  /\ RefillNext
  /\ script' = IF rc' = "ok" THEN script ELSE <<>>
  /\ spoiled' = (spoiled \/ rc' = "error")
  /\ UNCHANGED <<file, isOpen, got, place>>

FileStep == SeekInBuffer \/ SeekInFile \/ SeekFails \/ ReadFromBuffer \/ ReadFromFile

-----------------------------------------------------------------------------
(* The buffer is a part of the file, the system's position is behind it, and
   the reader is where a plain file would be, whatever the mix of seeks,
   skips, short reads and refills; until a read fails, and again from the
   next seek outside of the buffer. *)
BufferMirrorsFile ==
  isOpen /\ ~spoiled =>
    /\ buffer = Cells(fileOffset, Len(buffer))
    /\ position = fileOffset + Len(buffer)
    /\ place = fileOffset + bufferOffset
=============================================================================
