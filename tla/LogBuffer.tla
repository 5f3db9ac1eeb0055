----------------------------- MODULE LogBuffer -----------------------------
(***************************************************************************)
(* The growing buffer in which a log message is formatted (LogBuffer).     *)
(*                                                                         *)
(* A buffer has room for FixedSize characters and moves to the heap, by    *)
(* doubling, when a message needs more.  Its text is kept as the sequence  *)
(* of the messages it is made of.  ResetBuffer is the code's reset(): it   *)
(* gives the heap memory back and leaves offset and full mark as they are, *)
(* so a used buffer starts with characters nobody asked for, Leftover.     *)
(***************************************************************************)
EXTENDS Naturals, Sequences, FiniteSets

CONSTANTS
  FixedSize, (* DBGUTIL_LOG_BUFFER_SIZE                                    *)
  MaxSize,   (* DBGUTIL_MAX_BUFFER_SIZE                                    *)
  Leftover   (* what remains in a buffer that was reset after use          *)

ASSUME SizeAssumption ==
  FixedSize \in Nat \ {0} /\ MaxSize \in Nat /\ FixedSize <= MaxSize

(* The sizes a buffer can have: FixedSize doubled any number of times. *)
SizesUpTo(max) == {s \in FixedSize .. max : \E k \in 0 .. max : s = FixedSize * 2 ^ k}

NewBuffer == [size |-> FixedSize, offset |-> 0, full |-> FALSE, text |-> <<>>]

ResetBuffer(b) ==
  [b EXCEPT !.size = FixedSize,
            !.text = IF b.offset > 0 THEN <<Leftover>> ELSE <<>>]

(* resize(): the smallest doubling that is large enough; the buffer is
   unchanged when that would exceed the limit. *)
Resizable(newSize) == newSize <= MaxSize
DoubledSize(newSize) ==
  CHOOSE s \in SizesUpTo(2 * newSize) :
    /\ s >= newSize
    /\ \A r \in SizesUpTo(2 * newSize) : r >= newSize => s <= r
Resize(b, newSize) ==
  IF newSize <= b.size THEN b ELSE [b EXCEPT !.size = DoubledSize(newSize)]

EnsureLength(b, len) ==
  IF b.size - b.offset >= len THEN b
  ELSE IF Resizable(b.offset + len) THEN Resize(b, b.offset + len)
  ELSE [b EXCEPT !.full = TRUE]

(* appendV(): formats in place; when the result was cut off, makes room for
   it and formats again, and gives up when it is cut off again, which it is
   when the new size has no place for the terminating null. *)
Fits(b, len) == b.offset + len < b.size
Written(b, m, len) == [b EXCEPT !.offset = @ + len, !.text = Append(@, m)]
AppendV(b, m, len) ==
  LET grown == EnsureLength(b, len)
  IN  IF b.full THEN b
      ELSE IF Fits(b, len) THEN Written(b, m, len)
      ELSE IF ~grown.full /\ Fits(grown, len) THEN Written(grown, m, len)
      ELSE grown
=============================================================================
