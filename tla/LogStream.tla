----------------------------- MODULE LogStream ------------------------------
(***************************************************************************)
(* How a LOG statement becomes a line: Logger writes the time, the pieces  *)
(* of the statement and the place in the source to a LogStream, whose      *)
(* FixedBuffer drops what does not fit.  A character is a string of length *)
(* one, a text a sequence of characters.                                   *)
(***************************************************************************)
EXTENDS Integers, Sequences, SequencesExt, FiniteSetsExt

CONSTANTS
  kSmallBuffer,       \* size of the buffer of a line (4000 in the code)
  kMaxNumericSize,    \* room that a number must find (32)
  Width               \* bits of an integer and of a pointer (64)

Integer == -(2 ^ (Width - 1)) .. (2 ^ Width - 1)

\* A buffer: the text before cur_, and how far data_ was ever written.
EmptyBuffer == [text |-> <<>>, reached |-> 0]
Avail(buffer) == kSmallBuffer - Len(buffer.text)

\* `text` is put at cur_, followed by `extra` characters that do not count.
Put(buffer, text, extra) ==
  LET end == Len(buffer.text) + Len(text) IN
    [text |-> buffer.text \o text, reached |-> Max({buffer.reached, end + extra})]

\* FixedBuffer::Append: all or nothing.
AppendText(buffer, text) ==
  IF Avail(buffer) > Len(text) THEN Put(buffer, text, 0) ELSE buffer

-----------------------------------------------------------------------------
\* Integers.

\* / and % of C++: they round toward zero.
Quotient(a, b) == IF a >= 0 THEN a \div b ELSE -((-a) \div b)
Remainder(a, b) == a - b * Quotient(a, b)

\* kZero[lsd] and kHexZero[lsd], tables that mirror at 0.
kZero(lsd) ==
  <<"0", "1", "2", "3", "4", "5", "6", "7", "8", "9",
    "A", "B", "C", "D", "E", "F">>[(IF lsd < 0 THEN -lsd ELSE lsd) + 1]

\* The loop of convert(): digits, the last one first.
DigitsOf(value, base) ==
  LET digits[i \in Integer] ==
        <<kZero(Remainder(i, base))>>
          \o IF Quotient(i, base) = 0 THEN <<>> ELSE digits[Quotient(i, base)]
  IN digits[value]

convert(value) ==
  Reverse(DigitsOf(value, 10) \o IF value < 0 THEN <<"-">> ELSE <<>>)

ConvertHex(value) == <<"0", "x">> \o Reverse(DigitsOf(value, 16))

\* Mutant: there is room if the text fits.
NumericTight(buffer, text) ==
  IF Avail(buffer) >= Len(text) THEN Put(buffer, text, 1) ELSE buffer

\* FormatInteger and the operators for pointers and for double: they write in
\* place, with a NUL behind, if kMaxNumericSize characters are free.
Numeric(buffer, text) ==
  IF Avail(buffer) >= kMaxNumericSize THEN Put(buffer, text, 1) ELSE buffer

-----------------------------------------------------------------------------
\* A piece of a line, and operator<< for it.
Text(chars) == [type |-> "text", text |-> chars]
Number(value) == [type |-> "number", value |-> value]
Pointer(value) == [type |-> "pointer", value |-> value]

Rendered(piece) ==
  CASE piece.type = "text" -> piece.text
    [] piece.type = "number" -> convert(piece.value)
    [] piece.type = "pointer" -> ConvertHex(piece.value)

Shift(buffer, piece) ==
  IF piece.type = "text" THEN AppendText(buffer, piece.text)
  ELSE Numeric(buffer, Rendered(piece))

\* Logger::Impl's constructor and ~Logger(): what is around the pieces.
Trailer(basename, line) ==
  <<Text(<<"-", "-">>), Text(basename), Text(<<":">>), Number(line),
    Text(<<"\n">>)>>

Shifted(time, pieces, basename, line) ==
  <<Text(time)>> \o pieces \o Trailer(basename, line)

\* LOG << pieces: the buffer ~Logger() hands to Output().
Log(time, pieces, basename, line) ==
  FoldLeft(Shift, EmptyBuffer, Shifted(time, pieces, basename, line))
=============================================================================
