--------------------------- MODULE MCAsyncLogging ---------------------------
(***************************************************************************)
(* Instance of AsyncLogging for TLC: buffers of two messages, and a        *)
(* pile-up at four buffers, which eight messages reach.  The lines that    *)
(* become these messages are made by LogStream, here with integers of      *)
(* eight bits and a buffer that two or three pieces fill.                  *)
(***************************************************************************)
EXTENDS AsyncLogging, LogStream, FiniteSets

\* The least and the greatest integers, zero, and texts of several lengths.
Pieces ==
  {Number(n) : n \in {-128, -10, 0, 255}} \union {Pointer(n) : n \in {0, 171}}
    \union {Text(t) : t \in {<<>>, <<"a">>, <<"b", "b", "b", "b">>}}
Time == <<"t", "t">>
Basename == <<"f">>
LineNumbers == {7, 120}
Statements == SeqOf(Pieces, 3) \X LineNumbers

\* What a reader of the line makes of a number.
ValueOf(digit) == CHOOSE v \in 0..15 : kZero(v) = digit
ReadNumber(chars, base) ==
  FoldLeft(LAMBDA n, digit : base * n + ValueOf(digit), 0, chars)
ReadBack(chars, base) ==
  IF chars[1] = "-" THEN -ReadNumber(Tail(chars), base)
  ELSE ReadNumber(chars, base)

\* Every integer reads back as itself, the least one too.
NumbersReadBack ==
  \A n \in Integer :
    /\ ReadBack(convert(n), 10) = n
    /\ n >= 0 => ReadNumber(SubSeq(ConvertHex(n), 3, Len(ConvertHex(n))), 16) = n

\* Some pieces are left out, the others follow each other.
Join(all, kept) ==
  FlattenSeq([k \in 1..Len(all) |-> IF k \in kept THEN Rendered(all[k]) ELSE <<>>])

LinesAreWhole ==
  \A <<pieces, line>> \in Statements :
    LET all == Shifted(Time, pieces, Basename, line)
        buffer == Log(Time, pieces, Basename, line)
        whole == Join(all, 1..Len(all))
    IN /\ buffer.reached <= kSmallBuffer
       /\ \/ buffer.text = whole
          \/ /\ Len(whole) + kMaxNumericSize > kSmallBuffer
             /\ \E kept \in SUBSET (1..Len(all)) : buffer.text = Join(all, kept)

\* A line never writes behind its buffer, NULs included, is made of whole
\* pieces in their order, and is complete unless the buffer had less than
\* kMaxNumericSize characters to spare; what it says of an integer is true.
\* A line does not depend on the state of the log: it is looked at once, as
\* the first LOG statement makes it, before Output() starts the log.
LinesAreFaithful == pc = "off" => NumbersReadBack /\ LinesAreWhole
=============================================================================
