----------------------------- MODULE ByteRanges -----------------------------
(***************************************************************************)
(* How ygm::io::line_parser cuts files into ranges of bytes: laid end to   *)
(* end they are dealt to ranks in turn, each n bytes.  So the rank whose   *)
(* turn is t has of a file, after "before" bytes of other files, the bytes *)
(* from t * n - before on.                                                 *)
(***************************************************************************)
EXTENDS Integers

Smaller(a, b) == IF a < b THEN a ELSE b
Larger(a, b) == IF a < b THEN b ELSE a

BytesPerRank(total, ranks, min) == Larger(total \div ranks + 1, min)

RangeBegin(t, before, n) == Larger(0, t * n - before)
RangeEnd(t, before, size, n) == Smaller(size, (t + 1) * n - before)

HasRange(t, before, size, n) == RangeBegin(t, before, n) < RangeEnd(t, before, size, n)

\* A range is read up to and including the line at its end, without the line
\* at its beginning.
ReadsFrom(first, last, line) == line <= last /\ (first = 0 \/ line > first)

\* A line that begins at a byte of a file is read by one rank, wherever the cuts
\* are: in the middle of a line, at its first byte, or several in one line.
OneReader(ranks, min, total, before, size, line) ==
  LET n == BytesPerRank(total, ranks, min)
  IN \E t \in 0..ranks - 1 : \A u \in 0..ranks - 1 :
       HasRange(u, before, size, n) /\ ReadsFrom(RangeBegin(u, before, n), RangeEnd(u, before, size, n), line)
         <=> u = t
=============================================================================
