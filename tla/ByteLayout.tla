----------------------------- MODULE ByteLayout -----------------------------
(***************************************************************************)
(* ByteWriter and ByteReader, and records laid out with them.              *)
(*                                                                         *)
(* A byte string is a sequence of cells, one for each field a ByteWriter   *)
(* wrote: its width in bytes and the number it holds.  Widths are the real *)
(* ones, so that sizes, declared lengths and the checks that compare them  *)
(* with what remains are exact; contents are abstract numbers.             *)
(*                                                                         *)
(* A layout is a sequence of fields, and a record laid out by it is the    *)
(* sequence of their values.  A text is <<its length, what it says>>.      *)
(***************************************************************************)
EXTENDS Integers, Sequences

LOCAL INSTANCE SequencesExt

Cell(w, v) == [w |-> w, v |-> v]

RECURSIVE Size(_)

\* The length of a byte string, or what a reader of it has remaining.
Size(cells) == IF cells = << >> THEN 0 ELSE Head(cells).w + Size(Tail(cells))

-----------------------------------------------------------------------------
(* Fields. *)

\* u8 to u64, fixed16 and fixed32 without a check of the value.
Num(w) == [kind |-> "num", w |-> w]

\* A code the decoder checks: reads are the values it takes, writes the ones
\* the encoder's type can hold.
Code(w, writes, reads) == [kind |-> "code", w |-> w, writes |-> writes, reads |-> reads]

\* A string of at least min and at most max bytes.
Text(min, max) == [kind |-> "text", min |-> min, max |-> max, excess |-> {}]

\* A presence flag and the value, << >> for none and <<v>> for v.  A strict
\* decoder refuses a value without its flag.
Option(w, strict) == [kind |-> "option", w |-> w, strict |-> strict]

\* A count and that many rows.  The decoder refuses a count above max, and
\* one that rows of at least least bytes could not fit in what remains.
Rows(max, least, row) ==
  [kind |-> "rows", max |-> max, least |-> least, row |-> row, rising |-> FALSE, excess |-> {}]

\* Rows that must be strictly increasing.
RisingRows(max, row) == [Rows(max, 0, row) EXCEPT !.rising = TRUE]

\* A text or rows whose bounds the encoder does not check: it writes sizes the
\* decoder refuses, of which these are tried.
Unchecked(f, sizes) == [f EXCEPT !.excess = sizes]

\* The order of scopes: by kind, then by subject.
Precedes(a, b) == a[1] < b[1] \/ (a[1] = b[1] /\ a[2][2] < b[2][2])

-----------------------------------------------------------------------------
(* ByteWriter. *)

RECURSIVE PutAll(_, _)

Put(f, v) ==
  CASE f.kind \in {"num", "code"} -> <<Cell(f.w, v)>>
    [] f.kind = "text" -> <<Cell(4, v[1]), Cell(v[1], v[2])>>
    [] f.kind = "option" -> <<Cell(1, Len(v)), Cell(f.w, IF v = << >> THEN 0 ELSE v[1])>>
    [] f.kind = "rows" ->
         <<Cell(4, Len(v))>> \o FlattenSeq([i \in DOMAIN v |-> PutAll(f.row, v[i])])

PutAll(layout, record) ==
  FlattenSeq([i \in DOMAIN layout |-> Put(layout[i], record[i])])

-----------------------------------------------------------------------------
(* ByteReader.  A read yields a value and what remains, or is refused. *)

Got(v, rest) == [ok |-> TRUE, got |-> v, rest |-> rest]
Refused == [ok |-> FALSE, got |-> 0, rest |-> << >>]

\* require: the bytes must be there.  A reader out of step with the writer
\* would read bytes of two fields; that counts as refused.
TakeWord(w, cells) ==
  IF cells # << >> /\ Head(cells).w = w THEN Got(Head(cells).v, Tail(cells)) ELSE Refused

TakeText(f, cells) ==
  LET size == TakeWord(4, cells)
      body == TakeWord(size.got, size.rest)
  IN IF size.ok /\ size.got \in f.min..f.max /\ body.ok
       THEN Got(<<size.got, body.got>>, body.rest)
       ELSE Refused

TakeOption(f, cells) ==
  LET flag == TakeWord(1, cells)
      value == TakeWord(f.w, flag.rest)
  IN CASE ~flag.ok \/ ~value.ok \/ flag.got \notin {0, 1} -> Refused
       [] flag.got = 1 -> Got(<<value.got>>, value.rest)
       [] f.strict /\ value.got # 0 -> Refused
       [] OTHER -> Got(<< >>, value.rest)

RECURSIVE TakeAll(_, _, _), TakeRows(_, _, _)

\* The remaining rows, after the ones in sofar.
TakeRows(f, left, sofar) ==
  IF left = 0 \/ ~sofar.ok THEN sofar
  ELSE LET row == TakeAll(f.row, Len(f.row), sofar.rest)
           follows == f.rising /\ sofar.got # << >> => Precedes(Last(sofar.got), row.got)
       IN TakeRows(f, left - 1,
                   IF row.ok /\ follows THEN Got(Append(sofar.got, row.got), row.rest) ELSE Refused)

TakeCounted(f, cells) ==
  LET count == TakeWord(4, cells)
  IN IF /\ count.ok /\ count.got <= f.max
        /\ f.least > 0 => count.got * f.least <= Size(count.rest)
       THEN TakeRows(f, count.got, Got(<< >>, count.rest))
       ELSE Refused

Take(f, cells) ==
  CASE f.kind = "num" -> TakeWord(f.w, cells)
    [] f.kind = "code" ->
         LET word == TakeWord(f.w, cells) IN IF word.got \in f.reads THEN word ELSE Refused
    [] f.kind = "text" -> TakeText(f, cells)
    [] f.kind = "option" -> TakeOption(f, cells)
    [] f.kind = "rows" -> TakeCounted(f, cells)

\* The first n fields, one after another.
TakeAll(layout, n, cells) ==
  IF n = 0 THEN Got(<< >>, cells)
  ELSE LET before == TakeAll(layout, n - 1, cells)
           one == Take(layout[n], before.rest)
       IN IF before.ok /\ one.ok THEN Got(Append(before.got, one.got), one.rest) ELSE Refused

\* require_end: a decoder consumes its input exactly.
Decode(layout, cells) ==
  LET all == TakeAll(layout, Len(layout), cells)
  IN IF all.ok /\ all.rest = << >> THEN all ELSE Refused

=============================================================================
