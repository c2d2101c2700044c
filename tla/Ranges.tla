------------------------------- MODULE Ranges -------------------------------
(***************************************************************************)
(* Byte ranges: the Range header as Request::parseRange reads it, the test *)
(* that Request::valid makes of it, and the answer that                    *)
(* Fileserv::serveRange and Fileserv::serveFull make of a file.            *)
(*                                                                         *)
(* A file of n bytes is the offsets 0 .. n-1; a body is the sequence of    *)
(* the offsets sent, with Junk for a byte of the buffer that no read has   *)
(* filled.  The pieces that chunkSize cuts a body into are left out: they  *)
(* follow one another without a gap.  size_t has Modulus values.           *)
(***************************************************************************)
EXTENDS Integers, Sequences, SequencesExt

CONSTANTS
    Modulus,     \* 2^64 in the code
    FewElements, \* 16 in the library: std::sort sorts up to so many by insertion
    Junk         \* a byte that does not come from the file

ASSUME ModulusAssumption == Modulus \in Nat \ {0, 1}
ASSUME FewAssumption == FewElements \in Nat \ {0}

SizeT == 0 .. Modulus - 1
Npos == Modulus - 1

(***************************************************************************)
(* A piece of the header: a-b, a- (no end), a (no hyphen) or -n (suffix).  *)
(* A number too large for size_t leaves the result of from_chars unset, so *)
(* any value of SizeT may stand for one.                                   *)
(***************************************************************************)
HeaderPieces == [form : {"both", "open", "bare", "suffix"}, start : SizeT, end : SizeT]

RangeOf(piece) ==
    [start |-> piece.start,
     end   |-> CASE piece.form = "both" -> piece.end
                 [] piece.form = "open" -> Npos
                 [] piece.form = "bare" -> piece.start]

AsksForEnd(piece) == piece.form = "suffix"

\* A later suffix replaces an earlier one.
ParseRange(pieces) ==
    LET last == SelectLastInSeq(pieces, AsksForEnd)
    IN  [ranges       |-> FlattenSeq([i \in DOMAIN pieces |->
                              IF AsksForEnd(pieces[i]) THEN <<>> ELSE <<RangeOf(pieces[i])>>]),
         suffixLength |-> IF last = 0 THEN 0 ELSE pieces[last].start]

(***************************************************************************)
(* The comparator compares a start with an end.  std::sort on at most      *)
(* FewElements elements is an insertion sort: an element that comes before *)
(* the first goes to the front, any other moves left past those it comes   *)
(* before.                                                                 *)
(***************************************************************************)
Before(left, right) == left.start < right.end

Insert(sorted, range) ==
    LET stays == {k \in 1 .. Len(sorted) : ~Before(range, sorted[k])}
        at    == IF sorted = <<>> \/ Before(range, sorted[1]) THEN 1 ELSE Max(stays) + 1
    IN  InsertAt(sorted, at, range)

Sorted(ranges) ==
    LET sorted[n \in 0 .. Len(ranges)] ==
            IF n = 0 THEN <<>> ELSE Insert(sorted[n-1], ranges[n])
    IN  sorted[Len(ranges)]

(***************************************************************************)
(* More elements are sorted in other ways.  They come to the same if the   *)
(* comparator orders any two of them, since no element is compared with    *)
(* itself; if it does not, what happens is undefined: any order, or an     *)
(* access outside the vector.                                              *)
(***************************************************************************)
Ordered(ranges) ==
    \A i, j, k \in DOMAIN ranges :
        /\ i # j => (Before(ranges[i], ranges[j]) <=> ~Before(ranges[j], ranges[i]))
        /\ i # j /\ j # k /\ i # k /\ Before(ranges[i], ranges[j]) /\ Before(ranges[j], ranges[k])
             => Before(ranges[i], ranges[k])

Sortable(ranges) == Len(ranges) <= FewElements \/ Ordered(ranges)

Orders(ranges) ==
    IF Sortable(ranges) THEN {Sorted(ranges)}
    ELSE {[k \in DOMAIN ranges |-> ranges[p[k]]] : p \in Permutations(DOMAIN ranges)}

\* r is request.ranges, sorted.  The first range is not looked at, except for its end when it
\* is the last.
Valid(request, r, size) ==
    /\ size >= request.suffixLength
    /\ r # <<>> =>
        /\ \A i \in 2 .. Len(r) :
            /\ r[i].start < r[i].end
            /\ r[i-1].end <= r[i].start
            /\ r[i].start < size
            /\ r[i].end <= size
        /\ r[Len(r)].end <= size - request.suffixLength

\* "bytes=0-" alone is a request for the whole file.
HackRanges(request) ==
    request.ranges = <<[start |-> 0, end |-> Npos]>>

AsksForRange(request) ==
    ~HackRanges(request) /\ (request.ranges # <<>> \/ request.suffixLength # 0)

(***************************************************************************)
(* A read past the end of the file fails the stream, and with it every     *)
(* later seek and read; the buffer is sent all the same.                   *)
(***************************************************************************)
Send(sent, start, count, size) ==
    [body   |-> sent.body \o [i \in 1 .. count |->
                    IF ~sent.failed /\ start + i - 1 < size THEN start + i - 1 ELSE Junk],
     failed |-> sent.failed \/ (count > 0 /\ start + count > size)]

Unsent == [body |-> <<>>, failed |-> FALSE]

\* Mutant: the end of a range as exclusive.
RangeLengthExclusive(range) == (range.end - range.start) % Modulus

RangeLength(range) == (range.end - range.start + 1) % Modulus

ContentLength(request) ==
    LET length[n \in 0 .. Len(request.ranges)] ==
            IF n = 0 THEN request.suffixLength
            ELSE (length[n-1] + RangeLength(request.ranges[n])) % Modulus
    IN  length[Len(request.ranges)]

RangeBody(request, r, size) ==
    LET sent[n \in 0 .. Len(r)] ==
            IF n = 0 THEN Unsent ELSE Send(sent[n-1], r[n].start, RangeLength(r[n]), size)
    IN  Send(sent[Len(r)], size - request.suffixLength, request.suffixLength, size).body

ServeRange(request, order, size) ==
    IF ~Valid(request, order, size)
    THEN [status |-> 400, length |-> 0, body |-> <<>>, multi |-> FALSE]
    ELSE [status |-> 206, length |-> ContentLength(request),
          body   |-> RangeBody(request, order, size), multi |-> Len(request.ranges) > 1]

ServeFull(size) ==
    [status |-> 200, length |-> size, body |-> Send(Unsent, 0, size, size).body, multi |-> FALSE]

\* serveRange asserts that there is a range, also when only a suffix is asked for.
AssertionFails(request, size) == Valid(request, <<>>, size) /\ request.ranges = <<>>
=============================================================================
