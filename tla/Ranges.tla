------------------------------- MODULE Ranges -------------------------------
(***************************************************************************)
(* Byte ranges in requests and answers (rest/range.go, blob.go,            *)
(* blob_uploader.go, blob/service.go).  A header that is well formed is a  *)
(* pair of natural numbers of any size; the program holds them in an       *)
(* int64, whose largest value is MaxInt.                                   *)
(***************************************************************************)
EXTENDS Naturals, Integers

CONSTANT MaxInt

ASSUME RangesAssumption == MaxInt \in Nat \ {0}

(* strconv.ParseInt with its error ignored: a number too large becomes MaxInt. *)
ParseInt(n) == IF n > MaxInt THEN MaxInt ELSE n

NoHeader == [kind |-> "none"]
Malformed == [kind |-> "malformed"]
Header(first, last) == [kind |-> "range", first |-> first, last |-> last]

(* parseRangeHeader and parseContentRangeHeader. *)
Parsed(h) ==
    h.kind = "range" /\ ParseInt(h.first) <= ParseInt(h.last)

Answer(status, first, last) == [status |-> status, first |-> first, last |-> last]

(* Mutant: a range that ends one past the last byte is served. *)
RangeAnswerOff(h, size) ==
    IF ~Parsed(h) THEN Answer(200, 0, size - 1)
    ELSE IF ParseInt(h.last) > size THEN Answer(416, 0, 0)
    ELSE Answer(206, ParseInt(h.first), ParseInt(h.last))

(* GET of a registered blob of this size: the whole of it without a usable Range *)
(* header, else the bytes of the range, or 416 when it goes beyond the end.      *)
RangeAnswer(h, size) ==
    IF ~Parsed(h) THEN Answer(200, 0, size - 1)
    ELSE IF ParseInt(h.last) >= size THEN Answer(416, 0, 0)
    ELSE Answer(206, ParseInt(h.first), ParseInt(h.last))

(* PATCH of length bytes to a session that holds size bytes. The chunk goes to   *)
(* the first position of Content-Range, 0 without the header; its last position  *)
(* is not looked at again. The Range header of the answer ends at size - 1.      *)
PatchAnswer(h, size, length) ==
    LET offset == IF h.kind = "none" THEN 0 ELSE ParseInt(h.first)
    IN  IF h.kind # "none" /\ ~Parsed(h) THEN Answer(400, 0, 0)
        ELSE IF offset # size THEN Answer(416, 0, 0)
        ELSE Answer(202, 0, offset + length - 1)

(* GET of the session: 0-0 also when it is empty. *)
StatusAnswer(size) == Answer(204, 0, IF size = 0 THEN 0 ELSE size - 1)
=============================================================================
