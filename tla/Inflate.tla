------------------------------- MODULE Inflate -------------------------------
(***************************************************************************)
(* miniz.c, tinfl_decompress: a coroutine that is given the compressed     *)
(* bytes in pieces, and leaves in the middle of a block whenever a piece   *)
(* ends. It reads ahead when there is enough input, into a bit buffer, and *)
(* gives the bytes of the present piece that it did not need back.         *)
(*                                                                         *)
(* A stream is a sequence of tokens: what the coroutine reads or does      *)
(* between two places in which it may leave. Bits are counted and codes    *)
(* have a width; the construction of the tables is a token that says       *)
(* whether they are complete. Left out: a table of one code met by another *)
(* one, the zlib header and checksum, wrapping output (not used here).     *)
(*                                                                         *)
(*   [kind |-> "header", type |-> t]            final and type of a block  *)
(*   [kind |-> "align"]                         stored: up to the byte     *)
(*   [kind |-> "field", width |-> w]            bits with a fixed width    *)
(*   [kind |-> "stored", good |-> b]            LEN matches NLEN           *)
(*   [kind |-> "raw", value |-> v]              a stored byte              *)
(*   [kind |-> "table", good |-> b]             the code of code lengths   *)
(*   [kind |-> "lengths", width |-> w, count |-> n, again |-> b]           *)
(*   [kind |-> "tables", sizes |-> n, good |-> b]                          *)
(*   [kind |-> "literal", width |-> w, value |-> v]                        *)
(*   [kind |-> "length", width |-> w, count |-> n]                         *)
(*   [kind |-> "distance", width |-> w, back |-> n]                        *)
(*   [kind |-> "match"]                         the copy                   *)
(*   [kind |-> "end", width |-> w]              end of block               *)
(***************************************************************************)
EXTENDS Integers, Sequences

VARIABLES
  inflator,   \* [stream, at, bits, path, counter, dist, out, capacity, wide]
  input,      \* the piece: bytes left in it, bytes taken from it, and whether more will come
  status      \* "running", or what the coroutine has left with
inflate_vars == <<inflator, input, status>>

(* tinfl_init, and the buffers of the caller. wide: TINFL_USE_64BIT_BITBUF. *)
tinfl_init(stream, capacity, wide) ==
  [stream |-> stream, at |-> 1, bits |-> 0, path |-> "new", counter |-> 0, dist |-> 0,
   out |-> <<>>, capacity |-> capacity, wide |-> wide]

Least(m, n) == IF m <= n THEN m ELSE n
Most(m, n) == IF m >= n THEN m ELSE n
Bytes(bits) == (bits + 7) \div 8

Room(d) == d.capacity - Len(d.out)

(* The bits a token takes off the buffer.                                  *)
Codes == {"lengths", "literal", "length", "distance", "end"}
Width(t, bits) ==
  IF t.kind \in Codes \cup {"field"} THEN t.width
  ELSE IF t.kind = "header" THEN 3
  ELSE IF t.kind = "align" THEN bits % 8
  ELSE IF t.kind = "raw" THEN 8 ELSE 0

(* TINFL_NEED_BITS, TINFL_HUFF_BITBUF_FILL: as few bytes as will do.       *)
Needed(width, bits) == Bytes(Most(width - bits, 0))

(* TINFL_HUFF_DECODE: two bytes at a time while there are two, but never    *)
(* more than will do once a piece has ended in the middle of the code.     *)
HuffDecode(d, width, avail) ==
  IF d.bits >= 15 THEN 0
  ELSE IF avail >= 2 /\ d.path # "slow" THEN 2 ELSE Needed(width, d.bits)

(* Literals, lengths and ends of blocks have a path of their own far from  *)
(* the ends of both buffers; the second of two literals comes with the     *)
(* first one.                                                              *)
SlowPath(d, avail) == d.path = "slow" \/ (d.path = "new" /\ (avail < 4 \/ Room(d) < 2))
Ahead(d, t, avail) ==
  IF t.kind \notin {"literal", "length", "end"} \/ SlowPath(d, avail)
  THEN HuffDecode(d, t.width, avail)
  ELSE IF d.wide THEN IF d.bits < 30 /\ d.path = "new" THEN 4 ELSE 0
  ELSE IF d.bits < 15 THEN 2 ELSE 0

(* The bytes a token takes from a piece.                                   *)
Wanted(d, t, avail) ==
  IF t.kind \in Codes THEN Ahead(d, t, avail) ELSE Needed(Width(t, d.bits), d.bits)

(* A code has 1 to 15 bits; the numbers that bits stand for are natural.   *)
IsSequence(s) == s \in Seq({s[i] : i \in DOMAIN s})
IsToken(t) ==
  /\ t.kind \in Codes => t.width \in 1 .. 15
  /\ t.kind = "field" => t.width \in Nat
  /\ t.kind \in {"lengths", "length"} => t.count \in Nat
  /\ t.kind = "distance" => t.back \in Nat
IsStream(s) == IsSequence(s) /\ \A i \in DOMAIN s : IsToken(s[i])

-----------------------------------------------------------------------------
Running(kind) ==
  /\ status = "running"
  /\ inflator.at <= Len(inflator.stream) /\ inflator.stream[inflator.at].kind = kind
Token == inflator.stream[inflator.at]

Take(n) == input' = [input EXCEPT !.avail = @ - n, !.taken = @ + n]

(* The bits of the token are there: the rest of the buffer.                *)
Enough == Wanted(inflator, Token, input.avail) <= input.avail
Rest == inflator.bits + 8 * Wanted(inflator, Token, input.avail) - Width(Token, inflator.bits)

(* On to the next token.                                                   *)
ResumeOn(path, d) ==
  /\ inflator' = [d EXCEPT !.at = @ + 1, !.bits = Rest, !.path = path]
  /\ Take(Wanted(inflator, Token, input.avail))
  /\ UNCHANGED status
Resume(d) == ResumeOn("new", d)

(* common_exit: bytes of this piece that are still whole go back.          *)
PutBack(d, bits, taken, avail) ==
  LET n == Least(taken, bits \div 8)
  IN  /\ inflator' = [d EXCEPT !.bits = bits - 8 * n]
      /\ input' = [input EXCEPT !.avail = avail + n, !.taken = taken - n]
Leave(d, result) ==
  LET n == Wanted(inflator, Token, input.avail)
  IN  /\ PutBack(d, Rest, input.taken + n, input.avail - n)
      /\ status' = result

-----------------------------------------------------------------------------
(* The piece ends before the token does: all of it is kept.                *)
Stuck == IF input.more THEN "NEEDS_MORE_INPUT" ELSE "CANNOT_MAKE_PROGRESS"
Starving ==
  /\ status = "running" /\ inflator.at <= Len(inflator.stream)
  /\ ~Enough
  /\ Token.kind = "raw" => inflator.bits > 0 \/ Room(inflator) > 0
GivesBack ==                                                       \* mutant
  /\ Starving
  /\ PutBack(inflator, inflator.bits + 8 * input.avail, input.taken + input.avail, 0)
  /\ status' = Stuck
Starve ==
  /\ Starving
  /\ inflator' = [inflator EXCEPT !.bits = @ + 8 * input.avail,
                                  !.path = IF Token.kind \in Codes THEN "slow" ELSE "new"]
  /\ Take(input.avail)
  /\ status' = Stuck

BlockHeader ==
  /\ Running("header") /\ Enough
  /\ IF Token.type = 3 THEN Leave(inflator, "FAILED") ELSE Resume(inflator)

AlignOrField == (Running("align") \/ Running("field")) /\ Enough /\ Resume(inflator)

StoredSize ==
  /\ Running("stored")
  /\ IF Token.good THEN Resume(inflator) ELSE Leave(inflator, "FAILED")

(* From the bit buffer, and when it is empty from the input.               *)
RawByte ==
  /\ Running("raw")
  /\ \/ inflator.bits > 0 /\ Enough /\ Room(inflator) = 0 /\ Leave(inflator, "HAS_MORE_OUTPUT")
     \/ inflator.bits = 0 /\ Room(inflator) = 0
        /\ PutBack(inflator, 0, input.taken, input.avail) /\ status' = "HAS_MORE_OUTPUT"
     \/ Enough /\ Room(inflator) > 0 /\ Resume([inflator EXCEPT !.out = Append(@, Token.value)])

(* The tables of a dynamic block                                           *)
CodeLengthTable ==
  /\ Running("table")
  /\ IF Token.good THEN Resume([inflator EXCEPT !.counter = 0]) ELSE Leave(inflator, "FAILED")
CodeLengths ==
  /\ Running("lengths") /\ Enough
  /\ IF Token.again /\ inflator.counter = 0 THEN Leave(inflator, "FAILED")
     ELSE Resume([inflator EXCEPT !.counter = @ + Token.count])
Tables ==
  /\ Running("tables")
  /\ IF inflator.counter = Token.sizes /\ Token.good THEN Resume(inflator)
     ELSE Leave(inflator, "FAILED")

(* The symbols of a block                                                  *)
Fast == ~SlowPath(inflator, input.avail)
Literal ==
  /\ Running("literal") /\ Enough
  /\ IF Room(inflator) = 0 THEN Leave(inflator, "HAS_MORE_OUTPUT")
     ELSE ResumeOn(IF Fast /\ inflator.path = "new" THEN "second" ELSE "new",
                  [inflator EXCEPT !.out = Append(@, Token.value)])
Length ==
  /\ Running("length") /\ Enough
  /\ Resume([inflator EXCEPT !.counter = Token.count])
Distance ==
  /\ Running("distance") /\ Enough
  /\ Resume([inflator EXCEPT !.dist = Token.back])
EndOfBlock == Running("end") /\ Enough /\ Resume(inflator)

(* n values more, each a copy of the one dist before it.                   *)
Copied(out, dist, n) ==
  LET value[i \in 1 .. Len(out) + n] == IF i <= Len(out) THEN out[i] ELSE value[i - dist]
  IN  [i \in 1 .. Len(out) + n |-> value[i]]
Match ==
  /\ Running("match")
  /\ IF inflator.dist = 0 \/ inflator.dist > Len(inflator.out) THEN Leave(inflator, "FAILED")
     ELSE IF inflator.counter > Room(inflator)
     THEN Leave([inflator EXCEPT !.out = Copied(@, inflator.dist, Room(inflator))], "HAS_MORE_OUTPUT")
     ELSE Resume([inflator EXCEPT !.out = Copied(@, inflator.dist, inflator.counter)])

(* The final block has ended.                                              *)
KeepsAhead ==                                                      \* mutant
  /\ status = "running" /\ inflator.at > Len(inflator.stream)
  /\ status' = "DONE" /\ UNCHANGED <<inflator, input>>
Finish ==
  /\ status = "running" /\ inflator.at > Len(inflator.stream)
  /\ PutBack(inflator, inflator.bits - (inflator.bits % 8), input.taken, input.avail)
  /\ status' = "DONE"

Inflate ==
  \/ Starve \/ BlockHeader \/ AlignOrField \/ StoredSize \/ RawByte
  \/ CodeLengthTable \/ CodeLengths \/ Tables
  \/ Literal \/ Length \/ Distance \/ EndOfBlock \/ Match \/ Finish

-----------------------------------------------------------------------------
(* What the stream says, read as a whole: the position in bits after each  *)
(* token, and what is written up to it; failed from the first bad token on. *)
Begin == [pos |-> 0, out |-> <<>>, counter |-> 0, dist |-> 0, failed |-> FALSE]
Says(said, t, bytes) ==
  LET pos == said.pos + (IF t.kind = "align" THEN (8 - (said.pos % 8)) % 8 ELSE Width(t, 0))
      s == [said EXCEPT !.pos = pos]
      fails == [s EXCEPT !.failed = TRUE]
  IN  IF said.failed \/ pos > 8 * bytes THEN fails
      ELSE CASE t.kind = "header" -> IF t.type = 3 THEN fails ELSE s
             [] t.kind \in {"raw", "literal"} -> [s EXCEPT !.out = Append(@, t.value)]
             [] t.kind = "stored" -> IF t.good THEN s ELSE fails
             [] t.kind = "table" -> IF t.good THEN [s EXCEPT !.counter = 0] ELSE fails
             [] t.kind = "lengths" ->
                  IF t.again /\ s.counter = 0 THEN fails ELSE [s EXCEPT !.counter = @ + t.count]
             [] t.kind = "tables" -> IF t.good /\ s.counter = t.sizes THEN s ELSE fails
             [] t.kind = "length" -> [s EXCEPT !.counter = t.count]
             [] t.kind = "distance" -> [s EXCEPT !.dist = t.back]
             [] t.kind = "match" -> IF s.dist \in 1 .. Len(s.out)
                                    THEN [s EXCEPT !.out = Copied(@, s.dist, s.counter)] ELSE fails
             [] OTHER -> s
(* Of the first so many bytes of it: token by token, and in the end.       *)
Reading(stream, bytes) ==
  LET upto[i \in 0 .. Len(stream)] == IF i = 0 THEN Begin ELSE Says(upto[i - 1], stream[i], bytes)
  IN  upto
Meaning(stream, bytes) == Reading(stream, bytes)[Len(stream)]
=============================================================================
