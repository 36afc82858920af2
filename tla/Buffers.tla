------------------------------ MODULE Buffers -------------------------------
(***************************************************************************)
(* Buffers, buffer sequences, the iovecs made from them and the completion *)
(* conditions that say how much of them to transfer.                       *)
(*                                                                         *)
(* A buffer (a span of memory) is the sequence of the addresses it covers, *)
(* an iovec is the same, and a buffer sequence is a sequence of buffers.   *)
(* An address is an object of the program and the number of a byte in it.  *)
(***************************************************************************)
EXTENDS Integers, Sequences, SequencesExt

\* b += n
advance(b, n) == SubSeq(b, n + 1, Len(b))

\* b + n and n + b, which unlike b += n stop at the end of b
plus(b, n) == SubSeq(b, Min({n, Len(b)}) + 1, Len(b))

\* buffer(b, n)
limit(b, n) == SubSeq(b, 1, Min({Len(b), n}))

\* buffer(data): all the bytes of an array, vector, string or string_view of
\* data.count elements of data.size bytes.
buffer(data) == [i \in 1 .. data.count * data.size |-> <<data.object, i>>]

\* buffer(data, n): its first n bytes, not elements.
buffer_n(data, n) == limit(buffer(data), n)

buffer_size(bseq) == FoldLeft(LAMBDA total, b : total + Len(b), 0, bseq)

\* Mutant: skip is not used up by the first buffer that is not skipped.
AddIovecSkipsAgain(s, b) ==
  IF s.full THEN s
  ELSE IF Len(b) <= s.skip THEN [s EXCEPT !.skip = @ - Len(b)]
  ELSE LET v == limit(advance(b, s.skip), s.max_len)
       IN  [s EXCEPT !.max_len = @ - Len(v),
                     !.iov     = Append(@, v),
                     !.full    = (Len(v) = s.max_len)]

\* The body of the loop of transform_to_iovecs(); "full" is its break.
AddIovec(s, b) ==
  IF s.full THEN s
  ELSE IF Len(b) <= s.skip THEN [s EXCEPT !.skip = @ - Len(b)]
  ELSE LET v == limit(advance(b, s.skip), s.max_len)
       IN  [skip    |-> 0,
            max_len |-> s.max_len - Len(v),
            iov     |-> Append(s.iov, v),
            full    |-> Len(v) = s.max_len]

transform_to_iovecs(bseq, skip, max_len) ==
  FoldLeft(AddIovec,
           [skip |-> skip, max_len |-> max_len, iov |-> <<>>, full |-> FALSE],
           bseq).iov

-----------------------------------------------------------------------------
(***************************************************************************)
(* buffer_copy().  A copied byte is the pair of addresses it went to and   *)
(* came from.                                                              *)
(***************************************************************************)
\* The iterator over bseq moves past the n bytes that have been copied.
Consume(bseq, n) ==
  IF Len(Head(bseq)) = n THEN Tail(bseq)
  ELSE <<advance(Head(bseq), n)>> \o Tail(bseq)

\* The body of its loop: a chunk is copied whole and only then compared with
\* max_size, an unsigned number.  Below zero, max_size has wrapped to a number
\* larger than any buffer, and no chunk will be equal to it again.
CopyChunk(s) ==
  IF s.returned \/ s.src = <<>> \/ s.dst = <<>> THEN s
  ELSE LET n == Min({Len(Head(s.src)), Len(Head(s.dst))})
       IN  [src      |-> Consume(s.src, n),
            dst      |-> Consume(s.dst, n),
            copied   |-> s.copied \o
                           [i \in 1 .. n |-> <<Head(s.dst)[i], Head(s.src)[i]>>],
            max_size |-> IF s.max_size = n THEN n ELSE s.max_size - n,
            returned |-> s.max_size = n]

\* The loop ends after at most one round for each buffer.  It reads the first
\* buffers before its first test: neither sequence may be empty.  max_size is
\* what the function returns, if it does: "returned" is FALSE where control
\* runs off its end, without a return statement, and what the caller gets is
\* undefined.
buffer_copy(dest, source, max_size) ==
  FoldLeft(LAMBDA s, round : CopyChunk(s),
           [src |-> source, dst |-> dest, copied |-> <<>>,
            max_size |-> max_size, returned |-> FALSE],
           source \o dest)

\* Where a chunk can end: where a buffer of either sequence does.
Ends(bseq) == {buffer_size(SubSeq(bseq, 1, i)) : i \in 1 .. Len(bseq)}

\* What buffer_copy() does, without its loop: the bytes of source go to the
\* bytes of dest in order.  If a chunk ends at max_size, that many bytes are
\* copied, and the size of the last chunk is returned, which is all that is
\* left of max_size by then.  Otherwise max_size limits nothing.
CopiedInOrder(dest, source, max_size) ==
  LET to   == FlattenSeq(dest)
      from == FlattenSeq(source)
      room == Min({Len(to), Len(from)})
      ends == Ends(dest) \cup Ends(source)
      hit  == max_size \in ends /\ max_size <= room
      n    == IF hit THEN max_size ELSE room
      ret  == buffer_copy(dest, source, max_size)
  IN  /\ ret.returned = hit
      /\ hit => ret.max_size = max_size - Max({0} \cup {e \in ends : e < max_size})
      /\ ret.copied = [i \in 1 .. n |-> <<to[i], from[i]>>]

-----------------------------------------------------------------------------
(***************************************************************************)
(* A completion condition maps the size of the buffer sequence and the     *)
(* number of bytes done to the number of bytes to ask for next; zero ends  *)
(* the transfer.                                                           *)
(***************************************************************************)
transfer_all == [kind |-> "all", n |-> 0]
transfer_at_least(n) == [kind |-> "at_least", n |-> n]
transfer_exactly(n) == [kind |-> "exactly", n |-> n]

\* Mutant: transfer_exactly asks for the whole buffer as transfer_at_least does.
to_transfer_rest(cond, size, done) ==
  LET goal == IF cond.kind = "all" THEN size ELSE Min({cond.n, size})
  IN  IF done < goal THEN size - done ELSE 0

to_transfer(cond, size, done) ==
  LET goal == IF cond.kind = "all" THEN size ELSE Min({cond.n, size})
      stop == IF cond.kind = "exactly" THEN goal ELSE size
  IN  IF done < goal THEN stop - done ELSE 0

\* What each condition means, by its documentation: the numbers of bytes with
\* which a transfer of a buffer of that size may end, short of end of file.
Fulfils(cond, size, n) ==
  CASE cond.kind = "all"      -> n = size
    [] cond.kind = "at_least" -> n \in Min({cond.n, size}) .. size
    [] cond.kind = "exactly"  -> n = Min({cond.n, size})

\* The most bytes a transfer may move.
Ceiling(cond, size) ==
  IF cond.kind = "exactly" THEN Min({cond.n, size}) ELSE size

\* What transform_to_iovecs() is for: the next max_len bytes of the buffer
\* sequence after the first skip, in order, and nothing else.
Window(bseq, skip, max_len) ==
  LET bytes == FlattenSeq(bseq)
  IN  SubSeq(bytes, skip + 1, Min({skip + max_len, Len(bytes)}))
=============================================================================
