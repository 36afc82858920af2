----------------------------- MODULE MCAsyncIo ------------------------------
(***************************************************************************)
(* Instances of AsyncIo for TLC.                                           *)
(***************************************************************************)
EXTENDS AsyncIo

CONSTANTS o1, o2

\* One buffer, none, several, and empty ones in between.
SomeShapes == {<<3>>, <<>>, <<2, 1>>, <<0, 1, 0, 2>>}
TwoShapes  == {<<2>>, <<1, 1>>}
OneShape   == {<<2>>}

SomeConds == {transfer_all, transfer_at_least(1), transfer_at_least(5),
              transfer_exactly(2), transfer_exactly(0)}
TwoConds  == {transfer_all, transfer_exactly(1)}
OneCond   == {transfer_all}

\* Buffer sequences of up to three buffers of up to two bytes.
FewBuffers(object) ==
  UNION {{[i \in 1 .. n |->
             buffer_n([object |-> <<object, i>>, count |-> 1, size |-> 2], sz[i])] :
          sz \in [1 .. n -> 0 .. 2]} : n \in 1 .. 3}

\* buffer_copy() against what it comes to, for every pair of such sequences
\* and every max_size up to one more than the longest.
ASSUME CopyChecked ==
  \A dest \in FewBuffers("dest"), source \in FewBuffers("source"), n \in 0 .. 7 :
    CopiedInOrder(dest, source, n)

\* b += n and b + n agree as long as n bytes are left; b + n then is empty.
ASSUME PlusChecked ==
  \A sz \in 0 .. 4, n \in 0 .. 6 :
    LET b == buffer([object |-> "b", count |-> sz, size |-> 1])
    IN  plus(b, n) = IF n <= Len(b) THEN advance(b, n) ELSE <<>>
=============================================================================
