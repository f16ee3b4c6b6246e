------------------------------- MODULE Queues -------------------------------
(***************************************************************************)
(* What the loops of both pagers do to a std::queue in a full round: pop   *)
(* the front element and push it again, or not.                            *)
(***************************************************************************)
EXTENDS Integers, Sequences, SequencesExt

MoveToTail(q, i) == Append(RemoveAt(q, i), q[i])
Rotate(q, k)     == SubSeq(q, k + 1, Len(q)) \o SubSeq(q, 1, k)

\* Only the elements of S are pushed again.
Sifted(q, S) ==
  LET left[k \in 0..Len(q)] ==
        IF k = 0 THEN <<>>
        ELSE IF q[k] \in S THEN Append(left[k - 1], q[k]) ELSE left[k - 1]
  IN left[Len(q)]
=============================================================================
