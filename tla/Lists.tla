--------------------------------- MODULE Lists ---------------------------------
(***************************************************************************)
(* Which elements of a sequence are kept, and sequences joined to one, as  *)
(* recursive functions: the proofs expand these, which they cannot do with *)
(* SelectSeq or the folds of the community modules.                        *)
(***************************************************************************)
EXTENDS Naturals, Sequences

\* The elements of s that are in S, in their order.
Those(s, S) ==
  LET upto[i \in 0..Len(s)] ==
        IF i = 0 THEN <<>>
        ELSE IF s[i] \in S THEN Append(upto[i - 1], s[i])
        ELSE upto[i - 1]
  IN  upto[Len(s)]

\* The sequences of seqs one after the other.
Concat(seqs) ==
  LET upto[i \in 0..Len(seqs)] == IF i = 0 THEN <<>> ELSE upto[i - 1] \o seqs[i]
  IN  upto[Len(seqs)]

================================================================================
