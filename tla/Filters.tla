------------------------------- MODULE Filters -------------------------------
\* The list comprehension [x for x in s if x not in S].
EXTENDS SequencesExt

\* SelectSeq as a fold: the prover knows the definition of a fold.
Without(s, S) == FoldLeft(LAMBDA kept, x : IF x \in S THEN kept ELSE Append(kept, x), <<>>, s)
=============================================================================
