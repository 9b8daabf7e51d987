------------------------------- MODULE Filter -------------------------------
(* The filter of a sequence, as the pages of the site filter their lists.     *)
EXTENDS Naturals, Sequences

\* Those of a sequence that are in S, in their order: how many are kept of the
\* first k is a function on k.
Keeping(s, S) == LET at[k \in 0..Len(s)] == IF k = 0 THEN <<>>
                                            ELSE IF s[k] \in S THEN Append(at[k - 1], s[k])
                                            ELSE at[k - 1]
                 IN at
Kept(s, S) == Keeping(s, S)[Len(s)]
=============================================================================
