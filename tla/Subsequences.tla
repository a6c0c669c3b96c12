----------------------------- MODULE Subsequences ------------------------------
(***************************************************************************)
(* Loops over a sequence, as recursive functions of how far the loop has   *)
(* come, and how many elements there are of a kind.                        *)
(***************************************************************************)
EXTENDS Naturals, Sequences, FiniteSets

\* The elements of seq that are in set, in their order.
Filter(seq, set) ==
  LET kept[n \in 0..Len(seq)] ==
        IF n = 0 THEN << >>
        ELSE IF seq[n] \in set THEN Append(kept[n - 1], seq[n]) ELSE kept[n - 1]
  IN  kept[Len(seq)]

\* Every element once, in the order of its first occurrence.
Distinct(seq) ==
  LET seen[n \in 0..Len(seq)] ==
        IF n = 0 THEN << >>
        ELSE IF \E i \in 1..(n - 1) : seq[i] = seq[n]
             THEN seen[n - 1] ELSE Append(seen[n - 1], seq[n])
  IN  seen[Len(seq)]

\* A loop that takes a value from one element of seq to the next: step[v][x] is the
\* value after x.
Fold(step, base, seq) ==
  LET after[n \in 0..Len(seq)] ==
        IF n = 0 THEN base ELSE step[after[n - 1]][seq[n]]
  IN  after[Len(seq)]

\* The same for a number of turns.
Repeat(step, base, turns) == Fold(step, base, [i \in 1..turns |-> i])

Positions(seq, set) == {i \in 1..Len(seq) : seq[i] \in set}

\* How many elements of seq are in set.
Number(seq, set) == Cardinality(Positions(seq, set))
================================================================================
