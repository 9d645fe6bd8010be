-------------------------------- MODULE Lists --------------------------------
(* Lists and functions, where the community modules have no operator that can be proved
   about, or the one of the module TLC. *)
EXTENDS Integers, SequencesExt

\* The elements of s that are in S, in their order.
Only(s, S) == FoldLeft(LAMBDA chosen, e : IF e \in S THEN Append(chosen, e) ELSE chosen, <<>>, s)

\* f with the value at key, whether it had one or not.
Entered(f, key, value) ==
    [k \in DOMAIN f \cup {key} |-> IF k = key THEN value ELSE f[k]]

\* All that f and g have, with the value of f where both have one.
Overlay(f, g) == [k \in DOMAIN f \cup DOMAIN g |-> IF k \in DOMAIN f THEN f[k] ELSE g[k]]
=============================================================================
