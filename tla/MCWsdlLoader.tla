----------------------------- MODULE MCWsdlLoader -----------------------------
(* A small web of documents for the loader. *)
EXTENDS WsdlLoader

CONSTANTS c1, c2, root, mid, leaf, outer, late, bad, n1, n2

\* A schema element, own target namespace or borrowed from its first include.
Sch(ns, own, includes) == [ns |-> ns, own |-> own, includes |-> includes]
Doc(inline, parses, completes, parts) ==
    [inline |-> inline, parses |-> parses, completes |-> completes, parts |-> parts]

\* root is XML text given as the url: it imports mid, and of its two schemas of one namespace
\* the second is dropped, so that bad, which does not parse, is out of its reach.  mid and
\* leaf include one another, mid itself too.  outer includes late, whose post-processing fails.
MCDocument == [f \in {root, mid, leaf, outer, late, bad} |->
    CASE f = root  -> Doc(TRUE, TRUE, TRUE, << <<Sch(n1, TRUE, <<mid>>)>>,
                                               <<Sch(n2, TRUE, <<leaf>>), Sch(n2, FALSE, <<bad>>)>> >>)
      [] f = mid   -> Doc(FALSE, TRUE, TRUE, << <<Sch(n1, TRUE, <<leaf, mid>>)>> >>)
      [] f = leaf  -> Doc(FALSE, TRUE, TRUE, << <<Sch(n2, TRUE, <<mid>>), Sch(n1, TRUE, <<>>)>> >>)
      [] f = outer -> Doc(FALSE, TRUE, TRUE, << <<Sch(n2, FALSE, <<leaf, late>>)>> >>)
      [] f = late  -> Doc(FALSE, TRUE, FALSE, << <<Sch(n1, TRUE, <<leaf>>)>> >>)
      [] f = bad   -> Doc(FALSE, FALSE, TRUE, <<>>)]
=============================================================================
