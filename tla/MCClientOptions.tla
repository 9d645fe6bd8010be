--------------------------- MODULE MCClientOptions ---------------------------
(* Three clients and three security objects for ClientOptions. *)
EXTENDS ClientOptions

CONSTANTS plain, algorithm, excluding, soapenv, v, w

Options(valueKey, envelopeKey, overrideElementKey, ignored, disableCache) ==
    [valueKey |-> valueKey, envelopeKey |-> envelopeKey,
     overrideElementKey |-> overrideElementKey, ignoredNamespaces |-> ignored,
     disableCache |-> disableCache]

MCSymmetry == Permutations(Clients)

\* Namespaces that add to the default, with another overrideElementKey and without; options
\* of every kind; a private WSDL.
MCGiven ==
    {Options(None, None, None, [override |-> FALSE, namespaces |-> {v}], FALSE),
     Options(w, None, w, [override |-> TRUE, namespaces |-> {}], FALSE),
     Options(v, soapenv, v, [override |-> TRUE, namespaces |-> {v}], FALSE),
     Options(v, soapenv, None, None, TRUE)}

MCSignerOptions ==
    plain :> [sha256 |-> FALSE, timestamp |-> TRUE, additional |-> <<"To">>, excluded |-> {}]
    @@ algorithm :> [sha256 |-> TRUE, timestamp |-> TRUE, additional |-> <<>>,
                     excluded |-> {"Body"}]
    @@ excluding :> [sha256 |-> FALSE, timestamp |-> FALSE, additional |-> <<"To", "To">>,
                     excluded |-> {"Body"}]
=============================================================================
