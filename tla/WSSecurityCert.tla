---------------------------- MODULE WSSecurityCert ----------------------------
(***************************************************************************)
(* The references of a WS-Security signer (src/security/WSSecurityCert.ts   *)
(* and WSSecurityCertWithToken.ts): what of a message postProcess asks      *)
(* SignedXml to sign.  They stay with the signer from one message to the    *)
(* next, so every message is signed with those of the earlier ones as well. *)
(***************************************************************************)
EXTENDS Integers, SequencesExt

CONSTANTS
    Signers,    \* security objects
    SignerOptions, \* [Signers -> IWSSecurityCertOptions]
    Keys,       \* envelope keys
    NoKey

\* What is read of the options.  WSSecurityCertWithToken has no excludeReferencesFromSigning;
\* WSSecurityPlusCert signs with the WSSecurityCert it is given.
OptionsType(headers) ==
    [sha256    : BOOLEAN,       \* signatureAlgorithm is given, and rsa-sha256
     timestamp : BOOLEAN,       \* hasTimeStamp
     additional : Seq(headers), \* additionalReferences
     excluded   : SUBSET (headers \cup {"Body", "Timestamp"})]

\* The xpath of a reference: a node by its name, the Body by that in one envelope key.
Node(name) == [name |-> name, key |-> NoKey]
Body(key) == [name |-> "Body", key |-> key]
Placeholder == Node("[[bodyXpath]]")

\* The signer as it is constructed: a Body to be named by the first message.
NewReferences(s) == IF SignerOptions[s].sha256 THEN <<Placeholder>> ELSE <<>>

\* resolvePlaceholderInReferences
Resolve(refs, key) == [i \in DOMAIN refs |-> IF refs[i] = Placeholder THEN Body(key) ELSE refs[i]]

\* Mutant: a reference that is there is added again.
AddAgain(s, refs, ref) ==
    IF ref.name \in SignerOptions[s].excluded THEN refs ELSE Append(refs, ref)

\* A reference to ref unless it is excluded or there.
AddOnce(s, refs, ref) ==
    IF ref.name \in SignerOptions[s].excluded \/ ref \in ToSet(refs) THEN refs
    ELSE Append(refs, ref)

\* Mutant: the references are begun anew for each message.
ReferencesAnew(s, refs, key) ==
    LET o == SignerOptions[s]
        body == AddOnce(s, Resolve(NewReferences(s), key), Body(key))
        named == FoldLeft(LAMBDA r, h : AddOnce(s, r, Node(h)), body, o.additional)
    IN  IF o.timestamp THEN AddOnce(s, named, Node("Timestamp")) ELSE named

\* The references a message with this key is signed with: what postProcess does to those
\* the signer has.
References(s, refs, key) ==
    LET o == SignerOptions[s]
        body == AddOnce(s, Resolve(refs, key), Body(key))
        named == FoldLeft(LAMBDA r, h : AddOnce(s, r, Node(h)), body, o.additional)
    IN  IF o.timestamp THEN AddOnce(s, named, Node("Timestamp")) ELSE named

\* computeSignature throws when a reference finds no node.  A message has a Body in its own
\* key, the headers that were added to it and, from postProcess, the Timestamp.
Signable(refs, key, headers) ==
    \A ref \in ToSet(refs) : ref = Body(key) \/ ref.name \in headers \cup {"Timestamp"}
=============================================================================
