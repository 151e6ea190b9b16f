------------------------------ MODULE Versions ------------------------------
(***************************************************************************)
(* Protocol versions as they are spelled and as they are ordered, and the  *)
(* two negotiations of the package: handshake.negotiate on spellings and   *)
(* version.negotiate on parsed versions.  No state.                        *)
(*                                                                         *)
(* A spelling is its list of dot-separated components.  Of a component     *)
(* matters what int() makes of it and how it is written:                   *)
(*   written   "plain", "zeros" (leading zeros), "other" (a sign, blanks,  *)
(*             underscores: accepted by int() all the same), or "word"     *)
(*             (refused by int(); its number means nothing)                *)
(***************************************************************************)
EXTENDS Integers, Sequences

Component == [number : Int, written : {"plain", "zeros", "other", "word"}]

\* _version_tuple returns, else it raises ValueError.  ProtocolVersion.parse
\* does the same, and refuses "zeros" too.
HasTuple(spelling) ==
    /\ Len(spelling) = 3
    /\ \A i \in 1 .. 3 : spelling[i].written # "word" /\ spelling[i].number >= 0

\* What both return: a tuple, or a ProtocolVersion with the same order.
Numbers(spelling) == <<spelling[1].number, spelling[2].number, spelling[3].number>>

Triple == Nat \X Nat \X Nat

\* The order of tuples, and of ProtocolVersion (order=True).
Below(v, w) ==
    \/ v[1] < w[1]
    \/ v[1] = w[1] /\ v[2] < w[2]
    \/ v[1] = w[1] /\ v[2] = w[2] /\ v[3] < w[3]

Elements(list) == {list[i] : i \in DOMAIN list}

-----------------------------------------------------------------------------
(* version.py: the registry of known versions, and a choice between sets of *)
(* parsed versions.  An entry keeps the spelling under which a provider     *)
(* lists the version: str() of a ProtocolVersion, or a string of its own.   *)

Entry ==
    [spelling : Seq(Component),
     status : {"experimental", "stable", "deprecated", "removed"}]

\* supported_versions, as positions in the registry.
SupportedAt(registry) == {i \in DOMAIN registry : registry[i].status # "removed"}

NoVersion == <<>>

\* negotiate: the highest of the overlap, or None.
HighestCommon(clientSupported, serverSupported) ==
    LET overlap == clientSupported \intersect serverSupported
    IN IF overlap = {} THEN NoVersion
       ELSE CHOOSE v \in overlap : \A w \in overlap : ~Below(v, w)

-----------------------------------------------------------------------------
(* handshake.negotiate on spellings; the server's list is supported_versions. *)

\* Faulty variant: a deprecated version is announced but no longer agreed on.
CommonNotDeprecated(offered, registry) ==
    {i \in SupportedAt(registry) :
        registry[i].spelling \in Elements(offered) /\ registry[i].status # "deprecated"}

\* common_versions, as positions in the registry.
CommonAt(offered, registry) ==
    {i \in SupportedAt(registry) : registry[i].spelling \in Elements(offered)}

\* Faulty variant: the offered versions are converted before they are compared.
RaisesOnAnyOffered(offered, registry) ==
    \E i \in DOMAIN offered : ~HasTuple(offered[i])

\* max() calls its key on every common version and passes on its ValueError.
NegotiationRaises(offered, registry) ==
    \E i \in CommonAt(offered, registry) : ~HasTuple(registry[i].spelling)

\* Faulty variant: the first common version listed is taken.
FirstListed(offered, registry) ==
    LET common == CommonAt(offered, registry)
    IN IF common = {} THEN NoVersion
       ELSE registry[CHOOSE i \in common : \A j \in common : i <= j].spelling

\* max(): the first of the largest.
SelectedVersion(offered, registry) ==
    LET common == CommonAt(offered, registry)
        numbers(i) == Numbers(registry[i].spelling)
        largest == {i \in common : \A j \in common : ~Below(numbers(i), numbers(j))}
    IN IF common = {} THEN NoVersion
       ELSE registry[CHOOSE i \in largest : \A j \in largest : i <= j].spelling

=============================================================================
