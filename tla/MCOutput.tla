------------------------------- MODULE MCOutput -------------------------------
(* The extraction of MCExtractionOutput, and two calls that publish archives *)
(* of one or two parts: they share nothing, and one of the two models runs.  *)
EXTENDS MCExtractionOutput, ArchivePublication, TLC

Symmetric == Permutations(Calls) \cup Permutations(Destinations) \cup Permutations(TempNames)

VARIABLE side

MCCallKinds ==
    {[how |-> h, parts |-> 1] : h \in {"staged", "node"}}
    \cup {[how |-> h, parts |-> 2] : h \in {"node", "in place"}}

SomeCalls == CHOOSE k \in [Calls -> CallKinds] : TRUE
SomeTargets == CHOOSE t \in [Calls -> [AllParts -> Destinations]] :
                   \A c \in Calls : Injective(t[c], AllParts)

OutputInit ==
    /\ side \in {"extraction", "publication"}
    /\ Init /\ PublicationInit
    /\ side = "extraction" =>
        /\ callKind = SomeCalls /\ targetOf = SomeTargets
        /\ \A d \in Destinations : target[d] = NoFile
        /\ \A n \in DOMAIN temporary : temporary[n] = NoFile
    /\ side = "publication" =>
        /\ archive = CHOOSE a \in Archives : TRUE
        /\ overwrite = "never" /\ \A f \in Files : dest[f] = Gone

OutputNext ==
    \/ side = "extraction" /\ Next /\ UNCHANGED <<side, publicationVars>>
    \/ side = "publication" /\ PublicationNext /\ UNCHANGED <<side, extractVars>>

OutputSpec == OutputInit /\ [][OutputNext]_<<side, extractVars, publicationVars>>
=============================================================================
