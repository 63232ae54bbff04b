------------------------ MODULE MCResourceIntegrity ------------------------
(* Instances of ResourceIntegrity for TLC: two users of an application, an    *)
(* account with the same address for each, one HSM module, two of its slots   *)
(* for the application, and one of the two for a second application.          *)
EXTENDS ResourceIntegrity

\* key |-> <<kind, parents, preloaded id or 0>>
Catalog ==
    [app  |-> <<"application", <<>>>>,
     usr  |-> <<"user", <<"app">>>>,
     usr2 |-> <<"user", <<"app">>>>,
     acc  |-> <<"account", <<"usr">>>>,
     acc2 |-> <<"account", <<"usr2">>>>,
     accB |-> <<"account", <<"usr">>>>,
     hsm  |-> <<"module", <<>>>>,
     slt  |-> <<"slot", <<"app", "hsm">>>>,
     slt2 |-> <<"slot", <<"app", "hsm">>>>,
     app2 |-> <<"application", <<>>>>,
     slt3 |-> <<"slot", <<"app2", "hsm">>>>]

CONSTANT Chosen     \* the part of the catalog an instance uses

MCKindOf == [r \in Chosen |-> Catalog[r][1]]
MCParentsOf == [r \in Chosen |-> Catalog[r][2]]
MCAddressOf == [r \in {s \in Chosen : Catalog[s][1] = "account"} |->
                   IF r = "accB" THEN "addrB" ELSE "addrA"]
MCSlotOf == [r \in {s \in Chosen : Catalog[s][1] = "slot"} |-> IF r = "slt2" THEN 2 ELSE 1]

\* Preloaded resources get the ids 1, 2, ... in catalog order.
Order == <<"app", "usr", "usr2", "hsm", "slt", "acc", "acc2", "accB", "slt2", "app2", "slt3">>
Position(r) == CHOOSE i \in DOMAIN Order : Order[i] = r
MCPreloadedIid == [r \in Preloaded |-> Cardinality({s \in Preloaded : Position(s) <= Position(r)})]
MCFirstIid == Cardinality(Preloaded) + 1
=============================================================================
