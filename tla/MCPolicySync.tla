---------------------------- MODULE MCPolicySync ----------------------------
(* Two binaries, a prefix over both and a longer one over the first.       *)
EXTENDS PolicySync

MCPaths == {"/opt/a/x", "/opt/y"}
MCPrefixes == {"/opt/", "/opt/a/"}
MCCovers == [q \in MCPrefixes |-> IF q = "/opt/" THEN MCPaths ELSE {"/opt/a/x"}]
MCLength == [q \in MCPrefixes |-> IF q = "/opt/" THEN 5 ELSE 7]

MCRules == ((MCPaths \cup MCPrefixes) \X {1}) \cup ((MCPrefixes \cup {"/opt/a/x"}) \X {2})
(* Every policy of up to two of these BLOCK rules; with enforcement off,   *)
(* one that keeps a rule and one that drops all.                           *)
SmallPolicies ==
    [rules : {R \in SUBSET MCRules : Cardinality(R) <= 2}, enforce : {TRUE}]
        \cup [rules : {{}, {<<"/opt/", 1>>}}, enforce : {FALSE}]
=============================================================================
