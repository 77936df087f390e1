---------------------------- MODULE MCMigration ----------------------------
EXTENDS Migration, TLC

CONSTANTS f, k1, k2, b1, b2, p1, p2, ca, crt, none

MCKeys == {f, k1, k2, b1, b2}
MCName == [k \in MCKeys |-> CASE k = f -> "F" [] k \in {k1, b1} -> "A" [] k = b2 -> "B" [] k = k2 -> "C"]
MCAddr == [k \in MCKeys |-> CASE k = f -> 9 [] k \in {k1, b2} -> 1 [] k \in {k2, b1} -> 2]
MCForeign == {f}
MCKnown == {k1}
MCBundleKeys == {b1, b2}
MCBundles == {<<b1, b2>>, <<b2, b1>>}
MCOvpnKeys == {b1, b2}
MCPkiFiles == {ca, crt}
MCKinds == {[full |-> TRUE, apply |-> TRUE, opt |-> FALSE], [full |-> TRUE, apply |-> TRUE, opt |-> TRUE],
            [full |-> TRUE, apply |-> FALSE, opt |-> FALSE], [full |-> FALSE, apply |-> TRUE, opt |-> FALSE]}
MCProcs == {p1, p2}
Symmetry == Permutations(MCProcs)
=============================================================================
