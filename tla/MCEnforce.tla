----------------------------- MODULE MCEnforce -----------------------------
(***************************************************************************)
(* Instances of Enforce for TLC.  The pools are disjoint small numbers.    *)
(***************************************************************************)
EXTENDS Enforce

CONSTANTS l1, nobody, h1, h2, c1, a1, a2

OneUser == {1}
TwoUsers == {1, 2}
OneWgIP == {11}
OneOvpnIP == {21}
TwoOvpnIPs == {21, 22}
NoQuota == {0}
SmallQuota == {0, 1}
OneHandler == {h1}
TwoHandlers == {h1, h2}
NoHandler == {}
NoCli == {}
OneCli == {c1}
RxTx == {"rx", "tx"}
OvpnOnly == {"ovpn"}
RxOnly == {"rx"}
NoAttacher == {}
OneAttacher == {a1}
TwoAttachers == {a1, a2}
NoStreams == {}
OvpnOps == {"createOvpn", "attach", "recharge"}
PolicyOps == {"create", "attach", "detach", "delete", "enable"}
LiveOps == {"create", "renew", "quota", "cli", "recharge", "sync"}
CliResetOps == {"create", "cliRecharge"}
CliTickOps == {"create"}
CliPolicyOps == {"create", "delete", "enable", "cli", "cliRecharge"}
=============================================================================
