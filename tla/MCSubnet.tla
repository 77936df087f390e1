------------------------------ MODULE MCSubnet ------------------------------
(***************************************************************************)
(* An instance of Subnet for TLC: addresses of six bits and octets of      *)
(* eight, so a pool of length 3 is the program's /24, 4 its /25, and the   *)
(* widest pool, of length 1, is half of the address space.                 *)
(***************************************************************************)
EXTENDS Subnet, TLC

CONSTANTS u1, u2

TwoUsers == {u1, u2}
WideAndWider == {1, 2}
MCClasses == {"new", "reply"}
Rule(net, classes, target) == [net |-> net, neg |-> FALSE, classes |-> classes, target |-> target]
Anywhere == Net(0, 0)
\* Both pools in one chain: around a rule for every address, or with a negated rule.
Around(wg, ov) ==
  <<Rule(wg, {"reply"}, "ACCEPT"), Rule(Anywhere, {"new"}, "DROP"), Rule(wg, MCClasses, "ACCEPT"),
    Rule(ov, {"reply"}, "ACCEPT")>>
Negated(wg, ov) ==
  <<Rule(wg, {"new"}, "ACCEPT"), [Rule(ov, {"reply"}, "DROP") EXCEPT !.neg = TRUE],
    Rule(wg, MCClasses, "DROP")>>
Chains(w, ov) == IF w.len = 4 THEN {Negated(NetOf(w), ov)} ELSE {Around(NetOf(w), ov)}
Apart ==
  {p \in {[srv |-> 1, len |-> 3], [srv |-> 13, len |-> 4], [srv |-> 41, len |-> 3]}
         \X {Net(8, 3), Net(16, 2), Net(24, 4), Net(32, 3)} : ~NetsOverlap(NetOf(p[1]), p[2])}
Install(wg, ov, rules, routes, unit, users) ==
  [wg |-> wg, ov |-> ov, chain |-> rules, host |-> routes, unit |-> unit, users |-> users]
\* A whole octet each, or half of one beside a wider OpenVPN pool whose server cannot be restarted.
Peopled ==
  {Install([srv |-> 1, len |-> 3], Net(32, 3), <<>>, {}, TRUE, Users),
   Install([srv |-> 13, len |-> 4], Net(32, 2), <<>>, {}, FALSE, Users)}
AllHosts ==
  {{}, {[dev |-> "tun", net |-> Net(16, 3)]}, {[dev |-> "eth", net |-> Net(32, 1)]},
   {[dev |-> "eth", net |-> Net(10, 6)], [dev |-> "eth", net |-> Net(20, 4)]},
   {[dev |-> "eth", net |-> Net(0, 2)], [dev |-> "eth", net |-> Net(16, 3)]}}
Placed == {Install(p[1], p[2], <<>>, h, TRUE, {}) : p \in Apart, h \in AllHosts}
Ruled == UNION {{Install(p[1], p[2], c, {}, TRUE, {}) : c \in Chains(p[1], p[2])} : p \in Apart}
AllInstalls == Peopled \cup Placed \cup Ruled
Symmetry == Permutations({u1, u2})
=============================================================================
