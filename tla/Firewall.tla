------------------------------ MODULE Firewall ------------------------------
(***************************************************************************)
(* The copies of iptables rules that let a firewall treat a widened pool   *)
(* as it treated the narrow one.  A chain is a sequence of rules; a rule   *)
(* has a network, perhaps negated, the other things it asks of a packet,   *)
(* taken together as a set of packet classes, and a target.                *)
(***************************************************************************)
EXTENDS Naturals, Sequences
Ext == INSTANCE SequencesExt

Rules(nets, classes, targets) ==
  [net : nets, neg : BOOLEAN, classes : SUBSET classes, target : targets]

\* The commands for the rules that mention the network: where the copy goes, and the copy.
\* A negated rule is left to the operator.
WidenRuleArgs(chain, old, new) ==
  {[pos |-> i, rule |-> [chain[i] EXCEPT !.net = new]] :
     i \in {i \in 1 .. Len(chain) : chain[i].net = old /\ ~chain[i].neg}}

\* The mutant of Comes forgets that an insertion moves what comes after it.
FirstComes(c, cmds) == \A d \in cmds : c.pos <= d.pos

\* Last rule first, so that the positions of the others stay right.
Comes(c, cmds) == \A d \in cmds : d.pos <= c.pos

\* `iptables -C`, then `iptables -I`, which refuses a place behind a chain that has become shorter.
Present(chain, rule) == \E i \in 1 .. Len(chain) : chain[i] = rule
Insert(chain, c) ==
  IF Present(chain, c.rule) \/ c.pos > Len(chain) + 1 THEN chain ELSE Ext!InsertAt(chain, c.pos, c.rule)
=============================================================================
