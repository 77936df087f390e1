------------------------------- MODULE Subnet -------------------------------
(***************************************************************************)
(* The two address pools of a host and `wgmgr expand-subnet`, which widens *)
(* them in place: the plan with its conflicts, then one step after the     *)
(* other on wg0.conf, the interface, server.conf, the CCD files and        *)
(* config.json, while the panel goes on handing out addresses.  A command  *)
(* that dies leaves what it did; it may be run again.                      *)
(*                                                                         *)
(* An address is a number of Bits bits, a last octet takes Octet values;   *)
(* the program has 32 and 256.                                             *)
(***************************************************************************)
EXTENDS Integers, FiniteSets, Firewall

CONSTANTS
  Bits, Octet,
  MinPrefix,  \* minExpandPrefix
  Prefixes,   \* values of --prefix
  Users,
  Installs,   \* what it begins with: wg |-> [srv, len], ov |-> net, chain |-> rules, host |-> other
              \* routes and addresses, each [dev, net], unit |-> is there an OpenVPN unit that the
              \* program knows and restarts?, users |-> bound: who may come
  Classes,    \* packet classes that rules of the firewall tell apart
  MaxFaults   \* bound: commands that die half-way

Addresses == 0 .. 2^Bits - 1
NoIP == 0                               \* never allocatable

Size(len) == 2^(Bits - len)
Net(a, len) == [base |-> a - (a % Size(len)), len |-> len]
NetOf(i) == Net(i.srv, i.len)
Nets == {Net(a, len) : a \in Addresses, len \in 0 .. Bits}
Ifaces == [srv : Addresses, len : 0 .. Bits]

Contains(n, a) == n.base <= a /\ a < n.base + Size(n.len)
NetsOverlap(a, b) == Contains(a, b.base) \/ Contains(b, a.base)

ASSUME SubnetAssumption ==
  /\ Bits \in Nat /\ Octet \in Nat \ {0} /\ MinPrefix \in 0 .. Bits /\ MaxFaults \in Nat
  /\ Prefixes \subseteq 0 .. Bits
  /\ \A p \in Installs : /\ p.unit \in BOOLEAN /\ p.wg \in Ifaces /\ p.ov \in Nets /\ ~NetsOverlap(NetOf(p.wg), p.ov)
                         /\ p.chain \in Seq(Rules(Nets, Classes, {"ACCEPT", "DROP"}))
                         /\ \A e \in p.host : e.net \in Nets

\* Arithmetic that the provers do not know of 2^n.
ASSUME PowersAssumption ==
  Size(Bits) = 1 /\ \A len \in 0 .. Bits - 1 : Size(len) = 2 * Size(len + 1)

VARIABLES
  wgConf,    \* Address of wg0.conf: the server's address and the prefix length
  wgLive,    \* addresses of the running interface
  ovCfg,     \* ovpn_subnet of config.json
  ovConf,    \* the server line of server.conf
  ovLive,    \* the network the OpenVPN server runs with
  wgIP, ovIP,\* the users' addresses
  ccd,       \* the prefix length of the mask a user's CCD file pushes
  att,       \* each user's attach: what it does next, the ovpn_subnet it loaded, its address
  host,      \* the host's other routes and addresses
  chain,     \* a chain of iptables rules
  job,       \* the command: progress, what it widens, CCD files and rules still to write
  faults,
  start,     \* history: the installation
  late,      \* history: users an attach gave the mask of a pool that was widened meanwhile
  raced,     \* history: users attached at once, both picking before either was recorded
  restored   \* history: has a restart of the firewall dropped copies?

wireguard == <<wgConf, wgLive>>
openvpn == <<ovCfg, ovConf, ovLive>>
people == <<wgIP, ovIP, ccd, att, late, raced>>
world == <<host, start>>
firewall == <<chain, restored>>
vars == <<wireguard, openvpn, people, world, firewall, job, faults>>

Least(S) == CHOOSE x \in S : \A y \in S : x <= y

(***************************************************************************)
(* Addresses and networks.                                                 *)
(***************************************************************************)
HostAllocatable(a, n) ==
  /\ Contains(n, a)
  /\ a % Octet \notin {0, Octet - 1}
  /\ a \notin {n.base, n.base + Size(n.len) - 1}

FreeHosts(n, used) == {a \in n.base .. n.base + Size(n.len) - 1 : HostAllocatable(a, n)} \ used

OvServer(n) == n.base + 1

(***************************************************************************)
(* The plan.                                                               *)
(***************************************************************************)
\* What `ip route` and `ip addr` list: the tunnels that are up and the rest.
Entries(tun) == host \cup {[dev |-> "wg", net |-> NetOf(i)] : i \in wgLive}
                     \cup {[dev |-> "tun", net |-> n] : n \in IF tun THEN {ovLive} ELSE {}}

PoolDevs(pool, entries) ==
  {e.dev : e \in {e \in entries : e.net.len >= pool.len /\ Contains(pool, e.net.base)}}

\* The mutant of SubnetConflicts looks at the pool before the widening.
ConflictsBefore(old, new, own, entries) ==
  {e \in entries : e.dev \notin own /\ NetsOverlap(old, e.net)}

SubnetConflicts(old, new, own, entries) ==
  {e \in entries : e.dev \notin own /\ ~NetsOverlap(old, e.net) /\ NetsOverlap(new, e.net)}

\* widenCIDR changes nothing when the pool is that wide already.
WgWide(prefix) == [wgConf EXCEPT !.len = IF @ > prefix THEN prefix ELSE @]

\* The mutant of OvWide shortens the prefix and keeps the address as it is written.
OvWideUnmasked(prefix) ==
  IF ovCfg.len > prefix THEN [base |-> ovCfg.base, len |-> prefix] ELSE ovCfg

OvWide(prefix) == IF ovCfg.len > prefix THEN Net(ovCfg.base, prefix) ELSE ovCfg

WgHostClash(new, entries) ==
  SubnetConflicts(NetOf(wgConf), new, PoolDevs(NetOf(wgConf), entries) \cup {"wg"}, entries) # {}
OvHostClash(new, entries) == SubnetConflicts(ovCfg, new, PoolDevs(ovCfg, entries), entries) # {}

\* The mutant of WgClash leaves the OpenVPN pool out.
WgClashHostOnly(prefix, entries) == WgHostClash(NetOf(WgWide(prefix)), entries)

WgClash(prefix, entries) ==
  LET new == NetOf(WgWide(prefix)) IN
  \/ WgHostClash(new, entries)
  \/ NetsOverlap(new, ovCfg) \/ NetsOverlap(new, OvWide(prefix))

\* The mutant of OvClash lets the server move to the first address of the wide pool.
OvClashMoving(prefix, entries) ==
  LET new == OvWide(prefix) IN
  \/ OvHostClash(new, entries)
  \/ NetsOverlap(new, NetOf(wgConf)) \/ NetsOverlap(new, NetOf(WgWide(prefix)))

\* OpenVPN's server takes the first host of its network, so a pool that is not aligned
\* to the new prefix would move it.
OvClash(prefix, entries) ==
  LET new == OvWide(prefix) IN
  \/ OvServer(ovCfg) # OvServer(new)
  \/ OvHostClash(new, entries)
  \/ NetsOverlap(new, NetOf(wgConf)) \/ NetsOverlap(new, NetOf(WgWide(prefix)))

NoAttach == [pc |-> "none", net |-> Net(0, Bits), ip |-> NoIP]

Stop == job' = [job EXCEPT !.pc = "idle", !.todo = {}, !.copies = {}]
Goto(pc) == job' = [job EXCEPT !.pc = pc]
AfterWg(j) == IF j.ov # ovCfg THEN "serverConf" ELSE "idle"

Init ==
  /\ start \in Installs
  /\ wgConf = start.wg /\ wgLive = {start.wg}
  /\ ovCfg = start.ov /\ ovConf = start.ov /\ ovLive = start.ov
  /\ wgIP = [u \in Users |-> NoIP] /\ ovIP = [u \in Users |-> NoIP]
  /\ ccd = [u \in Users |-> 0] /\ att = [u \in Users |-> NoAttach]
  /\ host = start.host
  /\ chain = start.chain
  /\ job = [pc |-> "idle", old |-> start.wg, wg |-> start.wg, oldOv |-> start.ov, ov |-> start.ov,
            todo |-> {}, copies |-> {}]
  /\ faults = 0 /\ late = {} /\ raced = {} /\ restored = FALSE

\* Without --auto any conflict refuses the command; with it the pool in conflict is left alone.
ExpandSubnet ==
  /\ job.pc = "idle"
  /\ \E prefix \in {p \in Prefixes : p >= MinPrefix}, auto, tun \in BOOLEAN :
       LET wgBad == WgWide(prefix) # wgConf /\ WgClash(prefix, Entries(tun))
           ovBad == OvWide(prefix) # ovCfg /\ OvClash(prefix, Entries(tun))
           wg == IF wgBad THEN wgConf ELSE WgWide(prefix)
           ov == IF ovBad THEN ovCfg ELSE OvWide(prefix)
       IN /\ auto \/ ~(wgBad \/ ovBad)
          /\ wg # wgConf \/ ov # ovCfg
          /\ job' = [pc |-> IF wg # wgConf THEN "wgConf" ELSE "serverConf",
                     old |-> wgConf, wg |-> wg, oldOv |-> ovCfg, ov |-> ov, todo |-> {}, copies |-> {}]
  /\ UNCHANGED <<wireguard, openvpn, people, world, firewall, faults>>

(***************************************************************************)
(* expandWireGuard: the file by rename, the wide address, the narrow one.  *)
(***************************************************************************)
RewriteWgConf ==
  /\ job.pc = "wgConf"
  /\ wgConf' = job.wg
  /\ Goto("addrAdd")
  /\ UNCHANGED <<wgLive, openvpn, people, world, firewall, faults>>

\* The mutant of AddrAdd leaves the interface to the next boot.
AddrSkipped ==
  /\ job.pc = "addrAdd"
  /\ Goto("addrDel")
  /\ UNCHANGED <<wireguard, openvpn, people, world, firewall, faults>>

AddrAdd ==
  /\ job.pc = "addrAdd"
  /\ wgLive' = wgLive \cup {job.wg}
  /\ Goto("addrDel")
  /\ UNCHANGED <<wgConf, openvpn, people, world, firewall, faults>>

\* `ip addr del` may fail with a warning.
AddrDel ==
  /\ job.pc = "addrDel"
  /\ wgLive' \in {wgLive, wgLive \ {job.old}}
  /\ Goto("wgRules")
  /\ UNCHANGED <<wgConf, openvpn, people, world, firewall, faults>>

(***************************************************************************)
(* expandOpenVPN: server.conf, every CCD file, config.json, the restart.   *)
(***************************************************************************)
\* The mutant of RewriteServerConf records the new subnet first.
SaveFirst ==
  /\ job.pc = "serverConf"
  /\ ovConf' = job.ov /\ ovCfg' = job.ov
  /\ Goto("readPeers")
  /\ UNCHANGED <<wireguard, ovLive, people, world, firewall, faults>>

RewriteServerConf ==
  /\ job.pc = "serverConf"
  /\ ovConf' = job.ov
  /\ Goto("readPeers")
  /\ UNCHANGED <<wireguard, ovCfg, ovLive, people, world, firewall, faults>>

ReadPeers ==
  /\ job.pc = "readPeers"
  /\ job' = [job EXCEPT !.pc = "ccd", !.todo = {u \in Users : ovIP[u] # NoIP /\ ccd[u] # 0}]
  /\ UNCHANGED <<wireguard, openvpn, people, world, firewall, faults>>

RewriteCCD ==
  /\ job.pc = "ccd"
  /\ \E u \in job.todo : /\ ccd' = [ccd EXCEPT ![u] = job.ov.len] /\ late' = late \ {u}
                         /\ job' = [job EXCEPT !.todo = @ \ {u}]
  /\ UNCHANGED <<wireguard, openvpn, wgIP, ovIP, att, raced, world, firewall, faults>>

SaveSubnet ==
  /\ job.pc = "ccd" /\ job.todo = {}
  /\ ovCfg' = job.ov
  /\ late' = late \cup {u \in Users : att[u].pc # "none"}
  /\ Goto("ovRules")
  /\ UNCHANGED <<wireguard, ovConf, ovLive, wgIP, ovIP, ccd, att, raced, world, firewall, faults>>

(***************************************************************************)
(* widenFirewall, the end of both widenings.                               *)
(***************************************************************************)
ReadRules ==
  /\ \/ /\ job.pc = "wgRules"
        /\ job' = [job EXCEPT !.pc = "wgCopies",
                              !.copies = WidenRuleArgs(chain, NetOf(job.old), NetOf(job.wg))]
     \/ /\ job.pc = "ovRules"
        /\ job' = [job EXCEPT !.pc = "ovCopies", !.copies = WidenRuleArgs(chain, job.oldOv, job.ov)]
  /\ UNCHANGED <<wireguard, openvpn, people, world, firewall, faults>>

\* A copy that iptables refuses gets a warning.
CopyRule ==
  /\ job.pc \in {"wgCopies", "ovCopies"}
  /\ \E c \in job.copies :
       /\ Comes(c, job.copies)
       /\ \/ chain' = Insert(chain, c) /\ faults' = faults
          \/ chain' = chain /\ faults < MaxFaults /\ faults' = faults + 1
       /\ job' = [job EXCEPT !.copies = @ \ {c}]
  /\ UNCHANGED <<wireguard, openvpn, people, world, restored>>

AfterRules ==
  /\ job.pc \in {"wgCopies", "ovCopies"} /\ job.copies = {}
  /\ Goto(IF job.pc = "ovCopies" THEN "restart" ELSE AfterWg(job))
  /\ UNCHANGED <<wireguard, openvpn, people, world, firewall, faults>>

\* A host without a unit the program knows is left with the server that runs.
RestartOpenvpn ==
  /\ job.pc = "restart"
  /\ ovLive' = IF start.unit THEN ovConf ELSE ovLive
  /\ Stop
  /\ UNCHANGED <<wireguard, ovCfg, ovConf, people, world, firewall, faults>>

\* Any step may die (a file, `ip addr add`), the operator interrupt it, or the restart of
\* OpenVPN fail with a warning.
Dies ==
  /\ job.pc # "idle" /\ faults < MaxFaults
  /\ faults' = faults + 1
  /\ Stop
  /\ UNCHANGED <<wireguard, openvpn, people, world, firewall>>

(***************************************************************************)
(* Meanwhile: users are created and attached, OpenVPN restarts, the host   *)
(* boots with what the files say.                                          *)
(***************************************************************************)
\* The mutant of NextFreeIP forgets that the server has an address.
NextFreeNoServer(u) ==
  LET free == FreeHosts(NetOf(wgConf), {wgIP[v] : v \in Users}) IN
  /\ u \in start.users /\ wgIP[u] = NoIP /\ free # {}
  /\ wgIP' = [wgIP EXCEPT ![u] = Least(free)]
  /\ UNCHANGED <<wireguard, openvpn, ovIP, ccd, att, late, raced, world, firewall, job, faults>>

NextFreeIP(u) ==
  LET free == FreeHosts(NetOf(wgConf), {wgConf.srv} \cup {wgIP[v] : v \in Users}) IN
  /\ u \in start.users /\ wgIP[u] = NoIP /\ free # {}
  /\ wgIP' = [wgIP EXCEPT ![u] = Least(free)]
  /\ UNCHANGED <<wireguard, openvpn, ovIP, ccd, att, late, raced, world, firewall, job, faults>>

\* An attach works with the ovpn_subnet config.json has when it begins, to its end.
LoadSubnet(u) ==
  /\ u \in start.users /\ ovIP[u] = NoIP /\ att[u].pc = "none"
  /\ att' = [att EXCEPT ![u] = [pc |-> "pick", net |-> ovCfg, ip |-> NoIP]]
  /\ late' = late \ {u}
  /\ UNCHANGED <<wireguard, openvpn, wgIP, ovIP, ccd, raced, world, firewall, job, faults>>

\* Two attaches that both picked before either was recorded saw the same addresses free.
OvpnNextFreeIP(u) ==
  LET net == att[u].net
      free == FreeHosts(net, {OvServer(net)} \cup {ovIP[v] : v \in Users})
      picked == {v \in Users : att[v].pc \in {"write", "record"}}
  IN
  /\ att[u].pc = "pick" /\ free # {}
  /\ att' = [att EXCEPT ![u] = [pc |-> "write", net |-> net, ip |-> Least(free)]]
  /\ raced' = IF picked = {} THEN raced ELSE raced \cup picked \cup {u}
  /\ UNCHANGED <<wireguard, openvpn, wgIP, ovIP, ccd, late, world, firewall, job, faults>>

WriteCCD(u) ==
  /\ att[u].pc = "write"
  /\ ccd' = [ccd EXCEPT ![u] = att[u].net.len]
  /\ att' = [att EXCEPT ![u].pc = "record"]
  /\ UNCHANGED <<wireguard, openvpn, wgIP, ovIP, late, raced, world, firewall, job, faults>>

\* A command that has read the rows already leaves the user's mask alone.
RecordIP(u) ==
  /\ att[u].pc = "record"
  /\ ovIP' = [ovIP EXCEPT ![u] = att[u].ip]
  /\ att' = [att EXCEPT ![u] = NoAttach]
  /\ late' = IF job.pc = "ccd" THEN late \cup {u} ELSE late
  /\ UNCHANGED <<wireguard, openvpn, wgIP, ccd, raced, world, firewall, job, faults>>

\* No address is free, a write fails, or the panel restarts.
AttachDies(u) ==
  /\ att[u].pc # "none"
  /\ att' = [att EXCEPT ![u] = NoAttach]
  /\ UNCHANGED <<wireguard, openvpn, wgIP, ovIP, ccd, late, raced, world, firewall, job, faults>>

\* A restart of the firewall brings back the rules of the installation without the copies,
\* which are in no file; the PostUp lines of wg0.conf, rewritten with its Address, insert theirs.
SavedRules(post) ==
  [i \in 1 .. Len(start.chain) |-> [start.chain[i] EXCEPT !.net = IF i \in post THEN NetOf(wgConf) ELSE @]]

RestoreRules ==
  \E post \in SUBSET {i \in 1 .. Len(start.chain) : start.chain[i].net = NetOf(start.wg)} :
    /\ chain' = SavedRules(post)
    /\ restored' = (restored \/ chain' # chain)

ReloadFirewall ==
  /\ RestoreRules
  /\ UNCHANGED <<wireguard, openvpn, people, world, job, faults>>

Boot ==
  /\ job.pc = "idle"
  /\ wgLive' = {wgConf} /\ ovLive' = ovConf
  /\ att' = [u \in Users |-> NoAttach]
  /\ RestoreRules
  /\ UNCHANGED <<wgConf, ovCfg, ovConf, wgIP, ovIP, ccd, late, raced, world, job, faults>>

Next ==
  \/ ExpandSubnet \/ RewriteWgConf \/ AddrAdd \/ AddrDel
  \/ RewriteServerConf \/ ReadPeers \/ RewriteCCD \/ SaveSubnet
  \/ ReadRules \/ CopyRule \/ AfterRules \/ RestartOpenvpn \/ Dies
  \/ ReloadFirewall \/ Boot
  \/ \E u \in Users : \/ NextFreeIP(u) \/ LoadSubnet(u) \/ OvpnNextFreeIP(u)
                       \/ WriteCCD(u) \/ RecordIP(u) \/ AttachDies(u)

Spec == Init /\ [][Next]_vars

(***************************************************************************)
(* Properties.                                                             *)
(***************************************************************************)
Pcs == {"idle", "wgConf", "addrAdd", "addrDel", "serverConf", "readPeers", "ccd", "restart",
        "wgRules", "ovRules", "wgCopies", "ovCopies"}
AttachPcs == {"none", "pick", "write", "record"}

\* Variables hold values of their kinds; the networks in the files are aligned to their length.
TypeOK ==
  /\ wgConf \in Ifaces /\ wgLive \in SUBSET Ifaces
  /\ ovCfg \in Nets /\ ovConf \in Nets /\ ovLive \in Nets
  /\ wgIP \in [Users -> Addresses] /\ ovIP \in [Users -> Addresses]
  /\ ccd \in [Users -> 0 .. Bits]
  /\ att \in [Users -> [pc : AttachPcs, net : Nets, ip : Addresses]]
  /\ start \in Installs /\ host = start.host /\ restored \in BOOLEAN
  /\ chain \in Seq(Rules(Nets, Classes, {"ACCEPT", "DROP"}))
  /\ job.pc \in Pcs /\ job.old \in Ifaces /\ job.wg \in Ifaces
  /\ job.oldOv \in Nets /\ job.ov \in Nets /\ job.todo \subseteq Users
  /\ faults \in 0 .. MaxFaults /\ late \in SUBSET Users /\ raced \in SUBSET Users

\* subnet.go:17-21: every user keeps a usable address.  Through widenings, also interrupted
\* ones, each address is a host of the pool the files and the servers work with, is not the
\* server's, and belongs to one user, unless two attaches both picked an OpenVPN address before
\* either was recorded (ovpn_pki.go:336-340; no index of the table forbids it).
AddressesUsable ==
  \A u \in Users :
    /\ wgIP[u] # NoIP =>
         /\ wgIP[u] # wgConf.srv
         /\ HostAllocatable(wgIP[u], NetOf(wgConf))
         /\ \A v \in Users \ {u} : wgIP[v] # wgIP[u]
    /\ ovIP[u] # NoIP =>
         /\ \A n \in {ovCfg, ovConf} : HostAllocatable(ovIP[u], n) /\ ovIP[u] # OvServer(n)
         /\ \A v \in Users \ {u} : ovIP[v] # ovIP[u] \/ {u, v} \subseteq raced

\* buildExpandPlan (subnet.go:388-393, 406-411): a command that widens both pools, one of
\* them, or finishes what an earlier one began never makes them overlap, in any file or on
\* any interface.
PoolsApart ==
  \A i \in wgLive \cup {wgConf}, n \in {ovCfg, ovConf, ovLive} : ~NetsOverlap(NetOf(i), n)

\* The devices of the host's own routes and addresses that meet a network.
DevsAt(net) == {e.dev : e \in {e \in host : NetsOverlap(net, e.net)}}

\* subnet.go:201-202: however often it is widened, a pool never comes to lie over a route or
\* address of a device that it did not meet when it was installed, the tunnel's own apart.
\* (A device whose route covered the pool counts as the pool's own after the first widening
\* that covers the route in turn: its other routes no longer refuse the second.)
NoNewClash ==
  \A e \in host :
    /\ NetsOverlap(NetOf(wgConf), e.net) => e.dev \in DevsAt(NetOf(start.wg)) \cup {"wg"}
    /\ NetsOverlap(ovConf, e.net) => e.dev \in DevsAt(start.ov) \cup {"tun"}

\* subnet.go:398-403: the OpenVPN server's own address never moves, in server.conf or live.
ServerStays == OvServer(ovConf) = OvServer(start.ov) /\ OvServer(ovLive) = OvServer(start.ov)

\* Unless a command died half-way, every user's address lies in a network of the running
\* interface or server once the command is over (subnet.go:549-561, 626-632); of the server if
\* the program knows a unit to restart.
Routed ==
  job.pc = "idle" /\ faults = 0 =>
    \A u \in Users :
      /\ wgIP[u] # NoIP => \E i \in wgLive : Contains(NetOf(i), wgIP[u])
      /\ ovIP[u] # NoIP /\ start.unit => Contains(ovLive, ovIP[u])

\* The order of expandOpenVPN (subnet.go:593-619): config.json names a pool only once
\* server.conf and the CCD files of all users who had one carry it, so a command that died
\* before is repeated in full.  Excepted are the users the command does not see: attached after
\* it read the rows, or by an attach that was under way when it saved; the next widening mends
\* their masks.
MasksFollow ==
  /\ ovConf.len <= ovCfg.len
  /\ \A u \in Users \ late : ovIP[u] # NoIP => ccd[u] <= ovCfg.len

\* What the chain does with a packet of an address and a class: its first rule that matches.
Verdict(rules, a, c) ==
  LET hit == {i \in 1 .. Len(rules) : c \in rules[i].classes /\ (Contains(rules[i].net, a) # rules[i].neg)}
  IN IF hit = {} THEN "policy" ELSE rules[Least(hit)].target

\* Pools for which a copy can do: no rule negates them, no two rules about them are the same, and
\* no other rule is about a part of the pool, wide, which tells its addresses apart, or about all
\* of it, which may be a copy that is there already, at another place.
Copyable(rules, net, wide) ==
  LET about == {i \in 1 .. Len(rules) : rules[i].net = net} IN
  /\ \A i \in about : ~rules[i].neg
  /\ \A i, j \in about : rules[i] = rules[j] => i = j
  /\ \A i \in (1 .. Len(rules)) \ about : NetsOverlap(rules[i].net, wide) => rules[i].net.len < wide.len

\* subnet.go:246-249: unless a command died or iptables refused a copy, the firewall does with
\* every address of a widened pool what it did with the narrow pool's, after one widening or
\* several, of one pool or both, if a copy can mirror the rules about the pool, and until a
\* restart of the firewall drops copies, as the command warns (subnet.go:316-320).
FirewallFollows ==
  job.pc = "idle" /\ faults = 0 /\ ~restored =>
    \A c \in Classes, a \in Addresses :
      /\ Contains(NetOf(wgConf), a) /\ Copyable(start.chain, NetOf(start.wg), NetOf(wgConf)) =>
           Verdict(chain, a, c) = Verdict(start.chain, start.wg.srv, c)
      /\ Contains(ovCfg, a) /\ Copyable(start.chain, start.ov, ovCfg) =>
           Verdict(chain, a, c) = Verdict(start.chain, start.ov.base, c)
=============================================================================
