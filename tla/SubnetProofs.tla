---------------------------- MODULE SubnetProofs ----------------------------
(***************************************************************************)
(* Proofs about Subnet, for addresses of any width, any pools, users,      *)
(* hosts and widths asked for, and any number of commands that die.        *)
(***************************************************************************)
EXTENDS Subnet, Minimum, SequenceTheorems

(***************************************************************************)
(* Products and remainders.                                                *)
(***************************************************************************)
LEMMA ConstantTypes == Bits \in Nat /\ Octet \in Nat \ {0} /\ MinPrefix \in 0 .. Bits /\ MaxFaults \in Nat
BY SubnetAssumption

\* Rounding an address down to a multiple of a size.
LEMMA Division ==
  ASSUME NEW a \in Nat, NEW s \in Nat \ {0}
  PROVE  /\ \E q \in Nat : a - (a % s) = q * s
         /\ a - (a % s) \in Nat /\ a - (a % s) <= a /\ a < (a - (a % s)) + s
<1>1. a % s \in 0 .. s - 1 /\ a = s * (a \div s) + (a % s) /\ a \div s \in Nat
  OBVIOUS
<1> DEFINE r == a % s
<1> DEFINE d == a \div s
<1> HIDE DEF r, d
<1>2. r \in 0 .. s - 1 /\ a = s * d + r /\ d \in Nat
  BY <1>1 DEF r, d
<1>3. d * s \in Nat /\ s * d = d * s
  BY <1>2
<1>4. r \in Nat /\ r < s /\ a = d * s + r
  BY <1>2, <1>3
<1>5. a - r = d * s /\ a - r \in Nat /\ a - r <= a /\ a < (a - r) + s
  BY <1>3, <1>4
<1> QED BY <1>2, <1>5 DEF r

LEMMA Distributes ==
  ASSUME NEW q \in Int, NEW s \in Int
  PROVE  (q + 1) * s = q * s + s
OBVIOUS

LEMMA ProductOrder ==
  ASSUME NEW q \in Int, NEW m \in Int, NEW s \in Nat \ {0}
  PROVE  (q <= m => q * s <= m * s) /\ (q * s < m * s => q < m)
OBVIOUS

\* Between two multiples of a size lies a whole size.
LEMMA NextMultiple ==
  ASSUME NEW q \in Int, NEW m \in Int, NEW s \in Nat \ {0}, q * s < m * s
  PROVE  q * s + s <= m * s
<1>1. q + 1 <= m /\ q + 1 \in Int
  BY ProductOrder
<1>2. (q + 1) * s <= m * s
  BY <1>1, ProductOrder
<1> QED BY <1>2, Distributes

(***************************************************************************)
(* Networks as intervals of numbers.                                       *)
(***************************************************************************)
\* A least counterexample would be twice a size that is a number.
LEMMA SizeType == \A len \in 0 .. Bits : Size(len) \in Nat \ {0}
<1> DEFINE Bad == {k \in 0 .. Bits : Size(Bits - k) \notin Nat \ {0}}
<1>a. \A len \in 0 .. Bits : Bits - len \in 0 .. Bits /\ Bits - (Bits - len) = len
  BY ConstantTypes
<1> SUFFICES ASSUME Bad # {} PROVE FALSE
  <2> SUFFICES ASSUME NEW len \in 0 .. Bits, Size(len) \notin Nat \ {0} PROVE Bad # {}
    OBVIOUS
  <2>1. Bits - len \in Bad
    BY <1>a
  <2> QED BY <2>1
<1>1. Bad \subseteq Nat /\ IsFiniteSet(Bad)
  <2>1. IsFiniteSet(0 .. Bits)
    BY ConstantTypes, FS_Interval
  <2>2. Bad \subseteq 0 .. Bits
    OBVIOUS
  <2> HIDE DEF Bad
  <2>3. IsFiniteSet(Bad)
    BY <2>1, <2>2, FS_Subset
  <2> QED BY <2>2, <2>3, ConstantTypes
<1>2. PICK k \in Bad : \A j \in Bad : k <= j
  <2> HIDE DEF Bad
  <2> QED BY <1>1, MinimumExists
<1>0. k \in 0 .. Bits /\ Size(Bits - k) \notin Nat \ {0}
  BY <1>2
<1>3. k # 0
  <2>1. Bits - 0 = Bits
    BY ConstantTypes
  <2> QED BY <1>0, <2>1, PowersAssumption
<1>4. k - 1 \in 0 .. Bits /\ ~(k <= k - 1)
  BY <1>0, <1>3, ConstantTypes
<1>5. k - 1 \notin Bad
  <2> HIDE DEF Bad
  <2> QED BY <1>2, <1>4
<1>6. Bits - k \in 0 .. Bits - 1 /\ Bits - k + 1 = Bits - (k - 1)
  BY <1>0, <1>3, ConstantTypes
<1>7. Size(Bits - (k - 1)) \in Nat \ {0}
  BY <1>4, <1>5
<1>8. Size(Bits - k) = 2 * Size(Bits - (k - 1))
  BY <1>6, PowersAssumption
<1>9. \A x \in Nat \ {0} : 2 * x \in Nat \ {0}
  OBVIOUS
<1> QED BY <1>0, <1>7, <1>8, <1>9

\* A wider network is a multiple of a narrower one.
LEMMA SizeMultiple ==
  ASSUME NEW narrow \in 0 .. Bits, NEW wide \in 0 .. Bits, wide <= narrow
  PROVE  \E m \in Nat \ {0} : Size(wide) = m * Size(narrow)
<1> DEFINE Good(k) == \E m \in Nat \ {0} : Size(narrow - k) = m * Size(narrow)
<1> DEFINE Bad == {k \in 0 .. narrow : ~Good(k)}
<1>a. narrow - wide \in 0 .. narrow /\ narrow - (narrow - wide) = wide
  BY ConstantTypes
<1> SUFFICES ASSUME Bad # {} PROVE FALSE
  <2> SUFFICES ASSUME ~\E m \in Nat \ {0} : Size(wide) = m * Size(narrow) PROVE Bad # {}
    OBVIOUS
  <2>1. ~Good(narrow - wide)
    BY <1>a
  <2> HIDE DEF Good
  <2>2. narrow - wide \in Bad
    BY <1>a, <2>1
  <2> QED BY <2>2
<1>1. Bad \subseteq Nat /\ IsFiniteSet(Bad)
  <2>1. IsFiniteSet(0 .. narrow)
    BY ConstantTypes, FS_Interval
  <2> HIDE DEF Good
  <2>2. Bad \subseteq 0 .. narrow
    OBVIOUS
  <2> HIDE DEF Bad
  <2>3. IsFiniteSet(Bad)
    BY <2>1, <2>2, FS_Subset
  <2> QED BY <2>2, <2>3, ConstantTypes
<1>2. PICK k \in Bad : \A j \in Bad : k <= j
  <2> HIDE DEF Bad
  <2> QED BY <1>1, MinimumExists
<1>3. Size(narrow) \in Nat \ {0}
  BY SizeType
<1>0. k \in 0 .. narrow /\ ~Good(k)
  <2> HIDE DEF Good
  <2> QED BY <1>2
<1>4. k # 0
  <2> SUFFICES Good(0)
    BY <1>0
  <2>1. narrow - 0 = narrow
    BY ConstantTypes
  <2>2. Size(narrow) = 1 * Size(narrow)
    BY <1>3
  <2>3. 1 \in Nat \ {0}
    OBVIOUS
  <2> QED BY <2>1, <2>2, <2>3
<1>5. k - 1 \in 0 .. narrow /\ ~(k <= k - 1)
  BY <1>0, <1>4, ConstantTypes
<1>6. Good(k - 1)
  <2> HIDE DEF Good
  <2>1. k - 1 \notin Bad
    <3> HIDE DEF Bad
    <3> QED BY <1>2, <1>5
  <2> QED BY <1>5, <2>1
<1>7. PICK m \in Nat \ {0} : Size(narrow - (k - 1)) = m * Size(narrow)
  BY <1>6
<1>8. narrow - k \in 0 .. Bits - 1 /\ narrow - k + 1 = narrow - (k - 1)
  BY <1>0, <1>4, ConstantTypes
<1>9. Size(narrow - k) = 2 * Size(narrow - (k - 1))
  BY <1>8, PowersAssumption
<1>10. 2 * m \in Nat \ {0} /\ 2 * (m * Size(narrow)) = (2 * m) * Size(narrow)
  BY <1>3
<1>11. Size(narrow - k) = (2 * m) * Size(narrow)
  BY <1>7, <1>9, <1>10
<1>12. Good(k)
  BY <1>10, <1>11
<1> QED BY <1>0, <1>12

LEMMA SizeMonotone ==
  ASSUME NEW narrow \in 0 .. Bits, NEW wide \in 0 .. Bits, wide <= narrow
  PROVE  Size(narrow) <= Size(wide)
<1>1. PICK m \in Nat \ {0} : Size(wide) = m * Size(narrow)
  BY SizeMultiple
<1>2. Size(narrow) \in Nat \ {0}
  BY SizeType
<1>3. 1 * Size(narrow) <= m * Size(narrow)
  BY <1>2, ProductOrder
<1> QED BY <1>1, <1>2, <1>3

\* The addresses are a multiple of every size.
LEMMA AllAddresses ==
  /\ 2^Bits \in Nat
  /\ \A len \in 0 .. Bits : \E m \in Nat \ {0} : 2^Bits = m * Size(len)
<1>1. Bits - 0 = Bits /\ 0 \in 0 .. Bits
  BY ConstantTypes
<1>2. Size(0) = 2^Bits
  BY <1>1 DEF Size
<1>3. \A len \in 0 .. Bits : 0 <= len
  BY ConstantTypes
<1> QED BY <1>1, <1>2, <1>3, SizeType, SizeMultiple

\* A network begins at a multiple of its size, ends within the addresses, and holds the
\* address it was made from.
LEMMA NetFacts ==
  ASSUME NEW a \in Addresses, NEW len \in 0 .. Bits
  PROVE  /\ Net(a, len) \in Nets /\ Net(a, len).len = len
         /\ Net(a, len).base \in Nat /\ Net(a, len).base <= a
         /\ \E q \in Nat : Net(a, len).base = q * Size(len)
         /\ Contains(Net(a, len), a)
         /\ Net(a, len).base + Size(len) <= 2^Bits
<1> DEFINE b == a - (a % Size(len))
<1>1. Size(len) \in Nat \ {0} /\ a \in Nat /\ 2^Bits \in Nat /\ a < 2^Bits
  BY SizeType, AllAddresses DEF Addresses
<1>2. PICK m \in Nat \ {0} : 2^Bits = m * Size(len)
  BY AllAddresses
<1>3. \E q \in Nat : b = q * Size(len)
  BY <1>1, Division
<1>4. b \in Nat /\ b <= a /\ a < b + Size(len)
  BY <1>1, Division
<1>5. Net(a, len) = [base |-> b, len |-> len]
  BY DEF Net
<1>6. PICK q \in Nat : b = q * Size(len)
  BY <1>3
<1> HIDE DEF b
<1>7. q * Size(len) < m * Size(len)
  BY <1>1, <1>2, <1>4, <1>6
<1>8. b + Size(len) <= 2^Bits
  BY <1>1, <1>2, <1>6, <1>7, NextMultiple
<1>9. Net(a, len) \in Nets
  BY DEF Nets
<1>10. Contains(Net(a, len), a)
  BY <1>4, <1>5 DEF Contains
<1> QED BY <1>3, <1>4, <1>5, <1>8, <1>9, <1>10

\* Every network there is.
LEMMA NetsFacts ==
  ASSUME NEW n \in Nets
  PROVE  /\ n = [base |-> n.base, len |-> n.len]
         /\ n.len \in 0 .. Bits /\ n.base \in Addresses /\ n.base \in Nat
         /\ Size(n.len) \in Nat \ {0}
         /\ \E q \in Nat : n.base = q * Size(n.len)
         /\ n.base + Size(n.len) <= 2^Bits
<1>1. PICK a \in Addresses, len \in 0 .. Bits : n = Net(a, len)
  BY DEF Nets
<1>2. n = [base |-> n.base, len |-> n.len] /\ n.len = len
  BY <1>1 DEF Net
<1>3. n.base \in Nat /\ n.base <= a /\ n.base + Size(len) <= 2^Bits
      /\ \E q \in Nat : n.base = q * Size(len)
  BY <1>1, NetFacts
<1>4. Size(len) \in Nat \ {0}
  BY SizeType
<1>5. n.base \in Addresses
  BY <1>3, AllAddresses DEF Addresses
<1> QED BY <1>2, <1>3, <1>4, <1>5

(***************************************************************************)
(* Networks are nested or apart.                                           *)
(***************************************************************************)
Within(a, b) == b.base <= a.base /\ a.base + Size(a.len) <= b.base + Size(b.len)

LEMMA NestedOrApart ==
  ASSUME NEW A \in Nets, NEW B \in Nets, A.len >= B.len, NEW x \in Int, Contains(A, x), Contains(B, x)
  PROVE  Within(A, B)
<1> DEFINE sa == Size(A.len)
<1> DEFINE sb == Size(B.len)
<1>1. A.base \in Nat /\ B.base \in Nat /\ sa \in Nat \ {0} /\ sb \in Nat \ {0}
      /\ A.len \in 0 .. Bits /\ B.len \in 0 .. Bits
  BY NetsFacts
<1>2. PICK m \in Nat \ {0} : sb = m * sa
  BY <1>1, SizeMultiple
<1>3. PICK p \in Nat : A.base = p * sa
  BY NetsFacts
<1>4. PICK q \in Nat : B.base = q * sb
  BY NetsFacts
<1>5. A.base <= x /\ x < A.base + sa /\ B.base <= x /\ x < B.base + sb
  BY DEF Contains
<1> HIDE DEF sa, sb
<1> DEFINE k == q * m
<1>6. k \in Nat /\ B.base = k * sa
  BY <1>1, <1>2, <1>4
<1>7. (k + m) * sa = k * sa + m * sa /\ k + m \in Nat
  BY <1>1, <1>6
<1> HIDE DEF k
<1>8. B.base <= A.base
  <2> SUFFICES ASSUME A.base < B.base PROVE FALSE
    BY <1>1
  <2>1. A.base + sa <= B.base
    BY <1>1, <1>3, <1>6, NextMultiple
  <2> QED BY <1>1, <1>5, <2>1
<1>9. A.base + sa <= B.base + sb
  <2> DEFINE t == k + m
  <2>0. t \in Int /\ p \in Int /\ t * sa = B.base + sb
    BY <1>2, <1>3, <1>6, <1>7
  <2> HIDE DEF t
  <2>1. p * sa < t * sa
    BY <1>1, <1>3, <1>5, <2>0
  <2>2. p * sa + sa <= t * sa
    BY <1>1, <2>0, <2>1, NextMultiple
  <2> QED BY <1>3, <2>0, <2>2
<1> QED BY <1>8, <1>9 DEF Within, sa, sb

LEMMA IfaceNet ==
  ASSUME NEW i \in Ifaces
  PROVE  /\ NetOf(i) \in Nets /\ NetOf(i).len = i.len /\ i.len \in 0 .. Bits /\ i.srv \in Addresses
         /\ i.srv \in Int /\ Contains(NetOf(i), i.srv)
<1>1. i.srv \in Addresses /\ i.len \in 0 .. Bits
  BY DEF Ifaces
<1>2. i.srv \in Int
  BY <1>1 DEF Addresses
<1> QED BY <1>1, <1>2, NetFacts DEF NetOf

\* Networks overlap when they have an address in common.
LEMMA OverlapPoint ==
  ASSUME NEW A \in Nets, NEW B \in Nets
  PROVE  NetsOverlap(A, B) <=> \E x \in Int : Contains(A, x) /\ Contains(B, x)
<1>1. /\ A.base \in Int /\ B.base \in Int /\ Size(A.len) \in Nat \ {0} /\ Size(B.len) \in Nat \ {0}
  BY NetsFacts
<1>2. Contains(A, A.base) /\ Contains(B, B.base)
  BY <1>1 DEF Contains
<1>3. ASSUME NEW x \in Int, Contains(A, x), Contains(B, x) PROVE NetsOverlap(A, B)
  BY <1>1, <1>3 DEF Contains, NetsOverlap
<1> QED BY <1>1, <1>2, <1>3 DEF NetsOverlap

LEMMA OverlapSymmetric ==
  ASSUME NEW A, NEW B
  PROVE  NetsOverlap(A, B) <=> NetsOverlap(B, A)
BY DEF NetsOverlap

\* What meets a network meets every network around it.
LEMMA WithinOverlap ==
  ASSUME NEW A \in Nets, NEW A2 \in Nets, NEW B \in Nets, Within(A, A2), NetsOverlap(A, B)
  PROVE  NetsOverlap(A2, B)
<1>1. PICK x \in Int : Contains(A, x) /\ Contains(B, x)
  BY OverlapPoint
<1>2. /\ A.base \in Int /\ A2.base \in Int /\ Size(A.len) \in Nat /\ Size(A2.len) \in Nat
  BY NetsFacts
<1>3. Contains(A2, x)
  BY <1>1, <1>2 DEF Within, Contains
<1> QED BY <1>1, <1>3, OverlapPoint

\* Of two networks that overlap, the one with the longer prefix lies in the other.
LEMMA OverlapNested ==
  ASSUME NEW A \in Nets, NEW B \in Nets, NetsOverlap(A, B), A.len >= B.len
  PROVE  Within(A, B)
<1>1. PICK x \in Int : Contains(A, x) /\ Contains(B, x)
  BY OverlapPoint
<1> QED BY <1>1, NestedOrApart

LEMMA SelfOverlap ==
  ASSUME NEW A \in Nets
  PROVE  NetsOverlap(A, A)
<1>1. A.base \in Int /\ Size(A.len) \in Nat \ {0}
  BY NetsFacts
<1> QED BY <1>1 DEF NetsOverlap, Contains

\* Two pools that are widened stay apart if each, wide, is apart from the other as it was.
LEMMA BothWidened ==
  ASSUME NEW A \in Nets, NEW A2 \in Nets, NEW B \in Nets, NEW B2 \in Nets,
         Within(A, A2), Within(B, B2), ~NetsOverlap(A, B2), ~NetsOverlap(A2, B)
  PROVE  ~NetsOverlap(A2, B2)
<1> SUFFICES ASSUME NetsOverlap(A2, B2) PROVE FALSE
  OBVIOUS
<1>1. A2.len \in Int /\ B2.len \in Int
  BY NetsFacts
<1>2. /\ \A n \in {A, A2, B, B2} : n.base \in Int /\ Size(n.len) \in Nat
  BY NetsFacts
<1>3. CASE A2.len >= B2.len
  <2>1. Within(A2, B2)
    BY <1>3, OverlapNested
  <2>2. Within(A, B2)
    BY <1>2, <2>1 DEF Within
  <2>3. NetsOverlap(A, B2)
    BY <2>2, SelfOverlap, WithinOverlap, OverlapSymmetric
  <2> QED BY <2>3
<1>4. CASE B2.len >= A2.len
  <2>1. Within(B2, A2)
    BY <1>4, OverlapNested, OverlapSymmetric
  <2>2. Within(B, A2)
    BY <1>2, <2>1 DEF Within
  <2>3. NetsOverlap(A2, B)
    BY <2>2, SelfOverlap, WithinOverlap, OverlapSymmetric
  <2> QED BY <2>3
<1> QED BY <1>1, <1>3, <1>4

\* The pools of one server are nested, and so are networks that begin alike.
LEMMA SameServer ==
  ASSUME NEW i \in Ifaces, NEW j \in Ifaces, i.srv = j.srv, i.len >= j.len
  PROVE  Within(NetOf(i), NetOf(j))
BY IfaceNet, NestedOrApart

LEMMA SameBase ==
  ASSUME NEW A \in Nets, NEW B \in Nets, A.base = B.base, A.len >= B.len
  PROVE  Within(A, B)
<1>1. A.base \in Int /\ Size(A.len) \in Nat \ {0} /\ Size(B.len) \in Nat \ {0}
  BY NetsFacts
<1>2. Contains(A, A.base) /\ Contains(B, A.base)
  BY <1>1 DEF Contains
<1> QED BY <1>1, <1>2, NestedOrApart

\* An address that may be handed out stays one when its network is widened around it.
LEMMA HostWidened ==
  ASSUME NEW A \in Nets, NEW B \in Nets, Within(A, B), NEW a \in Addresses, HostAllocatable(a, A)
  PROVE  HostAllocatable(a, B) /\ Contains(B, a)
<1>1. /\ A.base \in Int /\ B.base \in Int /\ Size(A.len) \in Nat /\ Size(B.len) \in Nat /\ a \in Int
  BY NetsFacts DEF Addresses
<1>2. /\ A.base <= a /\ a < A.base + Size(A.len) /\ a # A.base /\ a # A.base + Size(A.len) - 1
      /\ a % Octet \notin {0, Octet - 1}
  BY DEF HostAllocatable, Contains
<1>3. B.base <= A.base /\ A.base + Size(A.len) <= B.base + Size(B.len)
  BY DEF Within
<1>4. /\ B.base <= a /\ a < B.base + Size(B.len) /\ a # B.base /\ a # B.base + Size(B.len) - 1
  BY <1>1, <1>2, <1>3
<1> QED BY <1>2, <1>4 DEF HostAllocatable, Contains

(***************************************************************************)
(* The inductive invariant, one part for each matter.                      *)
(***************************************************************************)
Rule == Rules(Nets, Classes, {"ACCEPT", "DROP"})

Job == [pc : Pcs, old : Ifaces, wg : Ifaces, oldOv : Nets, ov : Nets, todo : SUBSET Users,
        copies : SUBSET [pos : Nat, rule : Rule]]

\* The part of TypeOK about the pools and the command.
PoolTypes ==
  /\ wgConf \in Ifaces /\ wgLive \in SUBSET Ifaces
  /\ ovCfg \in Nets /\ ovConf \in Nets /\ ovLive \in Nets
  /\ start \in Installs /\ host = start.host
  /\ job \in Job
  /\ faults \in 0 .. MaxFaults

\* The part about the users.
PeopleTypes ==
  /\ wgIP \in [Users -> Addresses] /\ ovIP \in [Users -> Addresses]
  /\ ccd \in [Users -> 0 .. Bits] /\ late \in SUBSET Users

\* The part about the firewall: a copy goes to a place the chain has, which only grows until the
\* firewall is restarted.
ChainTypes ==
  /\ chain \in Seq(Rule) /\ restored \in BOOLEAN
  /\ \A c \in job.copies : c.pos \in Nat \ {0}
  /\ ~restored => \A c \in job.copies : c.pos \in 1 .. Len(chain)

\* The server keeps its address; the file is never narrower than the interface or the
\* command, and carries what the command wants once it has been rewritten.
WgWidens ==
  /\ \A i \in wgLive \cup {wgConf, job.wg, job.old} : i.srv = start.wg.srv
  /\ \A i \in wgLive \cup {start.wg, job.old} : i.len >= wgConf.len
  /\ job.wg.len <= wgConf.len
  /\ job.pc \in {"wgConf", "addrAdd", "addrDel"} => job.wg # job.old
  /\ job.pc \in {"addrAdd", "addrDel"} => job.wg = wgConf

\* So with the OpenVPN pool, which three places record.
OvWidens ==
  /\ \A n \in {ovCfg, ovConf, ovLive, job.ov} : n.base = start.ov.base /\ n.len <= start.ov.len
  /\ ovConf.len <= ovCfg.len /\ job.ov.len <= ovCfg.len
  /\ job.pc \in {"readPeers", "ccd"} => ovConf = job.ov

\* What the command is about to write is apart from the other pool too.
Apart ==
  \A i \in {wgConf, job.wg}, n \in {ovCfg, ovConf, ovLive, job.ov} : ~NetsOverlap(NetOf(i), n)

\* No device but the pool's own comes to meet it, or what the command is about to write.
Clear ==
  \A e \in host :
    /\ \A i \in {wgConf, job.wg} :
         NetsOverlap(NetOf(i), e.net) => e.dev \in DevsAt(NetOf(start.wg)) \cup {"wg"}
    /\ \A n \in {ovCfg, ovConf, job.ov} :
         NetsOverlap(n, e.net) => e.dev \in DevsAt(start.ov) \cup {"tun"}

\* The addresses handed out, in the pools that hand them out.
Usable ==
  \A u \in Users :
    /\ wgIP[u] # NoIP =>
         /\ wgIP[u] # wgConf.srv
         /\ HostAllocatable(wgIP[u], NetOf(wgConf))
         /\ \A v \in Users \ {u} : wgIP[v] # wgIP[u]
    /\ ovIP[u] # NoIP =>
         /\ HostAllocatable(ovIP[u], ovCfg) /\ ovIP[u] # OvServer(ovCfg)
         /\ \A v \in Users \ {u} : ovIP[v] # ovIP[u] \/ {u, v} \subseteq raced

\* The masks that are to change are those the command has not come to yet.
Masks ==
  /\ \A u \in Users \ late : ovIP[u] # NoIP => ccd[u] <= ovCfg.len
  /\ job.pc = "ccd" => \A u \in Users \ (late \cup job.todo) : ovIP[u] # NoIP => ccd[u] <= job.ov.len

\* Where a command stands that nothing has gone wrong with, and no earlier one's work is undone.
InProgress ==
  faults = 0 =>
    /\ job.pc # "addrAdd" => wgConf \in wgLive
    /\ job.pc \notin {"readPeers", "ccd", "ovRules", "ovCopies", "restart"} /\ start.unit => ovLive = ovConf

\* An attach under way works with a pool that was only widened since, and with another mask than
\* the pool's only if a command saved it meanwhile; a command rewrites files of attached users.
Knows(a, ip, mask, cfg, isLate) ==
  a.pc # "none" =>
    /\ ip = NoIP /\ a.net.base = cfg.base /\ cfg.len <= a.net.len
    /\ a.pc \in {"write", "record"} => HostAllocatable(a.ip, a.net) /\ a.ip # OvServer(a.net)
    /\ ~isLate => a.net.len <= cfg.len
    /\ a.pc = "record" /\ ~isLate => mask <= cfg.len

\* Two attaches that have both picked an address raced; otherwise the address picked is free.
HasPicked(a) == a.pc \in {"write", "record"}
PickedFree ==
  \A u \in Users : HasPicked(att[u]) => \A v \in Users \ {u} :
    /\ HasPicked(att[v]) => {u, v} \subseteq raced
    /\ ovIP[v] # att[u].ip \/ {u, v} \subseteq raced

AttachTypes ==
  /\ att \in [Users -> [pc : AttachPcs, net : Nets, ip : Addresses]]
  /\ raced \in SUBSET Users

Attaching ==
  /\ AttachTypes /\ PickedFree
  /\ \A u \in Users : Knows(att[u], ovIP[u], ccd[u], ovCfg, u \in late)
  /\ \A u \in job.todo : ovIP[u] # NoIP

IInv == /\ PoolTypes /\ PeopleTypes /\ ChainTypes /\ WgWidens /\ OvWidens
        /\ Apart /\ Clear /\ Usable /\ Masks /\ InProgress /\ Attaching

(***************************************************************************)
(* Operators of the model.                                                 *)
(***************************************************************************)
\* A copy put into a chain leaves a chain, one rule longer if it was not there yet.
LEMMA InsertType ==
  ASSUME NEW S, NEW rules \in Seq(S), NEW c, c.pos \in Nat \ {0}, c.rule \in S
  PROVE  Insert(rules, c) \in Seq(S) /\ Len(rules) <= Len(Insert(rules, c))
<1> DEFINE before == SubSeq(rules, 1, c.pos - 1)
<1> DEFINE after == SubSeq(rules, c.pos, Len(rules))
<1>0. Len(rules) \in Nat
  BY LenProperties
<1>1. CASE Present(rules, c.rule) \/ c.pos > Len(rules) + 1
  BY <1>0, <1>1 DEF Insert
<1>2. CASE ~Present(rules, c.rule) /\ c.pos <= Len(rules) + 1
  <2>1. \A i \in 1 .. Len(rules) : rules[i] \in S
    BY ElementOfSeq
  <2>2. before \in Seq(S) /\ Len(before) = c.pos - 1
    <3>1. \A i \in 1 .. c.pos - 1 : rules[i] \in S
      BY <1>0, <1>2, <2>1
    <3> QED BY <1>0, <1>2, <3>1, SubSeqProperties
  <2>3. after \in Seq(S) /\ Len(after) = Len(rules) - c.pos + 1
    <3>1. \A i \in c.pos .. Len(rules) : rules[i] \in S
      BY <1>0, <1>2, <2>1
    <3> QED BY <1>0, <1>2, <3>1, SubSeqProperties
  <2>4. <<c.rule>> \in Seq(S) /\ Len(<<c.rule>>) = 1
    OBVIOUS
  <2> HIDE DEF before, after
  <2>5. before \o <<c.rule>> \in Seq(S) /\ Len(before \o <<c.rule>>) = c.pos
    BY <1>0, <2>2, <2>4, ConcatProperties
  <2> DEFINE front == before \o <<c.rule>>
  <2>7. Ext!InsertAt(rules, c.pos, c.rule) = front \o after
    BY DEF Ext!InsertAt, before, after
  <2>9. front \in Seq(S) /\ Len(front) = c.pos
    BY <2>5
  <2> HIDE DEF front
  <2>6. front \o after \in Seq(S) /\ Len(front \o after) = Len(rules) + 1
    <3>1. front \o after \in Seq(S) /\ Len(front \o after) = Len(front) + Len(after)
      BY <2>3, <2>9, ConcatProperties
    <3>2. Len(front) + Len(after) = Len(rules) + 1
      BY <1>0, <2>3, <2>9
    <3> QED BY <3>1, <3>2
  <2>8. Insert(rules, c) = Ext!InsertAt(rules, c.pos, c.rule)
    BY <1>0, <1>2 DEF Insert
  <2> QED BY <1>0, <2>6, <2>7, <2>8
<1> QED BY <1>0, <1>1, <1>2

LEMMA RuleArgsType ==
  ASSUME NEW rules \in Seq(Rule), NEW old, NEW new \in Nets
  PROVE  /\ WidenRuleArgs(rules, old, new) \in SUBSET [pos : Nat, rule : Rule]
         /\ \A c \in WidenRuleArgs(rules, old, new) : c.pos \in 1 .. Len(rules)
<1> SUFFICES ASSUME NEW i \in 1 .. Len(rules)
             PROVE  [pos |-> i, rule |-> [rules[i] EXCEPT !.net = new]] \in [pos : Nat, rule : Rule]
  BY DEF WidenRuleArgs
<1>1. rules[i] \in Rule /\ i \in Nat
  BY ElementOfSeq, LenProperties
<1>2. [rules[i] EXCEPT !.net = new] \in Rule
  BY <1>1 DEF Rule, Rules
<1> QED BY <1>1, <1>2

\* The first free address is a free one.
LEMMA LeastFree ==
  ASSUME NEW n \in Nets, NEW used, FreeHosts(n, used) # {}
  PROVE  /\ Least(FreeHosts(n, used)) \in Addresses
         /\ HostAllocatable(Least(FreeHosts(n, used)), n)
         /\ Least(FreeHosts(n, used)) \notin used
<1> DEFINE free == FreeHosts(n, used)
<1> DEFINE span == n.base .. n.base + Size(n.len) - 1
<1>1. n.base \in Nat /\ Size(n.len) \in Nat /\ n.base + Size(n.len) <= 2^Bits /\ 2^Bits \in Nat
  BY NetsFacts, AllAddresses
<1>2. span \subseteq Addresses
  BY <1>1 DEF Addresses
<1>3. IsFiniteSet(span)
  <2> DEFINE last == n.base + Size(n.len) - 1
  <2>1. n.base \in Int /\ last \in Int
    BY <1>1
  <2> HIDE DEF last
  <2>2. IsFiniteSet(n.base .. last)
    BY <2>1, FS_Interval
  <2> QED BY <2>2 DEF last
<1>4. free \subseteq span /\ free \subseteq Addresses
  BY <1>2 DEF FreeHosts
<1>5. IsFiniteSet(free)
  <2> HIDE DEF free, span
  <2> QED BY <1>3, <1>4, FS_Subset
<1>6. Addresses \subseteq Nat
  BY AllAddresses DEF Addresses
<1>7. \E x \in free : \A y \in free : x <= y
  <2> HIDE DEF free
  <2>1. free \subseteq Nat /\ free # {}
    BY <1>4, <1>6 DEF free
  <2> QED BY <1>5, <2>1, MinimumExists
<1>8. Least(free) \in free
  <2> HIDE DEF free
  <2> QED BY <1>7 DEF Least
<1> QED BY <1>4, <1>8 DEF FreeHosts

\* Widening a pool keeps the server's address, or the network's first if it is aligned.
LEMMA WgWideType ==
  ASSUME wgConf \in Ifaces, NEW prefix \in 0 .. Bits
  PROVE  WgWide(prefix) \in Ifaces /\ WgWide(prefix).srv = wgConf.srv
         /\ WgWide(prefix).len <= wgConf.len
BY DEF WgWide, Ifaces

LEMMA OvWideType ==
  ASSUME ovCfg \in Nets, NEW prefix \in 0 .. Bits
  PROVE  OvWide(prefix) \in Nets /\ OvWide(prefix).len <= ovCfg.len
<1>1. ovCfg.base \in Addresses /\ ovCfg.len \in Int
  BY NetsFacts
<1>2. Net(ovCfg.base, prefix) \in Nets /\ Net(ovCfg.base, prefix).len = prefix
  BY <1>1, NetFacts
<1> QED BY <1>1, <1>2 DEF OvWide

(***************************************************************************)
(* The invariant holds to begin with.                                      *)
(***************************************************************************)
LEMMA PoolFacts ==
  ASSUME NEW p \in Installs
  PROVE  /\ p.wg \in Ifaces /\ p.ov \in Nets /\ ~NetsOverlap(NetOf(p.wg), p.ov) /\ p.chain \in Seq(Rule)
         /\ p.unit \in BOOLEAN
         /\ NetOf(p.wg) \in Nets /\ p.ov.base \in Int /\ p.ov.len \in Int /\ p.wg.len \in Int
<1>1. /\ p.wg \in Ifaces /\ p.ov \in Nets /\ ~NetsOverlap(NetOf(p.wg), p.ov) /\ p.chain \in Seq(Rule)
      /\ p.unit \in BOOLEAN
  BY SubnetAssumption DEF Rule
<1> QED BY <1>1, NetsFacts, IfaceNet

LEMMA NoAttachType ==
  ASSUME NEW n \in Nets
  PROVE  NoAttach \in [pc : AttachPcs, net : Nets, ip : Addresses]
<1>1. 0 \in Addresses /\ Bits \in 0 .. Bits
  BY AllAddresses, NetsFacts, ConstantTypes DEF Addresses
<1>2. Net(0, Bits) \in Nets
  BY <1>1, NetFacts
<1> QED BY <1>1, <1>2 DEF NoAttach, NoIP, AttachPcs

LEMMA InitInvariant == Init => IInv
<1> SUFFICES ASSUME Init PROVE IInv
  OBVIOUS
<1> USE DEF Init
<1>1. start \in Installs /\ job.pc = "idle"
  OBVIOUS
<1>2. /\ start.wg \in Ifaces /\ start.ov \in Nets /\ ~NetsOverlap(NetOf(start.wg), start.ov)
      /\ start.chain \in Seq(Rule) /\ start.wg.len \in Int /\ start.ov.len \in Int
  BY <1>1, PoolFacts
<1>3. PoolTypes
  BY <1>2, ConstantTypes DEF PoolTypes, Job, Pcs
<1>4. PeopleTypes
  <2>1. NoIP \in Addresses
    BY AllAddresses, NetsFacts, <1>2 DEF NoIP, Addresses
  <2>2. 0 \in 0 .. Bits
    BY ConstantTypes
  <2> QED BY <2>1, <2>2 DEF PeopleTypes
<1>5. ChainTypes
  BY <1>2 DEF ChainTypes
<1>11. Attaching
  <2>1. AttachTypes
    BY <1>2, NoAttachType DEF AttachTypes
  <2> QED BY <2>1 DEF Attaching, PickedFree, HasPicked, Knows, NoAttach
<1>6. WgWidens /\ OvWidens
  BY <1>2 DEF WgWidens, OvWidens
<1>7. Apart
  BY <1>2 DEF Apart
<1>8. Clear
  BY DEF Clear, DevsAt
<1>9. Usable /\ Masks
  BY DEF Usable, Masks
<1>10. InProgress
  BY DEF InProgress
<1> QED BY <1>3, <1>4, <1>5, <1>6, <1>7, <1>8, <1>9, <1>10, <1>11 DEF IInv

(***************************************************************************)
(* ExpandSubnet plans.                                                     *)
(***************************************************************************)
\* What the plan hands to the command: pools like those in the files or wider, the new one
\* checked against the host's routes and the other pool, as it is and as it may become.
Planned(wg, ov, prefix, tun) ==
  /\ wg = wgConf \/ (wg = WgWide(prefix) /\ wg # wgConf /\ ~WgClash(prefix, Entries(tun)))
  /\ ov = ovCfg \/ (ov = OvWide(prefix) /\ ov # ovCfg /\ ~OvClash(prefix, Entries(tun)))

LEMMA Plan ==
  ASSUME ExpandSubnet
  PROVE  \E prefix \in 0 .. Bits, tun \in BOOLEAN :
           /\ Planned(job'.wg, job'.ov, prefix, tun)
           /\ \/ job'.pc = "wgConf" /\ job'.wg # wgConf
              \/ job'.pc = "serverConf"
           /\ job' = [pc |-> job'.pc, old |-> wgConf, wg |-> job'.wg, oldOv |-> ovCfg, ov |-> job'.ov,
                      todo |-> {}, copies |-> {}]
<1>1. PICK prefix \in {p \in Prefixes : p >= MinPrefix}, auto \in BOOLEAN, tun \in BOOLEAN :
       LET wgBad == WgWide(prefix) # wgConf /\ WgClash(prefix, Entries(tun))
           ovBad == OvWide(prefix) # ovCfg /\ OvClash(prefix, Entries(tun))
           wg == IF wgBad THEN wgConf ELSE WgWide(prefix)
           ov == IF ovBad THEN ovCfg ELSE OvWide(prefix)
       IN job' = [pc |-> IF wg # wgConf THEN "wgConf" ELSE "serverConf",
                  old |-> wgConf, wg |-> wg, oldOv |-> ovCfg, ov |-> ov, todo |-> {}, copies |-> {}]
  BY DEF ExpandSubnet
<1>2. prefix \in 0 .. Bits
  BY SubnetAssumption
<1> DEFINE wgBad == WgWide(prefix) # wgConf /\ WgClash(prefix, Entries(tun))
<1> DEFINE ovBad == OvWide(prefix) # ovCfg /\ OvClash(prefix, Entries(tun))
<1> DEFINE wg == IF wgBad THEN wgConf ELSE WgWide(prefix)
<1> DEFINE ov == IF ovBad THEN ovCfg ELSE OvWide(prefix)
<1>3. wg = wgConf \/ (wg = WgWide(prefix) /\ wg # wgConf /\ ~WgClash(prefix, Entries(tun)))
  OBVIOUS
<1>4. ov = ovCfg \/ (ov = OvWide(prefix) /\ ov # ovCfg /\ ~OvClash(prefix, Entries(tun)))
  OBVIOUS
<1> HIDE DEF wg, ov
<1>5. job' = [pc |-> IF wg # wgConf THEN "wgConf" ELSE "serverConf",
              old |-> wgConf, wg |-> wg, oldOv |-> ovCfg, ov |-> ov, todo |-> {}, copies |-> {}]
  BY <1>1 DEF wg, ov
<1>6. job'.wg = wg /\ job'.ov = ov /\ job'.pc = IF wg # wgConf THEN "wgConf" ELSE "serverConf"
  BY <1>5
<1>7. Planned(job'.wg, job'.ov, prefix, tun)
  BY <1>3, <1>4, <1>6 DEF Planned
<1> QED BY <1>2, <1>5, <1>6, <1>7

\* What the invariant says of the pools, as networks.
LEMMA PoolGeometry ==
  ASSUME IInv
  PROVE  /\ wgConf \in Ifaces /\ job \in Job /\ start.wg \in Ifaces /\ start.ov \in Nets
         /\ \A i \in wgLive \cup {wgConf, job.wg} : i \in Ifaces /\ NetOf(i) \in Nets
         /\ \A n \in {ovCfg, ovConf, ovLive, job.ov} : n \in Nets /\ Within(start.ov, n)
         /\ \A i \in wgLive : Within(NetOf(i), NetOf(wgConf))
         /\ \A i \in wgLive, n \in {ovCfg, ovConf, ovLive, job.ov} : ~NetsOverlap(NetOf(i), n)
<1> USE DEF IInv
<1>1. /\ wgConf \in Ifaces /\ job \in Job /\ job.wg \in Ifaces /\ job.ov \in Nets
      /\ start \in Installs /\ wgLive \subseteq Ifaces
      /\ ovCfg \in Nets /\ ovConf \in Nets /\ ovLive \in Nets
  BY DEF PoolTypes, Job
<1>2. start.wg \in Ifaces /\ start.ov \in Nets
  BY <1>1, PoolFacts
<1>3. \A i \in wgLive \cup {wgConf, job.wg} : i \in Ifaces /\ NetOf(i) \in Nets
  BY <1>1, IfaceNet
<1>4. ASSUME NEW n \in {ovCfg, ovConf, ovLive, job.ov} PROVE n \in Nets /\ Within(start.ov, n)
  <2>1. n \in Nets /\ n.base = start.ov.base /\ n.len <= start.ov.len
    BY <1>1 DEF OvWidens
  <2>2. n.len \in Int /\ start.ov.len \in Int
    BY <1>2, <2>1, NetsFacts
  <2> QED BY <1>2, <2>1, <2>2, SameBase
<1>5. ASSUME NEW i \in wgLive PROVE Within(NetOf(i), NetOf(wgConf))
  <2>1. i \in Ifaces /\ i.srv = wgConf.srv /\ i.len >= wgConf.len
    BY <1>1 DEF WgWidens
  <2> QED BY <1>1, <2>1, SameServer
<1>6. ASSUME NEW i \in wgLive, NEW n \in {ovCfg, ovConf, ovLive, job.ov}
      PROVE  ~NetsOverlap(NetOf(i), n)
  <2>1. ~NetsOverlap(NetOf(wgConf), n)
    BY DEF Apart
  <2> QED BY <1>3, <1>4, <1>5, <2>1, WithinOverlap
<1> QED BY <1>1, <1>2, <1>3, <1>4, <1>5, <1>6

LEMMA PlannedPools ==
  ASSUME IInv, NEW prefix \in 0 .. Bits, NEW tun \in BOOLEAN, NEW wg, NEW ov, Planned(wg, ov, prefix, tun)
  PROVE  /\ wg \in Ifaces /\ wg.srv = wgConf.srv /\ wg.len <= wgConf.len
         /\ ov \in Nets /\ ov.base = ovCfg.base /\ ov.len <= ovCfg.len
         /\ Within(NetOf(wgConf), NetOf(wg)) /\ Within(ovCfg, ov)
<1>0. wgConf \in Ifaces /\ ovCfg \in Nets
  BY PoolGeometry
<1>1. wgConf.len \in Int /\ ovCfg.len \in Int /\ ovCfg.base \in Int
  BY <1>0, IfaceNet, NetsFacts
<1>2. wg \in Ifaces /\ wg.srv = wgConf.srv /\ wg.len <= wgConf.len
  <2>1. wg = wgConf \/ wg = WgWide(prefix)
    BY DEF Planned
  <2> QED BY <1>0, <1>1, <2>1, WgWideType
<1>3. ov \in Nets /\ ov.len <= ovCfg.len
  <2>1. ov = ovCfg \/ ov = OvWide(prefix)
    BY DEF Planned
  <2> QED BY <1>0, <1>1, <2>1, OvWideType
<1>4. ov.base = ovCfg.base
  <2>1. CASE ov = ovCfg
    BY <2>1
  <2>2. CASE ov # ovCfg
    <3>1. ov = OvWide(prefix) /\ ~OvClash(prefix, Entries(tun))
      BY <2>2 DEF Planned
    <3>2. OvServer(ovCfg) = OvServer(ov)
      BY <3>1 DEF OvClash
    <3>3. ov.base \in Int
      BY <1>3, NetsFacts
    <3> QED BY <1>1, <3>2, <3>3 DEF OvServer
  <2> QED BY <2>1, <2>2
<1>5. wg.len \in Int /\ ov.len \in Int
  BY <1>2, <1>3, IfaceNet, NetsFacts
<1>6. Within(NetOf(wgConf), NetOf(wg))
  BY <1>0, <1>1, <1>2, <1>5, SameServer
<1>7. Within(ovCfg, ov)
  BY <1>0, <1>1, <1>3, <1>4, <1>5, SameBase
<1> QED BY <1>2, <1>3, <1>4, <1>6, <1>7

\* The plan asks whether each wide pool meets the other pool of config.json or of the command;
\* server.conf and the server that runs may be ahead of config.json or behind it.
LEMMA PlannedApart ==
  ASSUME IInv, NEW prefix \in 0 .. Bits, NEW tun \in BOOLEAN, NEW wg, NEW ov, Planned(wg, ov, prefix, tun)
  PROVE  \A i \in {wgConf, wg}, n \in {ovCfg, ovConf, ovLive, ov} : ~NetsOverlap(NetOf(i), n)
<1>0. /\ wg \in Ifaces /\ ov \in Nets /\ Within(NetOf(wgConf), NetOf(wg)) /\ Within(ovCfg, ov)
      /\ NetOf(wg) \in Nets
  BY PlannedPools, IfaceNet
<1>1. /\ wgConf \in Ifaces /\ NetOf(wgConf) \in Nets /\ start.ov \in Nets
      /\ \A n \in {ovCfg, ovConf, ovLive} : n \in Nets /\ Within(start.ov, n)
  BY PoolGeometry
<1>2. \A n \in {ovCfg, ovConf, ovLive} : ~NetsOverlap(NetOf(wgConf), n)
  BY DEF IInv, Apart
<1>3. ~NetsOverlap(NetOf(wgConf), ov)
  <2>1. CASE ov = ovCfg
    BY <1>2, <2>1
  <2>2. CASE ov # ovCfg
    <3>1. ov = OvWide(prefix) /\ ~OvClash(prefix, Entries(tun))
      BY <2>2 DEF Planned
    <3>2. ~NetsOverlap(ov, NetOf(wgConf))
      BY <3>1 DEF OvClash
    <3> QED BY <3>2, OverlapSymmetric
  <2> QED BY <2>1, <2>2
<1>4. ~NetsOverlap(NetOf(wg), ovCfg)
  <2>1. CASE wg = wgConf
    BY <1>2, <2>1
  <2>2. CASE wg # wgConf
    <3>1. wg = WgWide(prefix) /\ ~WgClash(prefix, Entries(tun))
      BY <2>2 DEF Planned
    <3> QED BY <3>1 DEF WgClash
  <2> QED BY <2>1, <2>2
<1>5. ~NetsOverlap(NetOf(wg), start.ov)
  <2> SUFFICES ASSUME NetsOverlap(NetOf(wg), start.ov) PROVE FALSE
    OBVIOUS
  <2>1. NetsOverlap(start.ov, NetOf(wg))
    BY OverlapSymmetric
  <2>2. NetsOverlap(ovCfg, NetOf(wg))
    BY <1>0, <1>1, <2>1, WithinOverlap
  <2> QED BY <1>4, <2>2, OverlapSymmetric
<1>6. ASSUME NEW n \in {ovCfg, ovConf, ovLive} PROVE ~NetsOverlap(NetOf(wg), n)
  <2>1. n \in Nets /\ Within(start.ov, n) /\ ~NetsOverlap(NetOf(wgConf), n)
    BY <1>1, <1>2
  <2> QED BY <1>0, <1>1, <1>5, <2>1, BothWidened
<1>7. ~NetsOverlap(NetOf(wg), ov)
  BY <1>0, <1>1, <1>3, <1>4, BothWidened
<1> QED BY <1>2, <1>3, <1>6, <1>7

\* What `ip route` and `ip addr` list comes from the host or from one of the tunnels.
LEMMA EntryKinds ==
  ASSUME NEW tun \in BOOLEAN, NEW e \in Entries(tun)
  PROVE  \/ e \in host
         \/ e.dev = "wg" /\ \E i \in wgLive : e.net = NetOf(i)
         \/ e.dev = "tun" /\ e.net = ovLive
BY DEF Entries

\* A device that the plan takes for the WireGuard pool's own met the pool from the start, or
\* is the tunnel.
LEMMA WgOwnDevices ==
  ASSUME IInv, NEW tun \in BOOLEAN, NEW d \in PoolDevs(NetOf(wgConf), Entries(tun))
  PROVE  d \in DevsAt(NetOf(start.wg)) \cup {"wg"}
<1>1. PICK e \in Entries(tun) : e.dev = d /\ Contains(NetOf(wgConf), e.net.base)
  BY DEF PoolDevs
<1>2. NetsOverlap(NetOf(wgConf), e.net)
  BY <1>1 DEF NetsOverlap
<1>3. CASE e \in host
  BY <1>1, <1>2, <1>3 DEF IInv, Clear
<1>4. CASE e.dev = "wg"
  BY <1>1, <1>4
<1>5. CASE e.net = ovLive
  BY <1>2, <1>5 DEF IInv, Apart
<1> QED BY <1>3, <1>4, <1>5, EntryKinds

LEMMA OvOwnDevices ==
  ASSUME IInv, NEW tun \in BOOLEAN, NEW d \in PoolDevs(ovCfg, Entries(tun))
  PROVE  d \in DevsAt(start.ov) \cup {"tun"}
<1>1. PICK e \in Entries(tun) : e.dev = d /\ Contains(ovCfg, e.net.base)
  BY DEF PoolDevs
<1>2. NetsOverlap(ovCfg, e.net)
  BY <1>1 DEF NetsOverlap
<1>3. CASE e \in host
  BY <1>1, <1>2, <1>3 DEF IInv, Clear
<1>4. CASE e.dev = "wg" /\ \E i \in wgLive : e.net = NetOf(i)
  <2>1. PICK i \in wgLive : e.net = NetOf(i)
    BY <1>4
  <2>2. ~NetsOverlap(NetOf(i), ovCfg)
    BY PoolGeometry
  <2> QED BY <1>2, <2>1, <2>2, OverlapSymmetric
<1>5. CASE e.dev = "tun"
  BY <1>1, <1>5
<1> QED BY <1>3, <1>4, <1>5, EntryKinds

LEMMA PlannedClear ==
  ASSUME IInv, NEW prefix \in 0 .. Bits, NEW tun \in BOOLEAN, NEW wg, NEW ov, Planned(wg, ov, prefix, tun),
         NEW e \in host
  PROVE  /\ NetsOverlap(NetOf(wg), e.net) => e.dev \in DevsAt(NetOf(start.wg)) \cup {"wg"}
         /\ NetsOverlap(ov, e.net) => e.dev \in DevsAt(start.ov) \cup {"tun"}
<1>0. e \in Entries(tun)
  BY DEF Entries
<1>1. ASSUME NetsOverlap(NetOf(wg), e.net) PROVE e.dev \in DevsAt(NetOf(start.wg)) \cup {"wg"}
  <2>1. CASE NetsOverlap(NetOf(wgConf), e.net)
    BY <2>1 DEF IInv, Clear
  <2>2. CASE ~NetsOverlap(NetOf(wgConf), e.net)
    <3>1. wg = WgWide(prefix) /\ ~WgClash(prefix, Entries(tun))
      BY <1>1, <2>2 DEF Planned
    <3>2. SubnetConflicts(NetOf(wgConf), NetOf(wg), PoolDevs(NetOf(wgConf), Entries(tun)) \cup {"wg"},
                          Entries(tun)) = {}
      BY <3>1 DEF WgClash, WgHostClash
    <3>3. e.dev \in PoolDevs(NetOf(wgConf), Entries(tun)) \cup {"wg"}
      BY <1>0, <1>1, <2>2, <3>2 DEF SubnetConflicts
    <3> QED BY <3>3, WgOwnDevices
  <2> QED BY <2>1, <2>2
<1>2. ASSUME NetsOverlap(ov, e.net) PROVE e.dev \in DevsAt(start.ov) \cup {"tun"}
  <2>1. CASE NetsOverlap(ovCfg, e.net)
    BY <2>1 DEF IInv, Clear
  <2>2. CASE ~NetsOverlap(ovCfg, e.net)
    <3>1. ov = OvWide(prefix) /\ ~OvClash(prefix, Entries(tun))
      BY <1>2, <2>2 DEF Planned
    <3>2. SubnetConflicts(ovCfg, ov, PoolDevs(ovCfg, Entries(tun)), Entries(tun)) = {}
      BY <3>1 DEF OvClash, OvHostClash
    <3>3. e.dev \in PoolDevs(ovCfg, Entries(tun))
      BY <1>0, <1>2, <2>2, <3>2 DEF SubnetConflicts
    <3> QED BY <3>3, OvOwnDevices
  <2> QED BY <2>1, <2>2
<1> QED BY <1>1, <1>2

\* A step that leaves the users' addresses, masks and attaches alone.
LEMMA AttachQuiet ==
  ASSUME IInv, UNCHANGED <<ovCfg, ovIP, ccd, att, late, raced>>, job'.todo \subseteq job.todo
  PROVE  Attaching'
<1>1. AttachTypes' /\ PickedFree'
  BY DEF IInv, Attaching, AttachTypes, PickedFree
<1>2. \A u \in Users : Knows(att[u], ovIP[u], ccd[u], ovCfg, u \in late)'
  BY DEF IInv, Attaching, Knows
<1>3. \A u \in job'.todo : ovIP'[u] # NoIP
  BY DEF IInv, Attaching
<1> QED BY <1>1, <1>2, <1>3 DEF Attaching

LEMMA ExpandSubnetKeeps ==
  ASSUME IInv, ExpandSubnet
  PROVE  IInv'
<1>1. PICK prefix \in 0 .. Bits, tun \in BOOLEAN :
        /\ Planned(job'.wg, job'.ov, prefix, tun)
        /\ \/ job'.pc = "wgConf" /\ job'.wg # wgConf
           \/ job'.pc = "serverConf"
        /\ job' = [pc |-> job'.pc, old |-> wgConf, wg |-> job'.wg, oldOv |-> ovCfg, ov |-> job'.ov,
                   todo |-> {}, copies |-> {}]
  BY Plan
<1>2. /\ job.pc = "idle"
      /\ UNCHANGED <<wgConf, wgLive, ovCfg, ovConf, ovLive, wgIP, ovIP, ccd, host, chain, faults, start, late, att, raced, restored>>
  BY DEF ExpandSubnet, wireguard, openvpn, people, world, firewall
<1> DEFINE wg == job'.wg
<1> DEFINE ov == job'.ov
<1>3. /\ wg \in Ifaces /\ wg.srv = wgConf.srv /\ wg.len <= wgConf.len
      /\ ov \in Nets /\ ov.base = ovCfg.base /\ ov.len <= ovCfg.len
  BY <1>1, PlannedPools
<1>4. \A i \in {wgConf, wg}, n \in {ovCfg, ovConf, ovLive, ov} : ~NetsOverlap(NetOf(i), n)
  BY <1>1, PlannedApart
<1>5. \A e \in host :
        /\ NetsOverlap(NetOf(wg), e.net) => e.dev \in DevsAt(NetOf(start.wg)) \cup {"wg"}
        /\ NetsOverlap(ov, e.net) => e.dev \in DevsAt(start.ov) \cup {"tun"}
  BY <1>1, PlannedClear
<1>6. job'.old = wgConf /\ job'.pc \in {"wgConf", "serverConf"} /\ job'.copies = {} /\ job'.todo = {}
      /\ (job'.pc = "wgConf" => job'.wg # job'.old)
  BY <1>1
<1>7. job' \in Job
  <2>1. wgConf \in Ifaces /\ ovCfg \in Nets /\ job'.pc \in Pcs
    BY <1>6 DEF IInv, PoolTypes, Pcs
  <2> HIDE DEF wg, ov
  <2>2. job' = [pc |-> job'.pc, old |-> wgConf, wg |-> wg, oldOv |-> ovCfg, ov |-> ov,
                todo |-> {}, copies |-> {}]
    BY <1>1 DEF wg, ov
  <2> QED BY <1>3, <2>1, <2>2 DEF Job
<1>8. PoolTypes'
  BY <1>2, <1>7 DEF IInv, PoolTypes
<1>9. PeopleTypes' /\ ChainTypes' /\ Usable'
  <2>1. PeopleTypes'
    BY <1>2 DEF IInv, PeopleTypes
  <2>2. ChainTypes'
    BY <1>2, <1>6 DEF IInv, ChainTypes
  <2>3. Usable'
    BY <1>2 DEF IInv, Usable
  <2> QED BY <2>1, <2>2, <2>3
<1>10. WgWidens'
  <2>1. wgConf.len \in Int
    BY IfaceNet DEF IInv, PoolTypes
  <2>2. \A i \in wgLive \cup {wgConf} : i.srv = start.wg.srv
    BY DEF IInv, WgWidens
  <2>3. \A i \in wgLive \cup {start.wg} : i.len >= wgConf.len
    BY DEF IInv, WgWidens
  <2> QED BY <1>2, <1>3, <1>6, <2>1, <2>2, <2>3 DEF WgWidens
<1>11. OvWidens'
  <2>1. ovCfg.len \in Int /\ ov.len \in Int /\ start.ov.len \in Int
    BY <1>3, NetsFacts, PoolGeometry
  <2>2. \A n \in {ovCfg, ovConf, ovLive} : n.base = start.ov.base /\ n.len <= start.ov.len
    BY DEF IInv, OvWidens
  <2>3. ov.base = start.ov.base /\ ov.len <= start.ov.len
    BY <1>3, <2>1, <2>2
  <2>4. ovConf.len <= ovCfg.len
    BY DEF IInv, OvWidens
  <2> QED BY <1>2, <1>3, <1>6, <2>2, <2>3, <2>4 DEF OvWidens
<1>12. Apart'
  BY <1>2, <1>4 DEF Apart
<1>13. Clear'
  <2>1. \A e \in host :
          /\ NetsOverlap(NetOf(wgConf), e.net) => e.dev \in DevsAt(NetOf(start.wg)) \cup {"wg"}
          /\ \A n \in {ovCfg, ovConf} : NetsOverlap(n, e.net) => e.dev \in DevsAt(start.ov) \cup {"tun"}
    BY DEF IInv, Clear
  <2> QED BY <1>2, <1>5, <2>1 DEF Clear, DevsAt
<1>14. Masks' /\ InProgress'
  BY <1>2, <1>6 DEF IInv, Masks, InProgress
<1>15. Attaching'
  BY <1>2, <1>6, AttachQuiet
<1> QED BY <1>8, <1>9, <1>10, <1>11, <1>12, <1>13, <1>14, <1>15 DEF IInv

(***************************************************************************)
(* The command's other steps.                                              *)
(***************************************************************************)
\* A step that leaves the pools in the files and the server alone, and what the command is to make of them, keeps the
\* pools apart and clear.
LEMMA QuietPools ==
  ASSUME IInv, UNCHANGED <<wgConf, ovCfg, ovConf, ovLive, host, start>>,
         job'.wg = job.wg, job'.ov = job.ov
  PROVE  Apart' /\ Clear'
<1>1. Apart'
  BY DEF IInv, Apart
<1>2. Clear'
  BY DEF IInv, Clear, DevsAt
<1> QED BY <1>1, <1>2

\* A step to another place of the command.
LEMMA GotoFacts ==
  ASSUME IInv, NEW pc \in Pcs, Goto(pc)
  PROVE  /\ job' \in Job /\ job'.pc = pc
         /\ job'.old = job.old /\ job'.wg = job.wg /\ job'.oldOv = job.oldOv /\ job'.ov = job.ov
         /\ job'.todo = job.todo /\ job'.copies = job.copies
BY DEF IInv, PoolTypes, Job, Goto

LEMMA StopFacts ==
  ASSUME IInv, Stop
  PROVE  /\ job' \in Job /\ job'.pc = "idle"
         /\ job'.old = job.old /\ job'.wg = job.wg /\ job'.oldOv = job.oldOv /\ job'.ov = job.ov
         /\ job'.todo = {} /\ job'.copies = {}
BY DEF IInv, PoolTypes, Job, Stop, Pcs

\* Every address of a user is a host of the wider pool that replaces its own.
LEMMA UsersKeep ==
  ASSUME IInv, UNCHANGED <<wgIP, ovIP, raced>>,
         wgConf' = wgConf \/ wgConf' = job.wg, ovCfg' = ovCfg \/ ovCfg' = job.ov
  PROVE  Usable'
<1>1. wgConf \in Ifaces /\ wgConf' \in Ifaces /\ wgConf'.srv = wgConf.srv /\ wgConf'.len <= wgConf.len
  <2>1. wgConf.len \in Int
    BY IfaceNet DEF IInv, PoolTypes
  <2> QED BY <2>1 DEF IInv, PoolTypes, Job, WgWidens
<1>2. /\ ovCfg \in Nets /\ ovCfg' \in Nets /\ OvServer(ovCfg') = OvServer(ovCfg)
      /\ ovCfg'.base = ovCfg.base /\ ovCfg'.len <= ovCfg.len
  <2>1. ovCfg.len \in Int
    BY NetsFacts DEF IInv, PoolTypes
  <2>2. ovCfg \in Nets /\ job.ov \in Nets
    BY DEF IInv, PoolTypes, Job
  <2>3. job.ov.base = ovCfg.base /\ job.ov.len <= ovCfg.len
    BY DEF IInv, OvWidens
  <2> QED BY <2>1, <2>2, <2>3 DEF OvServer
<1>3. /\ wgConf.len \in Int /\ wgConf'.len \in Int /\ ovCfg.len \in Int /\ ovCfg'.len \in Int
      /\ NetOf(wgConf) \in Nets /\ NetOf(wgConf') \in Nets
  BY <1>1, <1>2, IfaceNet, NetsFacts
<1>4. Within(NetOf(wgConf), NetOf(wgConf'))
  BY <1>1, <1>3, SameServer
<1>5. Within(ovCfg, ovCfg')
  BY <1>2, <1>3, SameBase
<1>6. ASSUME NEW u \in Users, wgIP[u] # NoIP
      PROVE  /\ wgIP[u] # wgConf'.srv /\ HostAllocatable(wgIP[u], NetOf(wgConf'))
             /\ \A v \in Users \ {u} : wgIP[v] # wgIP[u]
  <2>1. /\ wgIP[u] # wgConf.srv /\ HostAllocatable(wgIP[u], NetOf(wgConf))
        /\ \A v \in Users \ {u} : wgIP[v] # wgIP[u]
    BY <1>6 DEF IInv, Usable
  <2>2. wgIP[u] \in Addresses
    BY DEF IInv, PeopleTypes
  <2> QED BY <1>1, <1>3, <1>4, <2>1, <2>2, HostWidened
<1>7. ASSUME NEW u \in Users, ovIP[u] # NoIP
      PROVE  /\ HostAllocatable(ovIP[u], ovCfg') /\ ovIP[u] # OvServer(ovCfg')
             /\ \A v \in Users \ {u} : ovIP[v] # ovIP[u] \/ {u, v} \subseteq raced
  <2>1. /\ ovIP[u] # OvServer(ovCfg) /\ HostAllocatable(ovIP[u], ovCfg)
        /\ \A v \in Users \ {u} : ovIP[v] # ovIP[u] \/ {u, v} \subseteq raced
    BY <1>7 DEF IInv, Usable
  <2>2. ovIP[u] \in Addresses
    BY DEF IInv, PeopleTypes
  <2> QED BY <1>2, <1>5, <2>1, <2>2, HostWidened
<1> QED BY <1>6, <1>7 DEF Usable

LEMMA RewriteWgConfKeeps ==
  ASSUME IInv, RewriteWgConf
  PROVE  IInv'
<1>1. /\ job.pc = "wgConf" /\ wgConf' = job.wg /\ Goto("addrAdd")
      /\ UNCHANGED <<wgLive, ovCfg, ovConf, ovLive, wgIP, ovIP, ccd, host, chain, faults, start, late, att, raced, restored>>
  BY DEF RewriteWgConf, wireguard, openvpn, people, world, firewall
<1>2. /\ job' \in Job /\ job'.pc = "addrAdd" /\ job'.old = job.old /\ job'.wg = job.wg
      /\ job'.ov = job.ov /\ job'.todo = job.todo /\ job'.copies = job.copies
  BY <1>1, GotoFacts DEF Pcs
<1>3. PoolTypes' /\ PeopleTypes' /\ ChainTypes'
  BY <1>1, <1>2 DEF IInv, PoolTypes, PeopleTypes, ChainTypes, Job
<1>4. WgWidens'
  <2>1. /\ \A i \in wgLive \cup {start.wg, wgConf, job.wg, job.old} : i.len \in Int
        /\ wgConf.len \in Int
    BY PoolFacts, IfaceNet DEF IInv, PoolTypes, Job
  <2>2. /\ \A i \in wgLive \cup {wgConf, job.wg, job.old} : i.srv = start.wg.srv
        /\ \A i \in wgLive \cup {start.wg, job.old} : i.len >= wgConf.len
        /\ job.wg.len <= wgConf.len /\ job.wg # job.old
    BY <1>1 DEF IInv, WgWidens
  <2>3. \A i \in wgLive \cup {start.wg, job.old} : i.len >= job.wg.len
    BY <2>1, <2>2
  <2> QED BY <1>1, <1>2, <2>1, <2>2, <2>3 DEF WgWidens
<1>5. OvWidens'
  BY <1>1, <1>2 DEF IInv, OvWidens
<1>6. Apart' /\ Clear'
  <2>1. Apart'
    BY <1>1, <1>2 DEF IInv, Apart
  <2>2. Clear'
    BY <1>1, <1>2 DEF IInv, Clear, DevsAt
  <2> QED BY <2>1, <2>2
<1>7. Usable'
  BY <1>1, UsersKeep
<1>8. Masks' /\ InProgress'
  BY <1>1, <1>2 DEF IInv, Masks, InProgress
<1>9. Attaching'
  BY <1>1, <1>2, AttachQuiet
<1> QED BY <1>3, <1>4, <1>5, <1>6, <1>7, <1>8, <1>9 DEF IInv

LEMMA AddrAddKeeps ==
  ASSUME IInv, AddrAdd
  PROVE  IInv'
<1>1. /\ job.pc = "addrAdd" /\ wgLive' = wgLive \cup {job.wg} /\ Goto("addrDel")
      /\ UNCHANGED <<wgConf, ovCfg, ovConf, ovLive, wgIP, ovIP, ccd, host, chain, faults, start, late, att, raced, restored>>
  BY DEF AddrAdd, wireguard, openvpn, people, world, firewall
<1>2. /\ job' \in Job /\ job'.pc = "addrDel" /\ job'.old = job.old /\ job'.wg = job.wg
      /\ job'.ov = job.ov /\ job'.todo = job.todo /\ job'.copies = job.copies
  BY <1>1, GotoFacts DEF Pcs
<1>3. PoolTypes' /\ PeopleTypes' /\ ChainTypes'
  BY <1>1, <1>2 DEF IInv, PoolTypes, PeopleTypes, ChainTypes, Job
<1>4. WgWidens'
  <2>1. wgConf.len \in Int
    BY IfaceNet DEF IInv, PoolTypes
  <2>2. job.wg = wgConf /\ job.wg # job.old
    BY <1>1 DEF IInv, WgWidens
  <2>3. wgConf.len >= wgConf.len
    BY <2>1
  <2> QED BY <1>1, <1>2, <2>2, <2>3 DEF IInv, WgWidens
<1>5. OvWidens'
  BY <1>1, <1>2 DEF IInv, OvWidens
<1>6. Apart' /\ Clear'
  BY <1>1, <1>2, QuietPools
<1>7. Usable'
  BY <1>1, UsersKeep
<1>8. Masks' /\ InProgress'
  <2>1. wgConf \in wgLive'
    BY <1>1 DEF IInv, WgWidens
  <2> QED BY <1>1, <1>2, <2>1 DEF IInv, Masks, InProgress
<1>9. Attaching'
  BY <1>1, <1>2, AttachQuiet
<1> QED BY <1>3, <1>4, <1>5, <1>6, <1>7, <1>8, <1>9 DEF IInv

LEMMA AddrDelKeeps ==
  ASSUME IInv, AddrDel
  PROVE  IInv'
<1>1. /\ job.pc = "addrDel" /\ wgLive' \in {wgLive, wgLive \ {job.old}} /\ Goto("wgRules")
      /\ UNCHANGED <<wgConf, ovCfg, ovConf, ovLive, wgIP, ovIP, ccd, host, chain, faults, start, late, att, raced, restored>>
  BY DEF AddrDel, wireguard, openvpn, people, world, firewall
<1>2. /\ job' \in Job /\ job'.pc = "wgRules" /\ job'.old = job.old /\ job'.wg = job.wg
      /\ job'.ov = job.ov /\ job'.todo = job.todo /\ job'.copies = job.copies
  BY <1>1, GotoFacts DEF Pcs
<1>0. wgLive' \subseteq wgLive
  BY <1>1
<1>3. PoolTypes' /\ PeopleTypes' /\ ChainTypes'
  BY <1>0, <1>1, <1>2 DEF IInv, PoolTypes, PeopleTypes, ChainTypes, Job
<1>4. WgWidens'
  BY <1>0, <1>1, <1>2 DEF IInv, WgWidens
<1>5. OvWidens'
  BY <1>1, <1>2 DEF IInv, OvWidens
<1>6. Apart' /\ Clear'
  BY <1>1, <1>2, QuietPools
<1>7. Usable'
  BY <1>1, UsersKeep
<1>8. Masks' /\ InProgress'
  <2>1. job.old # wgConf
    BY <1>1 DEF IInv, WgWidens
  <2>2. wgConf \in wgLive => wgConf \in wgLive'
    BY <1>1, <2>1
  <2> QED BY <1>1, <1>2, <2>2 DEF IInv, Masks, InProgress
<1>9. Attaching'
  BY <1>1, <1>2, AttachQuiet
<1> QED BY <1>3, <1>4, <1>5, <1>6, <1>7, <1>8, <1>9 DEF IInv

LEMMA RewriteServerConfKeeps ==
  ASSUME IInv, RewriteServerConf
  PROVE  IInv'
<1>1. /\ job.pc = "serverConf" /\ ovConf' = job.ov /\ Goto("readPeers")
      /\ UNCHANGED <<wgConf, wgLive, ovCfg, ovLive, wgIP, ovIP, ccd, host, chain, faults, start, late, att, raced, restored>>
  BY DEF RewriteServerConf, wireguard, openvpn, people, world, firewall
<1>2. /\ job' \in Job /\ job'.pc = "readPeers" /\ job'.old = job.old /\ job'.wg = job.wg
      /\ job'.ov = job.ov /\ job'.todo = job.todo /\ job'.copies = job.copies
  BY <1>1, GotoFacts DEF Pcs
<1>3. PoolTypes' /\ PeopleTypes' /\ ChainTypes'
  BY <1>1, <1>2 DEF IInv, PoolTypes, PeopleTypes, ChainTypes, Job
<1>4. WgWidens'
  BY <1>1, <1>2 DEF IInv, WgWidens
<1>5. OvWidens'
  BY <1>1, <1>2 DEF IInv, OvWidens
<1>6. Apart' /\ Clear'
  <2>1. Apart'
    BY <1>1, <1>2 DEF IInv, Apart
  <2>2. Clear'
    BY <1>1, <1>2 DEF IInv, Clear, DevsAt
  <2> QED BY <2>1, <2>2
<1>7. Usable'
  BY <1>1, UsersKeep
<1>8. Masks' /\ InProgress'
  BY <1>1, <1>2 DEF IInv, Masks, InProgress
<1>9. Attaching'
  BY <1>1, <1>2, AttachQuiet
<1> QED BY <1>3, <1>4, <1>5, <1>6, <1>7, <1>8, <1>9 DEF IInv

LEMMA ReadPeersKeeps ==
  ASSUME IInv, ReadPeers
  PROVE  IInv'
<1>1. /\ job.pc = "readPeers"
      /\ job' = [job EXCEPT !.pc = "ccd", !.todo = {u \in Users : ovIP[u] # NoIP /\ ccd[u] # 0}]
      /\ UNCHANGED <<wgConf, wgLive, ovCfg, ovConf, ovLive, wgIP, ovIP, ccd, host, chain, faults, start, late, att, raced, restored>>
  BY DEF ReadPeers, wireguard, openvpn, people, world, firewall
<1>2. /\ job' \in Job /\ job'.pc = "ccd" /\ job'.old = job.old /\ job'.wg = job.wg
      /\ job'.ov = job.ov /\ job'.todo = {u \in Users : ovIP[u] # NoIP /\ ccd[u] # 0}
      /\ job'.copies = job.copies
  BY <1>1 DEF IInv, PoolTypes, Job, Pcs
<1>3. PoolTypes' /\ PeopleTypes' /\ ChainTypes'
  BY <1>1, <1>2 DEF IInv, PoolTypes, PeopleTypes, ChainTypes, Job
<1>4. WgWidens'
  BY <1>1, <1>2 DEF IInv, WgWidens
<1>5. OvWidens'
  BY <1>1, <1>2 DEF IInv, OvWidens
<1>6. Apart' /\ Clear'
  BY <1>1, <1>2, QuietPools
<1>7. Usable'
  BY <1>1, UsersKeep
<1>8. Masks' /\ InProgress'
  <2>1. job.ov.len \in Nat
    BY NetsFacts DEF IInv, PoolTypes, Job
  <2>2. \A u \in Users : ovIP[u] # NoIP /\ u \notin job'.todo => ccd[u] <= job.ov.len
    BY <1>2, <2>1
  <2> QED BY <1>1, <1>2, <2>2 DEF IInv, Masks, InProgress
<1>9. Attaching'
  <2>1. \A u \in job'.todo : ovIP'[u] # NoIP
    BY <1>1, <1>2
  <2>2. AttachTypes' /\ PickedFree'
    BY <1>1 DEF IInv, Attaching, AttachTypes, PickedFree
  <2>3. \A u \in Users : Knows(att[u], ovIP[u], ccd[u], ovCfg, u \in late)'
    BY <1>1 DEF IInv, Attaching, Knows
  <2> QED BY <2>1, <2>2, <2>3 DEF Attaching
<1> QED BY <1>3, <1>4, <1>5, <1>6, <1>7, <1>8, <1>9 DEF IInv

LEMMA RewriteCCDKeeps ==
  ASSUME IInv, RewriteCCD
  PROVE  IInv'
<1>1. PICK u \in job.todo :
        ccd' = [ccd EXCEPT ![u] = job.ov.len] /\ job' = [job EXCEPT !.todo = @ \ {u}] /\ late' = late \ {u}
  BY DEF RewriteCCD
<1>0. /\ job.pc = "ccd"
      /\ UNCHANGED <<wgConf, wgLive, ovCfg, ovConf, ovLive, wgIP, ovIP, host, chain, faults, start, att, raced, restored>>
  BY DEF RewriteCCD, wireguard, openvpn, people, world, firewall
<1>2. /\ job' \in Job /\ job'.pc = "ccd" /\ job'.old = job.old /\ job'.wg = job.wg
      /\ job'.ov = job.ov /\ job'.todo = job.todo \ {u} /\ job'.copies = job.copies
  BY <1>0, <1>1 DEF IInv, PoolTypes, Job, Pcs
<1>a. job.ov.len \in 0 .. Bits
  BY NetsFacts DEF IInv, PoolTypes, Job
<1>3. PoolTypes' /\ PeopleTypes' /\ ChainTypes'
  <2>1. ccd' \in [Users -> 0 .. Bits]
    BY <1>1, <1>a DEF IInv, PeopleTypes
  <2>2. late' \in SUBSET Users
    BY <1>1 DEF IInv, PeopleTypes
  <2> QED BY <1>0, <1>2, <2>1, <2>2 DEF IInv, PoolTypes, PeopleTypes, ChainTypes
<1>4. WgWidens'
  BY <1>0, <1>2 DEF IInv, WgWidens
<1>5. OvWidens'
  BY <1>0, <1>2 DEF IInv, OvWidens
<1>6. Apart' /\ Clear'
  BY <1>0, <1>2, QuietPools
<1>7. Usable'
  BY <1>0, UsersKeep
<1>8. Masks' /\ InProgress'
  <2>1. \A v \in Users : ccd'[v] = IF v = u THEN job.ov.len ELSE ccd[v]
    BY <1>1 DEF IInv, PeopleTypes
  <2>2. job.ov.len <= ovCfg.len /\ job.ov.len <= job.ov.len
    BY <1>a DEF IInv, OvWidens
  <2>3. Masks'
    BY <1>0, <1>1, <1>2, <2>1, <2>2 DEF IInv, Masks
  <2> QED BY <1>0, <1>2, <2>3 DEF IInv, InProgress
<1>9. Attaching'
  <2>1. AttachTypes' /\ PickedFree'
    BY <1>0 DEF IInv, Attaching, AttachTypes, PickedFree
  <2>2. ovIP[u] # NoIP /\ u \in Users
    BY DEF IInv, Attaching, PoolTypes, Job
  <2>3. att[u].pc = "none"
    BY <2>2 DEF IInv, Attaching, Knows
  <2>4. ASSUME NEW v \in Users PROVE Knows(att[v], ovIP[v], ccd[v], ovCfg, v \in late)'
    <3>1. CASE v = u
      BY <1>0, <2>3, <3>1 DEF Knows
    <3>2. CASE v # u
      <4>1. ccd'[v] = ccd[v] /\ (v \in late' <=> v \in late)
        BY <1>1, <3>2 DEF IInv, PeopleTypes
      <4>2. Knows(att[v], ovIP[v], ccd[v], ovCfg, v \in late)
        BY DEF IInv, Attaching
      <4> QED BY <1>0, <4>1, <4>2 DEF Knows
    <3> QED BY <3>1, <3>2
  <2>5. \A v \in job'.todo : ovIP'[v] # NoIP
    BY <1>0, <1>2 DEF IInv, Attaching
  <2> QED BY <2>1, <2>4, <2>5 DEF Attaching
<1> QED BY <1>3, <1>4, <1>5, <1>6, <1>7, <1>8, <1>9 DEF IInv

LEMMA SaveSubnetKeeps ==
  ASSUME IInv, SaveSubnet
  PROVE  IInv'
<1>1. /\ job.pc = "ccd" /\ job.todo = {} /\ ovCfg' = job.ov /\ Goto("ovRules")
      /\ late' = late \cup {u \in Users : att[u].pc # "none"}
      /\ UNCHANGED <<wgConf, wgLive, ovConf, ovLive, wgIP, ovIP, ccd, host, chain, faults, start, att, raced, restored>>
  BY DEF SaveSubnet, wireguard, openvpn, people, world, firewall
<1>2. /\ job' \in Job /\ job'.pc = "ovRules" /\ job'.old = job.old /\ job'.wg = job.wg
      /\ job'.ov = job.ov /\ job'.todo = job.todo /\ job'.copies = job.copies
  BY <1>1, GotoFacts DEF Pcs
<1>3. PoolTypes' /\ PeopleTypes' /\ ChainTypes'
  BY <1>1, <1>2 DEF IInv, PoolTypes, PeopleTypes, ChainTypes, Job
<1>4. WgWidens'
  BY <1>1, <1>2 DEF IInv, WgWidens
<1>5. OvWidens'
  <2>1. job.ov.len \in Int
    BY NetsFacts DEF IInv, PoolTypes, Job
  <2>2. ovConf = job.ov
    BY <1>1 DEF IInv, OvWidens
  <2>3. ovConf.len <= job.ov.len /\ job.ov.len <= job.ov.len
    BY <2>1, <2>2
  <2> QED BY <1>1, <1>2, <2>3 DEF IInv, OvWidens
<1>6. Apart' /\ Clear'
  <2>1. Apart'
    BY <1>1, <1>2 DEF IInv, Apart
  <2>2. Clear'
    BY <1>1, <1>2 DEF IInv, Clear, DevsAt
  <2> QED BY <2>1, <2>2
<1>7. Usable'
  BY <1>1, UsersKeep
<1>8. Masks' /\ InProgress'
  BY <1>1, <1>2 DEF IInv, Masks, InProgress
<1>9. Attaching'
  <2>1. AttachTypes' /\ PickedFree'
    BY <1>1 DEF IInv, Attaching, AttachTypes, PickedFree
  <2>2. ASSUME NEW u \in Users PROVE Knows(att[u], ovIP[u], ccd[u], ovCfg, u \in late)'
    <3>1. CASE att[u].pc = "none"
      BY <1>1, <3>1 DEF Knows
    <3>2. CASE att[u].pc # "none"
      <4>1. u \in late'
        BY <1>1, <3>2
      <4>2. /\ ovIP[u] = NoIP /\ att[u].net.base = ovCfg.base /\ ovCfg.len <= att[u].net.len
            /\ att[u].pc \in {"write", "record"} =>
                 HostAllocatable(att[u].ip, att[u].net) /\ att[u].ip # OvServer(att[u].net)
        BY <3>2 DEF IInv, Attaching, Knows
      <4>3. ovCfg'.base = ovCfg.base /\ ovCfg'.len <= ovCfg.len
        BY <1>1 DEF IInv, OvWidens
      <4>4. att[u].net.len \in Int /\ ovCfg.len \in Int /\ ovCfg'.len \in Int
        BY <1>1, NetsFacts DEF IInv, Attaching, AttachTypes, PoolTypes, Job
      <4>5. att[u].net.base = ovCfg'.base /\ ovCfg'.len <= att[u].net.len
        BY <4>2, <4>3, <4>4
      <4> QED BY <1>1, <4>1, <4>2, <4>5 DEF Knows
    <3> QED BY <3>1, <3>2
  <2>3. \A u \in job'.todo : ovIP'[u] # NoIP
    BY <1>1, <1>2
  <2> QED BY <2>1, <2>2, <2>3 DEF Attaching
<1> QED BY <1>3, <1>4, <1>5, <1>6, <1>7, <1>8, <1>9 DEF IInv

LEMMA ReadRulesKeeps ==
  ASSUME IInv, ReadRules
  PROVE  IInv'
<1>1. UNCHANGED <<wgConf, wgLive, ovCfg, ovConf, ovLive, wgIP, ovIP, ccd, host, chain, faults, start, late, att, raced, restored>>
  BY DEF ReadRules, wireguard, openvpn, people, world, firewall
<1>0. PICK pc \in {"wgCopies", "ovCopies"}, old \in Nets, new \in Nets :
        /\ job' = [job EXCEPT !.pc = pc, !.copies = WidenRuleArgs(chain, old, new)]
        /\ \/ job.pc = "wgRules" /\ pc = "wgCopies"
           \/ job.pc = "ovRules" /\ pc = "ovCopies"
  <2>1. /\ NetOf(job.old) \in Nets /\ NetOf(job.wg) \in Nets /\ job.oldOv \in Nets /\ job.ov \in Nets
    BY IfaceNet DEF IInv, PoolTypes, Job
  <2> QED BY <2>1 DEF ReadRules
<1>a. /\ WidenRuleArgs(chain, old, new) \in SUBSET [pos : Nat, rule : Rule]
      /\ \A c \in WidenRuleArgs(chain, old, new) : c.pos \in 1 .. Len(chain)
  BY RuleArgsType DEF IInv, ChainTypes
<1>2. /\ job' \in Job /\ job'.pc = pc /\ job'.old = job.old /\ job'.wg = job.wg
      /\ job'.ov = job.ov /\ job'.todo = job.todo /\ job'.copies = WidenRuleArgs(chain, old, new)
  BY <1>0, <1>a DEF IInv, PoolTypes, Job, Pcs
<1>3. PoolTypes' /\ PeopleTypes' /\ ChainTypes'
  <2>1. \A c \in job'.copies : c.pos \in Nat \ {0}
    BY <1>2, <1>a
  <2> QED BY <1>1, <1>2, <1>a, <2>1 DEF IInv, PoolTypes, PeopleTypes, ChainTypes
<1>4. WgWidens'
  BY <1>1, <1>2 DEF IInv, WgWidens
<1>5. OvWidens'
  BY <1>1, <1>2 DEF IInv, OvWidens
<1>6. Apart' /\ Clear'
  BY <1>1, <1>2, QuietPools
<1>7. Usable'
  BY <1>1, UsersKeep
<1>8. Masks' /\ InProgress'
  BY <1>0, <1>1, <1>2 DEF IInv, Masks, InProgress
<1>9. Attaching'
  BY <1>1, <1>2, AttachQuiet
<1> QED BY <1>3, <1>4, <1>5, <1>6, <1>7, <1>8, <1>9 DEF IInv

LEMMA CopyRuleKeeps ==
  ASSUME IInv, CopyRule
  PROVE  IInv'
<1>1. PICK c \in job.copies :
        /\ \/ chain' = Insert(chain, c) /\ faults' = faults
           \/ chain' = chain /\ faults < MaxFaults /\ faults' = faults + 1
        /\ job' = [job EXCEPT !.copies = @ \ {c}]
  BY DEF CopyRule
<1>0. /\ job.pc \in {"wgCopies", "ovCopies"}
      /\ UNCHANGED <<wgConf, wgLive, ovCfg, ovConf, ovLive, wgIP, ovIP, ccd, host, start, late, att, raced, restored>>
  BY DEF CopyRule, wireguard, openvpn, people, world, firewall
<1>2. /\ job' \in Job /\ job'.pc = job.pc /\ job'.old = job.old /\ job'.wg = job.wg
      /\ job'.ov = job.ov /\ job'.todo = job.todo /\ job'.copies = job.copies \ {c}
  BY <1>1 DEF IInv, PoolTypes, Job
<1>a. faults' \in 0 .. MaxFaults /\ (faults' = 0 => faults = 0)
  BY <1>1, ConstantTypes DEF IInv, PoolTypes
<1>b. /\ chain' \in Seq(Rule) /\ Len(chain) <= Len(chain')
      /\ Len(chain) \in Nat /\ Len(chain') \in Nat
  <2>1. chain \in Seq(Rule) /\ c.pos \in Nat \ {0} /\ c.rule \in Rule
    BY DEF IInv, ChainTypes, PoolTypes, Job
  <2>2. Insert(chain, c) \in Seq(Rule) /\ Len(chain) <= Len(Insert(chain, c))
    BY <2>1, InsertType
  <2>3. Len(chain) \in Nat /\ Len(Insert(chain, c)) \in Nat
    BY <2>1, <2>2, LenProperties
  <2> QED BY <1>1, <2>1, <2>2, <2>3
<1>3. PoolTypes' /\ PeopleTypes' /\ ChainTypes'
  <2>1. PoolTypes' /\ PeopleTypes'
    BY <1>0, <1>2, <1>a DEF IInv, PoolTypes, PeopleTypes
  <2>2. /\ restored \in BOOLEAN
        /\ \A d \in job.copies : d.pos \in Nat \ {0}
        /\ ~restored => \A d \in job.copies : d.pos \in 1 .. Len(chain')
    BY <1>b DEF IInv, ChainTypes
  <2>3. ChainTypes'
    BY <1>0, <1>2, <1>b, <2>2 DEF ChainTypes
  <2> QED BY <2>1, <2>3
<1>4. WgWidens'
  BY <1>0, <1>2 DEF IInv, WgWidens
<1>5. OvWidens'
  BY <1>0, <1>2 DEF IInv, OvWidens
<1>6. Apart' /\ Clear'
  BY <1>0, <1>2, QuietPools
<1>7. Usable'
  BY <1>0, UsersKeep
<1>8. Masks' /\ InProgress'
  BY <1>0, <1>2, <1>a DEF IInv, Masks, InProgress
<1>9. Attaching'
  BY <1>0, <1>2, AttachQuiet
<1> QED BY <1>3, <1>4, <1>5, <1>6, <1>7, <1>8, <1>9 DEF IInv

LEMMA AfterRulesKeeps ==
  ASSUME IInv, AfterRules
  PROVE  IInv'
<1>1. /\ job.pc \in {"wgCopies", "ovCopies"}
      /\ UNCHANGED <<wgConf, wgLive, ovCfg, ovConf, ovLive, wgIP, ovIP, ccd, host, chain, faults, start, late, att, raced, restored>>
  BY DEF AfterRules, wireguard, openvpn, people, world, firewall
<1>0. PICK pc \in {"restart", "serverConf", "idle"} :
        Goto(pc) /\ (pc # "restart" => job.pc = "wgCopies")
  <2>1. AfterWg(job) \in {"serverConf", "idle"}
    BY DEF AfterWg
  <2> QED BY <1>1, <2>1 DEF AfterRules
<1>2. /\ job' \in Job /\ job'.pc = pc /\ job'.old = job.old /\ job'.wg = job.wg
      /\ job'.ov = job.ov /\ job'.todo = job.todo /\ job'.copies = job.copies
  BY <1>0, GotoFacts DEF Pcs
<1>3. PoolTypes' /\ PeopleTypes' /\ ChainTypes'
  BY <1>1, <1>2 DEF IInv, PoolTypes, PeopleTypes, ChainTypes, Job
<1>4. WgWidens'
  BY <1>1, <1>2 DEF IInv, WgWidens
<1>5. OvWidens'
  BY <1>1, <1>2 DEF IInv, OvWidens
<1>6. Apart' /\ Clear'
  BY <1>1, <1>2, QuietPools
<1>7. Usable'
  BY <1>1, UsersKeep
<1>8. Masks' /\ InProgress'
  BY <1>0, <1>1, <1>2 DEF IInv, Masks, InProgress
<1>9. Attaching'
  BY <1>1, <1>2, AttachQuiet
<1> QED BY <1>3, <1>4, <1>5, <1>6, <1>7, <1>8, <1>9 DEF IInv

LEMMA RestartOpenvpnKeeps ==
  ASSUME IInv, RestartOpenvpn
  PROVE  IInv'
<1>1. /\ job.pc = "restart" /\ ovLive' = (IF start.unit THEN ovConf ELSE ovLive) /\ Stop
      /\ UNCHANGED <<wgConf, wgLive, ovCfg, ovConf, wgIP, ovIP, ccd, host, chain, faults, start, late, att, raced, restored>>
  BY DEF RestartOpenvpn, wireguard, openvpn, people, world, firewall
<1>2. /\ job' \in Job /\ job'.pc = "idle" /\ job'.old = job.old /\ job'.wg = job.wg
      /\ job'.ov = job.ov /\ job'.todo = {} /\ job'.copies = {}
  BY <1>1, StopFacts
<1>3. PoolTypes' /\ PeopleTypes' /\ ChainTypes'
  BY <1>1, <1>2 DEF IInv, PoolTypes, PeopleTypes, ChainTypes, Job
<1>4. WgWidens'
  BY <1>1, <1>2 DEF IInv, WgWidens
<1>5. OvWidens'
  BY <1>1, <1>2 DEF IInv, OvWidens
<1>6. Apart' /\ Clear'
  <2>1. Apart'
    BY <1>1, <1>2 DEF IInv, Apart
  <2>2. Clear'
    BY <1>1, <1>2 DEF IInv, Clear, DevsAt
  <2> QED BY <2>1, <2>2
<1>7. Usable'
  BY <1>1, UsersKeep
<1>8. Masks' /\ InProgress'
  BY <1>1, <1>2 DEF IInv, Masks, InProgress
<1>9. Attaching'
  BY <1>1, <1>2, AttachQuiet
<1> QED BY <1>3, <1>4, <1>5, <1>6, <1>7, <1>8, <1>9 DEF IInv

LEMMA DiesKeeps ==
  ASSUME IInv, Dies
  PROVE  IInv'
<1>1. /\ faults < MaxFaults /\ faults' = faults + 1 /\ Stop
      /\ UNCHANGED <<wgConf, wgLive, ovCfg, ovConf, ovLive, wgIP, ovIP, ccd, host, chain, start, late, att, raced, restored>>
  BY DEF Dies, wireguard, openvpn, people, world, firewall
<1>2. /\ job' \in Job /\ job'.pc = "idle" /\ job'.old = job.old /\ job'.wg = job.wg
      /\ job'.ov = job.ov /\ job'.todo = {} /\ job'.copies = {}
  BY <1>1, StopFacts
<1>a. faults' \in 0 .. MaxFaults /\ faults' # 0
  BY <1>1, ConstantTypes DEF IInv, PoolTypes
<1>3. PoolTypes' /\ PeopleTypes' /\ ChainTypes'
  BY <1>1, <1>2, <1>a DEF IInv, PoolTypes, PeopleTypes, ChainTypes
<1>4. WgWidens'
  BY <1>1, <1>2 DEF IInv, WgWidens
<1>5. OvWidens'
  BY <1>1, <1>2 DEF IInv, OvWidens
<1>6. Apart' /\ Clear'
  BY <1>1, <1>2, QuietPools
<1>7. Usable'
  BY <1>1, UsersKeep
<1>8. Masks' /\ InProgress'
  BY <1>1, <1>2, <1>a DEF IInv, Masks, InProgress
<1>9. Attaching'
  BY <1>1, <1>2, AttachQuiet
<1> QED BY <1>3, <1>4, <1>5, <1>6, <1>7, <1>8, <1>9 DEF IInv

(***************************************************************************)
(* What happens beside the command.                                        *)
(***************************************************************************)
\* What a restart of the firewall leaves is a chain of rules.
LEMMA Restored ==
  ASSUME IInv, RestoreRules
  PROVE  /\ chain' \in Seq(Rule) /\ restored' \in BOOLEAN
         /\ ~restored' => ~restored /\ chain' = chain
<1>1. PICK post \in SUBSET {i \in 1 .. Len(start.chain) : start.chain[i].net = NetOf(start.wg)} :
        chain' = SavedRules(post) /\ restored' = (restored \/ chain' # chain)
  BY DEF RestoreRules
<1>2. start.chain \in Seq(Rule) /\ NetOf(wgConf) \in Nets
  BY PoolFacts, IfaceNet DEF IInv, PoolTypes
<1>3. Len(start.chain) \in Nat /\ \A i \in 1 .. Len(start.chain) : start.chain[i] \in Rule
  BY <1>2, LenProperties, ElementOfSeq
<1>4. ASSUME NEW i \in 1 .. Len(start.chain)
      PROVE  [start.chain[i] EXCEPT !.net = IF i \in post THEN NetOf(wgConf) ELSE @] \in Rule
  BY <1>2, <1>3 DEF Rule, Rules
<1>5. SavedRules(post) \in [1 .. Len(start.chain) -> Rule]
  BY <1>4 DEF SavedRules
<1>6. SavedRules(post) \in Seq(Rule)
  BY <1>3, <1>5
<1> QED BY <1>1, <1>6 DEF IInv, ChainTypes

LEMMA ReloadFirewallKeeps ==
  ASSUME IInv, ReloadFirewall
  PROVE  IInv'
<1>1. /\ RestoreRules
      /\ UNCHANGED <<wgConf, wgLive, ovCfg, ovConf, ovLive, wgIP, ovIP, ccd, host, job, faults, start, late, att, raced>>
  BY DEF ReloadFirewall, wireguard, openvpn, people, world
<1>2. PoolTypes' /\ PeopleTypes' /\ WgWidens' /\ OvWidens'
  BY <1>1 DEF IInv, PoolTypes, PeopleTypes, WgWidens, OvWidens
<1>3. ChainTypes'
  BY <1>1, Restored DEF IInv, ChainTypes
<1>4. Apart' /\ Clear'
  BY <1>1, QuietPools
<1>5. Usable'
  BY <1>1, UsersKeep
<1>6. Masks' /\ InProgress'
  BY <1>1 DEF IInv, Masks, InProgress
<1>7. Attaching'
  BY <1>1, AttachQuiet
<1> QED BY <1>2, <1>3, <1>4, <1>5, <1>6, <1>7 DEF IInv

LEMMA BootKeeps ==
  ASSUME IInv, Boot
  PROVE  IInv'
<1>1. /\ job.pc = "idle" /\ wgLive' = {wgConf} /\ ovLive' = ovConf /\ RestoreRules
      /\ att' = [u \in Users |-> NoAttach]
      /\ UNCHANGED <<wgConf, ovCfg, ovConf, wgIP, ovIP, ccd, host, job, faults, start, late, raced>>
  BY DEF Boot, world
<1>2. PoolTypes' /\ PeopleTypes' /\ ChainTypes'
  <2>1. ChainTypes'
    BY <1>1, Restored DEF IInv, ChainTypes
  <2> QED BY <1>1, <2>1 DEF IInv, PoolTypes, PeopleTypes
<1>3. WgWidens'
  <2>1. wgConf.len >= wgConf.len
    BY IfaceNet DEF IInv, PoolTypes
  <2> QED BY <1>1, <2>1 DEF IInv, WgWidens
<1>4. OvWidens'
  BY <1>1 DEF IInv, OvWidens
<1>5. Apart'
  BY <1>1 DEF IInv, Apart
<1>6. Clear'
  BY <1>1 DEF IInv, Clear, DevsAt
<1>7. Usable'
  BY <1>1, UsersKeep
<1>8. Masks' /\ InProgress'
  BY <1>1 DEF IInv, Masks, InProgress
<1>9. Attaching'
  <2>1. AttachTypes'
    <3>1. NoAttach \in [pc : AttachPcs, net : Nets, ip : Addresses]
      BY NoAttachType DEF IInv, PoolTypes
    <3> QED BY <1>1, <3>1 DEF IInv, Attaching, AttachTypes
  <2>2. \A u \in Users : att'[u].pc = "none"
    BY <1>1 DEF NoAttach
  <2>3. \A u \in job'.todo : ovIP'[u] # NoIP
    BY <1>1 DEF IInv, Attaching
  <2> QED BY <2>1, <2>2, <2>3 DEF Attaching, PickedFree, HasPicked, Knows
<1> QED BY <1>2, <1>3, <1>4, <1>5, <1>6, <1>7, <1>8, <1>9 DEF IInv

\* A step that is about the users alone keeps what is about the pools and the firewall.
LEMMA PoolsKept ==
  ASSUME IInv, UNCHANGED <<wgConf, wgLive, ovCfg, ovConf, ovLive, host, chain, job, faults, start, restored>>
  PROVE  PoolTypes' /\ ChainTypes' /\ WgWidens' /\ OvWidens' /\ Apart' /\ Clear' /\ InProgress'
<1>1. PoolTypes' /\ ChainTypes' /\ WgWidens' /\ OvWidens'
  BY DEF IInv, PoolTypes, ChainTypes, WgWidens, OvWidens
<1>2. Apart' /\ Clear'
  BY QuietPools
<1>3. InProgress'
  BY DEF IInv, InProgress
<1> QED BY <1>1, <1>2, <1>3

LEMMA NextFreeIPKeeps ==
  ASSUME IInv, NEW u \in Users, NextFreeIP(u)
  PROVE  IInv'
<1> DEFINE used == {wgConf.srv} \cup {wgIP[v] : v \in Users}
<1> DEFINE a == Least(FreeHosts(NetOf(wgConf), used))
<1>1. /\ FreeHosts(NetOf(wgConf), used) # {} /\ wgIP' = [wgIP EXCEPT ![u] = a]
      /\ UNCHANGED <<wgConf, wgLive, ovCfg, ovConf, ovLive, ovIP, ccd, host, chain, job, faults, start, late, att, raced, restored>>
  BY DEF NextFreeIP, wireguard, openvpn, world, firewall
<1>2. /\ a \in Addresses /\ HostAllocatable(a, NetOf(wgConf)) /\ a \notin used
  <2>1. NetOf(wgConf) \in Nets
    BY IfaceNet DEF IInv, PoolTypes
  <2> HIDE DEF used
  <2> QED BY <1>1, <2>1, LeastFree
<1> HIDE DEF a
<1>3. \A v \in Users : wgIP'[v] = IF v = u THEN a ELSE wgIP[v]
  BY <1>1 DEF IInv, PeopleTypes
<1>4. PeopleTypes'
  <2>1. wgIP' \in [Users -> Addresses]
    BY <1>1, <1>2 DEF IInv, PeopleTypes
  <2> QED BY <1>1, <2>1 DEF IInv, PeopleTypes
<1>5. Usable'
  <2>1. a # wgConf.srv /\ \A v \in Users : a # wgIP[v]
    BY <1>2
  <2> QED BY <1>1, <1>2, <1>3, <2>1 DEF IInv, Usable
<1>6. Masks'
  BY <1>1 DEF IInv, Masks
<1>7. Attaching'
  BY <1>1, AttachQuiet
<1> QED BY <1>1, <1>4, <1>5, <1>6, <1>7, PoolsKept DEF IInv

\* What a step of an attach leaves alone.
Others == <<wgConf, wgLive, ovCfg, ovConf, ovLive, wgIP, host, chain, job, faults, start, restored>>

\* An attach that moves on, or is given up, keeps what is said of the other attaches.
LEMMA AttachMoves ==
  ASSUME IInv, NEW u \in Users, NEW a, a \in [pc : AttachPcs, net : Nets, ip : Addresses],
         att' = [att EXCEPT ![u] = a], UNCHANGED <<ovCfg, job>>,
         raced \subseteq raced', raced' \subseteq Users,
         \A v \in Users \ {u} : ovIP'[v] = ovIP[v] /\ ccd'[v] = ccd[v] /\ (v \in late' <=> v \in late),
         Knows(a, ovIP'[u], ccd'[u], ovCfg, u \in late'),
         ovIP[u] # NoIP => ovIP'[u] # NoIP,
         HasPicked(a) => \A v \in Users \ {u} :
           /\ HasPicked(att[v]) => {u, v} \subseteq raced'
           /\ ovIP[v] # a.ip \/ {u, v} \subseteq raced',
         \A v \in Users \ {u} : HasPicked(att[v]) => ovIP'[u] # att[v].ip \/ {u, v} \subseteq raced'
  PROVE  Attaching'
<1>1. att \in [Users -> [pc : AttachPcs, net : Nets, ip : Addresses]]
  BY DEF IInv, Attaching, AttachTypes
<1>2. att'[u] = a /\ \A v \in Users \ {u} : att'[v] = att[v]
  BY <1>1
<1>3. AttachTypes'
  BY <1>1 DEF AttachTypes
<1>4. PickedFree'
  <2> SUFFICES ASSUME NEW x \in Users, HasPicked(att'[x]), NEW y \in Users \ {x}
               PROVE  /\ HasPicked(att'[y]) => {x, y} \subseteq raced'
                      /\ ovIP'[y] # att'[x].ip \/ {x, y} \subseteq raced'
    BY DEF PickedFree, HasPicked
  <2>1. CASE x = u
    <3>1. y \in Users \ {u} /\ HasPicked(a) /\ att'[x] = a /\ att'[y] = att[y] /\ ovIP'[y] = ovIP[y]
      BY <1>2, <2>1
    <3> QED BY <2>1, <3>1
  <2>2. CASE x # u /\ y = u
    <3>1. x \in Users \ {u} /\ HasPicked(att[x]) /\ att'[x] = att[x] /\ att'[y] = a
      BY <1>2, <2>2
    <3>2. HasPicked(a) => {u, x} \subseteq raced'
      BY <3>1
    <3>3. ovIP'[u] # att[x].ip \/ {u, x} \subseteq raced'
      BY <3>1
    <3> QED BY <2>2, <3>1, <3>2, <3>3
  <2>3. CASE x # u /\ y # u
    <3>1. att'[x] = att[x] /\ att'[y] = att[y] /\ ovIP'[y] = ovIP[y]
      BY <1>2, <2>3
    <3>2. /\ HasPicked(att[y]) => {x, y} \subseteq raced
          /\ ovIP[y] # att[x].ip \/ {x, y} \subseteq raced
      BY <3>1 DEF IInv, Attaching, PickedFree
    <3> QED BY <3>1, <3>2
  <2> QED BY <2>1, <2>2, <2>3
<1>5. ASSUME NEW v \in Users PROVE Knows(att[v], ovIP[v], ccd[v], ovCfg, v \in late)'
  <2>1. CASE v = u
    BY <1>2, <2>1 DEF Knows
  <2>2. CASE v # u
    <3>1. Knows(att[v], ovIP[v], ccd[v], ovCfg, v \in late)
      BY DEF IInv, Attaching
    <3>2. att'[v] = att[v] /\ ovIP'[v] = ovIP[v] /\ ccd'[v] = ccd[v] /\ (v \in late' <=> v \in late)
      BY <1>2, <2>2
    <3> QED BY <3>1, <3>2 DEF Knows
  <2> QED BY <2>1, <2>2
<1>6. \A v \in job'.todo : ovIP'[v] # NoIP
  <2>1. job.todo \subseteq Users /\ \A v \in job.todo : ovIP[v] # NoIP
    BY DEF IInv, Attaching, PoolTypes, Job
  <2> QED BY <2>1
<1> QED BY <1>3, <1>4, <1>5, <1>6 DEF Attaching

\* What the invariant says of an attach and of what the others have picked.
LEMMA AttachFacts ==
  ASSUME IInv, NEW u \in Users
  PROVE  /\ att[u] \in [pc : AttachPcs, net : Nets, ip : Addresses]
         /\ Knows(att[u], ovIP[u], ccd[u], ovCfg, u \in late)
         /\ \A v \in Users \ {u} : HasPicked(att[v]) => ovIP[u] # att[v].ip \/ {u, v} \subseteq raced
         /\ HasPicked(att[u]) => \A v \in Users \ {u} :
              /\ HasPicked(att[v]) => {u, v} \subseteq raced
              /\ ovIP[v] # att[u].ip \/ {u, v} \subseteq raced
         /\ raced \subseteq Users
         /\ ovCfg \in Nets /\ ovCfg.len \in 0 .. Bits
<1>1. /\ att[u] \in [pc : AttachPcs, net : Nets, ip : Addresses] /\ raced \subseteq Users
      /\ Knows(att[u], ovIP[u], ccd[u], ovCfg, u \in late) /\ PickedFree
  BY DEF IInv, Attaching, AttachTypes
<1>2. HasPicked(att[u]) => \A v \in Users \ {u} :
        /\ HasPicked(att[v]) => {u, v} \subseteq raced
        /\ ovIP[v] # att[u].ip \/ {u, v} \subseteq raced
  BY <1>1 DEF PickedFree
<1>3. ASSUME NEW v \in Users \ {u}, HasPicked(att[v])
      PROVE  ovIP[u] # att[v].ip \/ {u, v} \subseteq raced
  <2>1. u \in Users \ {v}
    OBVIOUS
  <2>2. ovIP[u] # att[v].ip \/ {v, u} \subseteq raced
    BY <1>1, <1>3, <2>1 DEF PickedFree
  <2> QED BY <2>2
<1>4. ovCfg \in Nets /\ ovCfg.len \in 0 .. Bits
  BY NetsFacts DEF IInv, PoolTypes
<1> QED BY <1>1, <1>2, <1>3, <1>4

LEMMA LoadSubnetKeeps ==
  ASSUME IInv, NEW u \in Users, LoadSubnet(u)
  PROVE  IInv'
<1> DEFINE a == [pc |-> "pick", net |-> ovCfg, ip |-> NoIP]
<1>1. /\ ovIP[u] = NoIP /\ att' = [att EXCEPT ![u] = a] /\ late' = late \ {u}
      /\ UNCHANGED Others /\ UNCHANGED <<ovIP, ccd, raced>>
  BY DEF LoadSubnet, Others, wireguard, openvpn, world, firewall
<1>2. UNCHANGED <<wgConf, wgLive, ovCfg, ovConf, ovLive, wgIP, host, chain, job, faults, start, restored>>
  BY <1>1 DEF Others
<1>3. PeopleTypes'
  BY <1>1, <1>2 DEF IInv, PeopleTypes
<1>4. Usable'
  BY <1>1, <1>2 DEF IInv, Usable
<1>5. Masks'
  BY <1>1, <1>2 DEF IInv, Masks
<1>6. Attaching'
  <2>1. a \in [pc : AttachPcs, net : Nets, ip : Addresses] /\ a.pc = "pick" /\ a.net = ovCfg
    BY <1>1, AttachFacts DEF AttachPcs, IInv, PeopleTypes
  <2> HIDE DEF a
  <2>2. ovCfg.len <= ovCfg.len
    BY AttachFacts
  <2>3. Knows(a, ovIP'[u], ccd'[u], ovCfg, u \in late')
    BY <1>1, <2>1, <2>2 DEF Knows
  <2>4. ~HasPicked(a)
    BY <2>1 DEF HasPicked
  <2>5. \A v \in Users \ {u} : HasPicked(att[v]) => ovIP[u] # att[v].ip \/ {u, v} \subseteq raced
    BY AttachFacts
  <2> QED BY <1>1, <1>2, <2>1, <2>3, <2>4, <2>5, AttachFacts, AttachMoves
<1> QED BY <1>2, <1>3, <1>4, <1>5, <1>6, PoolsKept DEF IInv

LEMMA OvpnNextFreeIPKeeps ==
  ASSUME IInv, NEW u \in Users, OvpnNextFreeIP(u)
  PROVE  IInv'
<1> DEFINE net == att[u].net
<1> DEFINE used == {OvServer(net)} \cup {ovIP[v] : v \in Users}
<1> DEFINE ip == Least(FreeHosts(net, used))
<1> DEFINE a == [pc |-> "write", net |-> net, ip |-> ip]
<1> DEFINE picked == {v \in Users : att[v].pc \in {"write", "record"}}
<1>1. /\ att[u].pc = "pick" /\ FreeHosts(net, used) # {} /\ att' = [att EXCEPT ![u] = a]
      /\ raced' = IF picked = {} THEN raced ELSE raced \cup picked \cup {u}
      /\ UNCHANGED Others /\ UNCHANGED <<ovIP, ccd, late>>
  BY DEF OvpnNextFreeIP, Others, wireguard, openvpn, world, firewall
<1>2. UNCHANGED <<wgConf, wgLive, ovCfg, ovConf, ovLive, wgIP, host, chain, job, faults, start, restored>>
  BY <1>1 DEF Others
<1>a. raced \subseteq raced' /\ raced' \subseteq Users
  BY <1>1, AttachFacts
<1>3. PeopleTypes'
  BY <1>1, <1>2 DEF IInv, PeopleTypes
<1>4. Usable'
  BY <1>1, <1>2, <1>a DEF IInv, Usable
<1>5. Masks'
  BY <1>1, <1>2 DEF IInv, Masks
<1>6. Attaching'
  <2>0. net \in Nets /\ att[u] \in [pc : AttachPcs, net : Nets, ip : Addresses]
    BY AttachFacts
  <2>1. ip \in Addresses /\ HostAllocatable(ip, net) /\ ip \notin used
    <3> HIDE DEF used, net
    <3> QED BY <1>1, <2>0, LeastFree
  <2>2. ip # OvServer(net) /\ \A v \in Users : ovIP[v] # ip
    BY <2>1
  <2> HIDE DEF ip
  <2>3. a \in [pc : AttachPcs, net : Nets, ip : Addresses] /\ a.pc = "write" /\ a.net = att[u].net /\ a.ip = ip
    BY <2>0, <2>1 DEF AttachPcs
  <2>4. \A v \in Users : HasPicked(att[v]) => {u, v} \subseteq raced'
    BY <1>1 DEF HasPicked
  <2>5. Knows(att[u], ovIP[u], ccd[u], ovCfg, u \in late)
    BY AttachFacts
  <2>6. Knows(a, ovIP'[u], ccd'[u], ovCfg, u \in late')
    BY <1>1, <2>1, <2>2, <2>3, <2>5 DEF Knows
  <2>7. \A v \in Users \ {u} : HasPicked(att[v]) => ovIP'[u] # att[v].ip \/ {u, v} \subseteq raced'
    BY <2>4
  <2>8. HasPicked(a) => \A v \in Users \ {u} :
           /\ HasPicked(att[v]) => {u, v} \subseteq raced'
           /\ ovIP[v] # a.ip \/ {u, v} \subseteq raced'
    BY <2>2, <2>3, <2>4
  <2> HIDE DEF a
  <2> QED BY <1>1, <1>2, <1>a, <2>3, <2>6, <2>7, <2>8, AttachMoves
<1> QED BY <1>2, <1>3, <1>4, <1>5, <1>6, PoolsKept DEF IInv

LEMMA WriteCCDKeeps ==
  ASSUME IInv, NEW u \in Users, WriteCCD(u)
  PROVE  IInv'
<1> DEFINE a == [att[u] EXCEPT !.pc = "record"]
<1>1. /\ att[u].pc = "write" /\ ccd' = [ccd EXCEPT ![u] = att[u].net.len] /\ att' = [att EXCEPT ![u] = a]
      /\ UNCHANGED Others /\ UNCHANGED <<ovIP, late, raced>>
  BY DEF WriteCCD, Others, wireguard, openvpn, world, firewall
<1>2. UNCHANGED <<wgConf, wgLive, ovCfg, ovConf, ovLive, wgIP, host, chain, job, faults, start, restored>>
  BY <1>1 DEF Others
<1>a. /\ att[u] \in [pc : AttachPcs, net : Nets, ip : Addresses]
      /\ Knows(att[u], ovIP[u], ccd[u], ovCfg, u \in late)
  BY AttachFacts
<1>b. att[u].net.len \in 0 .. Bits
  BY <1>a, NetsFacts
<1>c. ovIP[u] = NoIP
  BY <1>1, <1>a DEF Knows
<1>d. ccd'[u] = att[u].net.len /\ \A v \in Users \ {u} : ccd'[v] = ccd[v]
  BY <1>1 DEF IInv, PeopleTypes
<1>3. PeopleTypes'
  <2>1. ccd' \in [Users -> 0 .. Bits]
    BY <1>1, <1>b DEF IInv, PeopleTypes
  <2> QED BY <1>1, <1>2, <2>1 DEF IInv, PeopleTypes
<1>4. Usable'
  BY <1>1, <1>2 DEF IInv, Usable
<1>5. Masks'
  BY <1>1, <1>2, <1>c, <1>d DEF IInv, Masks
<1>6. Attaching'
  <2>1. a \in [pc : AttachPcs, net : Nets, ip : Addresses] /\ a.pc = "record" /\ a.net = att[u].net /\ a.ip = att[u].ip
    BY <1>a DEF AttachPcs
  <2> HIDE DEF a
  <2>2. Knows(a, ovIP'[u], ccd'[u], ovCfg, u \in late')
    BY <1>1, <1>a, <1>d, <2>1 DEF Knows
  <2>3. HasPicked(att[u])
    BY <1>1 DEF HasPicked
  <2>4. \A v \in Users \ {u} : /\ HasPicked(att[v]) => {u, v} \subseteq raced
                               /\ ovIP[v] # a.ip \/ {u, v} \subseteq raced
    BY <2>1, <2>3, AttachFacts
  <2>5. \A v \in Users \ {u} : HasPicked(att[v]) => ovIP[u] # att[v].ip \/ {u, v} \subseteq raced
    BY AttachFacts
  <2>6. /\ raced \subseteq raced' /\ raced' \subseteq Users
        /\ \A v \in Users \ {u} : ovIP'[v] = ovIP[v] /\ ccd'[v] = ccd[v] /\ (v \in late' <=> v \in late)
        /\ \A v \in Users \ {u} : HasPicked(att[v]) => ovIP'[u] # att[v].ip \/ {u, v} \subseteq raced'
    BY <1>1, <1>d, <2>5, AttachFacts
  <2>7. \A v \in Users \ {u} : /\ HasPicked(att[v]) => {u, v} \subseteq raced'
                               /\ ovIP[v] # a.ip \/ {u, v} \subseteq raced'
    BY <1>1, <2>4
  <2> QED BY <1>1, <1>2, <2>1, <2>2, <2>6, <2>7, AttachMoves
<1> QED BY <1>2, <1>3, <1>4, <1>5, <1>6, PoolsKept DEF IInv

LEMMA RecordIPKeeps ==
  ASSUME IInv, NEW u \in Users, RecordIP(u)
  PROVE  IInv'
<1> DEFINE ip == att[u].ip
<1>1. /\ att[u].pc = "record" /\ ovIP' = [ovIP EXCEPT ![u] = ip] /\ att' = [att EXCEPT ![u] = NoAttach]
      /\ late' = IF job.pc = "ccd" THEN late \cup {u} ELSE late
      /\ UNCHANGED Others /\ UNCHANGED <<ccd, raced>>
  BY DEF RecordIP, Others, wireguard, openvpn, world, firewall
<1>2. UNCHANGED <<wgConf, wgLive, ovCfg, ovConf, ovLive, wgIP, host, chain, job, faults, start, restored>>
  BY <1>1 DEF Others
<1>a. /\ att[u] \in [pc : AttachPcs, net : Nets, ip : Addresses]
      /\ Knows(att[u], ovIP[u], ccd[u], ovCfg, u \in late) /\ HasPicked(att[u])
      /\ ovCfg \in Nets
  BY <1>1, AttachFacts DEF HasPicked
<1>b. /\ ovIP[u] = NoIP /\ att[u].net.base = ovCfg.base /\ ovCfg.len <= att[u].net.len
      /\ HostAllocatable(ip, att[u].net) /\ ip # OvServer(att[u].net)
      /\ u \notin late => ccd[u] <= ovCfg.len
  BY <1>1, <1>a DEF Knows
<1>c. HostAllocatable(ip, ovCfg) /\ ip # OvServer(ovCfg) /\ ip \in Addresses
  <2>1. att[u].net.len \in Int /\ ovCfg.len \in Int /\ att[u].net \in Nets /\ ip \in Addresses
    BY <1>a, NetsFacts
  <2>2. Within(att[u].net, ovCfg)
    BY <1>a, <1>b, <2>1, SameBase
  <2>3. HostAllocatable(ip, ovCfg)
    BY <1>a, <1>b, <2>1, <2>2, HostWidened
  <2>4. OvServer(ovCfg) = OvServer(att[u].net)
    BY <1>b DEF OvServer
  <2> QED BY <1>b, <2>1, <2>3, <2>4
<1>d. \A v \in Users \ {u} : /\ HasPicked(att[v]) => {u, v} \subseteq raced
                             /\ ovIP[v] # ip \/ {u, v} \subseteq raced
  BY <1>a, AttachFacts
<1> HIDE DEF ip
<1>e. ovIP'[u] = ip /\ \A v \in Users \ {u} : ovIP'[v] = ovIP[v]
  BY <1>1 DEF IInv, PeopleTypes
<1>3. PeopleTypes'
  <2>1. ovIP' \in [Users -> Addresses]
    BY <1>1, <1>c DEF IInv, PeopleTypes
  <2>2. late' \in SUBSET Users
    BY <1>1 DEF IInv, PeopleTypes
  <2> QED BY <1>1, <1>2, <2>1, <2>2 DEF IInv, PeopleTypes
<1>4. Usable'
  <2>1. ASSUME NEW v \in Users
        PROVE  wgIP'[v] # NoIP =>
                 /\ wgIP'[v] # wgConf'.srv
                 /\ HostAllocatable(wgIP'[v], NetOf(wgConf'))
                 /\ \A w \in Users \ {v} : wgIP'[w] # wgIP'[v]
    BY <1>2 DEF IInv, Usable
  <2>2. ASSUME NEW v \in Users, ovIP'[v] # NoIP
        PROVE  /\ HostAllocatable(ovIP'[v], ovCfg) /\ ovIP'[v] # OvServer(ovCfg)
               /\ \A w \in Users \ {v} : ovIP'[w] # ovIP'[v] \/ {v, w} \subseteq raced
    <3>1. CASE v = u
      BY <1>c, <1>d, <1>e, <3>1
    <3>2. CASE v # u
      <4>1. ovIP'[v] = ovIP[v] /\ ovIP[v] # NoIP
        BY <1>e, <2>2, <3>2
      <4>2. /\ HostAllocatable(ovIP[v], ovCfg) /\ ovIP[v] # OvServer(ovCfg)
            /\ \A w \in Users \ {v} : ovIP[w] # ovIP[v] \/ {v, w} \subseteq raced
        BY <4>1 DEF IInv, Usable
      <4>3. ip # ovIP[v] \/ {v, u} \subseteq raced
        BY <1>d, <3>2
      <4>4. ASSUME NEW w \in Users \ {v} PROVE ovIP'[w] # ovIP'[v] \/ {v, w} \subseteq raced
        <5>1. CASE w = u
          BY <1>e, <4>1, <4>3, <5>1
        <5>2. CASE w # u
          BY <1>e, <4>1, <4>2, <5>2
        <5> QED BY <5>1, <5>2
      <4> QED BY <4>1, <4>2, <4>4
    <3> QED BY <3>1, <3>2
  <2> QED BY <1>1, <1>2, <2>1, <2>2 DEF Usable
<1>5. Masks'
  <2>1. \A v \in Users \ late' : ovIP'[v] # NoIP => ccd'[v] <= ovCfg'.len
    BY <1>1, <1>2, <1>b, <1>e DEF IInv, Masks
  <2>2. job'.pc = "ccd" =>
          \A v \in Users \ (late' \cup job'.todo) : ovIP'[v] # NoIP => ccd'[v] <= job'.ov.len
    BY <1>1, <1>2, <1>e DEF IInv, Masks
  <2> QED BY <2>1, <2>2 DEF Masks
<1>6. Attaching'
  <2>1. NoAttach \in [pc : AttachPcs, net : Nets, ip : Addresses] /\ NoAttach.pc = "none"
    BY <1>a, NoAttachType DEF NoAttach
  <2>2. Knows(NoAttach, ovIP'[u], ccd'[u], ovCfg, u \in late') /\ ~HasPicked(NoAttach)
    BY <2>1 DEF Knows, HasPicked
  <2>3. \A v \in Users \ {u} : HasPicked(att[v]) => ovIP'[u] # att[v].ip \/ {u, v} \subseteq raced'
    BY <1>1, <1>d
  <2>4. \A v \in Users \ {u} : ovIP'[v] = ovIP[v] /\ ccd'[v] = ccd[v] /\ (v \in late' <=> v \in late)
    BY <1>1, <1>e
  <2> HIDE DEF NoAttach
  <2> QED BY <1>1, <1>2, <1>b, <2>1, <2>2, <2>3, <2>4, AttachFacts, AttachMoves
<1> QED BY <1>2, <1>3, <1>4, <1>5, <1>6, PoolsKept DEF IInv

LEMMA AttachDiesKeeps ==
  ASSUME IInv, NEW u \in Users, AttachDies(u)
  PROVE  IInv'
<1>1. /\ att' = [att EXCEPT ![u] = NoAttach] /\ UNCHANGED Others /\ UNCHANGED <<ovIP, ccd, late, raced>>
  BY DEF AttachDies, Others, wireguard, openvpn, world, firewall
<1>2. UNCHANGED <<wgConf, wgLive, ovCfg, ovConf, ovLive, wgIP, host, chain, job, faults, start, restored>>
  BY <1>1 DEF Others
<1>3. PeopleTypes' /\ Usable' /\ Masks'
  BY <1>1, <1>2 DEF IInv, PeopleTypes, Usable, Masks
<1>4. Attaching'
  <2>1. NoAttach \in [pc : AttachPcs, net : Nets, ip : Addresses] /\ NoAttach.pc = "none"
    BY AttachFacts, NoAttachType DEF NoAttach
  <2>2. Knows(NoAttach, ovIP'[u], ccd'[u], ovCfg, u \in late') /\ ~HasPicked(NoAttach)
    BY <2>1 DEF Knows, HasPicked
  <2>3. \A v \in Users \ {u} : HasPicked(att[v]) => ovIP[u] # att[v].ip \/ {u, v} \subseteq raced
    BY AttachFacts
  <2> HIDE DEF NoAttach
  <2> QED BY <1>1, <1>2, <2>1, <2>2, <2>3, AttachFacts, AttachMoves
<1> QED BY <1>2, <1>3, <1>4, PoolsKept DEF IInv

LEMMA StepKeeps == IInv /\ [Next]_vars => IInv'
<1> SUFFICES ASSUME IInv, [Next]_vars PROVE IInv'
  OBVIOUS
<1>1. CASE UNCHANGED vars
  <2>1. /\ UNCHANGED <<wgConf, wgLive, ovCfg, ovConf, ovLive, host, chain, job, faults, start, restored>>
        /\ UNCHANGED <<wgIP, ovIP, ccd, late, att, raced>>
    BY <1>1 DEF vars, wireguard, openvpn, people, world, firewall
  <2>2. PeopleTypes' /\ Usable' /\ Masks'
    BY <2>1 DEF IInv, PeopleTypes, Usable, Masks
  <2>3. Attaching'
    BY <2>1, AttachQuiet
  <2> QED BY <2>1, <2>2, <2>3, PoolsKept DEF IInv
<1>2. CASE \E u \in Users : \/ NextFreeIP(u) \/ LoadSubnet(u) \/ OvpnNextFreeIP(u)
                            \/ WriteCCD(u) \/ RecordIP(u) \/ AttachDies(u)
  BY <1>2, NextFreeIPKeeps, LoadSubnetKeeps, OvpnNextFreeIPKeeps, WriteCCDKeeps, RecordIPKeeps,
     AttachDiesKeeps
<1> QED
  BY <1>1, <1>2, ExpandSubnetKeeps, RewriteWgConfKeeps, AddrAddKeeps, AddrDelKeeps,
     RewriteServerConfKeeps, ReadPeersKeeps, RewriteCCDKeeps, SaveSubnetKeeps, ReadRulesKeeps,
     CopyRuleKeeps, AfterRulesKeeps, RestartOpenvpnKeeps, DiesKeeps, ReloadFirewallKeeps, BootKeeps
     DEF Next

LEMMA Invariant == Spec => []IInv
BY InitInvariant, StepKeeps, PTL DEF Spec

(***************************************************************************)
(* The theorems.                                                           *)
(***************************************************************************)
\* Every variable holds values of its kind: in particular the pools in the files are aligned
\* networks (maskedNet, subnet.go) and the chain stays one of iptables rules.
THEOREM Types == Spec => []TypeOK
<1>1. IInv => TypeOK
  BY DEF IInv, PoolTypes, PeopleTypes, ChainTypes, Attaching, AttachTypes, Job, Rule, TypeOK
<1> QED BY <1>1, Invariant, PTL

\* subnet.go:388-411: whatever commands ran, one after the other or again after one died, and
\* whatever of them the interface, the server and the files have, the two pools never overlap.
THEOREM NeverOverlap == Spec => []PoolsApart
<1>1. IInv => PoolsApart
  <2> SUFFICES ASSUME IInv, NEW i \in wgLive \cup {wgConf}, NEW n \in {ovCfg, ovConf, ovLive}
               PROVE  ~NetsOverlap(NetOf(i), n)
    BY DEF PoolsApart
  <2>1. CASE i = wgConf
    BY <2>1 DEF IInv, Apart
  <2>2. CASE i \in wgLive
    BY <2>2, PoolGeometry
  <2> QED BY <2>1, <2>2
<1> QED BY <1>1, Invariant, PTL

\* subnet.go:17-21: every user keeps an address that is a host of the pool in wg0.conf, in
\* config.json and in server.conf, that is its own, and not the server's, at every step.
THEOREM AddressesStayUsable == Spec => []AddressesUsable
<1>1. IInv => AddressesUsable
  <2> SUFFICES ASSUME IInv PROVE AddressesUsable
    OBVIOUS
  <2>1. /\ ovCfg \in Nets /\ ovConf \in Nets /\ ovConf.base = ovCfg.base /\ ovConf.len <= ovCfg.len
    BY DEF IInv, PoolTypes, OvWidens
  <2>2. Within(ovCfg, ovConf)
    <3>1. ovCfg.len \in Int /\ ovConf.len \in Int
      BY <2>1, NetsFacts
    <3> QED BY <2>1, <3>1, SameBase
  <2>3. ASSUME NEW u \in Users, ovIP[u] # NoIP
        PROVE  \A n \in {ovCfg, ovConf} : HostAllocatable(ovIP[u], n) /\ ovIP[u] # OvServer(n)
    <3>1. HostAllocatable(ovIP[u], ovCfg) /\ ovIP[u] # OvServer(ovCfg) /\ ovIP[u] \in Addresses
      BY <2>3 DEF IInv, Usable, PeopleTypes
    <3>2. HostAllocatable(ovIP[u], ovConf)
      BY <2>1, <2>2, <3>1, HostWidened
    <3>3. OvServer(ovConf) = OvServer(ovCfg)
      BY <2>1 DEF OvServer
    <3> QED BY <3>1, <3>2, <3>3
  <2> QED BY <2>3 DEF IInv, Usable, AddressesUsable
<1> QED BY <1>1, Invariant, PTL

\* subnet.go:398-403: the OpenVPN server's own address is what it was when it was installed, in
\* server.conf and in the server that runs.
THEOREM ServerNeverMoves == Spec => []ServerStays
<1>1. IInv => ServerStays
  BY DEF IInv, OvWidens, ServerStays, OvServer
<1> QED BY <1>1, Invariant, PTL

\* subnet.go:593-619: config.json names a pool only once server.conf and the CCD files of the
\* users who had one carry it, so that a command that died before is repeated in full.
THEOREM MasksNeverBehind == Spec => []MasksFollow
<1>1. IInv => MasksFollow
  BY DEF IInv, OvWidens, Masks, MasksFollow
<1> QED BY <1>1, Invariant, PTL

\* subnet.go:182-218: however often it is widened, no pool comes to lie over a route or
\* address of a device that it did not meet when it was installed, the tunnel's own apart.
THEOREM NeverOverOthers == Spec => []NoNewClash
<1>1. IInv => NoNewClash
  BY DEF IInv, Clear, NoNewClash
<1> QED BY <1>1, Invariant, PTL

\* subnet.go:549-561, 626-632: unless a command died half-way, every user's address is routed
\* to the running interface or server once the command is over.
THEOREM RoutedWhenOver == Spec => []Routed
<1>1. IInv => Routed
  <2> SUFFICES ASSUME IInv, job.pc = "idle", faults = 0, NEW u \in Users
               PROVE  /\ wgIP[u] # NoIP => \E i \in wgLive : Contains(NetOf(i), wgIP[u])
                      /\ ovIP[u] # NoIP /\ start.unit => Contains(ovLive, ovIP[u])
    BY DEF Routed
  <2>1. wgConf \in wgLive /\ (start.unit => ovLive = ovConf)
    BY DEF IInv, InProgress
  <2>2. wgIP[u] # NoIP => Contains(NetOf(wgConf), wgIP[u])
    BY DEF IInv, Usable, HostAllocatable
  <2>3. ASSUME ovIP[u] # NoIP PROVE Contains(ovConf, ovIP[u])
    <3>1. /\ ovCfg \in Nets /\ ovConf \in Nets /\ ovConf.base = ovCfg.base /\ ovConf.len <= ovCfg.len
      BY DEF IInv, PoolTypes, OvWidens
    <3>2. Within(ovCfg, ovConf)
      <4>1. ovCfg.len \in Int /\ ovConf.len \in Int
        BY <3>1, NetsFacts
      <4> QED BY <3>1, <4>1, SameBase
    <3>3. HostAllocatable(ovIP[u], ovCfg) /\ ovIP[u] \in Addresses
      BY <2>3 DEF IInv, Usable, PeopleTypes
    <3> QED BY <3>1, <3>2, <3>3, HostWidened
  <2> QED BY <2>1, <2>2, <2>3
<1> QED BY <1>1, Invariant, PTL

(***************************************************************************)
(* The firewall, as long as nothing has gone wrong.                        *)
(***************************************************************************)
\* A rule for the addresses of a network that holds n and lies in W: about the pool that began
\* as n and is W now, at some width between.
Between(r, n, W) == ~r.neg /\ Within(n, r.net) /\ Within(r.net, W)

\* An earlier rule asks the same of a packet, but for a network Q.
Before(rules, i, Q) ==
  \E j \in 1 .. Len(rules) :
    j < i /\ rules[j].net = Q /\ ~rules[j].neg /\ rules[j].classes = rules[i].classes

\* No two rules about the pool are the same.
Distinct(rules, n, W) ==
  \A i, j \in 1 .. Len(rules) : Between(rules[i], n, W) /\ rules[i] = rules[j] => i = j

\* The rules about the pool have a copy for P, or are one.
Settled(rules, n, P, W) ==
  \A i \in 1 .. Len(rules) : Between(rules[i], n, W) =>
    Within(rules[i].net, P) /\ (rules[i].net = P \/ Before(rules, i, P))

\* The commands still to run are copies for W of rules about P, at their places.
Commands(rules, P, W, cmds) ==
  \A d \in cmds : /\ d.pos \in 1 .. Len(rules) /\ rules[d.pos].net = P /\ ~rules[d.pos].neg
                  /\ d.rule = [rules[d.pos] EXCEPT !.net = W]

\* Half-way from P to W: a copy comes from a rule that has no command any more, a rule about P
\* has its copy or a command, the others have a rule about P.
Mirroring(rules, n, P, W, cmds) ==
  \A i \in 1 .. Len(rules) : Between(rules[i], n, W) =>
    \/ rules[i].net = W /\ \E j \in 1 .. Len(rules) :
         /\ rules[j].net = P /\ ~rules[j].neg /\ rules[i] = [rules[j] EXCEPT !.net = W]
         /\ \A d \in cmds : d.pos # j
    \/ rules[i].net = P /\ ((\E d \in cmds : d.pos = i) \/ Before(rules, i, W))
    \/ rules[i].net # P /\ rules[i].net # W /\ Before(rules, i, P)

\* What the rules about a pool are for at a stage of the command.
WgStages == {"addrAdd", "addrDel", "wgRules"}
WgRuled == IF job.pc \in WgStages THEN NetOf(job.old) ELSE NetOf(wgConf)
OvRuled == IF job.pc = "ovRules" THEN job.oldOv ELSE ovCfg

\* Every rule was there, or is a copy for one of the pools.
Origin ==
  \A i \in 1 .. Len(chain) :
    \/ \E k \in 1 .. Len(start.chain) : chain[i] = start.chain[k]
    \/ Between(chain[i], NetOf(start.wg), NetOf(wgConf))
    \/ Between(chain[i], start.ov, ovCfg)

\* The chain does with a host of the narrow pools what it did.
SameForNarrow ==
  \A c \in Classes : /\ Verdict(chain, start.wg.srv, c) = Verdict(start.chain, start.wg.srv, c)
                     /\ Verdict(chain, start.ov.base, c) = Verdict(start.chain, start.ov.base, c)

WgMirrored ==
  Copyable(start.chain, NetOf(start.wg), NetOf(wgConf)) =>
    /\ Distinct(chain, NetOf(start.wg), NetOf(wgConf))
    /\ IF job.pc = "wgCopies"
         THEN Mirroring(chain, NetOf(start.wg), NetOf(job.old), NetOf(wgConf), job.copies)
         ELSE Settled(chain, NetOf(start.wg), WgRuled, NetOf(wgConf))

OvMirrored ==
  Copyable(start.chain, start.ov, ovCfg) =>
    /\ Distinct(chain, start.ov, ovCfg)
    /\ IF job.pc = "ovCopies"
         THEN Mirroring(chain, start.ov, job.oldOv, ovCfg, job.copies)
         ELSE Settled(chain, start.ov, OvRuled, ovCfg)

\* Which widths a command works between at each of its stages.
Widths ==
  /\ job.pc = "wgConf" => job.old = wgConf /\ job.wg # wgConf
  /\ job.pc \in WgStages \cup {"wgCopies"} =>
       job.wg = wgConf /\ job.old # wgConf /\ job.old.len <= start.wg.len
  /\ job.pc \in WgStages \cup {"wgConf", "wgCopies", "serverConf", "readPeers", "ccd"} => job.oldOv = ovCfg
  /\ job.pc \in {"serverConf", "readPeers", "ccd"} => job.ov # ovCfg
  /\ job.pc \in {"ovRules", "ovCopies"} =>
       /\ job.ov = ovCfg /\ job.oldOv # ovCfg
       /\ job.oldOv.base = start.ov.base /\ job.oldOv.len \in ovCfg.len .. start.ov.len

Fine == faults = 0 /\ ~restored

Firewalled ==
  Fine =>
    /\ Widths /\ Origin /\ SameForNarrow /\ WgMirrored /\ OvMirrored
    /\ job.pc = "wgCopies" => Commands(chain, NetOf(job.old), NetOf(wgConf), job.copies)
    /\ job.pc = "ovCopies" => Commands(chain, job.oldOv, ovCfg, job.copies)

(***************************************************************************)
(* Chains.                                                                 *)
(***************************************************************************)
LEMMA RuleFields ==
  ASSUME NEW r \in Rule
  PROVE  /\ r.net \in Nets /\ r.neg \in BOOLEAN /\ r.classes \in SUBSET Classes
         /\ r.target \in {"ACCEPT", "DROP"}
         /\ r = [net |-> r.net, neg |-> r.neg, classes |-> r.classes, target |-> r.target]
BY DEF Rule, Rules

\* A rule with another network is otherwise the same.
LEMMA CopyFields ==
  ASSUME NEW r \in Rule, NEW W \in Nets, NEW e, e = [r EXCEPT !.net = W]
  PROVE  /\ e \in Rule /\ e.net = W /\ e.neg = r.neg /\ e.classes = r.classes /\ e.target = r.target
BY DEF Rule, Rules

\* Rules about one network that have the same copy are the same.
LEMMA SameCopy ==
  ASSUME NEW r \in Rule, NEW q \in Rule, r.net = q.net, NEW W \in Nets,
         [r EXCEPT !.net = W] = [q EXCEPT !.net = W]
  PROVE  r = q
<1> DEFINE e == [r EXCEPT !.net = W]
<1> DEFINE d == [q EXCEPT !.net = W]
<1>0. e = d
  OBVIOUS
<1>1. e.neg = r.neg /\ e.classes = r.classes /\ e.target = r.target
  BY CopyFields
<1>2. d.neg = q.neg /\ d.classes = q.classes /\ d.target = q.target
  BY CopyFields
<1> HIDE DEF e, d
<1>3. /\ r = [net |-> r.net, neg |-> r.neg, classes |-> r.classes, target |-> r.target]
      /\ q = [net |-> q.net, neg |-> q.neg, classes |-> q.classes, target |-> q.target]
  BY RuleFields
<1> QED BY <1>0, <1>1, <1>2, <1>3

\* The rule matches a packet of the address and the class.
Hits(r, a, c) == c \in r.classes /\ (Contains(r.net, a) # r.neg)

LEMMA HitsPlain ==
  ASSUME NEW r \in Rule, ~r.neg, NEW a, NEW c
  PROVE  Hits(r, a, c) <=> c \in r.classes /\ Contains(r.net, a)
<1>1. r.neg = FALSE /\ Contains(r.net, a) \in BOOLEAN
  BY RuleFields DEF Contains
<1> QED BY <1>1 DEF Hits

LEMMA HitsSame ==
  ASSUME NEW r, NEW a, NEW b, NEW c, Contains(r.net, a) <=> Contains(r.net, b)
  PROVE  Hits(r, a, c) <=> Hits(r, b, c)
<1>1. Contains(r.net, a) \in BOOLEAN /\ Contains(r.net, b) \in BOOLEAN
  BY DEF Contains
<1>2. Contains(r.net, a) = Contains(r.net, b)
  BY <1>1
<1> QED BY <1>2 DEF Hits

\* The first rule of a chain that matches.
First(rules, a, c, i) ==
  /\ i \in 1 .. Len(rules) /\ Hits(rules[i], a, c)
  /\ \A j \in 1 .. Len(rules) : Hits(rules[j], a, c) => i <= j

LEMMA FirstExists ==
  ASSUME NEW rules \in Seq(Rule), NEW a, NEW c, NEW i \in 1 .. Len(rules), Hits(rules[i], a, c)
  PROVE  \E m : First(rules, a, c, m)
<1> DEFINE hit == {j \in 1 .. Len(rules) : Hits(rules[j], a, c)}
<1>1. Len(rules) \in Nat
  BY LenProperties
<1>2. hit \subseteq 1 .. Len(rules) /\ hit \subseteq Nat /\ hit # {}
  BY <1>1
<1>3. IsFiniteSet(1 .. Len(rules))
  BY <1>1, FS_Interval
<1>4. IsFiniteSet(hit)
  <2> HIDE DEF hit
  <2> QED BY <1>2, <1>3, FS_Subset
<1>5. PICK m \in hit : \A j \in hit : m <= j
  <2> HIDE DEF hit
  <2> QED BY <1>2, <1>4, MinimumExists
<1>6. First(rules, a, c, m)
  BY <1>5 DEF First
<1> QED BY <1>6

LEMMA VerdictOf ==
  ASSUME NEW rules \in Seq(Rule), NEW a, NEW c, NEW i, First(rules, a, c, i)
  PROVE  Verdict(rules, a, c) = rules[i].target
<1> DEFINE hit == {j \in 1 .. Len(rules) : c \in rules[j].classes /\ (Contains(rules[j].net, a) # rules[j].neg)}
<1>1. hit = {j \in 1 .. Len(rules) : Hits(rules[j], a, c)}
  BY DEF Hits
<1>2. Verdict(rules, a, c) = IF hit = {} THEN "policy" ELSE rules[Least(hit)].target
  BY DEF Verdict
<1>3. i \in hit /\ \A j \in hit : i <= j
  BY <1>1 DEF First
<1>4. hit \subseteq Int
  BY LenProperties
<1> HIDE DEF hit
<1>5. Least(hit) = i
  <2>1. Least(hit) \in hit /\ \A j \in hit : Least(hit) <= j
    BY <1>3 DEF Least
  <2>2. Least(hit) <= i /\ i <= Least(hit) /\ Least(hit) \in Int /\ i \in Int
    BY <1>3, <1>4, <2>1
  <2> QED BY <2>2
<1> QED BY <1>2, <1>3, <1>5

LEMMA VerdictOfNone ==
  ASSUME NEW rules, NEW a, NEW c, \A i \in 1 .. Len(rules) : ~Hits(rules[i], a, c)
  PROVE  Verdict(rules, a, c) = "policy"
BY DEF Verdict, Hits

\* Two addresses are treated alike if the rules that tell them apart never come first.
LEMMA SameVerdict ==
  ASSUME NEW rules \in Seq(Rule), NEW a, NEW b, NEW c,
         \A i \in 1 .. Len(rules) :
           \/ Hits(rules[i], a, c) <=> Hits(rules[i], b, c)
           \/ \E j \in 1 .. Len(rules) : j < i /\ Hits(rules[j], a, c) /\ Hits(rules[j], b, c)
           \/ ~Hits(rules[i], a, c) /\ ~Hits(rules[i], b, c)
  PROVE  Verdict(rules, a, c) = Verdict(rules, b, c)
<1>0. Len(rules) \in Nat
  BY LenProperties
<1>1. ASSUME NEW i, First(rules, a, c, i) PROVE First(rules, b, c, i)
  <2>1. Hits(rules[i], b, c)
    BY <1>0, <1>1 DEF First
  <2>2. PICK m : First(rules, b, c, m)
    BY <1>1, <2>1, FirstExists DEF First
  <2>3. m \in 1 .. Len(rules) /\ i \in 1 .. Len(rules) /\ m <= i
    BY <1>1, <2>1, <2>2 DEF First
  <2>4. Hits(rules[m], a, c)
    BY <1>0, <2>2, <2>3 DEF First
  <2>5. i <= m
    BY <1>1, <2>3, <2>4 DEF First
  <2>6. i = m
    BY <1>0, <2>3, <2>5
  <2> QED BY <2>2, <2>6
<1>2. CASE \E i : First(rules, a, c, i)
  <2>1. PICK i : First(rules, a, c, i)
    BY <1>2
  <2> QED BY <1>1, <2>1, VerdictOf
<1>3. CASE ~\E i : First(rules, a, c, i)
  <2>1. \A i \in 1 .. Len(rules) : ~Hits(rules[i], a, c)
    BY <1>3, FirstExists
  <2>2. \A i \in 1 .. Len(rules) : ~Hits(rules[i], b, c)
    <3> SUFFICES ASSUME NEW i \in 1 .. Len(rules), Hits(rules[i], b, c) PROVE FALSE
      OBVIOUS
    <3> QED BY <2>1
  <2> QED BY <2>1, <2>2, VerdictOfNone
<1> QED BY <1>2, <1>3

(***************************************************************************)
(* A copy goes into a chain.                                               *)
(***************************************************************************)
Moved(i, k) == IF i < k THEN i ELSE i + 1

Inserted(old, new, k, e) ==
  /\ k \in 1 .. Len(old) /\ Len(new) = Len(old) + 1 /\ new[k] = e
  /\ \A i \in 1 .. Len(old) : new[Moved(i, k)] = old[i]

LEMMA InsertedAt ==
  ASSUME NEW rules \in Seq(Rule), NEW k \in 1 .. Len(rules), NEW e \in Rule
  PROVE  Inserted(rules, Ext!InsertAt(rules, k, e), k, e)
<1> DEFINE before == SubSeq(rules, 1, k - 1)
<1> DEFINE after == SubSeq(rules, k, Len(rules))
<1> DEFINE new == Ext!InsertAt(rules, k, e)
<1>0. Len(rules) \in Nat /\ k \in Int /\ 1 <= k /\ k <= Len(rules)
  BY LenProperties
<1>1. \A i \in 1 .. Len(rules) : rules[i] \in Rule
  BY ElementOfSeq
<1>2. before \in Seq(Rule) /\ Len(before) = k - 1 /\ \A i \in 1 .. k - 1 : before[i] = rules[i]
  <2>1. \A i \in 1 .. k - 1 : rules[i] \in Rule
    BY <1>0, <1>1
  <2>2. before \in Seq(Rule) /\ Len(before) = k - 1
    BY <1>0, <2>1, SubSeqProperties
  <2>3. \A i \in 1 .. k - 1 : before[i] = rules[i]
    BY <1>0, <2>2, SubSeqProperties
  <2> QED BY <2>2, <2>3
<1>3. /\ after \in Seq(Rule) /\ Len(after) = Len(rules) - k + 1
      /\ \A i \in 1 .. Len(rules) - k + 1 : after[i] = rules[k + i - 1]
  <2>1. \A i \in k .. Len(rules) : rules[i] \in Rule
    BY <1>0, <1>1
  <2>2. after \in Seq(Rule) /\ Len(after) = Len(rules) - k + 1
    BY <1>0, <2>1, SubSeqProperties
  <2>3. \A i \in 1 .. Len(rules) - k + 1 : after[i] = rules[k + i - 1]
    BY <1>0, <2>2, SubSeqProperties
  <2> QED BY <2>2, <2>3
<1>4. <<e>> \in Seq(Rule) /\ Len(<<e>>) = 1 /\ <<e>>[1] = e
  OBVIOUS
<1>7. new = (before \o <<e>>) \o after
  BY DEF Ext!InsertAt
<1> HIDE DEF before, after, new
<1> DEFINE front == before \o <<e>>
<1>5. /\ front \in Seq(Rule) /\ Len(front) = k /\ front[k] = e
      /\ \A i \in 1 .. k - 1 : front[i] = rules[i]
  BY <1>0, <1>2, <1>4, ConcatProperties
<1>6. new = front \o after
  BY <1>7
<1> HIDE DEF front
<1>8. /\ Len(new) = Len(rules) + 1
      /\ \A i \in 1 .. k : new[i] = front[i]
      /\ \A i \in k + 1 .. Len(rules) + 1 : new[i] = after[i - k]
  <2>a. /\ Len(front \o after) = Len(front) + Len(after)
        /\ \A i \in 1 .. Len(front) + Len(after) :
             (front \o after)[i] = IF i <= Len(front) THEN front[i] ELSE after[i - Len(front)]
    BY <1>3, <1>5, ConcatProperties
  <2>1. /\ Len(new) = Len(front) + Len(after)
        /\ \A i \in 1 .. Len(new) : new[i] = IF i <= Len(front) THEN front[i] ELSE after[i - Len(front)]
    BY <1>6, <2>a
  <2>2. Len(new) = Len(rules) + 1
    BY <1>0, <1>3, <1>5, <2>1
  <2>3. \A i \in 1 .. Len(rules) + 1 : new[i] = IF i <= k THEN front[i] ELSE after[i - k]
    BY <1>5, <2>1, <2>2
  <2>4. \A i \in 1 .. k : i \in 1 .. Len(rules) + 1 /\ i <= k
    BY <1>0
  <2>5. \A i \in k + 1 .. Len(rules) + 1 : i \in 1 .. Len(rules) + 1 /\ ~(i <= k)
    BY <1>0
  <2> QED BY <2>2, <2>3, <2>4, <2>5
<1>9. new[k] = e
  BY <1>0, <1>5, <1>8
<1>10. ASSUME NEW i \in 1 .. Len(rules) PROVE new[Moved(i, k)] = rules[i]
  <2>1. CASE i < k
    BY <1>0, <1>5, <1>8, <2>1 DEF Moved
  <2>2. CASE ~(i < k)
    <3>1. i + 1 \in k + 1 .. Len(rules) + 1 /\ (i + 1) - k \in 1 .. Len(rules) - k + 1
          /\ k + ((i + 1) - k) - 1 = i
      BY <1>0, <2>2
    <3>2. new[i + 1] = after[(i + 1) - k]
      BY <1>8, <3>1
    <3>3. after[(i + 1) - k] = rules[i]
      BY <1>3, <3>1
    <3> QED BY <2>2, <3>2, <3>3 DEF Moved
  <2> QED BY <2>1, <2>2
<1> QED BY <1>0, <1>8, <1>9, <1>10 DEF Inserted, new

\* Every rule of the new chain is the copy or one of the old chain, in the old order.
LEMMA Places ==
  ASSUME NEW old \in Seq(Rule), NEW new, NEW k, NEW e, Inserted(old, new, k, e)
  PROVE  /\ Len(old) \in Nat /\ Len(new) = Len(old) + 1 /\ k \in 1 .. Len(old) /\ k \in 1 .. Len(new)
         /\ new[k] = e
         /\ \A i \in 1 .. Len(old) : /\ Moved(i, k) \in 1 .. Len(new) /\ Moved(i, k) # k
                                     /\ new[Moved(i, k)] = old[i]
         /\ \A i, j \in 1 .. Len(old) : /\ i < j => Moved(i, k) < Moved(j, k)
                                        /\ Moved(i, k) = Moved(j, k) => i = j
         /\ \A j \in 1 .. Len(new) : j = k \/ \E i \in 1 .. Len(old) : j = Moved(i, k)
<1>1. /\ Len(old) \in Nat /\ k \in 1 .. Len(old) /\ Len(new) = Len(old) + 1 /\ new[k] = e
      /\ \A i \in 1 .. Len(old) : new[Moved(i, k)] = old[i]
  BY LenProperties DEF Inserted
<1>2. \A i \in 1 .. Len(old) : Moved(i, k) \in 1 .. Len(new) /\ Moved(i, k) # k
  BY <1>1 DEF Moved
<1>3. \A i, j \in 1 .. Len(old) : /\ i < j => Moved(i, k) < Moved(j, k)
                                  /\ Moved(i, k) = Moved(j, k) => i = j
  BY <1>1 DEF Moved
<1>4. ASSUME NEW j \in 1 .. Len(new), j # k PROVE \E i \in 1 .. Len(old) : j = Moved(i, k)
  <2>1. CASE j < k
    <3>1. j \in 1 .. Len(old) /\ j = Moved(j, k)
      BY <1>1, <2>1 DEF Moved
    <3> QED BY <3>1
  <2>2. CASE j > k
    <3>1. j - 1 \in 1 .. Len(old) /\ j = Moved(j - 1, k)
      BY <1>1, <2>2 DEF Moved
    <3> QED BY <3>1
  <2> QED BY <1>1, <1>4, <2>1, <2>2
<1>5. k \in 1 .. Len(new)
  BY <1>1
<1> QED BY <1>1, <1>2, <1>3, <1>4, <1>5

\* A rule before one that matches what it matches, and does the same, changes nothing.
LEMMA VerdictKept ==
  ASSUME NEW old \in Seq(Rule), NEW new \in Seq(Rule), NEW k, NEW e, Inserted(old, new, k, e),
         NEW a, NEW c, Hits(e, a, c) => Hits(old[k], a, c) /\ e.target = old[k].target
  PROVE  Verdict(new, a, c) = Verdict(old, a, c)
<1>1. /\ Len(old) \in Nat /\ Len(new) = Len(old) + 1 /\ k \in 1 .. Len(old) /\ k \in 1 .. Len(new)
      /\ new[k] = e
      /\ \A i \in 1 .. Len(old) : /\ Moved(i, k) \in 1 .. Len(new) /\ Moved(i, k) # k
                                  /\ new[Moved(i, k)] = old[i]
      /\ \A j \in 1 .. Len(new) : j = k \/ \E i \in 1 .. Len(old) : j = Moved(i, k)
  BY Places
<1>2. CASE \E i : First(old, a, c, i)
  <2>1. PICK i : First(old, a, c, i)
    BY <1>2
  <2>2. i \in 1 .. Len(old) /\ Hits(old[i], a, c) /\ Verdict(old, a, c) = old[i].target
    BY <2>1, VerdictOf DEF First
  <2>3. CASE i = k /\ Hits(e, a, c)
    <3>1. \A j \in 1 .. Len(new) : Hits(new[j], a, c) => k <= j
      <4> SUFFICES ASSUME NEW j \in 1 .. Len(new), Hits(new[j], a, c), j # k PROVE k <= j
        BY <1>1
      <4>1. PICK m \in 1 .. Len(old) : j = Moved(m, k)
        BY <1>1
      <4>2. Hits(old[m], a, c)
        BY <1>1, <4>1
      <4>3. k <= m
        BY <2>1, <2>3, <4>2 DEF First
      <4> QED BY <1>1, <4>1, <4>3 DEF Moved
    <3>2. First(new, a, c, k)
      BY <1>1, <2>3, <3>1 DEF First
    <3>3. Verdict(new, a, c) = new[k].target
      BY <3>2, VerdictOf
    <3> QED BY <1>1, <2>2, <2>3, <3>3
  <2>4. CASE i < k \/ ~Hits(e, a, c)
    <3>1. \A j \in 1 .. Len(new) : Hits(new[j], a, c) => Moved(i, k) <= j
      <4> SUFFICES ASSUME NEW j \in 1 .. Len(new), Hits(new[j], a, c) PROVE Moved(i, k) <= j
        OBVIOUS
      <4>1. CASE j = k
        BY <1>1, <2>2, <2>4, <4>1 DEF Moved
      <4>2. CASE j # k
        <5>1. PICK m \in 1 .. Len(old) : j = Moved(m, k)
          BY <1>1, <4>2
        <5>2. Hits(old[m], a, c)
          BY <1>1, <5>1
        <5>3. i <= m
          BY <2>1, <5>2 DEF First
        <5> QED BY <1>1, <2>2, <5>1, <5>3 DEF Moved
      <4> QED BY <4>1, <4>2
    <3>2. First(new, a, c, Moved(i, k))
      BY <1>1, <2>2, <3>1 DEF First
    <3>3. Verdict(new, a, c) = new[Moved(i, k)].target
      BY <3>2, VerdictOf
    <3> QED BY <1>1, <2>2, <3>3
  <2>5. i <= k \/ ~Hits(e, a, c)
    BY <1>1, <2>1 DEF First
  <2> QED BY <1>1, <2>2, <2>3, <2>4, <2>5
<1>3. CASE ~\E i : First(old, a, c, i)
  <2>1. \A i \in 1 .. Len(old) : ~Hits(old[i], a, c)
    BY <1>3, FirstExists
  <2>2. ~Hits(e, a, c)
    BY <1>1, <2>1
  <2>3. \A j \in 1 .. Len(new) : ~Hits(new[j], a, c)
    <3> SUFFICES ASSUME NEW j \in 1 .. Len(new), Hits(new[j], a, c) PROVE FALSE
      OBVIOUS
    <3>1. CASE j = k
      BY <1>1, <2>2, <3>1
    <3>2. CASE j # k
      <4>1. PICK m \in 1 .. Len(old) : j = Moved(m, k)
        BY <1>1, <3>2
      <4> QED BY <1>1, <2>1, <4>1
    <3> QED BY <3>1, <3>2
  <2> QED BY <2>1, <2>3, VerdictOfNone
<1> QED BY <1>2, <1>3

\* An earlier rule stays earlier.
LEMMA BeforeKept ==
  ASSUME NEW old \in Seq(Rule), NEW new, NEW k, NEW e, Inserted(old, new, k, e),
         NEW i \in 1 .. Len(old), NEW Q, Before(old, i, Q)
  PROVE  Before(new, Moved(i, k), Q)
<1>1. PICK j \in 1 .. Len(old) :
        j < i /\ old[j].net = Q /\ ~old[j].neg /\ old[j].classes = old[i].classes
  BY DEF Before
<1>2. /\ Moved(j, k) \in 1 .. Len(new) /\ Moved(j, k) < Moved(i, k)
      /\ new[Moved(j, k)] = old[j] /\ new[Moved(i, k)] = old[i]
  BY <1>1, Places
<1> QED BY <1>1, <1>2 DEF Before

\* A rule for addresses elsewhere leaves a settled chain settled.
LEMMA SettledKept ==
  ASSUME NEW old \in Seq(Rule), NEW new, NEW k, NEW e, Inserted(old, new, k, e),
         NEW n, NEW P, NEW W, Settled(old, n, P, W), ~Between(e, n, W)
  PROVE  Settled(new, n, P, W)
<1> SUFFICES ASSUME NEW j \in 1 .. Len(new), Between(new[j], n, W)
             PROVE  Within(new[j].net, P) /\ (new[j].net = P \/ Before(new, j, P))
  BY DEF Settled
<1>a. new[k] = e
  BY DEF Inserted
<1>1. j # k
  BY <1>a
<1>2. PICK i \in 1 .. Len(old) : j = Moved(i, k)
  BY <1>1, Places
<1>3. new[j] = old[i]
  BY <1>2, Places
<1>4. Within(old[i].net, P) /\ (old[i].net = P \/ Before(old, i, P))
  BY <1>3 DEF Settled
<1> QED BY <1>2, <1>3, <1>4, BeforeKept

\* A rule that is not there yet, or is elsewhere, leaves distinct rules distinct.
LEMMA DistinctKept ==
  ASSUME NEW old \in Seq(Rule), NEW new, NEW k, NEW e, Inserted(old, new, k, e),
         NEW n, NEW W, Distinct(old, n, W), \A i \in 1 .. Len(old) : old[i] # e
  PROVE  Distinct(new, n, W)
<1>0. /\ new[k] = e
      /\ \A i \in 1 .. Len(old) : new[Moved(i, k)] = old[i]
      /\ \A j \in 1 .. Len(new) : j = k \/ \E i \in 1 .. Len(old) : j = Moved(i, k)
  BY Places
<1> SUFFICES ASSUME NEW i \in 1 .. Len(new), NEW j \in 1 .. Len(new),
                    Between(new[i], n, W), new[i] = new[j]
             PROVE  i = j
  BY DEF Distinct
<1>1. CASE i = k \/ j = k
  BY <1>0, <1>1
<1>2. CASE i # k /\ j # k
  <2>1. PICK l \in 1 .. Len(old) : i = Moved(l, k)
    BY <1>0, <1>2
  <2>2. PICK m \in 1 .. Len(old) : j = Moved(m, k)
    BY <1>0, <1>2
  <2>3. old[l] = old[m] /\ Between(old[l], n, W)
    BY <1>0, <2>1, <2>2
  <2>4. l = m
    BY <2>3 DEF Distinct
  <2> QED BY <2>1, <2>2, <2>4
<1> QED BY <1>1, <1>2

\* The commands that come later are for earlier places.
LEMMA CommandsKept ==
  ASSUME NEW old \in Seq(Rule), NEW new, NEW P, NEW W, NEW cmds, Commands(old, P, W, cmds),
         cmds \subseteq [pos : Nat, rule : Rule],
         NEW c \in cmds, Comes(c, cmds), Inserted(old, new, c.pos, c.rule)
  PROVE  /\ Commands(new, P, W, cmds \ {c})
         /\ \A d \in cmds \ {c} : Moved(d.pos, c.pos) = d.pos
<1>0. /\ Len(old) \in Nat /\ Len(new) = Len(old) + 1
      /\ \A i \in 1 .. Len(old) : new[Moved(i, c.pos)] = old[i]
  BY Places
<1>1. c.pos \in 1 .. Len(old)
  BY DEF Commands
<1>2. ASSUME NEW d \in cmds, d.pos = c.pos PROVE d = c
  <2>1. d \in [pos : Nat, rule : Rule] /\ c \in [pos : Nat, rule : Rule]
    OBVIOUS
  <2>2. d.rule = c.rule
    BY <1>2 DEF Commands
  <2> QED BY <1>2, <2>1, <2>2
<1> SUFFICES ASSUME NEW d \in cmds, d # c, d.pos # c.pos
             PROVE  /\ d.pos \in 1 .. Len(new) /\ new[d.pos].net = P /\ ~new[d.pos].neg
                    /\ d.rule = [new[d.pos] EXCEPT !.net = W]
                    /\ Moved(d.pos, c.pos) = d.pos
  BY <1>2 DEF Commands
<1>3. /\ d.pos \in 1 .. Len(old) /\ old[d.pos].net = P /\ ~old[d.pos].neg
      /\ d.rule = [old[d.pos] EXCEPT !.net = W]
  BY DEF Commands
<1>4. d.pos < c.pos
  BY <1>1, <1>3 DEF Comes
<1>5. Moved(d.pos, c.pos) = d.pos
  BY <1>4 DEF Moved
<1>6. new[d.pos] = old[d.pos] /\ d.pos \in 1 .. Len(new)
  BY <1>0, <1>3, <1>5
<1> QED BY <1>3, <1>5, <1>6

(***************************************************************************)
(* The copies of a widening from P to W.                                   *)
(***************************************************************************)
LEMMA WithinLen ==
  ASSUME NEW A \in Nets, NEW B \in Nets, Within(A, B)
  PROVE  A.len >= B.len
<1>1. A.base \in Nat /\ B.base \in Nat /\ A.len \in 0 .. Bits /\ B.len \in 0 .. Bits
  BY NetsFacts
<1> SUFFICES ASSUME A.len < B.len PROVE FALSE
  BY <1>1
<1>2. A.len \in 0 .. Bits - 1 /\ A.len + 1 \in 0 .. Bits /\ A.len + 1 <= B.len
  BY <1>1, ConstantTypes
<1>3. Size(A.len) = 2 * Size(A.len + 1)
  BY <1>2, PowersAssumption
<1>4. Size(A.len + 1) >= Size(B.len)
  BY <1>1, <1>2, SizeMonotone
<1>5. Size(A.len) \in Nat \ {0} /\ Size(A.len + 1) \in Nat \ {0} /\ Size(B.len) \in Nat \ {0}
  BY <1>1, <1>2, SizeType
<1> QED BY <1>1, <1>3, <1>4, <1>5 DEF Within

LEMMA WithinSelf ==
  ASSUME NEW A \in Nets
  PROVE  Within(A, A)
<1>1. A.base \in Nat /\ Size(A.len) \in Nat
  BY NetsFacts
<1> QED BY <1>1 DEF Within

LEMMA WithinWithin ==
  ASSUME NEW A \in Nets, NEW B \in Nets, NEW C \in Nets, Within(A, B), Within(B, C)
  PROVE  Within(A, C)
<1>1. /\ A.base \in Nat /\ B.base \in Nat /\ C.base \in Nat
      /\ Size(A.len) \in Nat /\ Size(B.len) \in Nat /\ Size(C.len) \in Nat
  BY NetsFacts
<1> QED BY <1>1 DEF Within

\* The widths of a widening.
Wider(n, P, W) == n \in Nets /\ P \in Nets /\ W \in Nets /\ Within(n, P) /\ Within(P, W) /\ W.len < P.len

\* The commands as they are computed.
LEMMA CommandsBegin ==
  ASSUME NEW rules \in Seq(Rule), NEW P, NEW W
  PROVE  Commands(rules, P, W, WidenRuleArgs(rules, P, W))
BY DEF Commands, WidenRuleArgs

LEMMA MirrorBegins ==
  ASSUME NEW rules \in Seq(Rule), NEW n, NEW P, NEW W, Wider(n, P, W), Settled(rules, n, P, W)
  PROVE  Mirroring(rules, n, P, W, WidenRuleArgs(rules, P, W))
<1> DEFINE cmds == WidenRuleArgs(rules, P, W)
<1> SUFFICES ASSUME NEW i \in 1 .. Len(rules), Between(rules[i], n, W)
             PROVE  \/ rules[i].net = P /\ \E d \in cmds : d.pos = i
                    \/ rules[i].net # P /\ rules[i].net # W /\ Before(rules, i, P)
  BY DEF Mirroring
<1>1. Within(rules[i].net, P) /\ (rules[i].net = P \/ Before(rules, i, P))
  BY DEF Settled
<1>2. CASE rules[i].net = P
  <2>1. ~rules[i].neg
    BY DEF Between
  <2>2. [pos |-> i, rule |-> [rules[i] EXCEPT !.net = W]] \in cmds
    BY <1>2, <2>1 DEF WidenRuleArgs
  <2> HIDE DEF cmds
  <2> QED BY <1>2, <2>2
<1>3. CASE rules[i].net # P
  <2>1. P \in Nets /\ W \in Nets /\ W.len < P.len /\ P.len \in Int /\ W.len \in Int
    BY NetsFacts DEF Wider
  <2>2. rules[i].net # W
    BY <1>1, <2>1, WithinLen
  <2> QED BY <1>1, <1>3, <2>2
<1> QED BY <1>2, <1>3

\* A copy is not there before its command has run: `iptables -C` finds none.
LEMMA CopyIsNew ==
  ASSUME NEW rules \in Seq(Rule), NEW n, NEW P, NEW W, Wider(n, P, W), NEW cmds,
         Commands(rules, P, W, cmds), Mirroring(rules, n, P, W, cmds), Distinct(rules, n, W),
         NEW c \in cmds
  PROVE  \A i \in 1 .. Len(rules) : rules[i] # c.rule
<1> SUFFICES ASSUME NEW i \in 1 .. Len(rules), rules[i] = c.rule PROVE FALSE
  OBVIOUS
<1>1. /\ c.pos \in 1 .. Len(rules) /\ rules[c.pos].net = P /\ ~rules[c.pos].neg
      /\ c.rule = [rules[c.pos] EXCEPT !.net = W]
  BY DEF Commands
<1>2. rules[c.pos] \in Rule /\ W \in Nets /\ P \in Nets /\ n \in Nets /\ Within(n, P) /\ Within(P, W)
      /\ W.len < P.len /\ P.len \in Int
  <2>1. W \in Nets /\ P \in Nets /\ n \in Nets /\ Within(n, P) /\ Within(P, W) /\ W.len < P.len
    BY DEF Wider
  <2>2. P.len \in Int
    BY <2>1, NetsFacts
  <2>3. rules[c.pos] \in Rule
    BY <1>1, ElementOfSeq
  <2> QED BY <2>1, <2>2, <2>3
<1>3. c.rule.net = W /\ c.rule.neg = rules[c.pos].neg
  BY <1>1, <1>2, CopyFields
<1>4. Within(n, W) /\ Within(W, W) /\ P # W
  BY <1>2, WithinSelf, WithinWithin
<1>5. Between(rules[i], n, W) /\ rules[i].net = W
  BY <1>1, <1>3, <1>4 DEF Between
<1>6. PICK j \in 1 .. Len(rules) :
        /\ rules[j].net = P /\ ~rules[j].neg /\ rules[i] = [rules[j] EXCEPT !.net = W]
        /\ \A d \in cmds : d.pos # j
  BY <1>4, <1>5 DEF Mirroring
<1>7. rules[j] = rules[c.pos]
  <2>1. rules[j] \in Rule
    BY ElementOfSeq
  <2>2. [rules[j] EXCEPT !.net = W] = [rules[c.pos] EXCEPT !.net = W]
    BY <1>1, <1>6
  <2> QED BY <1>1, <1>2, <1>6, <2>1, <2>2, SameCopy
<1>8. Between(rules[j], n, W)
  BY <1>2, <1>6 DEF Between
<1>9. j = c.pos
  BY <1>1, <1>7, <1>8 DEF Distinct
<1> QED BY <1>6, <1>9

LEMMA MirrorKept ==
  ASSUME NEW old \in Seq(Rule), NEW new, NEW n, NEW P, NEW W, Wider(n, P, W), NEW cmds,
         cmds \subseteq [pos : Nat, rule : Rule],
         Commands(old, P, W, cmds), Mirroring(old, n, P, W, cmds),
         NEW c \in cmds, Comes(c, cmds), Inserted(old, new, c.pos, c.rule)
  PROVE  Mirroring(new, n, P, W, cmds \ {c})
<1>a. /\ Commands(new, P, W, cmds \ {c})
      /\ \A d \in cmds \ {c} : Moved(d.pos, c.pos) = d.pos
  BY CommandsKept
<1> DEFINE k == c.pos
<1> DEFINE e == c.rule
<1> DEFINE rest == cmds \ {c}
<1>0. /\ Len(old) \in Nat /\ Len(new) = Len(old) + 1 /\ k \in 1 .. Len(old) /\ k \in 1 .. Len(new)
      /\ new[k] = e
      /\ \A i \in 1 .. Len(old) : /\ Moved(i, k) \in 1 .. Len(new) /\ Moved(i, k) # k
                                  /\ new[Moved(i, k)] = old[i]
      /\ \A i, j \in 1 .. Len(old) : Moved(i, k) = Moved(j, k) => i = j
      /\ \A j \in 1 .. Len(new) : j = k \/ \E i \in 1 .. Len(old) : j = Moved(i, k)
  BY Places
<1>1. /\ \A d \in cmds : d.pos \in 1 .. Len(old)
      /\ old[k].net = P /\ ~old[k].neg /\ e = [old[k] EXCEPT !.net = W]
  BY DEF Commands
<1>2. \A d \in rest : Moved(d.pos, k) = d.pos
  BY <1>a
<1>3. old[k] \in Rule /\ W \in Nets
  BY <1>0, ElementOfSeq DEF Wider
<1>4. e.net = W /\ e.neg = old[k].neg /\ e.classes = old[k].classes
  BY <1>1, <1>3, CopyFields
<1>5. Moved(k, k) = k + 1 /\ k < k + 1 /\ k + 1 \in 1 .. Len(new) /\ new[k + 1] = old[k]
  BY <1>0 DEF Moved
<1>6. \A d \in rest, m \in 1 .. Len(old) : d.pos # m => d.pos # Moved(m, k)
  <2> SUFFICES ASSUME NEW d \in rest, NEW m \in 1 .. Len(old), d.pos = Moved(m, k) PROVE d.pos = m
    OBVIOUS
  <2>1. d.pos \in 1 .. Len(old) /\ Moved(d.pos, k) = Moved(m, k)
    BY <1>1, <1>2
  <2> QED BY <1>0, <2>1
<1>7. \A d \in rest : d.pos # k + 1
  <2> SUFFICES ASSUME NEW d \in rest, d.pos = k + 1 PROVE FALSE
    OBVIOUS
  <2>1. d.pos <= k
    BY DEF Comes
  <2> QED BY <1>0, <2>1
<1> HIDE DEF k, e, rest
<1> SUFFICES ASSUME NEW j \in 1 .. Len(new), Between(new[j], n, W)
             PROVE
    \/ new[j].net = W /\ \E m \in 1 .. Len(new) :
         /\ new[m].net = P /\ ~new[m].neg /\ new[j] = [new[m] EXCEPT !.net = W]
         /\ \A d \in rest : d.pos # m
    \/ new[j].net = P /\ ((\E d \in rest : d.pos = j) \/ Before(new, j, W))
    \/ new[j].net # P /\ new[j].net # W /\ Before(new, j, P)
  BY DEF Mirroring, rest
<1>8. CASE j = k
  BY <1>0, <1>1, <1>4, <1>5, <1>7, <1>8
<1>9. CASE j # k
  <2>1. PICK i \in 1 .. Len(old) : j = Moved(i, k)
    BY <1>0, <1>9
  <2>2. new[j] = old[i] /\ Between(old[i], n, W)
    BY <1>0, <2>1
  <2>3. \A Q : Before(old, i, Q) => Before(new, j, Q)
    BY <2>1, BeforeKept DEF k, e
  <2>4. CASE old[i].net = W /\ \E m \in 1 .. Len(old) :
               /\ old[m].net = P /\ ~old[m].neg /\ old[i] = [old[m] EXCEPT !.net = W]
               /\ \A d \in cmds : d.pos # m
    <3>1. PICK m \in 1 .. Len(old) :
               /\ old[m].net = P /\ ~old[m].neg /\ old[i] = [old[m] EXCEPT !.net = W]
               /\ \A d \in cmds : d.pos # m
      BY <2>4
    <3>2. Moved(m, k) \in 1 .. Len(new) /\ new[Moved(m, k)] = old[m]
      BY <1>0
    <3>3. \A d \in rest : d.pos # Moved(m, k)
      BY <1>6, <3>1 DEF rest
    <3> QED BY <2>2, <2>4, <3>1, <3>2, <3>3
  <2>5. CASE old[i].net = P /\ ((\E d \in cmds : d.pos = i) \/ Before(old, i, W))
    <3>1. CASE Before(old, i, W)
      BY <2>2, <2>3, <2>5, <3>1
    <3>2. CASE \E d \in cmds : d.pos = i
      <4>1. PICK d \in cmds : d.pos = i
        BY <3>2
      <4>2. CASE d = c
        <5>1. i = k /\ j = k + 1
          BY <1>5, <2>1, <4>1, <4>2 DEF k
        <5>2. Before(new, j, W)
          BY <1>0, <1>1, <1>4, <1>5, <5>1 DEF Before
        <5> QED BY <2>2, <2>5, <5>2
      <4>3. CASE d # c
        <5>1. d \in rest /\ d.pos = j
          BY <1>2, <2>1, <4>1, <4>3 DEF rest
        <5> QED BY <2>2, <2>5, <5>1
      <4> QED BY <4>2, <4>3
    <3> QED BY <2>5, <3>1, <3>2
  <2>6. CASE old[i].net # P /\ old[i].net # W /\ Before(old, i, P)
    BY <2>2, <2>3, <2>6
  <2> QED BY <2>2, <2>4, <2>5, <2>6 DEF Mirroring
<1> QED BY <1>8, <1>9

\* When every command has run, all rules about the pool have a copy for W.
LEMMA MirrorEnds ==
  ASSUME NEW rules \in Seq(Rule), NEW n, NEW P, NEW W, Wider(n, P, W), Mirroring(rules, n, P, W, {})
  PROVE  Settled(rules, n, W, W)
<1> SUFFICES ASSUME NEW i \in 1 .. Len(rules), Between(rules[i], n, W)
             PROVE  Within(rules[i].net, W) /\ (rules[i].net = W \/ Before(rules, i, W))
  BY DEF Settled
<1>1. Within(rules[i].net, W)
  BY DEF Between
<1>2. P # W /\ Within(n, P) /\ Within(P, W)
  BY NetsFacts DEF Wider
<1>3. ASSUME NEW j \in 1 .. Len(rules), Between(rules[j], n, W), rules[j].net = P
      PROVE  Before(rules, j, W)
  BY <1>2, <1>3 DEF Mirroring
<1>4. CASE rules[i].net # P /\ Before(rules, i, P)
  <2>1. PICK j \in 1 .. Len(rules) :
          j < i /\ rules[j].net = P /\ ~rules[j].neg /\ rules[j].classes = rules[i].classes
    BY <1>4 DEF Before
  <2>2. Between(rules[j], n, W)
    BY <1>2, <2>1 DEF Between
  <2>3. Before(rules, j, W)
    BY <1>3, <2>1, <2>2
  <2>4. PICK m \in 1 .. Len(rules) :
          m < j /\ rules[m].net = W /\ ~rules[m].neg /\ rules[m].classes = rules[j].classes
    BY <2>3 DEF Before
  <2>5. m < i
    BY LenProperties, <2>1, <2>4
  <2> QED BY <1>1, <2>1, <2>4, <2>5 DEF Before
<1> QED BY <1>1, <1>3, <1>4 DEF Mirroring

(***************************************************************************)
(* The rules of a chain, seen from a pool that began as n and is W now.    *)
(***************************************************************************)
LEMMA LenType == \A A \in Nets : A.len \in Int
BY NetsFacts

LEMMA WithinMeets ==
  ASSUME NEW A \in Nets, NEW B \in Nets, Within(A, B)
  PROVE  NetsOverlap(A, B)
<1>1. A.base \in Nat /\ B.base \in Nat /\ Size(A.len) \in Nat \ {0} /\ Size(B.len) \in Nat \ {0}
  BY NetsFacts
<1> QED BY <1>1 DEF Within, NetsOverlap, Contains

LEMMA WithinContains ==
  ASSUME NEW A \in Nets, NEW B \in Nets, Within(A, B), NEW x \in Int, Contains(A, x)
  PROVE  Contains(B, x)
<1>1. A.base \in Nat /\ B.base \in Nat /\ Size(A.len) \in Nat \ {0} /\ Size(B.len) \in Nat \ {0}
  BY NetsFacts
<1> QED BY <1>1 DEF Within, Contains

\* A rule of the chain there was, a copy for the pool, or one for a pool V.
From(r, rules, n, W, m, V) ==
  (\E k \in 1 .. Len(rules) : r = rules[k]) \/ Between(r, n, W) \/ Between(r, m, V)

\* A rule is about the pool, elsewhere, or for all of the pool.
LEMMA Kinds ==
  ASSUME NEW rules \in Seq(Rule), NEW n \in Nets, NEW W \in Nets, Within(n, W), NEW m,
         NEW V \in Nets, ~NetsOverlap(W, V), Copyable(rules, n, W), NEW r \in Rule,
         From(r, rules, n, W, m, V)
  PROVE  Between(r, n, W) \/ ~NetsOverlap(r.net, W) \/ Within(W, r.net)
<1>0. r.net \in Nets /\ r.net.len \in Int /\ W.len \in Int
  BY RuleFields, NetsFacts
<1>1. CASE Between(r, n, W)
  BY <1>1
<1>2. CASE Between(r, m, V)
  <2> SUFFICES ASSUME NetsOverlap(r.net, W) PROVE FALSE
    BY <1>2
  <2>1. Within(r.net, V)
    BY <1>2 DEF Between
  <2>2. NetsOverlap(V, W)
    BY <1>0, <2>1, WithinOverlap
  <2> QED BY <2>2, OverlapSymmetric
<1>3. CASE \E k \in 1 .. Len(rules) : r = rules[k]
  <2>1. PICK k \in 1 .. Len(rules) : r = rules[k]
    BY <1>3
  <2>2. CASE r.net = n
    <3>1. ~r.neg
      BY <2>1, <2>2 DEF Copyable
    <3> QED BY <2>2, <3>1, WithinSelf DEF Between
  <2>3. CASE r.net # n
    <3>1. NetsOverlap(r.net, W) => r.net.len < W.len
      BY <2>1, <2>3 DEF Copyable
    <3>2. ASSUME NetsOverlap(r.net, W) PROVE Within(W, r.net)
      <4>1. W.len >= r.net.len /\ NetsOverlap(W, r.net)
        BY <1>0, <3>1, <3>2, OverlapSymmetric
      <4> QED BY <1>0, <4>1, OverlapNested
    <3> QED BY <3>2
  <2> QED BY <2>2, <2>3
<1> QED BY <1>1, <1>2, <1>3 DEF From

\* A pool that is about to be W2 has no rules yet that it did not have as W.
LEMMA NotYet ==
  ASSUME NEW rules \in Seq(Rule), NEW n \in Nets, NEW W \in Nets, NEW W2 \in Nets, Within(n, W),
         Within(W, W2), NEW m, NEW V \in Nets, ~NetsOverlap(W2, V), Copyable(rules, n, W2),
         NEW r \in Rule, From(r, rules, n, W, m, V), Between(r, n, W2)
  PROVE  Between(r, n, W)
<1>0. r.net \in Nets /\ r.net.len \in Int /\ W2.len \in Int /\ Within(n, r.net) /\ Within(r.net, W2) /\ ~r.neg
  <2>1. r.net \in Nets
    BY RuleFields
  <2>2. r.net.len \in Int /\ W2.len \in Int
    BY <2>1, LenType
  <2> QED BY <2>1, <2>2 DEF Between
<1>1. CASE Between(r, m, V)
  <2>1. Within(r.net, V)
    BY <1>1 DEF Between
  <2>2. NetsOverlap(r.net, W2)
    BY <1>0, WithinMeets
  <2>3. NetsOverlap(V, W2)
    BY <1>0, <2>1, <2>2, WithinOverlap
  <2> QED BY <2>3, OverlapSymmetric
<1>2. CASE \E k \in 1 .. Len(rules) : r = rules[k]
  <2>1. PICK k \in 1 .. Len(rules) : r = rules[k]
    BY <1>2
  <2>2. CASE r.net = n
    BY <1>0, <2>2 DEF Between
  <2>3. CASE r.net # n
    <3>1. NetsOverlap(r.net, W2)
      BY <1>0, WithinMeets
    <3>2. r.net.len < W2.len
      BY <2>1, <2>3, <3>1 DEF Copyable
    <3>3. r.net.len >= W2.len
      BY <1>0, WithinLen
    <3> QED BY <1>0, <3>2, <3>3
  <2> QED BY <2>2, <2>3
<1> QED BY <1>1, <1>2 DEF From

\* What can be copied for the wider pool can be for the narrower.
LEMMA CopyableNarrower ==
  ASSUME NEW rules \in Seq(Rule), NEW n, NEW W \in Nets, NEW W2 \in Nets, Within(W, W2),
         Copyable(rules, n, W2)
  PROVE  Copyable(rules, n, W)
<1>0. W.len \in Int /\ W2.len \in Int /\ W.len >= W2.len
  BY NetsFacts, WithinLen
<1>1. ASSUME NEW i \in 1 .. Len(rules), rules[i].net # n, NetsOverlap(rules[i].net, W)
      PROVE  rules[i].net.len < W.len
  <2>0. rules[i] \in Rule
    BY ElementOfSeq
  <2>a. rules[i].net \in Nets
    BY <2>0, RuleFields
  <2>1. rules[i].net \in Nets /\ rules[i].net.len \in Int
    BY <2>a, NetsFacts
  <2>2. NetsOverlap(W2, rules[i].net)
    BY <1>1, <2>1, OverlapSymmetric, WithinOverlap
  <2>3. NetsOverlap(rules[i].net, W2)
    BY <2>2, OverlapSymmetric
  <2>4. rules[i].net.len < W2.len
    BY <1>1, <2>3 DEF Copyable
  <2> QED BY <1>0, <2>1, <2>4
<1> QED BY <1>1 DEF Copyable

LEMMA SettledWider ==
  ASSUME NEW rules \in Seq(Rule), NEW n, NEW P, NEW W, NEW W2,
         \A i \in 1 .. Len(rules) : Between(rules[i], n, W2) => Between(rules[i], n, W)
  PROVE  /\ Settled(rules, n, P, W) => Settled(rules, n, P, W2)
         /\ Distinct(rules, n, W) => Distinct(rules, n, W2)
BY DEF Settled, Distinct

\* A chain whose rules about the pool have copies for W treats all of W alike.
LEMMA AllAlike ==
  ASSUME NEW rules \in Seq(Rule), NEW n \in Nets, NEW W \in Nets, Within(n, W),
         Settled(rules, n, W, W), NEW s \in Int, Contains(n, s), NEW a \in Int, Contains(W, a), NEW c,
         \A i \in 1 .. Len(rules) :
           Between(rules[i], n, W) \/ ~NetsOverlap(rules[i].net, W) \/ Within(W, rules[i].net)
  PROVE  Verdict(rules, a, c) = Verdict(rules, s, c)
<1>0. Contains(W, s)
  BY WithinContains
<1>1. ASSUME NEW i \in 1 .. Len(rules)
      PROVE  \/ Hits(rules[i], a, c) <=> Hits(rules[i], s, c)
             \/ \E j \in 1 .. Len(rules) : j < i /\ Hits(rules[j], a, c) /\ Hits(rules[j], s, c)
             \/ ~Hits(rules[i], a, c) /\ ~Hits(rules[i], s, c)
  <2>0. rules[i] \in Rule
    BY ElementOfSeq
  <2>1. rules[i].net \in Nets
    BY <2>0, RuleFields
  <2>2. CASE ~NetsOverlap(rules[i].net, W)
    <3>1. ~Contains(rules[i].net, a) /\ ~Contains(rules[i].net, s)
      BY <1>0, <2>1, <2>2, OverlapPoint
    <3> QED BY <3>1, HitsSame
  <2>3. CASE Within(W, rules[i].net)
    <3>1. Contains(rules[i].net, a) /\ Contains(rules[i].net, s)
      BY <1>0, <2>1, <2>3, WithinContains
    <3> QED BY <3>1, HitsSame
  <2>4. CASE Between(rules[i], n, W) /\ rules[i].net = W
    <3>1. Contains(rules[i].net, a) /\ Contains(rules[i].net, s)
      BY <1>0, <2>4
    <3> QED BY <3>1, HitsSame
  <2>5. CASE Between(rules[i], n, W) /\ Before(rules, i, W)
    <3>1. PICK j \in 1 .. Len(rules) :
            j < i /\ rules[j].net = W /\ ~rules[j].neg /\ rules[j].classes = rules[i].classes
      BY <2>5 DEF Before
    <3>2. rules[j] \in Rule
      BY ElementOfSeq
    <3>3. c \in rules[i].classes => Hits(rules[j], a, c) /\ Hits(rules[j], s, c)
      BY <1>0, <3>1, <3>2, HitsPlain
    <3>4. c \notin rules[i].classes => ~Hits(rules[i], a, c) /\ ~Hits(rules[i], s, c)
      BY DEF Hits
    <3> QED BY <3>1, <3>3, <3>4
  <2> QED BY <2>2, <2>3, <2>4, <2>5 DEF Settled
<1> QED BY <1>1, SameVerdict

\* What inserting the copy c leaves as it should be, for the pool from n to W and for another one.
CopyKeeps(rules, new, n, P, W, cmds, c, n2, W2) ==
  /\ Commands(new, P, W, cmds \ {c})
  /\ Mirroring(rules, n, P, W, cmds) /\ Distinct(rules, n, W) =>
       Mirroring(new, n, P, W, cmds \ {c}) /\ Distinct(new, n, W)
  /\ Settled(rules, n2, W2, W2) => Settled(new, n2, W2, W2)
  /\ Distinct(rules, n2, W2) => Distinct(new, n2, W2)
  /\ \A j \in 1 .. Len(new) : (\E i \in 1 .. Len(rules) : new[j] = rules[i]) \/ Between(new[j], n, W)
  /\ \A s \in Int : Contains(n, s) \/ Contains(W2, s) =>
       \A cl : Verdict(new, s, cl) = Verdict(rules, s, cl)

\* One command: what it does to its own pool, to the other, and to the narrow pools' hosts.
LEMMA Copied ==
  ASSUME NEW rules \in Seq(Rule), NEW n, NEW P, NEW W, Wider(n, P, W),
         NEW cmds, cmds \subseteq [pos : Nat, rule : Rule], Commands(rules, P, W, cmds),
         NEW c \in cmds, Comes(c, cmds), NEW new, new = Insert(rules, c),
         NEW n2 \in Nets, NEW W2 \in Nets, Within(n2, W2), ~NetsOverlap(W, W2)
  PROVE  CopyKeeps(rules, new, n, P, W, cmds, c, n2, W2)
<1> DEFINE k == c.pos
<1> DEFINE e == c.rule
<1>1. /\ k \in 1 .. Len(rules) /\ rules[k].net = P /\ ~rules[k].neg
      /\ e = [rules[k] EXCEPT !.net = W] /\ e \in Rule
  BY DEF Commands
<1>2. n \in Nets /\ P \in Nets /\ W \in Nets /\ Within(n, P) /\ Within(P, W)
  BY DEF Wider
<1>3. rules[k] \in Rule
  BY <1>1, ElementOfSeq
<1>4. e.net = W /\ ~e.neg /\ e.classes = rules[k].classes /\ e.target = rules[k].target
  BY <1>1, <1>2, <1>3, CopyFields
<1>5. Between(e, n, W)
  BY <1>2, <1>4, WithinSelf, WithinWithin DEF Between
<1>6. ~Between(e, n2, W2)
  BY <1>2, <1>4, WithinMeets DEF Between
<1>7. CASE \E i \in 1 .. Len(rules) : rules[i] = e
  <2>1. new = rules
    BY <1>7 DEF Insert, Present
  <2>2. ~(Mirroring(rules, n, P, W, cmds) /\ Distinct(rules, n, W))
    BY <1>7, CopyIsNew
  <2>3. Commands(rules, P, W, cmds \ {c})
    BY DEF Commands
  <2> QED BY <2>1, <2>2, <2>3 DEF CopyKeeps
<1>8. CASE \A i \in 1 .. Len(rules) : rules[i] # e
  <2>0. ~(k > Len(rules) + 1)
    BY <1>1, LenProperties
  <2>1. new = Ext!InsertAt(rules, k, e)
    BY <1>8, <2>0 DEF Insert, Present
  <2>2. Inserted(rules, new, k, e)
    BY <1>1, <2>1, InsertedAt
  <2>3. new \in Seq(Rule)
    BY <1>1, InsertType
  <2>4. Commands(new, P, W, cmds \ {c})
    <3>1. Inserted(rules, new, c.pos, c.rule)
      BY <2>2
    <3> HIDE DEF k, e
    <3> QED BY <3>1, CommandsKept
  <2>5. ASSUME Mirroring(rules, n, P, W, cmds) PROVE Mirroring(new, n, P, W, cmds \ {c})
    <3>1. Inserted(rules, new, c.pos, c.rule)
      BY <2>2
    <3> HIDE DEF k, e
    <3> QED BY <2>5, <3>1, MirrorKept
  <2> HIDE DEF k, e
  <2>6. Distinct(rules, n, W) => Distinct(new, n, W)
    BY <1>8, <2>2, DistinctKept
  <2>7. Distinct(rules, n2, W2) => Distinct(new, n2, W2)
    BY <1>8, <2>2, DistinctKept
  <2>8. Settled(rules, n2, W2, W2) => Settled(new, n2, W2, W2)
    BY <1>6, <2>2, SettledKept
  <2>9. ASSUME NEW j \in 1 .. Len(new)
        PROVE  (\E i \in 1 .. Len(rules) : new[j] = rules[i]) \/ Between(new[j], n, W)
    <3>0. /\ new[k] = e /\ \A i \in 1 .. Len(rules) : new[Moved(i, k)] = rules[i]
          /\ \A l \in 1 .. Len(new) : l = k \/ \E i \in 1 .. Len(rules) : l = Moved(i, k)
      BY <2>2, Places
    <3> QED BY <1>5, <3>0
  <2>10. ASSUME NEW s \in Int, Contains(n, s) \/ Contains(W2, s), NEW cl
         PROVE  Verdict(new, s, cl) = Verdict(rules, s, cl)
    <3>1. CASE Contains(n, s)
      <4>1. Contains(P, s)
        BY <1>2, <3>1, WithinContains
      <4>2. Hits(e, s, cl) => cl \in rules[k].classes
        BY <1>4 DEF Hits
      <4>3. cl \in rules[k].classes => Hits(rules[k], s, cl)
        BY <1>1, <1>3, <4>1, HitsPlain
      <4> QED BY <1>4, <2>2, <2>3, <4>2, <4>3, VerdictKept
    <3>2. CASE Contains(W2, s)
      <4>1. ~Contains(W, s)
        BY <1>2, <3>2, OverlapPoint
      <4>2. ~Hits(e, s, cl)
        BY <1>1, <1>4, <4>1, HitsPlain
      <4> QED BY <2>2, <2>3, <4>2, VerdictKept
    <3> QED BY <2>10, <3>1, <3>2
  <2> QED BY <2>4, <2>5, <2>6, <2>7, <2>8, <2>9, <2>10 DEF CopyKeeps
<1> QED BY <1>7, <1>8

(***************************************************************************)
(* The firewall's part of the invariant, step by step.                     *)
(***************************************************************************)
LEMMA Pair ==
  ASSUME IInv
  PROVE  /\ chain \in Seq(Rule) /\ start.chain \in Seq(Rule)
         /\ NetOf(start.wg) \in Nets /\ NetOf(wgConf) \in Nets /\ NetOf(job.wg) \in Nets
         /\ start.ov \in Nets /\ ovCfg \in Nets /\ job.ov \in Nets
         /\ Within(NetOf(start.wg), NetOf(wgConf)) /\ Within(NetOf(wgConf), NetOf(job.wg))
         /\ Within(start.ov, ovCfg) /\ Within(ovCfg, job.ov)
         /\ ~NetsOverlap(NetOf(wgConf), ovCfg) /\ ~NetsOverlap(ovCfg, NetOf(wgConf))
         /\ ~NetsOverlap(NetOf(job.wg), ovCfg) /\ ~NetsOverlap(job.ov, NetOf(wgConf))
         /\ start.wg.srv \in Int /\ Contains(NetOf(start.wg), start.wg.srv)
         /\ start.ov.base \in Int /\ Contains(start.ov, start.ov.base)
<1>1. chain \in Seq(Rule) /\ start.chain \in Seq(Rule)
  BY PoolFacts DEF IInv, ChainTypes, PoolTypes
<1>2. /\ start.wg \in Ifaces /\ wgConf \in Ifaces /\ job.wg \in Ifaces
      /\ start.ov \in Nets /\ ovCfg \in Nets /\ job.ov \in Nets
  BY PoolFacts DEF IInv, PoolTypes, Job
<1>3. /\ NetOf(start.wg) \in Nets /\ NetOf(wgConf) \in Nets /\ NetOf(job.wg) \in Nets
      /\ start.wg.len \in Int /\ wgConf.len \in Int /\ job.wg.len \in Int
      /\ start.wg.srv \in Int /\ Contains(NetOf(start.wg), start.wg.srv)
  BY <1>2, IfaceNet
<1>4. start.ov.len \in Int /\ ovCfg.len \in Int /\ job.ov.len \in Int /\ start.ov.base \in Int
      /\ Size(start.ov.len) \in Nat \ {0}
  BY <1>2, NetsFacts
<1>5. /\ wgConf.srv = start.wg.srv /\ job.wg.srv = start.wg.srv
      /\ start.wg.len >= wgConf.len /\ job.wg.len <= wgConf.len
  BY DEF IInv, WgWidens
<1>6. Within(NetOf(start.wg), NetOf(wgConf)) /\ Within(NetOf(wgConf), NetOf(job.wg))
  BY <1>2, <1>3, <1>5, SameServer
<1>7. /\ ovCfg.base = start.ov.base /\ job.ov.base = start.ov.base
      /\ ovCfg.len <= start.ov.len /\ job.ov.len <= ovCfg.len
  BY DEF IInv, OvWidens
<1>8. Within(start.ov, ovCfg) /\ Within(ovCfg, job.ov)
  BY <1>2, <1>4, <1>7, SameBase
<1>9. ~NetsOverlap(NetOf(wgConf), ovCfg) /\ ~NetsOverlap(NetOf(job.wg), ovCfg) /\ ~NetsOverlap(NetOf(wgConf), job.ov)
  BY DEF IInv, Apart
<1>10. Contains(start.ov, start.ov.base)
  BY <1>4 DEF Contains
<1> QED BY <1>1, <1>2, <1>3, <1>4, <1>6, <1>8, <1>9, <1>10, OverlapSymmetric

LEMMA WgWider ==
  ASSUME IInv, Widths, job.pc \in WgStages \cup {"wgCopies"}
  PROVE  Wider(NetOf(start.wg), NetOf(job.old), NetOf(wgConf))
<1>1. /\ start.wg \in Ifaces /\ wgConf \in Ifaces /\ job.old \in Ifaces
  BY PoolFacts DEF IInv, PoolTypes, Job
<1>2. /\ wgConf.srv = start.wg.srv /\ job.old.srv = start.wg.srv
      /\ job.old.len >= wgConf.len /\ job.old # wgConf /\ job.old.len <= start.wg.len
  BY DEF IInv, WgWidens, Widths
<1>3. /\ NetOf(start.wg) \in Nets /\ NetOf(wgConf) \in Nets /\ NetOf(job.old) \in Nets
      /\ start.wg.len \in Int /\ wgConf.len \in Int /\ job.old.len \in Int
      /\ NetOf(job.old).len = job.old.len /\ NetOf(wgConf).len = wgConf.len
  BY <1>1, IfaceNet
<1>4. job.old.len # wgConf.len
  BY <1>1, <1>2 DEF Ifaces
<1>5. Within(NetOf(start.wg), NetOf(job.old)) /\ Within(NetOf(job.old), NetOf(wgConf))
  BY <1>1, <1>2, <1>3, SameServer
<1> QED BY <1>2, <1>3, <1>4, <1>5 DEF Wider

LEMMA OvWider ==
  ASSUME IInv, Widths, job.pc \in {"ovRules", "ovCopies"}
  PROVE  Wider(start.ov, job.oldOv, ovCfg)
<1>1. start.ov \in Nets /\ ovCfg \in Nets /\ job.oldOv \in Nets
  BY PoolFacts DEF IInv, PoolTypes, Job
<1>2. /\ start.ov.len \in Int /\ ovCfg.len \in Int /\ job.oldOv.len \in Int
      /\ ovCfg = [base |-> ovCfg.base, len |-> ovCfg.len]
      /\ job.oldOv = [base |-> job.oldOv.base, len |-> job.oldOv.len]
  BY <1>1, NetsFacts
<1>3. /\ ovCfg.base = start.ov.base /\ job.oldOv.base = start.ov.base /\ job.oldOv # ovCfg
      /\ job.oldOv.len \in ovCfg.len .. start.ov.len
  BY DEF IInv, OvWidens, Widths
<1>4. job.oldOv.len # ovCfg.len
  BY <1>2, <1>3
<1>5. Within(start.ov, job.oldOv) /\ Within(job.oldOv, ovCfg)
  BY <1>1, <1>2, <1>3, SameBase
<1> QED BY <1>1, <1>2, <1>3, <1>4, <1>5 DEF Wider

Copying == {"wgCopies", "ovCopies"}

\* A step that leaves chain, pools and what the rules are about.
LEMMA FirewallQuiet ==
  ASSUME Firewalled, UNCHANGED <<chain, restored, start, wgConf, ovCfg, faults>>,
         job.pc \notin Copying, job'.pc \notin Copying,
         Fine => WgRuled' = WgRuled /\ OvRuled' = OvRuled /\ Widths'
  PROVE  Firewalled'
<1> SUFFICES ASSUME Fine PROVE Firewalled'
  BY DEF Firewalled, Fine
<1>1. Origin' /\ SameForNarrow'
  <2>1. Origin /\ SameForNarrow
    BY DEF Firewalled
  <2>2. Origin'
    BY <2>1 DEF Origin
  <2>3. SameForNarrow'
    BY <2>1 DEF SameForNarrow
  <2> QED BY <2>2, <2>3
<1>2. WgMirrored'
  BY DEF Firewalled, WgMirrored, Copying
<1>3. OvMirrored'
  BY DEF Firewalled, OvMirrored, Copying
<1> QED BY <1>1, <1>2, <1>3 DEF Firewalled, Copying

LEMMA FirewallStart == Init => Firewalled
<1> SUFFICES ASSUME Init PROVE Firewalled
  OBVIOUS
<1>0. IInv
  BY InitInvariant
<1>1. job.pc = "idle" /\ chain = start.chain /\ wgConf = start.wg /\ ovCfg = start.ov
  BY DEF Init
<1>2. Widths /\ WgRuled = NetOf(wgConf) /\ OvRuled = ovCfg
  BY <1>1 DEF Widths, WgRuled, OvRuled, WgStages
<1>3. Origin /\ SameForNarrow
  BY <1>1 DEF Origin, SameForNarrow
<1>4. ASSUME NEW n \in Nets, Copyable(start.chain, n, n)
      PROVE  Settled(chain, n, n, n) /\ Distinct(chain, n, n)
  <2>1. ASSUME NEW i \in 1 .. Len(chain), Between(chain[i], n, n)
        PROVE  chain[i].net = n
    <3>0. chain[i] \in Rule
      BY <1>0, Pair, ElementOfSeq
    <3>1. chain[i].net \in Nets
      BY <3>0, RuleFields
    <3>2. NetsOverlap(chain[i].net, n) /\ chain[i].net.len >= n.len
      BY <2>1, <3>1, WithinMeets, WithinLen DEF Between
    <3>3. chain[i].net.len \in Int
      BY <3>1, NetsFacts
    <3>4. n.len \in Int
      BY NetsFacts
    <3> QED BY <1>1, <1>4, <3>2, <3>3, <3>4 DEF Copyable
  <2>2. Settled(chain, n, n, n)
    BY <2>1, WithinSelf DEF Settled
  <2>3. Distinct(chain, n, n)
    BY <1>1, <1>4, <2>1 DEF Distinct, Copyable
  <2> QED BY <2>2, <2>3
<1>5. WgMirrored /\ OvMirrored
  BY <1>0, <1>1, <1>2, <1>4, Pair DEF WgMirrored, OvMirrored
<1> QED BY <1>1, <1>2, <1>3, <1>5 DEF Firewalled

\* The chain as long as a pool is W2 in the files and its rules are still those of W.
LEMMA PoolWidened ==
  ASSUME IInv, NEW n \in Nets, NEW P, NEW W \in Nets, NEW W2 \in Nets, Within(n, W), Within(W, W2),
         NEW m, NEW V \in Nets, ~NetsOverlap(W2, V),
         \A i \in 1 .. Len(chain) : From(chain[i], start.chain, n, W, m, V),
         Copyable(start.chain, n, W) => Distinct(chain, n, W) /\ Settled(chain, n, P, W)
  PROVE  /\ \A i \in 1 .. Len(chain) : Between(chain[i], n, W) => Between(chain[i], n, W2)
         /\ Copyable(start.chain, n, W2) => Distinct(chain, n, W2) /\ Settled(chain, n, P, W2)
<1>0. chain \in Seq(Rule) /\ start.chain \in Seq(Rule)
  BY Pair
<1>a. \A i \in 1 .. Len(chain) : chain[i] \in Rule
  BY <1>0, ElementOfSeq
<1>1. ASSUME NEW i \in 1 .. Len(chain), Between(chain[i], n, W) PROVE Between(chain[i], n, W2)
  <2>1. chain[i].net \in Nets
    BY <1>a, RuleFields
  <2> QED BY <1>1, <2>1, WithinWithin DEF Between
<1>2. ASSUME Copyable(start.chain, n, W2)
      PROVE  Distinct(chain, n, W2) /\ Settled(chain, n, P, W2)
  <2>1. \A i \in 1 .. Len(chain) : Between(chain[i], n, W2) => Between(chain[i], n, W)
    BY <1>0, <1>2, <1>a, NotYet
  <2>2. Copyable(start.chain, n, W)
    BY <1>0, <1>2, CopyableNarrower
  <2> QED BY <1>0, <2>1, <2>2, SettledWider
<1> QED BY <1>1, <1>2

LEMMA OriginFrom ==
  ASSUME Origin
  PROVE  \A i \in 1 .. Len(chain) :
           /\ From(chain[i], start.chain, NetOf(start.wg), NetOf(wgConf), start.ov, ovCfg)
           /\ From(chain[i], start.chain, start.ov, ovCfg, NetOf(start.wg), NetOf(wgConf))
BY DEF Origin, From

LEMMA FirewallWgConf ==
  ASSUME IInv, Firewalled, RewriteWgConf
  PROVE  Firewalled'
<1> SUFFICES ASSUME Fine PROVE Firewalled'
  BY DEF Firewalled, Fine, firewall, RewriteWgConf
<1>1. /\ job.pc = "wgConf" /\ wgConf' = job.wg /\ UNCHANGED <<ovCfg, chain, faults, start>>
      /\ Goto("addrAdd")
  BY DEF RewriteWgConf, openvpn, world, firewall
<1>2. /\ job'.pc = "addrAdd" /\ job'.old = job.old /\ job'.wg = job.wg /\ job'.oldOv = job.oldOv
      /\ job'.ov = job.ov
  BY <1>1, GotoFacts DEF Pcs
<1>3. Widths /\ Origin /\ SameForNarrow /\ WgMirrored /\ OvMirrored
  BY DEF Firewalled
<1>4. job.old = wgConf /\ job.wg # wgConf /\ job.oldOv = ovCfg
  BY <1>1, <1>3 DEF Widths
<1>5. wgConf.len <= start.wg.len
  <2>1. wgConf.len \in Int /\ start.wg.len \in Int /\ start.wg.len >= wgConf.len
    BY PoolFacts, IfaceNet DEF IInv, WgWidens, PoolTypes
  <2> QED BY <2>1
<1>6. Widths'
  BY <1>1, <1>2, <1>4, <1>5 DEF Widths, WgStages
<1>7. WgRuled' = NetOf(wgConf) /\ WgRuled = NetOf(wgConf) /\ OvRuled' = OvRuled
  BY <1>1, <1>2, <1>4 DEF WgRuled, OvRuled, WgStages
<1>8. /\ \A i \in 1 .. Len(chain) : Between(chain[i], NetOf(start.wg), NetOf(wgConf)) =>
                                     Between(chain[i], NetOf(start.wg), NetOf(wgConf'))
      /\ Copyable(start.chain, NetOf(start.wg), NetOf(wgConf')) =>
           /\ Distinct(chain, NetOf(start.wg), NetOf(wgConf'))
           /\ Settled(chain, NetOf(start.wg), NetOf(wgConf), NetOf(wgConf'))
  <2> DEFINE n == NetOf(start.wg)
  <2> DEFINE W == NetOf(wgConf)
  <2> DEFINE W2 == NetOf(job.wg)
  <2>1. /\ n \in Nets /\ W \in Nets /\ W2 \in Nets /\ Within(n, W) /\ Within(W, W2)
        /\ ovCfg \in Nets /\ ~NetsOverlap(W2, ovCfg)
    BY Pair
  <2>2. \A i \in 1 .. Len(chain) : From(chain[i], start.chain, n, W, start.ov, ovCfg)
    BY <1>3, OriginFrom
  <2>3. Copyable(start.chain, n, W) => Distinct(chain, n, W) /\ Settled(chain, n, W, W)
    BY <1>1, <1>3, <1>7 DEF WgMirrored
  <2> HIDE DEF n, W, W2
  <2>4. /\ \A i \in 1 .. Len(chain) : Between(chain[i], n, W) => Between(chain[i], n, W2)
        /\ Copyable(start.chain, n, W2) => Distinct(chain, n, W2) /\ Settled(chain, n, W, W2)
    BY <2>1, <2>2, <2>3, PoolWidened
  <2> QED BY <1>1, <2>4 DEF n, W, W2
<1>9. Origin'
  BY <1>1, <1>3, <1>8 DEF Origin
<1>10. SameForNarrow'
  BY <1>1, <1>3 DEF SameForNarrow
<1>11. WgMirrored'
  BY <1>1, <1>2, <1>7, <1>8 DEF WgMirrored
<1>12. OvMirrored'
  BY <1>1, <1>2, <1>3, <1>7 DEF OvMirrored
<1> QED BY <1>1, <1>2, <1>6, <1>9, <1>10, <1>11, <1>12 DEF Firewalled

LEMMA FirewallSubnet ==
  ASSUME IInv, Firewalled, SaveSubnet
  PROVE  Firewalled'
<1> SUFFICES ASSUME Fine PROVE Firewalled'
  BY DEF Firewalled, Fine, firewall, SaveSubnet
<1>1. /\ job.pc = "ccd" /\ ovCfg' = job.ov /\ UNCHANGED <<wgConf, chain, faults, start>>
      /\ Goto("ovRules")
  BY DEF SaveSubnet, wireguard, world, firewall
<1>2. /\ job'.pc = "ovRules" /\ job'.old = job.old /\ job'.wg = job.wg /\ job'.oldOv = job.oldOv
      /\ job'.ov = job.ov
  BY <1>1, GotoFacts DEF Pcs
<1>3. Widths /\ Origin /\ SameForNarrow /\ WgMirrored /\ OvMirrored
  BY DEF Firewalled
<1>4. job.oldOv = ovCfg /\ job.ov # ovCfg
  BY <1>1, <1>3 DEF Widths
<1>5. ovCfg.base = start.ov.base /\ ovCfg.len \in job.ov.len .. start.ov.len
  <2>1. ovCfg.base = start.ov.base /\ ovCfg.len <= start.ov.len /\ job.ov.len <= ovCfg.len
    BY DEF IInv, OvWidens
  <2>2. ovCfg.len \in Int /\ start.ov.len \in Int /\ job.ov.len \in Int
    BY Pair, LenType
  <2> QED BY <2>1, <2>2
<1>6. Widths'
  BY <1>1, <1>2, <1>4, <1>5 DEF Widths, WgStages
<1>7. OvRuled' = ovCfg /\ OvRuled = ovCfg /\ WgRuled' = WgRuled
  BY <1>1, <1>2, <1>4 DEF WgRuled, OvRuled, WgStages
<1>8. /\ \A i \in 1 .. Len(chain) : Between(chain[i], start.ov, ovCfg) => Between(chain[i], start.ov, ovCfg')
      /\ Copyable(start.chain, start.ov, ovCfg') =>
           Distinct(chain, start.ov, ovCfg') /\ Settled(chain, start.ov, ovCfg, ovCfg')
  <2> DEFINE n == start.ov
  <2> DEFINE W2 == job.ov
  <2> DEFINE V == NetOf(wgConf)
  <2>1. /\ n \in Nets /\ ovCfg \in Nets /\ W2 \in Nets /\ Within(n, ovCfg) /\ Within(ovCfg, W2)
        /\ V \in Nets /\ ~NetsOverlap(W2, V)
    BY Pair
  <2>2. \A i \in 1 .. Len(chain) : From(chain[i], start.chain, n, ovCfg, NetOf(start.wg), V)
    BY <1>3, OriginFrom
  <2>3. Copyable(start.chain, n, ovCfg) => Distinct(chain, n, ovCfg) /\ Settled(chain, n, ovCfg, ovCfg)
    BY <1>1, <1>3, <1>7 DEF OvMirrored
  <2> HIDE DEF n, V, W2
  <2>4. /\ \A i \in 1 .. Len(chain) : Between(chain[i], n, ovCfg) => Between(chain[i], n, W2)
        /\ Copyable(start.chain, n, W2) => Distinct(chain, n, W2) /\ Settled(chain, n, ovCfg, W2)
    BY <2>1, <2>2, <2>3, PoolWidened
  <2> QED BY <1>1, <2>4 DEF n, W2
<1>9. Origin'
  BY <1>1, <1>3, <1>8 DEF Origin
<1>10. SameForNarrow'
  BY <1>1, <1>3 DEF SameForNarrow
<1>11. OvMirrored'
  BY <1>1, <1>2, <1>7, <1>8 DEF OvMirrored
<1>12. WgMirrored'
  BY <1>1, <1>2, <1>3, <1>7 DEF WgMirrored
<1> QED BY <1>1, <1>2, <1>6, <1>9, <1>10, <1>11, <1>12 DEF Firewalled

LEMMA FirewallReadRules ==
  ASSUME IInv, Firewalled, ReadRules
  PROVE  Firewalled'
<1> SUFFICES ASSUME Fine PROVE Firewalled'
  BY DEF Firewalled, Fine, firewall, ReadRules
<1>1. UNCHANGED <<wgConf, ovCfg, chain, faults, start>>
  BY DEF ReadRules, wireguard, openvpn, world, firewall
<1>2. Widths /\ Origin /\ SameForNarrow /\ WgMirrored /\ OvMirrored
  BY DEF Firewalled
<1>3. Origin' /\ SameForNarrow'
  <2>1. Origin'
    BY <1>1, <1>2 DEF Origin
  <2>2. SameForNarrow'
    BY <1>1, <1>2 DEF SameForNarrow
  <2> QED BY <2>1, <2>2
<1>4. chain \in Seq(Rule)
  BY Pair
<1>5. CASE job.pc = "wgRules"
  <2> DEFINE cmds == WidenRuleArgs(chain, NetOf(job.old), NetOf(job.wg))
  <2>1. job' = [job EXCEPT !.pc = "wgCopies", !.copies = cmds]
    BY <1>5 DEF ReadRules
  <2> HIDE DEF cmds
  <2>2. /\ job'.pc = "wgCopies" /\ job'.copies = cmds /\ job'.old = job.old /\ job'.wg = job.wg
        /\ job'.oldOv = job.oldOv /\ job'.ov = job.ov
    BY <2>1 DEF IInv, PoolTypes, Job
  <2>3. job.wg = wgConf
    BY <1>2, <1>5 DEF Widths, WgStages
  <2>4. Widths'
    BY <1>1, <1>2, <1>5, <2>2 DEF Widths, WgStages
  <2>5. Wider(NetOf(start.wg), NetOf(job.old), NetOf(wgConf))
    BY <1>2, <1>5, WgWider DEF WgStages
  <2>6. WgRuled = NetOf(job.old) /\ OvRuled' = OvRuled
    BY <1>1, <1>5, <2>2 DEF WgRuled, OvRuled, WgStages
  <2>7. Commands(chain, NetOf(job.old), NetOf(wgConf), cmds)
    BY <1>4, <2>3, CommandsBegin DEF cmds
  <2>8. WgMirrored'
    <3>1. ASSUME Settled(chain, NetOf(start.wg), NetOf(job.old), NetOf(wgConf))
          PROVE  Mirroring(chain, NetOf(start.wg), NetOf(job.old), NetOf(wgConf), cmds)
      BY <1>4, <2>3, <2>5, <3>1, MirrorBegins DEF cmds
    <3> QED BY <1>1, <1>2, <1>5, <2>2, <2>6, <3>1 DEF WgMirrored
  <2>9. OvMirrored'
    BY <1>1, <1>2, <1>5, <2>2, <2>6 DEF OvMirrored
  <2> QED BY <1>1, <1>3, <2>2, <2>4, <2>7, <2>8, <2>9 DEF Firewalled
<1>6. CASE job.pc = "ovRules"
  <2> DEFINE cmds == WidenRuleArgs(chain, job.oldOv, job.ov)
  <2>1. job' = [job EXCEPT !.pc = "ovCopies", !.copies = cmds]
    BY <1>6 DEF ReadRules
  <2> HIDE DEF cmds
  <2>2. /\ job'.pc = "ovCopies" /\ job'.copies = cmds /\ job'.old = job.old /\ job'.wg = job.wg
        /\ job'.oldOv = job.oldOv /\ job'.ov = job.ov
    BY <2>1 DEF IInv, PoolTypes, Job
  <2>3. job.ov = ovCfg
    BY <1>2, <1>6 DEF Widths
  <2>4. Widths'
    BY <1>1, <1>2, <1>6, <2>2 DEF Widths, WgStages
  <2>5. Wider(start.ov, job.oldOv, ovCfg)
    BY <1>2, <1>6, OvWider
  <2>6. OvRuled = job.oldOv /\ WgRuled' = WgRuled
    BY <1>1, <1>6, <2>2 DEF WgRuled, OvRuled, WgStages
  <2>7. Commands(chain, job.oldOv, ovCfg, cmds)
    BY <1>4, <2>3, CommandsBegin DEF cmds
  <2>8. OvMirrored'
    <3>1. ASSUME Settled(chain, start.ov, job.oldOv, ovCfg)
          PROVE  Mirroring(chain, start.ov, job.oldOv, ovCfg, cmds)
      BY <1>4, <2>3, <2>5, <3>1, MirrorBegins DEF cmds
    <3> QED BY <1>1, <1>2, <1>6, <2>2, <2>6, <3>1 DEF OvMirrored
  <2>9. WgMirrored'
    BY <1>1, <1>2, <1>6, <2>2, <2>6 DEF WgMirrored
  <2> QED BY <1>1, <1>3, <2>2, <2>4, <2>7, <2>8, <2>9 DEF Firewalled
<1> QED BY <1>5, <1>6 DEF ReadRules

LEMMA FirewallCopyRule ==
  ASSUME IInv, Firewalled, CopyRule
  PROVE  Firewalled'
<1>1. PICK c \in job.copies :
        /\ Comes(c, job.copies)
        /\ \/ chain' = Insert(chain, c) /\ faults' = faults
           \/ chain' = chain /\ faults < MaxFaults /\ faults' = faults + 1
        /\ job' = [job EXCEPT !.copies = @ \ {c}]
  BY DEF CopyRule
<1>2. job.pc \in Copying /\ UNCHANGED <<wgConf, ovCfg, start, restored>>
  BY DEF CopyRule, wireguard, openvpn, world, Copying
<1>3. faults \in Nat
  BY ConstantTypes DEF IInv, PoolTypes
<1> SUFFICES ASSUME Fine' PROVE Firewalled'
  BY DEF Firewalled
<1>4. Fine /\ chain' = Insert(chain, c)
  BY <1>1, <1>2, <1>3 DEF Fine
<1>5. Widths /\ Origin /\ SameForNarrow /\ WgMirrored /\ OvMirrored
  BY <1>4 DEF Firewalled
<1>6. /\ job'.pc = job.pc /\ job'.copies = job.copies \ {c} /\ job'.old = job.old /\ job'.wg = job.wg
      /\ job'.oldOv = job.oldOv /\ job'.ov = job.ov
  BY <1>1 DEF IInv, PoolTypes, Job
<1>7. Widths' /\ WgRuled' = WgRuled /\ OvRuled' = OvRuled
  BY <1>2, <1>5, <1>6 DEF Widths, WgRuled, OvRuled
<1>8. job.copies \subseteq [pos : Nat, rule : Rule]
  BY DEF IInv, PoolTypes, Job
<1>9. /\ chain \in Seq(Rule) /\ start.chain \in Seq(Rule)
      /\ NetOf(start.wg) \in Nets /\ NetOf(wgConf) \in Nets /\ start.ov \in Nets /\ ovCfg \in Nets
      /\ Within(NetOf(start.wg), NetOf(wgConf)) /\ Within(start.ov, ovCfg)
      /\ ~NetsOverlap(NetOf(wgConf), ovCfg) /\ ~NetsOverlap(ovCfg, NetOf(wgConf))
      /\ start.wg.srv \in Int /\ Contains(NetOf(start.wg), start.wg.srv)
      /\ start.ov.base \in Int /\ Contains(start.ov, start.ov.base)
  BY Pair
<1>10. Contains(NetOf(wgConf), start.wg.srv) /\ Contains(ovCfg, start.ov.base)
  BY <1>9, WithinContains
<1>11. CASE job.pc = "wgCopies"
  <2> DEFINE n == NetOf(start.wg)
  <2> DEFINE P == NetOf(job.old)
  <2> DEFINE W == NetOf(wgConf)
  <2>0. /\ Wider(n, P, W) /\ Commands(chain, P, W, job.copies)
    BY <1>4, <1>5, <1>11, WgWider DEF Firewalled
  <2>1. /\ Commands(chain', P, W, job.copies \ {c})
        /\ Mirroring(chain, n, P, W, job.copies) /\ Distinct(chain, n, W) =>
             Mirroring(chain', n, P, W, job.copies \ {c}) /\ Distinct(chain', n, W)
        /\ Settled(chain, start.ov, ovCfg, ovCfg) => Settled(chain', start.ov, ovCfg, ovCfg)
        /\ Distinct(chain, start.ov, ovCfg) => Distinct(chain', start.ov, ovCfg)
        /\ \A j \in 1 .. Len(chain') : (\E i \in 1 .. Len(chain) : chain'[j] = chain[i]) \/ Between(chain'[j], n, W)
        /\ \A s \in Int : Contains(n, s) \/ Contains(ovCfg, s) =>
             \A cl : Verdict(chain', s, cl) = Verdict(chain, s, cl)
    <3>1. n \in Nets /\ W \in Nets /\ ~NetsOverlap(W, ovCfg)
      BY <1>9
    <3> HIDE DEF n, P, W
    <3>2. CopyKeeps(chain, chain', n, P, W, job.copies, c, start.ov, ovCfg)
      BY <1>1, <1>4, <1>8, <1>9, <2>0, <3>1, Copied
    <3> QED BY <3>2 DEF CopyKeeps
  <2>2. WgMirrored'
    BY <1>2, <1>5, <1>6, <1>11, <2>1 DEF WgMirrored
  <2>3. OvMirrored'
    <3>1. OvRuled = ovCfg
      BY <1>11 DEF OvRuled
    <3> QED BY <1>2, <1>5, <1>6, <1>7, <1>11, <2>1, <3>1 DEF OvMirrored
  <2>4. Origin'
    BY <1>2, <1>5, <2>1 DEF Origin
  <2>5. SameForNarrow'
    BY <1>2, <1>5, <1>9, <1>10, <2>1 DEF SameForNarrow
  <2> QED BY <1>2, <1>6, <1>7, <1>11, <2>1, <2>2, <2>3, <2>4, <2>5 DEF Firewalled
<1>12. CASE job.pc = "ovCopies"
  <2> DEFINE n == start.ov
  <2> DEFINE P == job.oldOv
  <2> DEFINE W == ovCfg
  <2> DEFINE m == NetOf(start.wg)
  <2> DEFINE V == NetOf(wgConf)
  <2>0. /\ Wider(n, P, W) /\ Commands(chain, P, W, job.copies)
    BY <1>4, <1>5, <1>12, OvWider DEF Firewalled
  <2>1. /\ Commands(chain', P, W, job.copies \ {c})
        /\ Mirroring(chain, n, P, W, job.copies) /\ Distinct(chain, n, W) =>
             Mirroring(chain', n, P, W, job.copies \ {c}) /\ Distinct(chain', n, W)
        /\ Settled(chain, m, V, V) => Settled(chain', m, V, V)
        /\ Distinct(chain, m, V) => Distinct(chain', m, V)
        /\ \A j \in 1 .. Len(chain') : (\E i \in 1 .. Len(chain) : chain'[j] = chain[i]) \/ Between(chain'[j], n, W)
        /\ \A s \in Int : Contains(n, s) \/ Contains(V, s) =>
             \A cl : Verdict(chain', s, cl) = Verdict(chain, s, cl)
    <3>1. m \in Nets /\ V \in Nets /\ Within(m, V) /\ ~NetsOverlap(W, V)
      BY <1>9
    <3> HIDE DEF n, P, W, m, V
    <3>2. CopyKeeps(chain, chain', n, P, W, job.copies, c, m, V)
      BY <1>1, <1>4, <1>8, <1>9, <2>0, <3>1, Copied
    <3> QED BY <3>2 DEF CopyKeeps
  <2>2. OvMirrored'
    BY <1>2, <1>5, <1>6, <1>12, <2>1 DEF OvMirrored
  <2>3. WgMirrored'
    <3>1. WgRuled = NetOf(wgConf)
      BY <1>12 DEF WgRuled, WgStages
    <3> QED BY <1>2, <1>5, <1>6, <1>7, <1>12, <2>1, <3>1 DEF WgMirrored
  <2>4. Origin'
    BY <1>2, <1>5, <2>1 DEF Origin
  <2>5. SameForNarrow'
    BY <1>2, <1>5, <1>9, <1>10, <2>1 DEF SameForNarrow
  <2> QED BY <1>2, <1>6, <1>7, <1>12, <2>1, <2>2, <2>3, <2>4, <2>5 DEF Firewalled
<1> QED BY <1>2, <1>11, <1>12 DEF Copying

LEMMA FirewallAfterRules ==
  ASSUME IInv, Firewalled, AfterRules
  PROVE  Firewalled'
<1> SUFFICES ASSUME Fine PROVE Firewalled'
  BY DEF Firewalled, Fine, firewall, AfterRules
<1>1. /\ job.pc \in Copying /\ job.copies = {} /\ UNCHANGED <<wgConf, ovCfg, chain, faults, start>>
  BY DEF AfterRules, wireguard, openvpn, world, firewall, Copying
<1>2. Widths /\ Origin /\ SameForNarrow /\ WgMirrored /\ OvMirrored
  BY DEF Firewalled
<1>3. PICK pc \in {"restart", "serverConf", "idle"} :
        /\ Goto(pc) /\ (job.pc = "ovCopies" => pc = "restart")
        /\ (pc = "serverConf" => job.pc = "wgCopies" /\ job.ov # ovCfg)
        /\ (job.pc = "wgCopies" => pc # "restart")
  <2>1. CASE job.pc = "ovCopies"
    <3>1. Goto("restart")
      BY <2>1 DEF AfterRules
    <3> QED BY <2>1, <3>1
  <2>2. CASE job.pc = "wgCopies"
    <3>1. Goto(AfterWg(job))
      BY <2>2 DEF AfterRules
    <3>2. (AfterWg(job) = "serverConf" /\ job.ov # ovCfg) \/ AfterWg(job) = "idle"
      BY DEF AfterWg
    <3> QED BY <2>2, <3>1, <3>2
  <2> QED BY <1>1, <2>1, <2>2 DEF Copying
<1>4. /\ job'.pc = pc /\ job'.old = job.old /\ job'.wg = job.wg /\ job'.oldOv = job.oldOv
      /\ job'.ov = job.ov
  BY <1>3, GotoFacts DEF Pcs
<1>5. Widths'
  BY <1>1, <1>2, <1>3, <1>4 DEF Widths, WgStages, Copying
<1>6. WgRuled' = NetOf(wgConf) /\ OvRuled' = ovCfg /\ WgRuled = NetOf(wgConf) /\ OvRuled = ovCfg
  BY <1>1, <1>3, <1>4 DEF WgRuled, OvRuled, WgStages, Copying
<1>7. Origin' /\ SameForNarrow'
  <2>1. Origin'
    BY <1>1, <1>2 DEF Origin
  <2>2. SameForNarrow'
    BY <1>1, <1>2 DEF SameForNarrow
  <2> QED BY <2>1, <2>2
<1>8. chain \in Seq(Rule)
  BY Pair
<1>9. WgMirrored'
  <2>1. CASE job.pc = "wgCopies"
    <3>1. Wider(NetOf(start.wg), NetOf(job.old), NetOf(wgConf))
      BY <1>2, <2>1, WgWider
    <3>2. Mirroring(chain, NetOf(start.wg), NetOf(job.old), NetOf(wgConf), {}) =>
            Settled(chain, NetOf(start.wg), NetOf(wgConf), NetOf(wgConf))
      BY <1>8, <3>1, MirrorEnds
    <3> QED BY <1>1, <1>2, <1>3, <1>4, <1>6, <2>1, <3>2 DEF WgMirrored
  <2>2. CASE job.pc # "wgCopies"
    BY <1>1, <1>2, <1>3, <1>4, <1>6, <2>2 DEF WgMirrored
  <2> QED BY <2>1, <2>2
<1>10. OvMirrored'
  <2>1. CASE job.pc = "ovCopies"
    <3>1. Wider(start.ov, job.oldOv, ovCfg)
      BY <1>2, <2>1, OvWider
    <3>2. Mirroring(chain, start.ov, job.oldOv, ovCfg, {}) => Settled(chain, start.ov, ovCfg, ovCfg)
      BY <1>8, <3>1, MirrorEnds
    <3> QED BY <1>1, <1>2, <1>3, <1>4, <1>6, <2>1, <3>2 DEF OvMirrored
  <2>2. CASE job.pc # "ovCopies"
    BY <1>1, <1>2, <1>3, <1>4, <1>6, <2>2 DEF OvMirrored
  <2> QED BY <2>1, <2>2
<1> QED BY <1>1, <1>3, <1>4, <1>5, <1>7, <1>9, <1>10 DEF Firewalled

LEMMA FirewallExpand ==
  ASSUME IInv, Firewalled, ExpandSubnet
  PROVE  Firewalled'
<1>1. job.pc = "idle" /\ UNCHANGED <<wgConf, ovCfg, chain, restored, faults, start>>
  BY DEF ExpandSubnet, wireguard, openvpn, world, firewall
<1>2. PICK wg, ov :
        /\ wg # wgConf \/ ov # ovCfg
        /\ job' = [pc |-> IF wg # wgConf THEN "wgConf" ELSE "serverConf",
                   old |-> wgConf, wg |-> wg, oldOv |-> ovCfg, ov |-> ov, todo |-> {}, copies |-> {}]
  BY DEF ExpandSubnet
<1>3. /\ job'.pc = (IF wg # wgConf THEN "wgConf" ELSE "serverConf") /\ job'.old = wgConf
      /\ job'.wg = wg /\ job'.oldOv = ovCfg /\ job'.ov = ov
  BY <1>2
<1>4. Widths'
  BY <1>1, <1>2, <1>3 DEF Widths, WgStages
<1>5. WgRuled' = WgRuled /\ OvRuled' = OvRuled
  BY <1>1, <1>3 DEF WgRuled, OvRuled, WgStages
<1> QED BY <1>1, <1>3, <1>4, <1>5, FirewallQuiet DEF Copying

\* The other steps of the command, one of a group of stages to one of the same group.
LEMMA FirewallOther ==
  ASSUME IInv, Firewalled,
         \/ AddrAdd \/ AddrDel \/ RewriteServerConf \/ ReadPeers \/ RewriteCCD \/ RestartOpenvpn
  PROVE  Firewalled'
<1>1. UNCHANGED <<wgConf, ovCfg, chain, restored, faults, start>>
  BY DEF AddrAdd, AddrDel, RewriteServerConf, ReadPeers, RewriteCCD, RestartOpenvpn, wireguard, openvpn,
         world, firewall
<1>2. /\ job'.old = job.old /\ job'.wg = job.wg /\ job'.oldOv = job.oldOv /\ job'.ov = job.ov
      /\ \/ job.pc \in WgStages /\ job'.pc \in WgStages
         \/ job.pc \in {"serverConf", "readPeers", "ccd"} /\ job'.pc \in {"serverConf", "readPeers", "ccd"}
         \/ job.pc = "restart" /\ job'.pc = "idle"
  <2>1. CASE AddrAdd
    BY <2>1, GotoFacts DEF AddrAdd, Pcs, WgStages
  <2>2. CASE AddrDel
    BY <2>2, GotoFacts DEF AddrDel, Pcs, WgStages
  <2>3. CASE RewriteServerConf
    BY <2>3, GotoFacts DEF RewriteServerConf, Pcs
  <2>4. CASE ReadPeers
    BY <2>4 DEF ReadPeers, IInv, PoolTypes, Job
  <2>5. CASE RewriteCCD
    BY <2>5 DEF RewriteCCD, IInv, PoolTypes, Job
  <2>6. CASE RestartOpenvpn
    BY <2>6, StopFacts DEF RestartOpenvpn
  <2> QED BY <2>1, <2>2, <2>3, <2>4, <2>5, <2>6
<1>3. Fine => Widths'
  BY <1>1, <1>2 DEF Firewalled, Widths, WgStages
<1>4. WgRuled' = WgRuled /\ OvRuled' = OvRuled
  BY <1>1, <1>2 DEF WgRuled, OvRuled, WgStages
<1> QED BY <1>1, <1>2, <1>3, <1>4, FirewallQuiet DEF Copying, WgStages

\* Steps of users and of the host, and a restart of the firewall that changes nothing.
LEMMA FirewallApart ==
  ASSUME Firewalled, UNCHANGED <<wgConf, ovCfg, job, faults, start>>, ~restored' => chain' = chain /\ ~restored
  PROVE  Firewalled'
<1> SUFFICES ASSUME Fine, chain' = chain PROVE Firewalled'
  BY DEF Firewalled, Fine
<1>1. Widths' /\ Origin' /\ SameForNarrow'
  <2>1. Widths'
    BY DEF Firewalled, Widths
  <2>2. Origin'
    BY DEF Firewalled, Origin
  <2>3. SameForNarrow'
    BY DEF Firewalled, SameForNarrow
  <2> QED BY <2>1, <2>2, <2>3
<1>2. WgMirrored' /\ OvMirrored'
  <2>1. WgRuled' = WgRuled /\ OvRuled' = OvRuled
    BY DEF WgRuled, OvRuled
  <2>2. WgMirrored'
    BY <2>1 DEF Firewalled, WgMirrored
  <2>3. OvMirrored'
    BY <2>1 DEF Firewalled, OvMirrored
  <2> QED BY <2>2, <2>3
<1> QED BY <1>1, <1>2 DEF Firewalled

LEMMA FirewallStep == IInv /\ Firewalled /\ [Next]_vars => Firewalled'
<1> SUFFICES ASSUME IInv, Firewalled, [Next]_vars PROVE Firewalled'
  OBVIOUS
<1>1. CASE \/ UNCHANGED vars
         \/ \E u \in Users : \/ NextFreeIP(u) \/ LoadSubnet(u) \/ OvpnNextFreeIP(u)
                            \/ WriteCCD(u) \/ RecordIP(u) \/ AttachDies(u)
  <2>1. UNCHANGED <<wgConf, ovCfg, chain, restored, job, faults, start>>
    BY <1>1 DEF vars, NextFreeIP, LoadSubnet, OvpnNextFreeIP, WriteCCD, RecordIP, AttachDies,
                wireguard, openvpn, world, firewall
  <2> QED BY <2>1, FirewallApart
<1>3. CASE Boot \/ ReloadFirewall
  <2>1. RestoreRules /\ UNCHANGED <<wgConf, ovCfg, job, faults, start>>
    BY <1>3 DEF Boot, ReloadFirewall, wireguard, openvpn, world
  <2>2. ~restored' => chain' = chain /\ ~restored
    BY <2>1, Restored
  <2> QED BY <2>1, <2>2, FirewallApart
<1>2. CASE Dies
  <2>1. faults \in Nat /\ faults' = faults + 1
    BY <1>2, ConstantTypes DEF Dies, IInv, PoolTypes
  <2>2. faults' # 0
    BY <2>1
  <2> QED BY <2>2 DEF Firewalled, Fine
<1> QED BY <1>1, <1>2, <1>3, FirewallExpand, FirewallWgConf, FirewallOther, FirewallSubnet,
           FirewallReadRules, FirewallCopyRule, FirewallAfterRules DEF Next

\* subnet.go:246-249: unless a command died or iptables refused a copy, the firewall does with
\* every address of a widened pool what it did with the narrow pool's, however often pools are
\* widened and whatever else the chain holds, if a copy can mirror the rules about the pool, and
\* until a restart of the firewall drops copies (subnet.go:316-320).
THEOREM FirewallMirrors == Spec => []FirewallFollows
<1>1. ASSUME IInv, Firewalled PROVE FirewallFollows
  <2> SUFFICES ASSUME job.pc = "idle", Fine, NEW c \in Classes, NEW a \in Addresses
               PROVE  /\ Contains(NetOf(wgConf), a) /\ Copyable(start.chain, NetOf(start.wg), NetOf(wgConf)) =>
                           Verdict(chain, a, c) = Verdict(start.chain, start.wg.srv, c)
                      /\ Contains(ovCfg, a) /\ Copyable(start.chain, start.ov, ovCfg) =>
                           Verdict(chain, a, c) = Verdict(start.chain, start.ov.base, c)
    BY DEF FirewallFollows, Fine
  <2>1. Origin /\ SameForNarrow /\ WgMirrored /\ OvMirrored
    BY <1>1 DEF Firewalled
  <2>2. WgRuled = NetOf(wgConf) /\ OvRuled = ovCfg
    BY DEF WgRuled, OvRuled, WgStages
  <2>3. /\ chain \in Seq(Rule) /\ start.chain \in Seq(Rule)
        /\ NetOf(start.wg) \in Nets /\ NetOf(wgConf) \in Nets /\ start.ov \in Nets /\ ovCfg \in Nets
        /\ Within(NetOf(start.wg), NetOf(wgConf)) /\ Within(start.ov, ovCfg)
        /\ ~NetsOverlap(NetOf(wgConf), ovCfg) /\ ~NetsOverlap(ovCfg, NetOf(wgConf))
        /\ start.wg.srv \in Int /\ Contains(NetOf(start.wg), start.wg.srv)
        /\ start.ov.base \in Int /\ Contains(start.ov, start.ov.base)
    BY <1>1, Pair
  <2>4. a \in Int
    BY DEF Addresses
  <2>5. \A i \in 1 .. Len(chain) : chain[i] \in Rule
    BY <2>3, ElementOfSeq
  <2>6. ASSUME Contains(NetOf(wgConf), a), Copyable(start.chain, NetOf(start.wg), NetOf(wgConf))
        PROVE  Verdict(chain, a, c) = Verdict(start.chain, start.wg.srv, c)
    <3> DEFINE n == NetOf(start.wg)
    <3> DEFINE W == NetOf(wgConf)
    <3>1. Settled(chain, n, W, W)
      BY <2>1, <2>2, <2>6 DEF WgMirrored
    <3>2. \A i \in 1 .. Len(chain) : From(chain[i], start.chain, n, W, start.ov, ovCfg)
      BY <2>1, OriginFrom
    <3>3. n \in Nets /\ W \in Nets /\ Within(n, W) /\ ~NetsOverlap(W, ovCfg) /\ Contains(n, start.wg.srv)
          /\ Contains(W, a) /\ Copyable(start.chain, n, W)
      BY <2>3, <2>6
    <3> HIDE DEF n, W
    <3>4. \A i \in 1 .. Len(chain) :
            Between(chain[i], n, W) \/ ~NetsOverlap(chain[i].net, W) \/ Within(W, chain[i].net)
      BY <2>3, <2>5, <3>2, <3>3, Kinds
    <3>5. Verdict(chain, a, c) = Verdict(chain, start.wg.srv, c)
      BY <2>3, <2>4, <3>1, <3>3, <3>4, AllAlike
    <3> QED BY <2>1, <3>5 DEF SameForNarrow
  <2>7. ASSUME Contains(ovCfg, a), Copyable(start.chain, start.ov, ovCfg)
        PROVE  Verdict(chain, a, c) = Verdict(start.chain, start.ov.base, c)
    <3> DEFINE V == NetOf(wgConf)
    <3>1. Settled(chain, start.ov, ovCfg, ovCfg)
      BY <2>1, <2>2, <2>7 DEF OvMirrored
    <3>2. \A i \in 1 .. Len(chain) : From(chain[i], start.chain, start.ov, ovCfg, NetOf(start.wg), V)
      BY <2>1, OriginFrom
    <3>3. V \in Nets /\ ~NetsOverlap(ovCfg, V)
      BY <2>3
    <3> HIDE DEF V
    <3>4. \A i \in 1 .. Len(chain) :
            Between(chain[i], start.ov, ovCfg) \/ ~NetsOverlap(chain[i].net, ovCfg) \/ Within(ovCfg, chain[i].net)
      BY <2>3, <2>5, <2>7, <3>2, <3>3, Kinds
    <3>5. Verdict(chain, a, c) = Verdict(chain, start.ov.base, c)
      BY <2>3, <2>4, <2>7, <3>1, <3>4, AllAlike
    <3> QED BY <2>1, <3>5 DEF SameForNarrow
  <2> QED BY <2>6, <2>7
<1>2. Spec => []Firewalled
  BY Invariant, FirewallStart, FirewallStep, PTL DEF Spec
<1> QED BY <1>1, <1>2, Invariant, PTL
=============================================================================
