-------------------------- MODULE MigrationProofs --------------------------
(***************************************************************************)
(* Proofs about wg0.conf, its renders and the imports, for any keys, any   *)
(* bundles, any number of handlers and commands, and any bounds.           *)
(***************************************************************************)
EXTENDS Migration, Minimum

(***************************************************************************)
(* The inductive invariant, one part for each matter.                      *)
(***************************************************************************)
\* An open file is one of a writer; the temporary one is there.
Descriptors ==
  \A p \in Procs : /\ op[p].fd # "none" => op[p].pc \in {"write", "rwrite"}
                   /\ op[p].fd = "tmp" => op[p].pc = "write" /\ tmp # NoFile

\* What an import has still to write is of the kind it writes.
Leftovers ==
  \A p \in Procs : /\ op[p].pc = "pki" => imp[p].left \subseteq PkiFiles
                   /\ op[p].pc = "ccds" => imp[p].left \subseteq Keys

Types == TypeOK /\ Descriptors /\ Leftovers

\* Whoever is alone with wg0.conf is.
Alone == \A p \in Procs : op[p].alone /\ op[p].pc \in Window =>
           \A q \in Procs \ {p} : op[q].pc \notin Window

Expanding == {"xdb", "xshow", "xpeers", "xrename"}

\* A whole file has a head, and the history knows which.
Heads ==
  /\ conf.ok => conf.head
  /\ tmp # NoFile /\ tmp.ok => tmp.head
  /\ last = Whole(last.wide, last.peers)
  /\ conf.head => conf.wide = last.wide

\* No two renders have the temporary file open.
Exclusive ==
  ~shared => \A p, q \in Procs : p # q =>
    ~(op[p].pc \in {"write", "rename"} /\ op[q].pc \in {"write", "rename"})

\* What the files are for an operation: a widening has read a whole file; the temporary file is
\* what its one writer makes of it; who is alone finds wg0.conf as it left it.
Fits(p) ==
  /\ op[p].pc \in Expanding => (op[p].ok => op[p].wide) /\ (op[p].ok \/ shared \/ restored)
  /\ op[p].alone \/ ~shared =>
       /\ op[p].pc = "write" => op[p].fd = "tmp" /\ tmp = Torn
       /\ op[p].pc = "rename" => tmp = Whole(op[p].wide, op[p].peers)
  /\ op[p].alone =>
       /\ op[p].pc = "rwrite" => op[p].fd = "conf" /\ conf = Torn
       /\ op[p].pc \in {"peers", "open", "write", "rename"} => op[p].wide = last.wide
       /\ op[p].pc \in {"strip", "swrite", "sync"} => conf = Whole(last.wide, op[p].peers)
       /\ op[p].pc = "sync" => strip = op[p].peers
  /\ settled => op[p].fd # "conf"

Sound == Alone /\ Heads /\ Exclusive /\ (\A p \in Procs : Fits(p)) /\ NeverTorn /\ InStep

\* Phases of an import that come after its transaction.
Merging == {"params", "pwrite", "rtrunc", "rwrite", "pki", "save", "ccd", "ccds"}

\* Whoever is past a guard that saw the interface has seen that every foreign peer has a row.
Guarded ==
  /\ \A p \in Procs : op[p].pc \in {"wgshow", "xshow"} => op[p].known \subseteq born
  /\ ~forced => \A p \in Procs : op[p].pc \notin Merging /\ op[p].then # "ccd"
  /\ ~forced /\ ~blind => \A p \in Procs :
       /\ op[p].pc \in {"head", "peers", "open", "write", "rename", "strip", "swrite", "sync",
                        "rm", "xpeers"} => Foreign \subseteq born
       /\ op[p].pc \in {"xdb", "xshow", "xrename"} => Foreign \ born \subseteq op[p].peers
  /\ UnimportedStay

\* The file of a user who is being deleted is gone, or known to have come back.
Buried ==
  /\ \A p \in Procs : op[p].pc = "drop" =>
       \A n \in Names(op[p].known) : n \in ccd => n \in undead
  /\ CcdMatches

\* No import carries the source's endpoint.
OwnEnds ==
  /\ \A p \in Procs :
       op[p].pc \in {"params", "pwrite", "rtrunc", "rwrite", "pki", "save"} => imp[p].kind.full
  /\ ~blank =>
       /\ params # "src" /\ "src" \notin cfgs /\ cfgEnd \in cfgs
       /\ \A p \in Procs : imp[p].kind.full => imp[p].wg \notin {"", "src"} /\ imp[p].ov # "src"

Rendering == {"peers", "open", "write", "rename", "strip", "swrite", "sync", "rm"}
ImportPcs == {"look", "txn", "head"} \cup Merging \cup Rendering

\* How far an import that nothing overlaps has come.
Progress(p) ==
  /\ op[p].pc \in ImportPcs /\ \A q \in Procs \ {p} : op[q].pc = "idle"
  /\ op[p].pc \in Window => op[p].alone
  /\ op[p].pc = "txn" => op[p].known = table
  /\ op[p].pc \notin {"look", "txn"} => \A i \in 1 .. Len(imp[p].users) : imp[p].users[i] \in table
  /\ op[p].pc \in {"open", "write", "rename", "strip", "swrite", "sync"} => op[p].peers = table
  /\ op[p].pc \in {"ccd", "ccds"} \/ (op[p].pc = "rm" /\ op[p].then = "ccd") =>
       conf.ok /\ conf.peers = table /\ (up => live = table)
  /\ imp[p].dir /\ op[p].pc = "ccds" => Names((table \cap OvpnKeys) \ imp[p].left) \subseteq ccd
  /\ imp[p].kind.full =>
       /\ op[p].pc = "pki" => PkiFiles \ imp[p].left \subseteq pki
       /\ op[p].pc \in {"save", "head", "ccd", "ccds"} \cup Rendering => pki = PkiFiles
  /\ imp[p].kind.full /\ imp[p].kind.opt =>
       /\ imp[p].wg = "opt" /\ imp[p].ov = "opt"
       /\ op[p].pc \notin {"look", "txn", "params", "pwrite"} => params = "opt"
       /\ op[p].pc \in {"head", "ccd", "ccds"} \cup Rendering => cfgEnd = "opt"

Calm == \A p \in Procs : /\ op[p].pc = "idle" => imp[p] = NoImport
                         /\ imp[p].calm => Progress(p)

(***************************************************************************)
(* The merge.                                                              *)
(***************************************************************************)
\* No two rows share a name or an address.
Apart(rows) == \A k, l \in rows : NameOf[k] = NameOf[l] \/ AddrOf[k] = AddrOf[l] => k = l

States == [ok : BOOLEAN, rows : SUBSET Keys]

LEMMA OneMerged ==
  ASSUME NEW r \in States, NEW k \in BundleKeys, NEW found, Apart(r.rows)
  PROVE  /\ MergeOne(r, k, found) \in States /\ Apart(MergeOne(r, k, found).rows)
         /\ Names(r.rows) \subseteq Names(MergeOne(r, k, found).rows)
         /\ MergeOne(r, k, found).ok => r.ok
         /\ MergeOne(r, k, found).ok /\ Names(found) \subseteq Names(r.rows) =>
              k \in MergeOne(r, k, found).rows
         /\ \A l \in r.rows : NameOf[l] # NameOf[k] => l \in MergeOne(r, k, found).rows
<1> DEFINE old == {l \in r.rows : NameOf[l] = NameOf[k]}
<1> DEFINE clash == \E l \in r.rows \ old : AddrOf[l] = AddrOf[k]
<1> DEFINE new == [ok |-> TRUE, rows |-> (r.rows \ old) \cup {k}]
<1> DEFINE failed == [ok |-> FALSE, rows |-> r.rows]
<1>0. k \in Keys /\ r.ok \in BOOLEAN /\ r.rows \in SUBSET Keys
  BY WgConfAssumption DEF States
<1>1. CASE ~r.ok
  <2>1. MergeOne(r, k, found) = r
    BY <1>1 DEF MergeOne
  <2> QED BY <1>1, <2>1
<1>2. CASE r.ok /\ MergeOne(r, k, found) = new /\ ~clash
  <2> DEFINE rows == (r.rows \ old) \cup {k}
  <2>1. MergeOne(r, k, found).ok /\ MergeOne(r, k, found).rows = rows
    BY <1>2
  <2>2. Apart(rows)
    BY <1>2 DEF Apart
  <2>3. Names(r.rows) \subseteq Names(rows)
    BY DEF Names
  <2>4. new \in States
    BY <1>0 DEF States
  <2> QED BY <1>2, <2>1, <2>2, <2>3, <2>4
<1>3. CASE r.ok /\ MergeOne(r, k, found) = failed
  <2>1. failed \in States
    BY <1>0 DEF States
  <2> QED BY <1>3, <2>1
<1>4. CASE r.ok /\ MergeOne(r, k, found) = r /\ NameOf[k] \in Names(found) /\ old = {}
  <2>1. NameOf[k] \notin Names(r.rows)
    BY <1>4 DEF Names
  <2> QED BY <1>4, <2>1
<1>5. r.ok => \/ MergeOne(r, k, found) = new /\ ~clash
              \/ MergeOne(r, k, found) = failed
              \/ MergeOne(r, k, found) = r /\ NameOf[k] \in Names(found) /\ old = {}
  BY DEF MergeOne
<1> QED BY <1>1, <1>2, <1>3, <1>4, <1>5

\* The rows after i users, and the user that comes next.
LEMMA Merged ==
  ASSUME NEW us \in Seq(BundleKeys), NEW known, table \subseteq Keys, Apart(table),
         \A i, j \in 1 .. Len(us) : NameOf[us[i]] = NameOf[us[j]] => i = j
  PROVE  /\ Merge(us, known) \in States /\ Apart(Merge(us, known).rows)
         /\ Names(table) \subseteq Names(Merge(us, known).rows)
         /\ Merge(us, known).ok /\ Names(known) \subseteq Names(table) =>
              \A i \in 1 .. Len(us) : us[i] \in Merge(us, known).rows
<1> DEFINE n == Len(us)
<1> DEFINE found(i) == IF i = 1 THEN known ELSE table
<1> DEFINE start == [ok |-> TRUE, rows |-> table]
<1> DEFINE Step(f, i) == IF i = 0 THEN start ELSE MergeOne(f[i - 1], us[i], found(i))
<1> DEFINE step == CHOOSE step : step = [i \in 0 .. n |-> Step(step, i)]
<1>0. n \in Nat /\ \A i \in 1 .. n : us[i] \in BundleKeys
  OBVIOUS
<1>1. Merge(us, known) = step[n]
  BY DEF Merge
<1> DEFINE Reached == {m \in 0 .. n : \E f : f = [i \in 0 .. m |-> Step(f, i)]}
<1> DEFINE next(f, m) == [i \in 0 .. m + 1 |-> IF i <= m THEN f[i]
                                               ELSE MergeOne(f[m], us[m + 1], found(m + 1))]
<1>2. ASSUME NEW m \in 0 .. n, m < n, m \in Reached PROVE m + 1 \in Reached
  <2>1. PICK f : f = [i \in 0 .. m |-> Step(f, i)]
    BY <1>2
  <2> DEFINE g == next(f, m)
  <2>2. m \in Nat /\ m + 1 \in 0 .. n
    BY <1>0, <1>2
  <2>3. ASSUME NEW i \in 0 .. m + 1 PROVE g[i] = Step(g, i)
    <3>1. CASE i = 0
      <4>1. f[0] = start
        BY <2>1, <2>2
      <4> QED BY <3>1, <4>1, <2>2
    <3>2. CASE i # 0 /\ i <= m
      <4>1. i \in 0 .. m /\ i - 1 \in 0 .. m + 1 /\ i - 1 <= m
        BY <3>2, <2>2
      <4>2. g[i] = f[i] /\ g[i - 1] = f[i - 1]
        BY <3>2, <4>1
      <4>3. f[i] = Step(f, i)
        BY <2>1, <4>1
      <4>4. f[i] = MergeOne(f[i - 1], us[i], found(i))
        BY <4>3, <3>2
      <4>5. Step(g, i) = MergeOne(g[i - 1], us[i], found(i))
        BY <3>2
      <4> QED BY <4>2, <4>4, <4>5
    <3>3. CASE i = m + 1
      <4>1. i # 0 /\ i - 1 = m /\ m \in 0 .. m + 1
        BY <3>3, <2>2
      <4>2. g[m] = f[m] /\ g[i] = MergeOne(f[m], us[i], found(i))
        BY <3>3, <4>1, <2>2
      <4> QED BY <4>1, <4>2
    <3> QED BY <3>1, <3>2, <3>3, <2>2
  <2>4. g = [i \in 0 .. m + 1 |-> Step(g, i)]
    <3>1. g = [i \in 0 .. m + 1 |-> g[i]]
      OBVIOUS
    <3> HIDE DEF g
    <3> QED BY <2>3, <3>1
  <2> HIDE DEF g
  <2> QED BY <2>2, <2>4
<1>3. step = [i \in 0 .. n |-> Step(step, i)]
  <2>1. 0 \in Reached
    <3> DEFINE f == [i \in 0 .. 0 |-> start]
    <3>1. f = [i \in 0 .. 0 |-> Step(f, i)]
      OBVIOUS
    <3> HIDE DEF f
    <3> QED BY <1>0, <3>1
  <2>2. 0 .. n \subseteq Reached
    <3> HIDE DEF Reached
    <3> QED BY <1>0, <1>2, <2>1, Upward
  <2>3. n \in Reached
    BY <1>0, <2>2
  <2>4. \E f : f = [i \in 0 .. n |-> Step(f, i)]
    BY <2>3
  <2> QED BY <2>4
<1> HIDE DEF step
<1> DEFINE Good == {m \in 0 .. n :
      /\ step[m] \in States /\ Apart(step[m].rows) /\ Names(table) \subseteq Names(step[m].rows)
      /\ step[m].ok /\ Names(known) \subseteq Names(table) =>
           \A i \in 1 .. m : us[i] \in step[m].rows}
<1>4. 0 \in Good
  <2>1. step[0] = start
    BY <1>0, <1>3
  <2>2. start \in States
    BY DEF States
  <2> QED BY <1>0, <2>1, <2>2
<1>5. ASSUME NEW m \in 0 .. n, m < n, m \in Good PROVE m + 1 \in Good
  <2>1. m + 1 \in 1 .. n /\ m + 1 \in 0 .. n /\ (m + 1) - 1 = m /\ m + 1 # 0
    BY <1>0, <1>5
  <2>2. step[m + 1] = MergeOne(step[m], us[m + 1], found(m + 1))
    BY <1>3, <2>1
  <2> DEFINE k == us[m + 1]
  <2> DEFINE r == step[m]
  <2> DEFINE s == step[m + 1]
  <2>3. /\ k \in BundleKeys /\ r \in States /\ Apart(r.rows) /\ Names(table) \subseteq Names(r.rows)
        /\ r.ok /\ Names(known) \subseteq Names(table) => \A i \in 1 .. m : us[i] \in r.rows
        /\ s = MergeOne(r, k, found(m + 1))
    BY <1>0, <1>5, <2>1, <2>2
  <2> HIDE DEF k, r, s, found
  <2>4. /\ s \in States /\ Apart(s.rows) /\ Names(r.rows) \subseteq Names(s.rows)
        /\ s.ok => r.ok
        /\ s.ok /\ Names(found(m + 1)) \subseteq Names(r.rows) => k \in s.rows
        /\ \A l \in r.rows : NameOf[l] # NameOf[k] => l \in s.rows
    BY <2>3, OneMerged
  <2>5. ASSUME s.ok, Names(known) \subseteq Names(table), NEW i \in 1 .. m + 1 PROVE us[i] \in s.rows
    <3>1. CASE i = m + 1
      <4>1. Names(found(m + 1)) \subseteq Names(r.rows)
        BY <2>3, <2>5 DEF found
      <4> QED BY <2>4, <2>5, <3>1, <4>1 DEF k
    <3>2. CASE i # m + 1
      <4>1. i \in 1 .. m /\ i \in 1 .. n
        BY <3>2, <2>1, <1>0
      <4>2. us[i] \in r.rows
        BY <2>3, <2>4, <2>5, <4>1
      <4>3. NameOf[us[i]] # NameOf[k]
        BY <3>2, <4>1, <2>1 DEF k
      <4> QED BY <2>4, <4>2, <4>3
    <3> QED BY <3>1, <3>2
  <2>6. /\ s \in States /\ Apart(s.rows) /\ Names(table) \subseteq Names(s.rows)
        /\ s.ok /\ Names(known) \subseteq Names(table) => \A i \in 1 .. m + 1 : us[i] \in s.rows
    BY <2>3, <2>4, <2>5
  <2> QED BY <2>1, <2>6 DEF s
<1>6. 0 .. n \subseteq Good
  <2> HIDE DEF Good
  <2> QED BY <1>0, <1>4, <1>5, Upward
<1>7. n \in Good
  BY <1>0, <1>6
<1> QED BY <1>1, <1>7

(***************************************************************************)
(* Types.  First what operations do to wg0.conf, table and interface.      *)
(***************************************************************************)
WgTypes == WgTypeOK /\ Descriptors

LEMMA Values ==
  /\ Idle \in OpStates /\ Torn \in Contents
  /\ \A w \in BOOLEAN, ks \in SUBSET Keys : Whole(w, ks) \in Contents /\ Garbled(w, ks) \in Contents
BY DEF Idle, OpStates, Pcs, Window, Torn, Contents, Whole, Garbled

LEMMA WrittenTypes ==
  ASSUME NEW file \in Contents, NEW w \in BOOLEAN, NEW ks \in SUBSET Keys,
         NEW f \in Written(file, Whole(w, ks))
  PROVE  f \in Contents
<1>1. file.peers \in SUBSET Keys
  BY DEF Contents
<1>2. Whole(w, ks).wide = w /\ Whole(w, ks).peers = ks
  BY DEF Whole
<1> QED BY <1>1, <1>2, Values DEF Written

LEMMA WgInitTypes == WgInit => WgTypes
<1> SUFFICES ASSUME WgInit PROVE WgTypes
  OBVIOUS
<1>1. Foreign \cup Known \in SUBSET Keys
  BY WgConfAssumption
<1>2. Whole(FALSE, Foreign \cup Known) \in Contents /\ Idle \in OpStates
  BY <1>1, Values
<1>3. WgTypeOK
  <2>1. table \subseteq born /\ born \subseteq Keys /\ live \subseteq Keys
    BY WgConfAssumption DEF WgInit
  <2>2. \A k, l \in table : NameOf[k] = NameOf[l] \/ AddrOf[k] = AddrOf[l] => k = l
    BY WgConfAssumption DEF WgInit
  <2>3. conf \in Contents /\ last \in Contents /\ tmp = NoFile /\ strip = NoFile
    BY <1>2 DEF WgInit
  <2>4. op \in [Procs -> OpStates]
    BY <1>2 DEF WgInit
  <2>5. spent \in 0 .. Budget /\ faults \in 0 .. MaxFaults
    BY WgConfAssumption DEF WgInit
  <2> QED BY <2>1, <2>2, <2>3, <2>4, <2>5 DEF WgInit, WgTypeOK
<1>4. \A p \in Procs : op[p].fd = "none"
  BY DEF WgInit, Idle
<1> QED BY <1>3, <1>4 DEF WgTypes, Descriptors

LEMMA Begun ==
  ASSUME NEW pc \in Pcs, NEW ks \in SUBSET Keys
  PROVE  /\ [Idle EXCEPT !.pc = pc] \in OpStates /\ [Idle EXCEPT !.pc = pc].fd = "none"
         /\ [Idle EXCEPT !.pc = pc, !.known = ks] \in OpStates
         /\ [Idle EXCEPT !.pc = pc, !.known = ks].fd = "none"
         /\ [Idle EXCEPT !.pc = pc, !.peers = ks] \in OpStates
         /\ [Idle EXCEPT !.pc = pc, !.peers = ks].fd = "none"
         /\ [Idle EXCEPT !.pc = pc, !.then = "ccd"] \in OpStates
         /\ [Idle EXCEPT !.pc = pc, !.then = "ccd"].fd = "none"
         /\ Idle \in OpStates /\ Idle.fd = "none"
BY DEF Idle, OpStates, Pcs

(***************************************************************************)
(* What a step does to the operations.                                     *)
(***************************************************************************)
\* The operations other than p's are as they were.
Rest(p) == \A q \in Procs : q # p => op'[q] = op[q]

Kept(p) ==
  /\ op'[p].ok = op[p].ok /\ op'[p].wide = op[p].wide /\ op'[p].fd = op[p].fd
  /\ op'[p].alone = op[p].alone /\ op'[p].then = op[p].then

\* p goes on to pc with what it now knows of table and file.
Step(p, pc, ks, ls) ==
  /\ Rest(p) /\ Kept(p) /\ op' \in [Procs -> OpStates]
  /\ op'[p].pc = pc /\ op'[p].known = ks /\ op'[p].peers = ls

\* p is at pc and has nothing of what it had.
Fresh(p, pc, ks, ls, then) ==
  /\ Rest(p) /\ op' \in [Procs -> OpStates]
  /\ op'[p].pc = pc /\ op'[p].known = ks /\ op'[p].peers = ls /\ op'[p].then = then
  /\ op'[p].fd = "none" /\ op'[p].ok = TRUE /\ op'[p].wide = FALSE /\ op'[p].alone = FALSE

Ended(p) == Fresh(p, "idle", {}, {}, "idle")

LEMMA Updated ==
  ASSUME op \in [Procs -> OpStates], NEW p \in Procs, NEW r \in OpStates,
         op' = [op EXCEPT ![p] = r]
  PROVE  op' \in [Procs -> OpStates] /\ op'[p] = r /\ Rest(p)
BY DEF Rest

LEMMA Stepped ==
  ASSUME WgTypes, NEW p \in Procs, NEW pc \in Pcs, NEW ks \in SUBSET Keys
  PROVE  /\ op' = [op EXCEPT ![p].pc = pc] => Step(p, pc, op[p].known, op[p].peers)
         /\ op' = [op EXCEPT ![p] = [@ EXCEPT !.pc = pc, !.known = ks]] => Step(p, pc, ks, op[p].peers)
         /\ op' = [op EXCEPT ![p] = [@ EXCEPT !.pc = pc, !.peers = ks]] => Step(p, pc, op[p].known, ks)
<1>1. op[p] \in OpStates /\ op \in [Procs -> OpStates]
  BY DEF WgTypes, WgTypeOK
<1>2. ASSUME op' = [op EXCEPT ![p].pc = pc] PROVE Step(p, pc, op[p].known, op[p].peers)
  <2> DEFINE r == [op[p] EXCEPT !.pc = pc]
  <2>1. r \in OpStates /\ r.pc = pc /\ r.known = op[p].known /\ r.peers = op[p].peers
    BY <1>1 DEF OpStates
  <2>2. r.ok = op[p].ok /\ r.wide = op[p].wide /\ r.fd = op[p].fd /\ r.alone = op[p].alone /\ r.then = op[p].then
    BY <1>1 DEF OpStates
  <2>3. op' = [op EXCEPT ![p] = r]
    BY <1>1, <1>2
  <2> HIDE DEF r
  <2>4. op' \in [Procs -> OpStates] /\ op'[p] = r /\ Rest(p)
    BY <1>1, <2>1, <2>3, Updated
  <2> QED BY <2>1, <2>2, <2>4 DEF Step, Kept
<1>3. ASSUME op' = [op EXCEPT ![p] = [@ EXCEPT !.pc = pc, !.known = ks]]
      PROVE  Step(p, pc, ks, op[p].peers)
  <2> DEFINE r == [op[p] EXCEPT !.pc = pc, !.known = ks]
  <2>1. r \in OpStates /\ r.pc = pc /\ r.known = ks /\ r.peers = op[p].peers
    BY <1>1 DEF OpStates
  <2>2. r.ok = op[p].ok /\ r.wide = op[p].wide /\ r.fd = op[p].fd /\ r.alone = op[p].alone /\ r.then = op[p].then
    BY <1>1 DEF OpStates
  <2>3. op' = [op EXCEPT ![p] = r]
    BY <1>3, Zenon
  <2> HIDE DEF r
  <2>4. op' \in [Procs -> OpStates] /\ op'[p] = r /\ Rest(p)
    BY <1>1, <2>1, <2>3, Updated
  <2> QED BY <2>1, <2>2, <2>4 DEF Step, Kept
<1>4. ASSUME op' = [op EXCEPT ![p] = [@ EXCEPT !.pc = pc, !.peers = ks]]
      PROVE  Step(p, pc, op[p].known, ks)
  <2> DEFINE r == [op[p] EXCEPT !.pc = pc, !.peers = ks]
  <2>1. r \in OpStates /\ r.pc = pc /\ r.known = op[p].known /\ r.peers = ks
    BY <1>1 DEF OpStates
  <2>2. r.ok = op[p].ok /\ r.wide = op[p].wide /\ r.fd = op[p].fd /\ r.alone = op[p].alone /\ r.then = op[p].then
    BY <1>1 DEF OpStates
  <2>3. op' = [op EXCEPT ![p] = r]
    BY <1>4, Zenon
  <2> HIDE DEF r
  <2>4. op' \in [Procs -> OpStates] /\ op'[p] = r /\ Rest(p)
    BY <1>1, <2>1, <2>3, Updated
  <2> QED BY <2>1, <2>2, <2>4 DEF Step, Kept
<1> QED BY <1>2, <1>3, <1>4

LEMMA Renewed ==
  ASSUME WgTypes, NEW p \in Procs, NEW pc \in Pcs, NEW ks \in SUBSET Keys
  PROVE  /\ op' = [op EXCEPT ![p] = Idle] => Ended(p)
         /\ op' = [op EXCEPT ![p] = [Idle EXCEPT !.pc = pc]] => Fresh(p, pc, {}, {}, "idle")
         /\ op' = [op EXCEPT ![p] = [Idle EXCEPT !.pc = pc, !.known = ks]] => Fresh(p, pc, ks, {}, "idle")
         /\ op' = [op EXCEPT ![p] = [Idle EXCEPT !.pc = pc, !.peers = ks]] => Fresh(p, pc, {}, ks, "idle")
         /\ op' = [op EXCEPT ![p] = [Idle EXCEPT !.pc = pc, !.then = "ccd"]] => Fresh(p, pc, {}, {}, "ccd")
<1>1. op \in [Procs -> OpStates]
  BY DEF WgTypes, WgTypeOK
<1>2. ASSUME NEW r \in OpStates, op' = [op EXCEPT ![p] = r], r.fd = "none", r.ok = TRUE, r.wide = FALSE,
             r.alone = FALSE
      PROVE  Fresh(p, r.pc, r.known, r.peers, r.then)
  BY <1>1, <1>2, Updated DEF Fresh
<1>3. ASSUME op' = [op EXCEPT ![p] = Idle] PROVE Ended(p)
  BY <1>2, <1>3, Begun DEF Idle, Ended
<1>4. ASSUME op' = [op EXCEPT ![p] = [Idle EXCEPT !.pc = pc]] PROVE Fresh(p, pc, {}, {}, "idle")
  <2> DEFINE r == [Idle EXCEPT !.pc = pc]
  <2>1. /\ r \in OpStates /\ r.fd = "none" /\ r.ok = TRUE /\ r.wide = FALSE /\ r.alone = FALSE
        /\ r.pc = pc /\ r.known = {} /\ r.peers = {} /\ r.then = "idle"
    BY Begun DEF Idle
  <2>2. op' = [op EXCEPT ![p] = r]
    BY <1>4
  <2> HIDE DEF r
  <2>3. Fresh(p, r.pc, r.known, r.peers, r.then)
    BY <1>2, <2>1, <2>2
  <2> QED BY <2>1, <2>3
<1>5. ASSUME op' = [op EXCEPT ![p] = [Idle EXCEPT !.pc = pc, !.known = ks]]
      PROVE  Fresh(p, pc, ks, {}, "idle")
  <2> DEFINE r == [Idle EXCEPT !.pc = pc, !.known = ks]
  <2>1. /\ r \in OpStates /\ r.fd = "none" /\ r.ok = TRUE /\ r.wide = FALSE /\ r.alone = FALSE
        /\ r.pc = pc /\ r.known = ks /\ r.peers = {} /\ r.then = "idle"
    BY Begun DEF Idle
  <2>2. op' = [op EXCEPT ![p] = r]
    BY <1>5
  <2> HIDE DEF r
  <2>3. Fresh(p, r.pc, r.known, r.peers, r.then)
    BY <1>2, <2>1, <2>2
  <2> QED BY <2>1, <2>3
<1>6. ASSUME op' = [op EXCEPT ![p] = [Idle EXCEPT !.pc = pc, !.peers = ks]]
      PROVE  Fresh(p, pc, {}, ks, "idle")
  <2> DEFINE r == [Idle EXCEPT !.pc = pc, !.peers = ks]
  <2>1. /\ r \in OpStates /\ r.fd = "none" /\ r.ok = TRUE /\ r.wide = FALSE /\ r.alone = FALSE
        /\ r.pc = pc /\ r.known = {} /\ r.peers = ks /\ r.then = "idle"
    BY Begun DEF Idle
  <2>2. op' = [op EXCEPT ![p] = r]
    BY <1>6
  <2> HIDE DEF r
  <2>3. Fresh(p, r.pc, r.known, r.peers, r.then)
    BY <1>2, <2>1, <2>2
  <2> QED BY <2>1, <2>3
<1>7. ASSUME op' = [op EXCEPT ![p] = [Idle EXCEPT !.pc = pc, !.then = "ccd"]]
      PROVE  Fresh(p, pc, {}, {}, "ccd")
  <2> DEFINE r == [Idle EXCEPT !.pc = pc, !.then = "ccd"]
  <2>1. /\ r \in OpStates /\ r.fd = "none" /\ r.ok = TRUE /\ r.wide = FALSE /\ r.alone = FALSE
        /\ r.pc = pc /\ r.known = {} /\ r.peers = {} /\ r.then = "ccd"
    BY Begun DEF Idle
  <2>2. op' = [op EXCEPT ![p] = r]
    BY <1>7
  <2> HIDE DEF r
  <2>3. Fresh(p, r.pc, r.known, r.peers, r.then)
    BY <1>2, <2>1, <2>2
  <2> QED BY <2>1, <2>3
<1> QED BY <1>3, <1>4, <1>5, <1>6, <1>7

\* p goes on to pc with the file fd open.
Opens(p, pc, fd) ==
  /\ Rest(p) /\ op' \in [Procs -> OpStates]
  /\ op'[p].pc = pc /\ op'[p].fd = fd
  /\ op'[p].known = op[p].known /\ op'[p].peers = op[p].peers /\ op'[p].ok = op[p].ok
  /\ op'[p].wide = op[p].wide /\ op'[p].alone = op[p].alone /\ op'[p].then = op[p].then

LEMMA Opened ==
  ASSUME WgTypes, NEW p \in Procs, NEW pc \in Pcs, NEW fd \in {"none", "tmp", "conf", "gone"},
         op' = [op EXCEPT ![p] = [@ EXCEPT !.pc = pc, !.fd = fd]]
  PROVE  Opens(p, pc, fd)
<1> DEFINE r == [op[p] EXCEPT !.pc = pc, !.fd = fd]
<1>1. op[p] \in OpStates /\ op \in [Procs -> OpStates]
  BY DEF WgTypes, WgTypeOK
<1>2. r \in OpStates /\ r.pc = pc /\ r.known = op[p].known /\ r.peers = op[p].peers /\ r.fd = fd
  BY <1>1 DEF OpStates
<1>3. r.ok = op[p].ok /\ r.wide = op[p].wide /\ r.alone = op[p].alone /\ r.then = op[p].then
  BY <1>1 DEF OpStates
<1>4. op' = [op EXCEPT ![p] = r]
  BY Zenon
<1> HIDE DEF r
<1>5. op' \in [Procs -> OpStates] /\ op'[p] = r /\ Rest(p)
  BY <1>1, <1>2, <1>4, Updated
<1> QED BY <1>2, <1>3, <1>5 DEF Opens

\* The interface was down: p gives up once it has removed the stripped file.
Unsynced(p) ==
  /\ Rest(p) /\ op' \in [Procs -> OpStates]
  /\ op'[p].pc = "rm" /\ op'[p].then = "idle" /\ op'[p].fd = op[p].fd
  /\ op'[p].known = op[p].known /\ op'[p].peers = op[p].peers /\ op'[p].ok = op[p].ok
  /\ op'[p].wide = op[p].wide /\ op'[p].alone = op[p].alone

\* The widened file gets the table's peers, and a head if it had one.
Repeopled(p) ==
  /\ Rest(p) /\ op' \in [Procs -> OpStates]
  /\ op'[p].pc = "xrename" /\ op'[p].ok = op[p].wide /\ op'[p].peers = table
  /\ op'[p].known = op[p].known /\ op'[p].wide = op[p].wide /\ op'[p].fd = op[p].fd
  /\ op'[p].alone = op[p].alone /\ op'[p].then = op[p].then

LEMMA RenderSteps ==
  ASSUME WgTypes, NEW p \in Procs
  PROVE  /\ Guard(p) => Step(p, "wgshow", table, op[p].peers)
         /\ WgShow(p) => Ended(p) \/ Step(p, "head", {}, op[p].peers)
         /\ Peers(p) => Step(p, "open", op[p].known, table)
         /\ Open(p) => Opens(p, "write", "tmp")
         /\ Write(p) => Opens(p, "rename", "none")
         /\ Strip(p) => Step(p, "swrite", op[p].known, conf.peers) \/ Ended(p)
         /\ StripWrite(p) => Step(p, "sync", op[p].known, op[p].peers)
         /\ Sync(p) => Step(p, "rm", op[p].known, op[p].peers) \/ Unsynced(p)
         /\ Remove(p) => Fresh(p, op[p].then, {}, {}, "idle")
<1>1. /\ {"wgshow", "head", "open", "write", "rename", "swrite", "sync", "rm", "ccd", "idle"} \subseteq Pcs
      /\ table \in SUBSET Keys /\ {} \in SUBSET Keys /\ conf.peers \in SUBSET Keys
      /\ op \in [Procs -> OpStates] /\ op[p] \in OpStates /\ op[p].then \in {"idle", "ccd"}
  BY DEF Pcs, Window, WgTypes, WgTypeOK, Contents, OpStates
<1>2. Guard(p) => Step(p, "wgshow", table, op[p].peers)
  BY <1>1, Stepped DEF Guard
<1>3. WgShow(p) => Ended(p) \/ Step(p, "head", {}, op[p].peers)
  BY <1>1, Stepped, Renewed DEF WgShow, Finish
<1>4. Peers(p) => Step(p, "open", op[p].known, table)
  BY <1>1, Stepped DEF Peers
<1>5. /\ Open(p) => Opens(p, "write", "tmp")
      /\ Write(p) => Opens(p, "rename", "none")
  BY <1>1, Opened DEF Open, Write
<1>6. Strip(p) => Step(p, "swrite", op[p].known, conf.peers) \/ Ended(p)
  BY <1>1, Stepped, Renewed DEF Strip, Finish
<1>7. StripWrite(p) => Step(p, "sync", op[p].known, op[p].peers)
  BY <1>1, Stepped DEF StripWrite, Goto
<1>8. ASSUME Sync(p) PROVE Step(p, "rm", op[p].known, op[p].peers) \/ Unsynced(p)
  <2>1. CASE Goto(p, "rm")
    BY <1>1, <2>1, Stepped DEF Goto
  <2>2. CASE op' = [op EXCEPT ![p] = [@ EXCEPT !.pc = "rm", !.then = "idle"]]
    <3> DEFINE r == [op[p] EXCEPT !.pc = "rm", !.then = "idle"]
    <3>1. r \in OpStates /\ r.pc = "rm" /\ r.then = "idle" /\ r.known = op[p].known /\ r.peers = op[p].peers
      BY <1>1 DEF OpStates
    <3>2. r.ok = op[p].ok /\ r.wide = op[p].wide /\ r.alone = op[p].alone /\ r.fd = op[p].fd
      BY <1>1 DEF OpStates
    <3>3. op' = [op EXCEPT ![p] = r]
      BY <2>2, Zenon
    <3> HIDE DEF r
    <3>4. op' \in [Procs -> OpStates] /\ op'[p] = r /\ Rest(p)
      BY <1>1, <3>1, <3>3, Updated
    <3> QED BY <3>1, <3>2, <3>4 DEF Unsynced
  <2> QED BY <1>8, <2>1, <2>2 DEF Sync
<1>9. ASSUME Remove(p) PROVE Fresh(p, op[p].then, {}, {}, "idle")
  <2>1. CASE op[p].then = "idle"
    <3>1. op' = [op EXCEPT ![p] = Idle]
      BY <1>9, <2>1 DEF Remove
    <3> QED BY <1>1, <2>1, <3>1, Renewed DEF Ended
  <2>2. CASE op[p].then # "idle"
    <3>1. op' = [op EXCEPT ![p] = [Idle EXCEPT !.pc = op[p].then]]
      BY <1>9, <2>2 DEF Remove
    <3>2. op[p].then \in Pcs
      BY <1>1
    <3> QED BY <1>1, <3>1, <3>2, Renewed
  <2> QED BY <2>1, <2>2
<1> QED BY <1>2, <1>3, <1>4, <1>5, <1>6, <1>7, <1>8, <1>9

LEMMA ExpandSteps ==
  ASSUME WgTypes, NEW p \in Procs
  PROVE  /\ XDb(p) => Step(p, "xshow", table, op[p].peers)
         /\ XShow(p) => \/ Step(p, "xpeers", op[p].known, op[p].peers)
                        \/ Step(p, "xrename", op[p].known, op[p].peers)
         /\ XPeers(p) => Repeopled(p)
<1>1. /\ {"xshow", "xpeers", "xrename"} \subseteq Pcs /\ table \in SUBSET Keys
      /\ op \in [Procs -> OpStates] /\ op[p] \in OpStates
  BY DEF Pcs, Window, WgTypes, WgTypeOK
<1>2. XDb(p) => Step(p, "xshow", table, op[p].peers)
  BY <1>1, Stepped DEF XDb
<1>3. XShow(p) => \/ Step(p, "xpeers", op[p].known, op[p].peers)
                  \/ Step(p, "xrename", op[p].known, op[p].peers)
  BY <1>1, Stepped DEF XShow, Goto
<1>4. ASSUME XPeers(p) PROVE Repeopled(p)
  <2> DEFINE r == [op[p] EXCEPT !.pc = "xrename", !.ok = op[p].wide, !.peers = table]
  <2>1. r \in OpStates /\ r.pc = "xrename" /\ r.ok = op[p].wide /\ r.peers = table
    BY <1>1 DEF OpStates
  <2>2. /\ r.known = op[p].known /\ r.wide = op[p].wide /\ r.fd = op[p].fd /\ r.alone = op[p].alone
        /\ r.then = op[p].then
    BY <1>1 DEF OpStates
  <2>3. op' = [op EXCEPT ![p] = r]
    BY <1>4, Zenon DEF XPeers
  <2> HIDE DEF r
  <2>4. op' \in [Procs -> OpStates] /\ op'[p] = r /\ Rest(p)
    BY <1>1, <2>1, <2>3, Updated
  <2> QED BY <2>1, <2>2, <2>4 DEF Repeopled
<1> QED BY <1>2, <1>3, <1>4

LEMMA OtherSteps ==
  ASSUME WgTypes, NEW p \in Procs
  PROVE  /\ ImportOne(p) =>
              \/ Ended(p) /\ UNCHANGED <<table, born>>
              \/ \E k \in op[p].peers :
                   /\ Step(p, "import", op[p].known, op[p].peers \ {k})
                   /\ IF Insertable(k) THEN table' = table \cup {k} /\ born' = born \cup {k}
                      ELSE table' = table /\ born' = born
         /\ Crash(p) => Ended(p)
         /\ RTrunc(p) => Opens(p, "rwrite", "conf")
         /\ RWrite(p, "pki") => Opens(p, "pki", "none")
         /\ Look(p) => Step(p, "txn", table, op[p].peers)
         /\ Params(p) => Step(p, "pwrite", op[p].known, op[p].peers)
         /\ Save(p) => Step(p, "head", op[p].known, op[p].peers)
         /\ CcdPeers(p) => Step(p, "ccds", op[p].known, op[p].peers)
         /\ Pki(p) => op' = op \/ Step(p, "save", op[p].known, op[p].peers) \/ Ended(p)
         /\ CcdFile(p) => op' = op \/ Ended(p)
<1>1. /\ {"import", "rwrite", "pki", "txn", "pwrite", "head", "ccds", "save"} \subseteq Pcs
      /\ table \in SUBSET Keys /\ {} \in SUBSET Keys
      /\ op \in [Procs -> OpStates] /\ op[p] \in OpStates /\ op[p].peers \in SUBSET Keys
  BY DEF Pcs, Window, WgTypes, WgTypeOK, OpStates
<1>2. ASSUME ImportOne(p)
      PROVE  \/ Ended(p) /\ UNCHANGED <<table, born>>
             \/ \E k \in op[p].peers :
                  /\ Step(p, "import", op[p].known, op[p].peers \ {k})
                  /\ IF Insertable(k) THEN table' = table \cup {k} /\ born' = born \cup {k}
                     ELSE table' = table /\ born' = born
  <2>1. CASE Finish(p) /\ UNCHANGED <<table, born>>
    BY <1>1, <2>1, Renewed DEF Finish
  <2>2. ASSUME NEW k \in op[p].peers, op' = [op EXCEPT ![p].peers = @ \ {k}]
        PROVE  Step(p, "import", op[p].known, op[p].peers \ {k})
    <3> DEFINE r == [op[p] EXCEPT !.peers = @ \ {k}]
    <3>1. r \in OpStates /\ r.pc = op[p].pc /\ r.known = op[p].known /\ r.peers = op[p].peers \ {k}
      BY <1>1 DEF OpStates
    <3>2. r.ok = op[p].ok /\ r.wide = op[p].wide /\ r.fd = op[p].fd /\ r.alone = op[p].alone /\ r.then = op[p].then
      BY <1>1 DEF OpStates
    <3>3. op' = [op EXCEPT ![p] = r]
      BY <1>1, <2>2
    <3>4. op[p].pc = "import"
      BY <1>2 DEF ImportOne
    <3> HIDE DEF r
    <3>5. op' \in [Procs -> OpStates] /\ op'[p] = r /\ Rest(p)
      BY <1>1, <3>1, <3>3, Updated
    <3> QED BY <3>1, <3>2, <3>4, <3>5 DEF Step, Kept
  <2>3. \/ Finish(p) /\ UNCHANGED <<table, born>>
        \/ \E k \in op[p].peers :
             /\ op' = [op EXCEPT ![p].peers = @ \ {k}]
             /\ table' = IF Insertable(k) THEN table \cup {k} ELSE table
             /\ born' = IF Insertable(k) THEN born \cup {k} ELSE born
    BY <1>2, Zenon DEF ImportOne
  <2>4. ASSUME ~Finish(p) PROVE \E k \in op[p].peers :
             /\ Step(p, "import", op[p].known, op[p].peers \ {k})
             /\ IF Insertable(k) THEN table' = table \cup {k} /\ born' = born \cup {k}
                ELSE table' = table /\ born' = born
    <3>1. PICK k \in op[p].peers : /\ op' = [op EXCEPT ![p].peers = @ \ {k}]
                                   /\ table' = IF Insertable(k) THEN table \cup {k} ELSE table
                                   /\ born' = IF Insertable(k) THEN born \cup {k} ELSE born
      BY <2>3, <2>4, Zenon
    <3>2. Step(p, "import", op[p].known, op[p].peers \ {k})
      BY <2>2, <3>1
    <3>3. IF Insertable(k) THEN table' = table \cup {k} /\ born' = born \cup {k}
          ELSE table' = table /\ born' = born
      BY <3>1, Zenon
    <3> WITNESS k \in op[p].peers
    <3> QED BY <3>2, <3>3, Zenon
  <2>5. CASE Finish(p)
    <3>1. Ended(p)
      BY <1>1, <2>5, Renewed DEF Finish
    <3>2. op[p].pc = "import" /\ op'[p].pc = "idle"
      BY <1>2, <3>1 DEF ImportOne, Ended, Fresh
    <3>3. UNCHANGED <<table, born>>
      <4>1. ASSUME NEW k \in op[p].peers, op' = [op EXCEPT ![p].peers = @ \ {k}] PROVE FALSE
        <5>1. Step(p, "import", op[p].known, op[p].peers \ {k})
          BY <2>2, <4>1
        <5> QED BY <3>2, <5>1 DEF Step
      <4> QED BY <2>3, <4>1, Zenon
    <3> QED BY <3>1, <3>3
  <2> QED BY <2>4, <2>5
<1>3. Crash(p) => Ended(p)
  BY <1>1, Renewed DEF Crash, Finish
<1>4. /\ RTrunc(p) => Opens(p, "rwrite", "conf")
      /\ RWrite(p, "pki") => Opens(p, "pki", "none")
  BY <1>1, Opened DEF RTrunc, RWrite
<1>5. /\ Look(p) => Step(p, "txn", table, op[p].peers)
      /\ Params(p) => Step(p, "pwrite", op[p].known, op[p].peers)
      /\ Save(p) => Step(p, "head", op[p].known, op[p].peers)
      /\ CcdPeers(p) => Step(p, "ccds", op[p].known, op[p].peers)
  BY <1>1, Stepped DEF Look, Params, Save, CcdPeers, Goto
<1>6. Pki(p) => op' = op \/ Step(p, "save", op[p].known, op[p].peers) \/ Ended(p)
  BY <1>1, Stepped, Renewed DEF Pki, Goto, Finish
<1>7. CcdFile(p) => op' = op \/ Ended(p)
  BY <1>1, Renewed DEF CcdFile, Finish
<1> QED BY <1>2, <1>3, <1>4, <1>5, <1>6, <1>7

LEMMA StartSteps ==
  ASSUME WgTypes, NEW p \in Procs
  PROVE  /\ StartRender(p) => Fresh(p, "guard", {}, {}, "idle")
         /\ StartImport(p) => Fresh(p, "import", {}, conf.peers, "idle")
         /\ StartExpand(p) => Fresh(p, "xread", {}, {}, "idle")
         /\ \A k \in Keys : StartCreate(p, k) => Fresh(p, "guard", {}, {}, "idle")
         /\ \A k \in Keys : StartDelete(p, k) => Fresh(p, "drop", {k}, {}, "idle")
         /\ \A kind, us : StartMigration(p, kind, us) => Fresh(p, "look", {}, {}, "idle")
<1>1. /\ {"guard", "import", "xread", "drop", "look"} \subseteq Pcs
      /\ conf.peers \in SUBSET Keys /\ {} \in SUBSET Keys /\ \A k \in Keys : {k} \in SUBSET Keys
  BY DEF Pcs, WgTypes, WgTypeOK, Contents
<1>2. StartRender(p) => Fresh(p, "guard", {}, {}, "idle")
  BY <1>1, Renewed DEF Begin, StartRender, Start, StartAt
<1>3. StartImport(p) => Fresh(p, "import", {}, conf.peers, "idle")
  BY <1>1, Renewed DEF StartImport, Start, StartAt
<1>4. StartExpand(p) => Fresh(p, "xread", {}, {}, "idle")
  BY <1>1, Renewed DEF StartExpand, Start, StartAt
<1>5. \A k \in Keys : StartCreate(p, k) => Fresh(p, "guard", {}, {}, "idle")
  BY <1>1, Renewed DEF StartCreate, Start, StartAt
<1>6. \A k \in Keys : StartDelete(p, k) => Fresh(p, "drop", {k}, {}, "idle")
  BY <1>1, Renewed DEF StartDelete, Start, StartAt
<1>7. \A kind, us : StartMigration(p, kind, us) => Fresh(p, "look", {}, {}, "idle")
  BY <1>1, Renewed DEF StartMigration, StartAt
<1> QED BY <1>2, <1>3, <1>4, <1>5, <1>6, <1>7

\* The next phase of an import whose transaction has committed, or that has ended.
LEMMA TxnSteps ==
  ASSUME WgTypes, NEW p \in Procs, imp[p].kind \in [full : BOOLEAN, apply : BOOLEAN, opt : BOOLEAN],
         Txn(p)
  PROVE  \/ Ended(p)
         \/ /\ Merge(imp[p].users, op[p].known).ok
            /\ \/ imp[p].kind.full /\ Fresh(p, "params", {}, {}, "ccd")
               \/ ~imp[p].kind.full /\ imp[p].kind.apply /\ Fresh(p, "head", {}, {}, "ccd")
<1> DEFINE m == Merge(imp[p].users, op[p].known)
<1> DEFINE next == IF m.ok THEN AfterTxn(imp[p].kind) ELSE "idle"
<1>0. {"params", "head"} \subseteq Pcs /\ {} \in SUBSET Keys
  BY DEF Pcs
<1>1. next \in {"idle", "params", "head"}
  BY DEF AfterTxn
<1>2. /\ next # "idle" => m.ok
      /\ next = "params" => imp[p].kind.full
      /\ next = "head" => ~imp[p].kind.full /\ imp[p].kind.apply
  BY DEF AfterTxn
<1>3. op' = [op EXCEPT ![p] = IF next = "idle" THEN Idle ELSE [Idle EXCEPT !.pc = next, !.then = "ccd"]]
  BY DEF Txn
<1> HIDE DEF next, m
<1>4. CASE next = "idle"
  <2>1. op' = [op EXCEPT ![p] = Idle]
    BY <1>3, <1>4
  <2> QED BY <1>0, <2>1, Renewed
<1>5. CASE next # "idle"
  <2>1. op' = [op EXCEPT ![p] = [Idle EXCEPT !.pc = next, !.then = "ccd"]]
    BY <1>3, <1>5
  <2>2. next \in Pcs /\ Fresh(p, next, {}, {}, "ccd")
    BY <1>0, <1>1, <1>5, <2>1, Renewed
  <2>3. m.ok
    BY <1>2, <1>5
  <2>4. CASE next = "params"
    BY <1>2, <2>2, <2>3, <2>4 DEF m
  <2>5. CASE next = "head"
    BY <1>2, <2>2, <2>3, <2>5 DEF m
  <2> QED BY <1>1, <1>5, <2>4, <2>5
<1> QED BY <1>4, <1>5

\* Only the file q has open may have lost its name, or got another.
Refiled(q, fd) ==
  /\ op'[q].pc = op[q].pc /\ op'[q].known = op[q].known /\ op'[q].ok = op[q].ok
  /\ op'[q].wide = op[q].wide /\ op'[q].peers = op[q].peers /\ op'[q].then = op[q].then
  /\ op'[q].alone = op[q].alone /\ op'[q].fd = fd

LEMMA RenameSteps ==
  ASSUME WgTypes, NEW p \in Procs, Rename(p)
  PROVE  \/ tmp = NoFile /\ Ended(p)
         \/ /\ tmp # NoFile /\ op' \in [Procs -> OpStates]
            /\ op'[p].pc = "strip" /\ op'[p].known = op[p].known /\ op'[p].ok = op[p].ok
            /\ op'[p].wide = op[p].wide /\ op'[p].peers = op[p].peers /\ op'[p].then = op[p].then
            /\ op'[p].alone = op[p].alone /\ op'[p].fd = "none"
            /\ \A q \in Procs : q # p => Refiled(q, Moved(op[q].fd))
<1>1. "strip" \in Pcs /\ "idle" \in Pcs /\ {} \in SUBSET Keys
      /\ op \in [Procs -> OpStates] /\ op[p] \in OpStates /\ op[p].fd = "none"
  BY DEF Pcs, Window, WgTypes, WgTypeOK, Descriptors, Rename
<1>2. CASE tmp = NoFile
  BY <1>1, <1>2, Renewed DEF Rename, Finish
<1>3. CASE tmp # NoFile
  <2> DEFINE r == [op[p] EXCEPT !.pc = "strip"]
  <2> DEFINE s(q) == [op[q] EXCEPT !.fd = Moved(@)]
  <2>1. op' = [q \in Procs |-> IF q = p THEN r ELSE s(q)]
    BY <1>3 DEF Rename
  <2>2. /\ r \in OpStates /\ r.pc = "strip" /\ r.known = op[p].known /\ r.ok = op[p].ok
        /\ r.wide = op[p].wide /\ r.peers = op[p].peers /\ r.then = op[p].then
        /\ r.alone = op[p].alone /\ r.fd = "none"
    BY <1>1 DEF OpStates
  <2>3. ASSUME NEW q \in Procs
        PROVE  /\ s(q) \in OpStates /\ s(q).pc = op[q].pc /\ s(q).known = op[q].known /\ s(q).ok = op[q].ok
               /\ s(q).wide = op[q].wide /\ s(q).peers = op[q].peers /\ s(q).then = op[q].then
               /\ s(q).alone = op[q].alone /\ s(q).fd = Moved(op[q].fd)
    <3>1. op[q] \in OpStates /\ Moved(op[q].fd) \in {"none", "tmp", "conf", "gone"}
      BY <1>1 DEF OpStates, Moved
    <3> QED BY <3>1 DEF OpStates
  <2> HIDE DEF r, s
  <2>4. op' \in [Procs -> OpStates] /\ op'[p] = r /\ \A q \in Procs : q # p => op'[q] = s(q)
    BY <2>1, <2>2, <2>3
  <2>5. \A q \in Procs : q # p => Refiled(q, Moved(op[q].fd))
    BY <2>3, <2>4 DEF Refiled
  <2> QED BY <1>3, <2>2, <2>4, <2>5
<1> QED BY <1>2, <1>3

LEMMA XRenameSteps ==
  ASSUME WgTypes, NEW p \in Procs, XRename(p)
  PROVE  /\ op' \in [Procs -> OpStates] /\ op'[p] = Idle
         /\ \A q \in Procs : q # p => Refiled(q, IF op[q].fd = "conf" THEN "gone" ELSE op[q].fd)
<1>1. op \in [Procs -> OpStates]
  BY DEF WgTypes, WgTypeOK
<1> DEFINE s(q) == [op[q] EXCEPT !.fd = IF @ = "conf" THEN "gone" ELSE @]
<1>2. op' = [q \in Procs |-> IF q = p THEN Idle ELSE s(q)]
  BY DEF XRename
<1>3. ASSUME NEW q \in Procs
      PROVE  /\ s(q) \in OpStates /\ s(q).pc = op[q].pc /\ s(q).known = op[q].known /\ s(q).ok = op[q].ok
             /\ s(q).wide = op[q].wide /\ s(q).peers = op[q].peers /\ s(q).then = op[q].then
             /\ s(q).alone = op[q].alone /\ s(q).fd = IF op[q].fd = "conf" THEN "gone" ELSE op[q].fd
  BY <1>1 DEF OpStates
<1> HIDE DEF s
<1>4. op' \in [Procs -> OpStates] /\ op'[p] = Idle /\ \A q \in Procs : q # p => op'[q] = s(q)
  BY <1>2, <1>3, Values
<1> QED BY <1>3, <1>4 DEF Refiled

\* Everyone else who was deleting a row that is gone has nothing left to delete.
DropSteps(p) ==
  /\ op' \in [Procs -> OpStates]
  /\ op'[p].pc = "head" /\ op'[p].known = {} /\ op'[p].peers = {} /\ op'[p].then = "idle"
  /\ op'[p].fd = "none" /\ op'[p].alone = FALSE
  /\ \A q \in Procs : q # p =>
       /\ op'[q].pc = op[q].pc /\ op'[q].ok = op[q].ok /\ op'[q].wide = op[q].wide
       /\ op'[q].peers = op[q].peers /\ op'[q].then = op[q].then /\ op'[q].alone = op[q].alone
       /\ op'[q].fd = op[q].fd
       /\ op'[q].known = IF op[q].pc = "drop" THEN op[q].known \ Named(op[p].known) ELSE op[q].known

LEMMA Dropped ==
  ASSUME WgTypes, NEW p \in Procs, DropRow(p)
  PROVE  DropSteps(p)
<1> DEFINE gone == Named(op[p].known)
<1> DEFINE r == [Idle EXCEPT !.pc = "head"]
<1> DEFINE s(q) == [op[q] EXCEPT !.known = @ \ gone]
<1>1. op' = [q \in Procs |-> IF q = p THEN r ELSE IF op[q].pc = "drop" THEN s(q) ELSE op[q]]
  BY DEF DropRow
<1>2. op \in [Procs -> OpStates] /\ "head" \in Pcs /\ {} \in SUBSET Keys
  BY DEF WgTypes, WgTypeOK, Pcs
<1>3. /\ r \in OpStates /\ r.pc = "head" /\ r.known = {} /\ r.peers = {} /\ r.then = "idle"
      /\ r.fd = "none" /\ r.alone = FALSE
  BY <1>2, Begun DEF Idle
<1> HIDE DEF gone, r
<1>4. ASSUME NEW q \in Procs
      PROVE  /\ s(q) \in OpStates /\ s(q).pc = op[q].pc /\ s(q).known = op[q].known \ gone
             /\ s(q).ok = op[q].ok /\ s(q).wide = op[q].wide /\ s(q).peers = op[q].peers
             /\ s(q).then = op[q].then /\ s(q).alone = op[q].alone /\ s(q).fd = op[q].fd
  BY <1>2 DEF OpStates
<1> HIDE DEF s
<1>5. /\ op' \in [Procs -> OpStates] /\ op'[p] = r
      /\ \A q \in Procs : q # p => op'[q] = IF op[q].pc = "drop" THEN s(q) ELSE op[q]
  BY <1>1, <1>2, <1>3, <1>4
<1> QED BY <1>3, <1>4, <1>5 DEF DropSteps, gone

\* Of an operation that does nothing, only whether it is alone may change.
SameWork(q) ==
  /\ op'[q].pc = op[q].pc /\ op'[q].known = op[q].known /\ op'[q].ok = op[q].ok
  /\ op'[q].wide = op[q].wide /\ op'[q].peers = op[q].peers /\ op'[q].then = op[q].then
  /\ op'[q].fd = op[q].fd

\* Entering the window only changes who is alone.
LEMMA EnterKeeps ==
  ASSUME WgTypes, NEW p \in Procs, NEW r \in OpStates, Enter(p, r)
  PROVE  /\ op' \in [Procs -> OpStates]
         /\ op'[p].alone <=> \A q \in Procs \ {p} : op[q].pc \notin Window
         /\ op'[p].pc = r.pc /\ op'[p].known = r.known /\ op'[p].ok = r.ok /\ op'[p].wide = r.wide
         /\ op'[p].peers = r.peers /\ op'[p].fd = r.fd /\ op'[p].then = r.then
         /\ \A q \in Procs : q # p => /\ SameWork(q) /\ (op'[q].alone => op[q].alone)
                                      /\ op[q].pc \in Window => ~op'[q].alone
<1> DEFINE others == {q \in Procs \ {p} : op[q].pc \in Window}
<1>1. (others = {}) = (\A q \in Procs \ {p} : op[q].pc \notin Window)
  OBVIOUS
<1>2. op' = [q \in Procs |-> IF q = p THEN [r EXCEPT !.alone = (others = {})]
                             ELSE IF q \in others THEN [op[q] EXCEPT !.alone = FALSE]
                             ELSE op[q]]
  BY DEF Enter
<1>3. \A q \in Procs : op[q] \in OpStates
  BY DEF WgTypes, WgTypeOK
<1>4. ASSUME NEW q \in Procs PROVE op'[q] \in OpStates
  BY <1>2, <1>3 DEF OpStates
<1>5. op' \in [Procs -> OpStates]
  BY <1>2, <1>4
<1>6. op'[p] = [r EXCEPT !.alone = (others = {})]
  BY <1>2
<1>7. op'[p].alone <=> \A q \in Procs \ {p} : op[q].pc \notin Window
  <2>1. op'[p].alone = (others = {})
    BY <1>6 DEF OpStates
  <2> QED BY <1>1, <2>1
<1>8. ASSUME NEW q \in Procs, q # p
      PROVE  /\ SameWork(q) /\ (op'[q].alone => op[q].alone)
             /\ op[q].pc \in Window => ~op'[q].alone
  <2>1. op'[q] = IF op[q].pc \in Window THEN [op[q] EXCEPT !.alone = FALSE] ELSE op[q]
    BY <1>2, <1>8
  <2> QED BY <1>3, <2>1 DEF OpStates, SameWork
<1>9. /\ op'[p].pc = r.pc /\ op'[p].known = r.known /\ op'[p].ok = r.ok /\ op'[p].wide = r.wide
      /\ op'[p].peers = r.peers /\ op'[p].fd = r.fd /\ op'[p].then = r.then
  BY <1>6 DEF OpStates
<1> QED BY <1>5, <1>7, <1>8, <1>9

\* p has entered its window.
Entered(p, pc, ok, wide, ls) ==
  /\ op' \in [Procs -> OpStates]
  /\ op'[p].pc = pc /\ op'[p].ok = ok /\ op'[p].wide = wide /\ op'[p].peers = ls
  /\ op'[p].known = op[p].known /\ op'[p].fd = op[p].fd /\ op'[p].then = op[p].then
  /\ op'[p].alone <=> \A q \in Procs \ {p} : op[q].pc \notin Window
  /\ \A q \in Procs : q # p => /\ SameWork(q) /\ (op'[q].alone => op[q].alone)
                               /\ op[q].pc \in Window => ~op'[q].alone

LEMMA EnterSteps ==
  ASSUME WgTypes, NEW p \in Procs
  PROVE  /\ ReadHead(p) => \/ Ended(p) /\ ~conf.head
                           \/ conf.head /\ Entered(p, "peers", op[p].ok, conf.wide, op[p].peers)
         /\ XRead(p) => Entered(p, "xdb", conf.ok, conf.head, conf.peers)
         /\ PWrite(p) => Entered(p, "rtrunc", op[p].ok, op[p].wide, op[p].peers)
<1>1. /\ op[p] \in OpStates /\ {} \in SUBSET Keys /\ "idle" \in Pcs
      /\ conf.ok \in BOOLEAN /\ conf.wide \in BOOLEAN /\ conf.head \in BOOLEAN /\ conf.peers \in SUBSET Keys
  BY DEF WgTypes, WgTypeOK, Contents, Pcs
<1>2. ReadHead(p) => \/ Ended(p) /\ ~conf.head
                     \/ conf.head /\ Entered(p, "peers", op[p].ok, conf.wide, op[p].peers)
  <2> DEFINE r == [op[p] EXCEPT !.pc = "peers", !.wide = conf.wide]
  <2>1. /\ r \in OpStates /\ r.pc = "peers" /\ r.wide = conf.wide /\ r.known = op[p].known
        /\ r.ok = op[p].ok /\ r.peers = op[p].peers /\ r.fd = op[p].fd /\ r.then = op[p].then
    BY <1>1 DEF OpStates, Pcs, Window
  <2>2. ReadHead(p) => IF conf.head THEN Enter(p, r) ELSE Finish(p)
    BY DEF ReadHead
  <2> HIDE DEF r
  <2>3. Finish(p) => Ended(p)
    BY <1>1, Renewed DEF Finish
  <2>4. Enter(p, r) => Entered(p, "peers", op[p].ok, conf.wide, op[p].peers)
    BY <2>1, EnterKeeps DEF Entered
  <2> QED BY <2>2, <2>3, <2>4
<1>3. XRead(p) => Entered(p, "xdb", conf.ok, conf.head, conf.peers)
  <2> DEFINE r == [op[p] EXCEPT !.pc = "xdb", !.ok = conf.ok, !.wide = conf.head, !.peers = conf.peers]
  <2>1. /\ r \in OpStates /\ r.pc = "xdb" /\ r.wide = conf.head /\ r.known = op[p].known
        /\ r.ok = conf.ok /\ r.peers = conf.peers /\ r.fd = op[p].fd /\ r.then = op[p].then
    BY <1>1 DEF OpStates, Pcs, Window
  <2>2. XRead(p) => Enter(p, r)
    BY DEF XRead
  <2> HIDE DEF r
  <2>3. Enter(p, r) => Entered(p, "xdb", conf.ok, conf.head, conf.peers)
    BY <2>1, EnterKeeps DEF Entered
  <2> QED BY <2>2, <2>3
<1>4. PWrite(p) => Entered(p, "rtrunc", op[p].ok, op[p].wide, op[p].peers)
  <2> DEFINE r == [op[p] EXCEPT !.pc = "rtrunc"]
  <2>1. /\ r \in OpStates /\ r.pc = "rtrunc" /\ r.wide = op[p].wide /\ r.known = op[p].known
        /\ r.ok = op[p].ok /\ r.peers = op[p].peers /\ r.fd = op[p].fd /\ r.then = op[p].then
    BY <1>1 DEF OpStates, Pcs, Window
  <2>2. PWrite(p) => Enter(p, r)
    BY DEF PWrite
  <2> HIDE DEF r
  <2>3. Enter(p, r) => Entered(p, "rtrunc", op[p].ok, op[p].wide, op[p].peers)
    BY <2>1, EnterKeeps DEF Entered
  <2> QED BY <2>2, <2>3
<1> QED BY <1>2, <1>3, <1>4

(***************************************************************************)
(* Types.                                                                  *)
(***************************************************************************)
\* A step of p that opens no file; who removes the temporary file is not its writer.
LEMMA NothingOpened ==
  ASSUME WgTypes, NEW p \in Procs, tmp # NoFile => tmp' # NoFile,
         \/ \E pc, ks, ls, then : Fresh(p, pc, ks, ls, then)
         \/ DropSteps(p)
         \/ /\ op[p].pc \notin {"write", "rwrite"}
            /\ \/ \E pc, ks, ls : Step(p, pc, ks, ls)
               \/ \E pc, ok, wide, ls : Entered(p, pc, ok, wide, ls)
               \/ Unsynced(p) \/ Repeopled(p)
  PROVE  op' \in [Procs -> OpStates] /\ Descriptors'
<1>1. op'[p].fd = "none"
  BY DEF WgTypes, Descriptors, Fresh, DropSteps, Step, Kept, Entered, Unsynced, Repeopled
<1>2. \A q \in Procs : q # p => op'[q].pc = op[q].pc /\ op'[q].fd = op[q].fd
  BY DEF Fresh, DropSteps, Step, Entered, Unsynced, Repeopled, Rest, SameWork
<1>3. op' \in [Procs -> OpStates]
  BY DEF Fresh, DropSteps, Step, Entered, Unsynced, Repeopled
<1>4. Descriptors'
  <2> SUFFICES ASSUME NEW q \in Procs
               PROVE  /\ op'[q].fd # "none" => op'[q].pc \in {"write", "rwrite"}
                      /\ op'[q].fd = "tmp" => op'[q].pc = "write" /\ tmp' # NoFile
    BY DEF Descriptors
  <2>1. CASE q = p
    BY <1>1, <2>1
  <2>2. CASE q # p
    BY <1>2, <2>2 DEF WgTypes, Descriptors
  <2> QED BY <2>1, <2>2
<1> QED BY <1>3, <1>4

\* A step that changes no more than the local state of the operations.
LEMMA OnlyOp ==
  ASSUME WgTypes, op' \in [Procs -> OpStates], Descriptors',
         UNCHANGED <<table, born, disk, live, up, spent, faults, history>>
  PROVE  WgTypes'
BY DEF WgTypes, WgTypeOK, disk, history

LEMMA RenderTypes ==
  ASSUME WgTypes, NEW p \in Procs, Render(p)
  PROVE  WgTypes'
<1>0. /\ conf \in Contents /\ conf.peers \in SUBSET Keys /\ tmp \in Contents \cup {NoFile}
      /\ last \in Contents /\ last.peers \in SUBSET Keys /\ last.wide \in BOOLEAN
      /\ op[p] \in OpStates /\ op[p].wide \in BOOLEAN /\ op[p].peers \in SUBSET Keys
      /\ op[p].alone \in BOOLEAN
  BY DEF WgTypes, WgTypeOK, Contents, OpStates
<1>1. CASE Guard(p) \/ Peers(p) \/ Strip(p)
  <2>1. op' \in [Procs -> OpStates] /\ Descriptors'
    BY <1>1, RenderSteps, NothingOpened DEF Guard, Peers, Strip, Ended, disk
  <2> QED BY <1>1, <2>1, OnlyOp DEF Guard, Peers, Strip
<1>2. CASE WgShow(p)
  <2>1. op' \in [Procs -> OpStates] /\ Descriptors'
    BY <1>2, RenderSteps, NothingOpened DEF WgShow, Ended, disk
  <2>2. PICK seen \in {live, {}} : Shown(p, seen)
    BY <1>2 DEF WgShow
  <2>3. faults \in 0 .. MaxFaults /\ MaxFaults \in Nat
    BY WgConfAssumption DEF WgTypes, WgTypeOK
  <2>4. faults' \in 0 .. MaxFaults
    BY <2>2, <2>3 DEF Shown
  <2>5. blind' \in BOOLEAN
    BY <2>2, Zenon DEF Shown
  <2> QED BY <1>2, <2>1, <2>4, <2>5 DEF WgShow, WgTypes, WgTypeOK, disk
<1>3. CASE ReadHead(p)
  <2>1. op' \in [Procs -> OpStates] /\ Descriptors'
    BY <1>3, EnterSteps, NothingOpened DEF ReadHead, Ended, disk
  <2> QED BY <1>3, <2>1, OnlyOp DEF ReadHead
<1>4. CASE Open(p)
  <2>1. Opens(p, "write", "tmp") /\ tmp' = Torn /\ Torn \in Contents /\ Torn # NoFile
    BY <1>4, RenderSteps, Values, NoFileAssumption DEF Open
  <2>2. Descriptors'
    BY <2>1 DEF WgTypes, Descriptors, Opens, Rest
  <2>3. shared' \in BOOLEAN
    BY <1>4, Zenon DEF Open
  <2> QED BY <1>4, <2>1, <2>2, <2>3 DEF Open, Opens, WgTypes, WgTypeOK
<1>5. CASE Write(p)
  <2> DEFINE r == Whole(op[p].wide, op[p].peers)
  <2>1. tmp' \in Contents \cup {NoFile} /\ (tmp # NoFile => tmp' # NoFile)
    <3>1. CASE op[p].fd = "tmp"
      <4>1. tmp \in Contents /\ tmp' \in Written(tmp, r)
        BY <1>0, <1>5, <3>1 DEF Write, WgTypes, Descriptors
      <4>2. tmp' \in Contents
        BY <1>0, <4>1, WrittenTypes
      <4> QED BY <4>2, NoFileAssumption
    <3>2. CASE op[p].fd # "tmp"
      BY <1>0, <1>5, <3>2 DEF Write
    <3> QED BY <3>1, <3>2
  <2>2. conf' \in Contents
    BY <1>0, <1>5, WrittenTypes DEF Write
  <2>3. last' \in Contents
    <3>1. conf'.wide \in BOOLEAN
      BY <2>2 DEF Contents
    <3>2. last' = [last EXCEPT !.wide = IF op[p].fd = "conf" THEN conf'.wide ELSE last.wide]
      BY <1>5 DEF Write
    <3> QED BY <1>0, <3>1, <3>2 DEF Contents
  <2>4. Opens(p, "rename", "none")
    BY <1>5, RenderSteps
  <2>5. Descriptors'
    BY <2>1, <2>4 DEF WgTypes, Descriptors, Opens, Rest
  <2> QED BY <1>5, <2>1, <2>2, <2>3, <2>4, <2>5 DEF Write, Opens, WgTypes, WgTypeOK
<1>6. CASE Rename(p)
  <2>1. CASE tmp = NoFile
    <3>1. op' \in [Procs -> OpStates] /\ Descriptors'
      BY <1>6, <2>1, RenameSteps, NothingOpened DEF Rename, Ended
    <3> QED BY <1>6, <2>1, <3>1 DEF Rename, WgTypes, WgTypeOK
  <2>2. CASE tmp # NoFile
    <3>1. /\ conf' = tmp /\ tmp' = NoFile /\ settled' = FALSE
          /\ last' = [last EXCEPT !.wide = IF op[p].alone THEN last.wide ELSE tmp.wide]
      BY <1>6, <2>2 DEF Rename, Install
    <3>2. conf' \in Contents /\ last' \in Contents
      BY <1>0, <2>2, <3>1 DEF Contents
    <3>3. /\ op' \in [Procs -> OpStates] /\ op'[p].fd = "none"
          /\ \A q \in Procs : q # p => op'[q].pc = op[q].pc /\ op'[q].fd = Moved(op[q].fd)
      BY <1>6, <2>2, RenameSteps DEF Refiled
    <3>4. Descriptors'
      <4> SUFFICES ASSUME NEW q \in Procs
                   PROVE  /\ op'[q].fd # "none" => op'[q].pc \in {"write", "rwrite"}
                          /\ op'[q].fd # "tmp"
        BY DEF Descriptors
      <4>1. CASE q = p
        BY <3>3, <4>1
      <4>2. CASE q # p
        BY <3>3, <4>2 DEF WgTypes, Descriptors, Moved
      <4> QED BY <4>1, <4>2
    <3> QED BY <1>6, <3>1, <3>2, <3>3, <3>4 DEF Rename, WgTypes, WgTypeOK
  <2> QED BY <2>1, <2>2
<1>7. CASE StripWrite(p)
  <2>1. op' \in [Procs -> OpStates] /\ Descriptors'
    BY <1>7, RenderSteps, NothingOpened DEF StripWrite
  <2> QED BY <1>0, <1>7, <2>1 DEF StripWrite, WgTypes, WgTypeOK, history
<1>8. CASE Sync(p)
  <2>1. op' \in [Procs -> OpStates] /\ Descriptors'
    BY <1>8, RenderSteps, NothingOpened DEF Sync, disk
  <2>2. live' \subseteq Keys /\ settled' \in BOOLEAN
    BY <1>0, <1>8 DEF Sync, WgTypes, WgTypeOK
  <2>3. last' \in Contents
    <3>1. [last EXCEPT !.peers = op[p].peers] \in Contents
      BY <1>0 DEF Contents
    <3>2. last' = last \/ last' = [last EXCEPT !.peers = op[p].peers]
      BY <1>8 DEF Sync
    <3> QED BY <1>0, <3>1, <3>2
  <2> QED BY <1>8, <2>1, <2>2, <2>3 DEF Sync, WgTypes, WgTypeOK, disk
<1>9. CASE Remove(p)
  <2>1. op' \in [Procs -> OpStates] /\ Descriptors'
    BY <1>9, RenderSteps, NothingOpened DEF Remove
  <2> QED BY <1>9, <2>1 DEF Remove, WgTypes, WgTypeOK, history
<1> QED BY <1>1, <1>2, <1>3, <1>4, <1>5, <1>6, <1>7, <1>8, <1>9 DEF Render

LEMMA ExpandTypes ==
  ASSUME WgTypes, NEW p \in Procs, Expand(p)
  PROVE  WgTypes'
<1>0. /\ conf \in Contents /\ last \in Contents /\ op[p] \in OpStates
      /\ op[p].wide \in BOOLEAN /\ op[p].ok \in BOOLEAN /\ op[p].peers \in SUBSET Keys
  BY DEF WgTypes, WgTypeOK, OpStates
<1>1. CASE XRead(p)
  <2>1. op' \in [Procs -> OpStates] /\ Descriptors'
    BY <1>1, EnterSteps, NothingOpened DEF XRead, disk
  <2> QED BY <1>1, <2>1, OnlyOp DEF XRead
<1>2. CASE XDb(p) \/ XPeers(p)
  <2>1. op' \in [Procs -> OpStates] /\ Descriptors'
    BY <1>2, ExpandSteps, NothingOpened DEF XDb, XPeers, disk
  <2> QED BY <1>2, <2>1, OnlyOp DEF XDb, XPeers
<1>3. CASE XShow(p)
  <2>1. op' \in [Procs -> OpStates] /\ Descriptors'
    BY <1>3, ExpandSteps, NothingOpened DEF XShow, disk
  <2>2. PICK seen \in {live, {}} : Shown(p, seen)
    BY <1>3 DEF XShow
  <2>3. faults \in 0 .. MaxFaults /\ MaxFaults \in Nat
    BY WgConfAssumption DEF WgTypes, WgTypeOK
  <2>4. faults' \in 0 .. MaxFaults
    BY <2>2, <2>3 DEF Shown
  <2>5. blind' \in BOOLEAN
    BY <2>2, Zenon DEF Shown
  <2> QED BY <1>3, <2>1, <2>4, <2>5 DEF XShow, WgTypes, WgTypeOK, disk
<1>4. CASE XRename(p)
  <2>1. conf' \in Contents
    BY <1>0, <1>4 DEF XRename, Contents
  <2>2. last' \in Contents
    BY <1>0, <1>4 DEF XRename, Contents
  <2>3. settled' \in BOOLEAN
    BY <1>4, Zenon DEF XRename
  <2>4. /\ op' \in [Procs -> OpStates] /\ op'[p] = Idle /\ tmp' = tmp
        /\ \A q \in Procs : q # p =>
             op'[q].pc = op[q].pc /\ op'[q].fd = IF op[q].fd = "conf" THEN "gone" ELSE op[q].fd
    BY <1>4, XRenameSteps DEF Refiled, XRename
  <2>5. Descriptors'
    <3> SUFFICES ASSUME NEW q \in Procs
                 PROVE  /\ op'[q].fd # "none" => op'[q].pc \in {"write", "rwrite"}
                        /\ op'[q].fd = "tmp" => op'[q].pc = "write" /\ tmp' # NoFile
      BY DEF Descriptors
    <3>1. CASE q = p
      BY <2>4, <3>1 DEF Idle
    <3>2. CASE q # p
      BY <2>4, <3>2 DEF WgTypes, Descriptors
    <3> QED BY <3>1, <3>2
  <2> QED BY <1>4, <2>1, <2>2, <2>3, <2>4, <2>5 DEF XRename, WgTypes, WgTypeOK
<1> QED BY <1>1, <1>2, <1>3, <1>4 DEF Expand

LEMMA StartTypes ==
  ASSUME WgTypes, NEW p \in Procs,
         Begin(p) \/ \E k \in Keys : StartDelete(p, k)
  PROVE  WgTypes'
<1>1. op' \in [Procs -> OpStates] /\ Descriptors'
  BY StartSteps, NothingOpened
     DEF Begin, StartRender, StartImport, StartExpand, StartCreate, StartDelete, disk
<1>2. spent' \in 0 .. Budget
  <2>1. spent + ShortCost <= Budget /\ spent' = spent + ShortCost
    BY DEF Begin, StartRender, StartImport, StartExpand, StartCreate, StartDelete, Start, StartAt
  <2> QED BY <2>1, WgConfAssumption DEF WgTypes, WgTypeOK
<1>3. /\ table' \subseteq born' /\ born' \subseteq Keys
      /\ \A k, l \in table' : NameOf[k] = NameOf[l] \/ AddrOf[k] = AddrOf[l] => k = l
  BY DEF WgTypes, WgTypeOK, Begin, StartRender, StartImport, StartExpand, StartCreate, StartDelete, Insertable
<1>4. UNCHANGED <<disk, live, up, faults, history>>
  BY DEF Begin, StartRender, StartImport, StartExpand, StartCreate, StartDelete
<1> QED BY <1>1, <1>2, <1>3, <1>4 DEF WgTypes, WgTypeOK, disk, history

\* The table, one by one: an insertion that the UNIQUE columns let through.
LEMMA TableTypes ==
  ASSUME WgTypes, NEW p \in Procs, ImportOne(p) \/ DropRow(p) \/ Crash(p)
  PROVE  WgTypes'
<1>0. op[p] \in OpStates /\ op[p].peers \in SUBSET Keys
  BY DEF WgTypes, WgTypeOK, OpStates
<1>1. CASE ImportOne(p)
  <2>1. op' \in [Procs -> OpStates] /\ Descriptors'
    BY <1>1, OtherSteps, NothingOpened DEF ImportOne, Ended, disk
  <2>2. /\ table' \subseteq born' /\ born' \subseteq Keys
        /\ \A k, l \in table' : NameOf[k] = NameOf[l] \/ AddrOf[k] = AddrOf[l] => k = l
    <3>1. CASE UNCHANGED <<table, born>>
      BY <3>1 DEF WgTypes, WgTypeOK
    <3>2. ASSUME NEW k \in op[p].peers, Insertable(k), table' = table \cup {k}, born' = born \cup {k}
          PROVE  /\ table' \subseteq born' /\ born' \subseteq Keys
                 /\ \A l, m \in table' : NameOf[l] = NameOf[m] \/ AddrOf[l] = AddrOf[m] => l = m
      BY <1>0, <3>2 DEF Insertable, WgTypes, WgTypeOK
    <3> QED BY <1>1, <3>1, <3>2, OtherSteps
  <2> QED BY <1>1, <2>1, <2>2 DEF ImportOne, WgTypes, WgTypeOK, disk, history
<1>2. CASE DropRow(p)
  <2>1. op' \in [Procs -> OpStates] /\ Descriptors'
    BY <1>2, Dropped, NothingOpened DEF DropRow, disk
  <2> QED BY <1>2, <2>1 DEF DropRow, WgTypes, WgTypeOK, disk
<1>3. CASE Crash(p)
  <2>1. op' \in [Procs -> OpStates] /\ Descriptors'
    BY <1>3, OtherSteps, NothingOpened DEF Crash, Ended, disk
  <2>2. faults' \in 0 .. MaxFaults
    BY <1>3, WgConfAssumption DEF Crash, WgTypes, WgTypeOK
  <2> QED BY <1>3, <2>1, <2>2 DEF Crash, WgTypes, WgTypeOK, disk, history
<1> QED BY <1>1, <1>2, <1>3

LEMMA InterfaceTypes ==
  ASSUME WgTypes, IfDown \/ IfUp
  PROVE  WgTypes'
<1>1. live' \subseteq Keys /\ up' \in BOOLEAN
  BY DEF IfDown, IfUp, WgTypes, WgTypeOK, Contents
<1>2. faults' \in 0 .. MaxFaults
  BY WgConfAssumption DEF IfDown, IfUp, WgTypes, WgTypeOK
<1>3. UNCHANGED <<table, born, disk, op, spent, history>>
  BY DEF IfDown, IfUp
<1> QED BY <1>1, <1>2, <1>3 DEF WgTypes, WgTypeOK, Descriptors, disk, history

LEMMA RestoreTypes ==
  ASSUME WgTypes, NEW p \in Procs, RTrunc(p) \/ RWrite(p, "pki")
  PROVE  WgTypes'
<1>0. /\ conf \in Contents /\ last \in Contents /\ op[p] \in OpStates /\ op[p].alone \in BOOLEAN
      /\ BundleKeys \in SUBSET Keys /\ FALSE \in BOOLEAN
  BY WgConfAssumption DEF WgTypes, WgTypeOK, OpStates
<1>1. CASE RTrunc(p)
  <2>1. Opens(p, "rwrite", "conf") /\ conf' \in Contents /\ tmp' = tmp
    BY <1>1, OtherSteps, Values DEF RTrunc
  <2>2. Descriptors'
    BY <2>1 DEF WgTypes, Descriptors, Opens, Rest
  <2> QED BY <1>1, <2>1, <2>2 DEF RTrunc, Opens, WgTypes, WgTypeOK
<1>2. CASE RWrite(p, "pki")
  <2>1. conf' \in Contents
    BY <1>0, <1>2, WrittenTypes DEF RWrite
  <2>2. last' \in Contents
    <3>1. conf'.wide \in BOOLEAN
      BY <2>1 DEF Contents
    <3> QED BY <1>0, <1>2, <3>1 DEF RWrite, Contents
  <2>3. Opens(p, "pki", "none") /\ tmp' = tmp
    BY <1>2, OtherSteps DEF RWrite
  <2>4. Descriptors'
    BY <2>3 DEF WgTypes, Descriptors, Opens, Rest
  <2>5. restored' \in BOOLEAN
    BY <1>0, <1>2, Zenon DEF RWrite
  <2> QED BY <1>2, <2>1, <2>2, <2>3, <2>4, <2>5 DEF RWrite, Opens, WgTypes, WgTypeOK
<1> QED BY <1>1, <1>2

\* What an import knows, and the files it writes beside wg0.conf.
MigTypes ==
  /\ params \in (Ends \ {""}) \cup {"blank"}
  /\ cfgEnd \in Ends /\ cfgs \in SUBSET Ends
  /\ pki \subseteq PkiFiles /\ ccd \subseteq Names(Keys) /\ undead \subseteq Names(Keys)
  /\ imp \in [Procs -> ImpStates]
  /\ blank \in BOOLEAN

LEMMA TypesParts ==
  /\ Types <=> WgTypes /\ MigTypes /\ Leftovers
  /\ Types' <=> WgTypes' /\ MigTypes' /\ Leftovers'
BY DEF Types, TypeOK, WgTypes, MigTypes

LEMMA NoImportType == NoImport \in ImpStates
BY DEF NoImport, ImpStates, Ends

LEMMA ForgetTypes ==
  ASSUME imp \in [Procs -> ImpStates], Forget
  PROVE  /\ imp' \in [Procs -> ImpStates]
         /\ \A q \in Procs : imp'[q] = IF op'[q].pc = "idle" THEN NoImport ELSE imp[q]
BY NoImportType DEF Forget

LEMMA DisturbTypes ==
  ASSUME imp \in [Procs -> ImpStates], Disturb
  PROVE  /\ imp' \in [Procs -> ImpStates]
         /\ \A q \in Procs : /\ imp'[q].kind = imp[q].kind /\ imp'[q].users = imp[q].users
                             /\ imp'[q].wg = imp[q].wg /\ imp'[q].ov = imp[q].ov
                             /\ imp'[q].dir = imp[q].dir
                             /\ imp'[q].left = imp[q].left /\ imp'[q].calm = FALSE
<1> DEFINE r(q) == [imp[q] EXCEPT !.calm = FALSE]
<1>1. imp' = [q \in Procs |-> r(q)]
  BY DEF Disturb
<1>2. ASSUME NEW q \in Procs
      PROVE  /\ r(q) \in ImpStates /\ r(q).kind = imp[q].kind /\ r(q).users = imp[q].users
             /\ r(q).wg = imp[q].wg /\ r(q).ov = imp[q].ov /\ r(q).dir = imp[q].dir
             /\ r(q).left = imp[q].left /\ r(q).calm = FALSE
  BY DEF ImpStates
<1> HIDE DEF r
<1> QED BY <1>1, <1>2

\* What p has still to write, and nothing else.
Leaves(p, s) ==
  /\ imp' \in [Procs -> ImpStates]
  /\ imp'[p].kind = imp[p].kind /\ imp'[p].users = imp[p].users /\ imp'[p].wg = imp[p].wg
  /\ imp'[p].ov = imp[p].ov /\ imp'[p].dir = imp[p].dir /\ imp'[p].left = s /\ imp'[p].calm = imp[p].calm
  /\ \A q \in Procs : q # p => imp'[q] = imp[q]

LEMMA LeavesTypes ==
  ASSUME imp \in [Procs -> ImpStates], NEW p \in Procs, NEW s \in SUBSET (Keys \cup PkiFiles),
         imp' = [imp EXCEPT ![p].left = s]
  PROVE  Leaves(p, s)
<1> DEFINE r == [imp[p] EXCEPT !.left = s]
<1>1. /\ r \in ImpStates /\ r.kind = imp[p].kind /\ r.users = imp[p].users /\ r.wg = imp[p].wg
      /\ r.ov = imp[p].ov /\ r.dir = imp[p].dir /\ r.left = s /\ r.calm = imp[p].calm
  BY DEF ImpStates
<1>2. imp' = [imp EXCEPT ![p] = r]
  OBVIOUS
<1> HIDE DEF r
<1>3. imp'[p] = r /\ imp' \in [Procs -> ImpStates] /\ \A q \in Procs : q # p => imp'[q] = imp[q]
  BY <1>1, <1>2
<1> QED BY <1>1, <1>3 DEF Leaves

\* Nobody comes to write OpenVPN or CCD files.
LEMMA LeftoversKept ==
  ASSUME Leftovers,
         \A q \in Procs : op'[q].pc \in {"pki", "ccds"} =>
           op'[q].pc = op[q].pc /\ imp'[q].left \subseteq imp[q].left
  PROVE  Leftovers'
BY DEF Leftovers

LEMMA MergeTypes ==
  ASSUME WgTypes, MigTypes, NEW p \in Procs
  PROVE  LET m == Merge(imp[p].users, op[p].known)
         IN  /\ m \in States /\ Apart(m.rows) /\ Names(table) \subseteq Names(m.rows)
             /\ m.ok /\ Names(op[p].known) \subseteq Names(table) =>
                  \A i \in 1 .. Len(imp[p].users) : imp[p].users[i] \in m.rows
<1> DEFINE us == imp[p].users
<1>1. us \in Bundles \cup {<<>>}
  BY DEF MigTypes, ImpStates
<1>2. us \in Seq(BundleKeys) /\ \A i, j \in 1 .. Len(us) : NameOf[us[i]] = NameOf[us[j]] => i = j
  <2>1. CASE us \in Bundles
    BY <2>1, MigrationAssumption
  <2>2. CASE us = <<>>
    BY <2>2
  <2> QED BY <1>1, <2>1, <2>2
<1>3. table \subseteq Keys /\ Apart(table)
  BY DEF WgTypes, WgTypeOK, Apart
<1> HIDE DEF us
<1>4. LET m == Merge(us, op[p].known)
      IN  /\ m \in States /\ Apart(m.rows) /\ Names(table) \subseteq Names(m.rows)
          /\ m.ok /\ Names(op[p].known) \subseteq Names(table) =>
               \A i \in 1 .. Len(us) : us[i] \in m.rows
  BY <1>2, <1>3, Merged
<1> QED BY <1>4 DEF us

LEMMA ImportTypes ==
  ASSUME Types, NEW p \in Procs, Import(p)
  PROVE  Types'
<1>0. /\ WgTypes /\ MigTypes /\ Leftovers /\ imp \in [Procs -> ImpStates] /\ imp[p] \in ImpStates
      /\ imp[p].left \in SUBSET (Keys \cup PkiFiles) /\ OvpnKeys \subseteq Keys
      /\ imp[p].wg \in Ends /\ imp[p].ov \in Ends
      /\ imp[p].kind \in [full : BOOLEAN, apply : BOOLEAN, opt : BOOLEAN]
      /\ table \subseteq Keys
  BY TypesParts, WgConfAssumption, MigrationAssumption DEF MigTypes, ImpStates, WgTypes, WgTypeOK
<1>1. CASE Look(p)
  <2>1. Step(p, "txn", table, op[p].peers) /\ op[p].pc = "look"
    BY <1>0, <1>1, OtherSteps DEF Look
  <2>2. WgTypes'
    BY <1>0, <1>1, <2>1, NothingOpened, OnlyOp DEF Look, disk
  <2>3. MigTypes' /\ Leftovers'
    BY <1>0, <1>1, <2>1, LeftoversKept DEF Look, migVars, MigTypes, Step, Rest
  <2> QED BY <2>2, <2>3, TypesParts
<1>2. CASE Txn(p)
  <2> DEFINE m == Merge(imp[p].users, op[p].known)
  <2>1. \/ Ended(p) \/ Fresh(p, "params", {}, {}, "ccd") \/ Fresh(p, "head", {}, {}, "ccd")
    BY <1>0, <1>2, TxnSteps
  <2>2. op' \in [Procs -> OpStates] /\ Descriptors'
    BY <1>0, <1>2, <2>1, NothingOpened DEF Txn, Ended, disk
  <2>3. m \in States /\ Apart(m.rows)
    BY <1>0, MergeTypes
  <2>4. table' = (IF m.ok THEN m.rows ELSE table) /\ born' = born \cup table'
    BY <1>2 DEF Txn
  <2>5. table' \subseteq Keys /\ Apart(table')
    <3> HIDE DEF m
    <3> QED BY <1>0, <2>3, <2>4 DEF States, WgTypes, WgTypeOK, Apart
  <2>6. WgTypes'
    BY <1>0, <1>2, <2>2, <2>4, <2>5 DEF Txn, WgTypes, WgTypeOK, Apart, disk
  <2>7. /\ imp' \in [Procs -> ImpStates]
        /\ \A q \in Procs : imp'[q] = IF op'[q].pc = "idle" THEN NoImport ELSE imp[q]
    BY <1>0, <1>2, ForgetTypes DEF Txn
  <2>8. MigTypes'
    BY <1>0, <1>2, <2>7 DEF Txn, MigTypes, files
  <2>9. Leftovers'
    BY <1>0, <2>1, <2>7, LeftoversKept DEF Ended, Fresh, Rest
  <2> QED BY <2>6, <2>8, <2>9, TypesParts
<1>3. CASE Params(p) \/ Save(p)
  <2>1. op[p].pc \in {"params", "save"} /\ \E pc \in {"pwrite", "head"} : Step(p, pc, op[p].known, op[p].peers)
    BY <1>0, <1>3, OtherSteps DEF Params, Save
  <2>2. WgTypes'
    BY <1>0, <1>3, <2>1, NothingOpened, OnlyOp DEF Params, Save, disk
  <2>3. MigTypes'
    BY <1>0, <1>3 DEF Params, Save, MigTypes
  <2>4. Leftovers'
    BY <1>0, <1>3, <2>1, LeftoversKept DEF Params, Save, Step, Rest
  <2> QED BY <2>2, <2>3, <2>4, TypesParts
<1>4. CASE PWrite(p)
  <2>1. Entered(p, "rtrunc", op[p].ok, op[p].wide, op[p].peers) /\ op[p].pc = "pwrite"
    BY <1>0, <1>4, EnterSteps DEF PWrite
  <2>2. WgTypes'
    BY <1>0, <1>4, <2>1, NothingOpened, OnlyOp DEF PWrite, disk
  <2>3. MigTypes'
    BY <1>0, <1>4 DEF PWrite, MigTypes, Ends
  <2>4. Leftovers'
    BY <1>0, <1>4, <2>1, LeftoversKept DEF PWrite, Entered, SameWork
  <2> QED BY <2>2, <2>3, <2>4, TypesParts
<1>5. CASE Truncate(p)
  <2>1. WgTypes' /\ UNCHANGED migVars
    BY <1>0, <1>5, RestoreTypes DEF Truncate
  <2>2. Opens(p, "rwrite", "conf")
    BY <1>0, <1>5, OtherSteps DEF Truncate
  <2>3. MigTypes' /\ Leftovers'
    BY <1>0, <2>1, <2>2, LeftoversKept DEF migVars, MigTypes, Opens, Rest
  <2> QED BY <2>1, <2>3, TypesParts
<1>6. CASE Restore(p)
  <2>1. WgTypes' /\ Opens(p, "pki", "none")
    BY <1>0, <1>6, RestoreTypes, OtherSteps DEF Restore
  <2>2. Leaves(p, PkiFiles)
    BY <1>0, <1>6, LeavesTypes DEF Restore
  <2>3. MigTypes'
    BY <1>0, <1>6, <2>2 DEF Restore, MigTypes, Leaves, files
  <2>4. Leftovers'
    BY <1>0, <2>1, <2>2 DEF Leftovers, Opens, Rest, Leaves
  <2> QED BY <2>1, <2>3, <2>4, TypesParts
<1>7. CASE Pki(p)
  <2>0. op[p].pc = "pki" /\ imp[p].left \subseteq PkiFiles
    BY <1>0, <1>7 DEF Pki, Leftovers
  <2>1. op' = op \/ Step(p, "save", op[p].known, op[p].peers) \/ Ended(p)
    BY <1>0, <1>7, OtherSteps
  <2>2. op' \in [Procs -> OpStates] /\ Descriptors'
    <3>1. CASE op' = op
      BY <1>0, <1>7, <3>1 DEF Pki, WgTypes, WgTypeOK, Descriptors, disk
    <3>2. CASE op' # op
      BY <1>0, <1>7, <2>0, <2>1, <3>2, NothingOpened DEF Pki, Ended, disk
    <3> QED BY <3>1, <3>2
  <2>3. WgTypes'
    BY <1>0, <1>7, <2>2, OnlyOp DEF Pki
  <2>4. CASE \E f \in imp[p].left : pki' = pki \cup {f} /\ imp' = [imp EXCEPT ![p].left = @ \ {f}] /\ op' = op
    <3>1. PICK f \in imp[p].left : pki' = pki \cup {f} /\ imp' = [imp EXCEPT ![p].left = @ \ {f}] /\ op' = op
      BY <2>4, Zenon
    <3>2. Leaves(p, imp[p].left \ {f})
      <4> DEFINE s == imp[p].left \ {f}
      <4>1. imp' = [imp EXCEPT ![p].left = s]
        BY <3>1, Zenon
      <4>2. s \in SUBSET (Keys \cup PkiFiles)
        BY <1>0
      <4>3. Leaves(p, s)
        <5> HIDE DEF s
        <5> QED BY <1>0, <4>1, <4>2, LeavesTypes
      <4> QED BY <4>3
    <3>3. MigTypes'
      BY <1>0, <1>7, <2>0, <3>1, <3>2 DEF Pki, MigTypes, Leaves
    <3>4. Leftovers'
      BY <1>0, <3>1, <3>2, LeftoversKept DEF Leaves
    <3> QED BY <2>3, <3>3, <3>4, TypesParts
  <2>5. CASE pki' = pki /\ Forget
    <3>1. /\ imp' \in [Procs -> ImpStates]
          /\ \A q \in Procs : imp'[q] = IF op'[q].pc = "idle" THEN NoImport ELSE imp[q]
      BY <1>0, <2>5, ForgetTypes
    <3>2. MigTypes'
      BY <1>0, <1>7, <2>5, <3>1 DEF Pki, MigTypes
    <3>3. Leftovers'
      BY <1>0, <2>1, <3>1, LeftoversKept DEF Step, Ended, Fresh, Rest
    <3> QED BY <2>3, <3>2, <3>3, TypesParts
  <2> QED BY <1>7, <2>4, <2>5, Zenon DEF Pki
<1>8. CASE CcdPeers(p)
  <2>1. Step(p, "ccds", op[p].known, op[p].peers) /\ op[p].pc = "ccd"
    BY <1>0, <1>8, OtherSteps DEF CcdPeers
  <2>2. WgTypes'
    BY <1>0, <1>8, <2>1, NothingOpened, OnlyOp DEF CcdPeers, disk
  <2>3. Leaves(p, IF imp[p].dir THEN table \cap OvpnKeys ELSE {})
    <3> DEFINE s == IF imp[p].dir THEN table \cap OvpnKeys ELSE {}
    <3>1. imp' = [imp EXCEPT ![p].left = s]
      BY <1>8 DEF CcdPeers
    <3>2. s \in SUBSET (Keys \cup PkiFiles)
      BY <1>0
    <3>3. Leaves(p, s)
      <4> HIDE DEF s
      <4> QED BY <1>0, <3>1, <3>2, LeavesTypes
    <3> QED BY <3>3
  <2>4. MigTypes'
    BY <1>0, <1>8, <2>3 DEF CcdPeers, MigTypes, Leaves, files
  <2>5. Leftovers'
    BY <1>0, <2>1, <2>3 DEF Leftovers, Step, Rest, Leaves
  <2> QED BY <2>2, <2>4, <2>5, TypesParts
<1>9. CASE CcdFile(p)
  <2>0. op[p].pc = "ccds" /\ imp[p].left \subseteq Keys
    BY <1>0, <1>9 DEF CcdFile, Leftovers
  <2>1. op' = op \/ Ended(p)
    BY <1>0, <1>9, OtherSteps
  <2>2. op' \in [Procs -> OpStates] /\ Descriptors'
    <3>1. CASE op' = op
      BY <1>0, <1>9, <3>1 DEF CcdFile, WgTypes, WgTypeOK, Descriptors, disk
    <3>2. CASE op' # op
      BY <1>0, <1>9, <2>0, <2>1, <3>2, NothingOpened DEF CcdFile, Ended, disk
    <3> QED BY <3>1, <3>2
  <2>3. WgTypes'
    BY <1>0, <1>9, <2>2, OnlyOp DEF CcdFile
  <2>4. CASE \E k \in imp[p].left :
               /\ ccd' = ccd \cup {NameOf[k]}
               /\ undead' = IF Dying(NameOf[k]) THEN undead \cup {NameOf[k]} ELSE undead
               /\ imp' = [imp EXCEPT ![p].left = @ \ {k}]
               /\ op' = op
    <3>1. PICK k \in imp[p].left :
               /\ ccd' = ccd \cup {NameOf[k]}
               /\ undead' = IF Dying(NameOf[k]) THEN undead \cup {NameOf[k]} ELSE undead
               /\ imp' = [imp EXCEPT ![p].left = @ \ {k}]
               /\ op' = op
      BY <2>4, Zenon
    <3>2. Leaves(p, imp[p].left \ {k})
      <4> DEFINE s == imp[p].left \ {k}
      <4>1. imp' = [imp EXCEPT ![p].left = s]
        BY <3>1, Zenon
      <4>2. s \in SUBSET (Keys \cup PkiFiles)
        BY <1>0
      <4>3. Leaves(p, s)
        <5> HIDE DEF s
        <5> QED BY <1>0, <4>1, <4>2, LeavesTypes
      <4> QED BY <4>3
    <3>3. NameOf[k] \in Names(Keys)
      BY <2>0 DEF Names
    <3>4. ccd' \subseteq Names(Keys) /\ undead' \subseteq Names(Keys)
      BY <1>0, <3>1, <3>3 DEF MigTypes
    <3>5. MigTypes'
      BY <1>0, <1>9, <3>2, <3>4 DEF CcdFile, MigTypes, Leaves, files
    <3>6. Leftovers'
      BY <1>0, <3>1, <3>2, LeftoversKept DEF Leaves
    <3> QED BY <2>3, <3>5, <3>6, TypesParts
  <2>5. CASE Forget /\ UNCHANGED <<ccd, undead>>
    <3>1. /\ imp' \in [Procs -> ImpStates]
          /\ \A q \in Procs : imp'[q] = IF op'[q].pc = "idle" THEN NoImport ELSE imp[q]
      BY <1>0, <2>5, ForgetTypes
    <3>2. MigTypes'
      BY <1>0, <1>9, <2>5, <3>1 DEF CcdFile, MigTypes, files
    <3>3. Leftovers'
      BY <1>0, <2>1, <3>1, LeftoversKept DEF Ended, Fresh, Rest
    <3> QED BY <2>3, <3>2, <3>3, TypesParts
  <2> QED BY <1>9, <2>4, <2>5, Zenon DEF CcdFile
<1> QED BY <1>1, <1>2, <1>3, <1>4, <1>5, <1>6, <1>7, <1>8, <1>9 DEF Import

LEMMA MigrationStartTypes ==
  ASSUME Types, NEW p \in Procs, NEW kind \in Kinds, NEW us \in Bundles, StartMigration(p, kind, us)
  PROVE  Types'
<1>0. WgTypes /\ MigTypes /\ Leftovers
  BY TypesParts
<1>1. Fresh(p, "look", {}, {}, "idle")
  BY <1>0, StartSteps
<1>2. op' \in [Procs -> OpStates] /\ Descriptors'
  BY <1>0, <1>1, NothingOpened DEF StartMigration, disk
<1>3. spent' \in 0 .. Budget
  <2>1. spent + ImportCost <= Budget /\ spent' = spent + ImportCost
    BY DEF StartMigration, StartAt
  <2>2. ImportCost \in Nat /\ Budget \in Nat
    BY WgConfAssumption, MigrationAssumption
  <2>3. spent \in 0 .. Budget
    BY <1>0 DEF WgTypes, WgTypeOK
  <2> QED BY <2>1, <2>2, <2>3
<1>4. WgTypes'
  BY <1>0, <1>2, <1>3 DEF StartMigration, WgTypes, WgTypeOK, disk, history
<1> DEFINE end == IF params = "blank" THEN "" ELSE params
           d(c) == ApplyBundleConfig(Destination(kind.opt, end, c))
           started(c) == [kind |-> kind, users |-> us, wg |-> IF kind.full THEN d(c).wg ELSE "",
                          ov |-> IF kind.full THEN d(c).ov ELSE "",
                          dir |-> kind.full \/ DirKnown(c), left |-> {},
                          calm |-> \A o \in Procs \ {p} : op[o].pc = "idle"]
<1>5. PICK c \in cfgs :
        imp' = [q \in Procs |-> IF q = p THEN started(c) ELSE [imp[q] EXCEPT !.calm = FALSE]]
  BY DEF StartMigration
<1>6. c \in Ends /\ end \in Ends
  BY <1>0, <1>5 DEF MigTypes, Ends
<1>7. d(c).wg \in Ends /\ d(c).ov \in Ends
  BY <1>6 DEF ApplyBundleConfig, Destination, Ends
<1>8. started(c) \in ImpStates /\ started(c).left = {}
  <2>1. /\ (\A o \in Procs \ {p} : op[o].pc = "idle") \in BOOLEAN
        /\ (kind.full \/ DirKnown(c)) \in BOOLEAN
    BY Zenon
  <2>2. kind \in [full : BOOLEAN, apply : BOOLEAN, opt : BOOLEAN]
    BY MigrationAssumption
  <2>3. (IF kind.full THEN d(c).wg ELSE "") \in Ends /\ (IF kind.full THEN d(c).ov ELSE "") \in Ends
    BY <1>7 DEF Ends
  <2>4. \A w, o1 \in Ends, b, e \in BOOLEAN :
          [kind |-> kind, users |-> us, wg |-> w, ov |-> o1, dir |-> e, left |-> {}, calm |-> b] \in ImpStates
    BY <2>2 DEF ImpStates
  <2>5. started(c) \in ImpStates
    BY <2>1, <2>3, <2>4, Zenon
  <2> QED BY <2>5
<1> HIDE DEF started
<1>9. ASSUME NEW q \in Procs
      PROVE  /\ [imp[q] EXCEPT !.calm = FALSE] \in ImpStates
             /\ [imp[q] EXCEPT !.calm = FALSE].left = imp[q].left
  BY <1>0 DEF MigTypes, ImpStates
<1>10. imp' \in [Procs -> ImpStates] /\ \A q \in Procs : q # p => imp'[q].left = imp[q].left
  BY <1>5, <1>8, <1>9
<1>11. blank' \in BOOLEAN
  BY Zenon DEF StartMigration
<1>12. MigTypes'
  BY <1>0, <1>10, <1>11 DEF StartMigration, MigTypes
<1>13. Leftovers'
  BY <1>0, <1>1, <1>10, LeftoversKept DEF Fresh, Rest
<1> QED BY <1>4, <1>12, <1>13, TypesParts

\* An operation that begins ends the calm of the imports.
LEMMA DisturbedTypes ==
  ASSUME Types, NEW p \in Procs,
         \/ Begin(p) /\ Disturb /\ UNCHANGED <<files, ccd, undead>>
         \/ \E k \in Keys : Delete(p, k)
  PROVE  Types'
<1>0. WgTypes /\ MigTypes /\ Leftovers
  BY TypesParts
<1>1. WgTypes'
  BY <1>0, StartTypes DEF Delete
<1>2. \E pc \in {"guard", "import", "xread", "drop"} : \E ks, ls : Fresh(p, pc, ks, ls, "idle")
  BY <1>0, StartSteps DEF Begin, Delete
<1>3. /\ imp' \in [Procs -> ImpStates] /\ \A q \in Procs : imp'[q].left = imp[q].left
  BY <1>0, DisturbTypes DEF Delete, MigTypes
<1>4. MigTypes'
  BY <1>0, <1>3 DEF Delete, MigTypes, files
<1>5. Leftovers'
  BY <1>0, <1>2, <1>3, LeftoversKept DEF Fresh, Rest
<1> QED BY <1>1, <1>4, <1>5, TypesParts

\* The steps that no import takes before or after it renders.
Works(p) == ImportOne(p) \/ DropRow(p) \/ Render(p) \/ Expand(p) \/ Crash(p)

\* No step of these comes to write OpenVPN or CCD files, except from the rendering of an import.
LEMMA WorkPcs ==
  ASSUME WgTypes, NEW p \in Procs, Works(p), NEW q \in Procs
  PROVE  /\ q # p => op'[q].pc = op[q].pc
         /\ op'[q].pc \in Merging \ {"ccd"} => op'[q].pc = op[q].pc
<1>0. /\ \A r \in Procs : op[r].then \in {"idle", "ccd"}
      /\ op \in [Procs -> OpStates]
  BY DEF WgTypes, WgTypeOK, OpStates
<1>1. CASE ImportOne(p)
  BY <1>1, OtherSteps DEF Step, Ended, Fresh, Rest, Merging
<1>2. CASE DropRow(p)
  BY <1>2, Dropped DEF DropSteps, Merging
<1>3. CASE Crash(p)
  BY <1>3, OtherSteps DEF Ended, Fresh, Rest, Merging
<1>4. CASE Guard(p) \/ WgShow(p) \/ Peers(p) \/ Open(p) \/ Write(p)
  BY <1>4, RenderSteps DEF Step, Ended, Fresh, Opens, Rest, Merging
<1>5. CASE Strip(p) \/ StripWrite(p) \/ Sync(p)
  BY <1>5, RenderSteps DEF Step, Ended, Fresh, Unsynced, Rest, Merging
<1>6. CASE Remove(p)
  BY <1>0, <1>6, RenderSteps DEF Fresh, Rest, Merging
<1>7. CASE ReadHead(p) \/ XRead(p)
  BY <1>7, EnterSteps DEF Ended, Fresh, Rest, Entered, SameWork, Merging
<1>8. CASE Rename(p)
  BY <1>8, RenameSteps DEF Ended, Fresh, Rest, Refiled, Merging
<1>9. CASE XDb(p) \/ XShow(p) \/ XPeers(p)
  BY <1>9, ExpandSteps DEF Step, Repeopled, Rest, Merging
<1>10. CASE XRename(p)
  BY <1>10, XRenameSteps DEF Refiled, Idle, Merging
<1> QED BY <1>1, <1>2, <1>3, <1>4, <1>5, <1>6, <1>7, <1>8, <1>9, <1>10 DEF Works, Render, Expand

LEMMA WorkTypes ==
  ASSUME Types, NEW p \in Procs, Works(p), Forget, UNCHANGED <<files, ccd, undead>>
  PROVE  Types'
<1>0. WgTypes /\ MigTypes /\ Leftovers
  BY TypesParts
<1>1. WgTypes'
  BY <1>0, TableTypes, RenderTypes, ExpandTypes DEF Works
<1>2. /\ imp' \in [Procs -> ImpStates]
      /\ \A q \in Procs : imp'[q] = IF op'[q].pc = "idle" THEN NoImport ELSE imp[q]
  BY <1>0, ForgetTypes DEF MigTypes
<1>3. MigTypes'
  BY <1>0, <1>2 DEF MigTypes, files
<1>4. Leftovers'
  <2>1. \A q \in Procs : op'[q].pc \in {"pki", "ccds"} => op'[q].pc = op[q].pc
    BY <1>0, WorkPcs DEF Merging
  <2> QED BY <1>0, <1>2, <2>1, LeftoversKept
<1> QED BY <1>1, <1>3, <1>4, TypesParts

LEMMA InitTypes == Init => Types
<1> SUFFICES ASSUME Init PROVE Types
  OBVIOUS
<1>1. WgTypes
  BY WgInitTypes DEF Init
<1>2. MigTypes
  BY NoImportType, MigrationAssumption DEF Init, MigTypes, Ends
<1>3. Leftovers
  BY DEF Init, WgInit, Idle, Leftovers
<1> QED BY <1>1, <1>2, <1>3, TypesParts

LEMMA NextTypes == Types /\ [Next]_vars => Types'
<1> SUFFICES ASSUME Types, [Next]_vars PROVE Types'
  OBVIOUS
<1>1. ASSUME NEW p \in Procs, NEW kind \in Kinds, NEW us \in Bundles, StartMigration(p, kind, us)
      PROVE  Types'
  BY <1>1, MigrationStartTypes
<1>2. ASSUME NEW p \in Procs, NEW k \in Keys, Delete(p, k) PROVE Types'
  BY <1>2, DisturbedTypes
<1>3. ASSUME NEW p \in Procs, Import(p) PROVE Types'
  BY <1>3, ImportTypes
<1>4. ASSUME NEW p \in Procs, Begin(p), Disturb, UNCHANGED <<files, ccd, undead>> PROVE Types'
  BY <1>4, DisturbedTypes
<1>5. ASSUME NEW p \in Procs, Works(p), Forget, UNCHANGED <<files, ccd, undead>> PROVE Types'
  BY <1>5, WorkTypes
<1>6. CASE (IfDown \/ IfUp) /\ UNCHANGED migVars
  <2>1. WgTypes'
    BY <1>6, TypesParts, InterfaceTypes
  <2>2. UNCHANGED <<op, migVars>>
    BY <1>6 DEF IfDown, IfUp
  <2>3. MigTypes' /\ Leftovers'
    BY <2>2, TypesParts DEF migVars, MigTypes, Leftovers
  <2> QED BY <2>1, <2>3, TypesParts
<1>7. CASE UNCHANGED vars
  <2>1. WgTypes'
    BY <1>7, TypesParts DEF vars, wgVars, WgTypes, WgTypeOK, Descriptors
  <2>2. MigTypes' /\ Leftovers'
    BY <1>7, TypesParts DEF vars, wgVars, migVars, MigTypes, Leftovers
  <2> QED BY <2>1, <2>2, TypesParts
<1> QED BY <1>1, <1>2, <1>3, <1>4, <1>5, <1>6, <1>7 DEF Next, Works

\* Tables, files and what operations and imports know hold values of their kinds, and no two
\* rows share a name or an address, whoever inserts, updates, merges or deletes.
THEOREM MigrationTypes == Spec => []TypeOK
<1>1. Types => TypeOK
  BY DEF Types
<1> QED BY <1>1, InitTypes, NextTypes, PTL DEF Spec

(***************************************************************************)
(* Who is not taking a step.                                               *)
(***************************************************************************)
\* A step of p's that belongs to one of its operations.
Acts(p) ==
  \/ \E kind \in Kinds, us \in Bundles : StartMigration(p, kind, us)
  \/ \E k \in Keys : StartDelete(p, k)
  \/ Begin(p) \/ Import(p) \/ Works(p)

\* q goes on with what it knew; a row it was to delete may be gone, it may have company, and
\* the file it has open may be another.
Bystander(q) ==
  /\ op'[q].pc = op[q].pc /\ op'[q].ok = op[q].ok /\ op'[q].wide = op[q].wide
  /\ op'[q].peers = op[q].peers /\ op'[q].then = op[q].then
  /\ op'[q].known \subseteq op[q].known /\ (op[q].pc # "drop" => op'[q].known = op[q].known)
  /\ op'[q].alone => op[q].alone

LEMMA Others ==
  ASSUME WgTypes, MigTypes, NEW p \in Procs, Acts(p), NEW q \in Procs, q # p
  PROVE  Bystander(q)
<1>0. imp[p].kind \in [full : BOOLEAN, apply : BOOLEAN, opt : BOOLEAN]
  BY DEF MigTypes, ImpStates
<1>a. op'[q] = op[q] => Bystander(q)
  BY DEF Bystander
<1>1. ASSUME \E kind, us : StartMigration(p, kind, us) PROVE Bystander(q)
  BY <1>a, <1>1, StartSteps DEF Fresh, Rest
<1>2. ASSUME \E k \in Keys : StartDelete(p, k) PROVE Bystander(q)
  BY <1>a, <1>2, StartSteps DEF Fresh, Rest
<1>3. CASE Begin(p)
  BY <1>a, <1>3, StartSteps DEF Begin, Fresh, Rest
<1>4. CASE Import(p)
  <2>1. CASE Look(p) \/ Params(p) \/ Save(p) \/ CcdPeers(p) \/ Pki(p) \/ CcdFile(p)
    BY <1>a, <2>1, OtherSteps DEF Step, Ended, Fresh, Rest
  <2>2. CASE Txn(p)
    BY <1>0, <1>a, <2>2, TxnSteps DEF Ended, Fresh, Rest
  <2>3. CASE PWrite(p)
    BY <2>3, EnterSteps DEF Entered, SameWork, Bystander
  <2>4. CASE Truncate(p) \/ Restore(p)
    BY <1>a, <2>4, OtherSteps DEF Truncate, Restore, Opens, Rest
  <2> QED BY <1>4, <2>1, <2>2, <2>3, <2>4 DEF Import
<1>5. CASE Works(p)
  <2>1. CASE ImportOne(p) \/ Crash(p)
    BY <1>a, <2>1, OtherSteps DEF Step, Ended, Fresh, Rest
  <2>2. CASE DropRow(p)
    BY <2>2, Dropped DEF DropSteps, Bystander
  <2>3. CASE Guard(p) \/ WgShow(p) \/ Peers(p) \/ Open(p) \/ Write(p)
    BY <1>a, <2>3, RenderSteps DEF Step, Ended, Fresh, Opens, Rest
  <2>4. CASE Strip(p) \/ StripWrite(p) \/ Sync(p) \/ Remove(p)
    BY <1>a, <2>4, RenderSteps DEF Step, Ended, Fresh, Unsynced, Rest
  <2>5. CASE ReadHead(p) \/ XRead(p)
    <3>1. Ended(p) => Bystander(q)
      BY <1>a DEF Ended, Fresh, Rest
    <3>2. ASSUME NEW pc, NEW ok, NEW wide, NEW ls, Entered(p, pc, ok, wide, ls) PROVE Bystander(q)
      BY <3>2 DEF Entered, SameWork, Bystander
    <3> QED BY <2>5, <3>1, <3>2, EnterSteps
  <2>6. CASE Rename(p)
    BY <1>a, <2>6, RenameSteps DEF Ended, Fresh, Rest, Refiled, Bystander
  <2>7. CASE XDb(p) \/ XShow(p) \/ XPeers(p)
    BY <1>a, <2>7, ExpandSteps DEF Step, Repeopled, Rest
  <2>8. CASE XRename(p)
    BY <2>8, XRenameSteps DEF Refiled, Bystander
  <2> QED BY <1>5, <2>1, <2>2, <2>3, <2>4, <2>5, <2>6, <2>7, <2>8 DEF Works, Render, Expand
<1> QED BY <1>1, <1>2, <1>3, <1>4, <1>5 DEF Acts

\* The steps of the specification, one by one.
LEMMA Steps ==
  ASSUME Next
  PROVE  \/ \E p \in Procs, kind \in Kinds, us \in Bundles : StartMigration(p, kind, us)
         \/ \E p \in Procs, k \in Keys : Delete(p, k)
         \/ \E p \in Procs : Import(p)
         \/ \E p \in Procs : Begin(p) /\ Disturb /\ UNCHANGED <<files, ccd, undead>>
         \/ \E p \in Procs : Works(p) /\ Forget /\ UNCHANGED <<files, ccd, undead>>
         \/ (IfDown \/ IfUp) /\ UNCHANGED migVars
BY DEF Next, Works

(***************************************************************************)
(* The CCD files.                                                          *)
(***************************************************************************)
LEMMA BuriedKept ==
  ASSUME Buried, UNCHANGED <<ccd, undead>>, Names(table) \subseteq Names(table'),
         \A q \in Procs : op'[q].pc = "drop" => op[q].pc = "drop" /\ op'[q].known \subseteq op[q].known
  PROVE  Buried'
BY DEF Buried, CcdMatches, Names

\* Who comes to delete a row is at the beginning.
LEMMA NoDrop ==
  ASSUME Types, NEW p \in Procs, Begin(p) \/ Import(p) \/ Works(p), NEW q \in Procs
  PROVE  op'[q].pc = "drop" => op[q].pc = "drop" /\ op'[q].known \subseteq op[q].known
<1>0. /\ WgTypes /\ MigTypes /\ imp[p].kind \in [full : BOOLEAN, apply : BOOLEAN, opt : BOOLEAN]
      /\ op[p].then \in {"idle", "ccd"}
  BY TypesParts DEF MigTypes, ImpStates, WgTypes, WgTypeOK, OpStates
<1>1. CASE q # p
  BY <1>0, <1>1, Others DEF Acts, Bystander
<1>2. CASE Begin(p) /\ q = p
  BY <1>0, <1>2, StartSteps DEF Begin, Fresh
<1>3. CASE Import(p) /\ q = p
  <2>1. CASE Look(p) \/ Params(p) \/ Save(p) \/ CcdPeers(p)
    BY <1>0, <1>3, <2>1, OtherSteps DEF Step
  <2>2. CASE Pki(p) \/ CcdFile(p)
    BY <1>0, <1>3, <2>2, OtherSteps DEF Step, Ended, Fresh
  <2>3. CASE Txn(p)
    BY <1>0, <1>3, <2>3, TxnSteps DEF Ended, Fresh
  <2>4. CASE PWrite(p)
    BY <1>0, <1>3, <2>4, EnterSteps DEF Entered
  <2>5. CASE Truncate(p) \/ Restore(p)
    BY <1>0, <1>3, <2>5, OtherSteps DEF Truncate, Restore, Opens
  <2> QED BY <1>3, <2>1, <2>2, <2>3, <2>4, <2>5 DEF Import
<1>4. CASE Works(p) /\ q = p
  <2>1. CASE ImportOne(p) \/ Crash(p)
    BY <1>0, <1>4, <2>1, OtherSteps DEF Step, Ended, Fresh
  <2>2. CASE DropRow(p)
    BY <1>0, <1>4, <2>2, Dropped DEF DropSteps
  <2>3. CASE Guard(p) \/ WgShow(p) \/ Peers(p) \/ Open(p) \/ Write(p)
    BY <1>0, <1>4, <2>3, RenderSteps DEF Step, Ended, Fresh, Opens
  <2>4. CASE Strip(p) \/ StripWrite(p) \/ Sync(p) \/ Remove(p)
    BY <1>0, <1>4, <2>4, RenderSteps DEF Step, Ended, Fresh, Unsynced
  <2>5. CASE ReadHead(p) \/ XRead(p)
    BY <1>0, <1>4, <2>5, EnterSteps DEF Ended, Fresh, Entered
  <2>6. CASE Rename(p)
    BY <1>0, <1>4, <2>6, RenameSteps DEF Ended, Fresh
  <2>7. CASE XDb(p) \/ XShow(p) \/ XPeers(p)
    BY <1>0, <1>4, <2>7, ExpandSteps DEF Step, Repeopled
  <2>8. CASE XRename(p)
    BY <1>0, <1>4, <2>8, XRenameSteps DEF Idle
  <2> QED BY <1>4, <2>1, <2>2, <2>3, <2>4, <2>5, <2>6, <2>7, <2>8 DEF Works, Render, Expand
<1> QED BY <1>1, <1>2, <1>3, <1>4

\* Only a deletion takes rows out of the table, and only a merge replaces one by another.
LEMMA RowsStay ==
  ASSUME WgTypes, NEW p \in Procs, Begin(p) \/ (Works(p) /\ ~DropRow(p)) \/ (Import(p) /\ ~Txn(p))
  PROVE  table \subseteq table' /\ born \subseteq born'
<1>1. CASE Begin(p)
  BY <1>1 DEF Begin, StartRender, StartImport, StartExpand, StartCreate
<1>2. CASE ImportOne(p)
  BY <1>2, OtherSteps
<1>3. CASE Render(p)
  BY <1>3 DEF Render, Guard, WgShow, ReadHead, Peers, Open, Write, Rename, Strip, StripWrite, Sync, Remove
<1>4. CASE Expand(p) \/ Crash(p)
  BY <1>4 DEF Expand, XRead, XDb, XShow, XPeers, XRename, Crash
<1>5. CASE Import(p) /\ ~Txn(p)
  BY <1>5 DEF Import, Look, Params, PWrite, Truncate, RTrunc, Restore, RWrite, Pki, Save, CcdPeers, CcdFile
<1> QED BY <1>1, <1>2, <1>3, <1>4, <1>5 DEF Works

LEMMA NextBuried == Types /\ Buried /\ [Next]_vars => Buried'
<1> SUFFICES ASSUME Types, Buried, [Next]_vars PROVE Buried'
  OBVIOUS
<1>0. WgTypes /\ MigTypes
  BY TypesParts
<1>1. ASSUME NEW p \in Procs, NEW kind \in Kinds, NEW us \in Bundles, StartMigration(p, kind, us)
      PROVE  Buried'
  <2>1. Fresh(p, "look", {}, {}, "idle")
    BY <1>0, <1>1, StartSteps
  <2> QED BY <1>1, <2>1, BuriedKept DEF StartMigration, Fresh, Rest
<1>2. ASSUME NEW p \in Procs, NEW k \in Keys, Delete(p, k) PROVE Buried'
  <2>1. Fresh(p, "drop", {k}, {}, "idle") /\ table' = table
    BY <1>0, <1>2, StartSteps DEF Delete, StartDelete
  <2>2. \A n \in ccd' : /\ n \in ccd
                        /\ n = NameOf[k] \/ n \in undead => n \in undead'
    BY <1>2, Zenon DEF Delete
  <2>3. CcdMatches'
    BY <2>1, <2>2 DEF Buried, CcdMatches, Names
  <2>4. ASSUME NEW q \in Procs, op'[q].pc = "drop", NEW n \in Names(op'[q].known), n \in ccd'
        PROVE  n \in undead'
    <3>1. CASE q = p
      BY <2>1, <2>2, <2>4, <3>1 DEF Fresh, Names
    <3>2. CASE q # p
      BY <2>1, <2>2, <2>4, <3>2 DEF Fresh, Rest, Buried
    <3> QED BY <3>1, <3>2
  <2> QED BY <2>3, <2>4 DEF Buried, Names
<1>3. ASSUME NEW p \in Procs, Import(p) PROVE Buried'
  <2>1. \A q \in Procs : op'[q].pc = "drop" => op[q].pc = "drop" /\ op'[q].known \subseteq op[q].known
    BY <1>3, NoDrop
  <2>2. Names(table) \subseteq Names(table')
    <3>1. CASE Txn(p)
      <4> DEFINE m == Merge(imp[p].users, op[p].known)
      <4>1. Names(table) \subseteq Names(m.rows)
        BY <1>0, MergeTypes
      <4>2. table' = table \/ table' = m.rows
        BY <3>1 DEF Txn
      <4> HIDE DEF m
      <4> QED BY <4>1, <4>2
    <3>2. CASE ~Txn(p)
      BY <1>0, <1>3, <3>2, RowsStay DEF Names
    <3> QED BY <3>1, <3>2
  <2>3. CASE UNCHANGED <<ccd, undead>>
    BY <2>1, <2>2, <2>3, BuriedKept
  <2>4. ASSUME NEW k \in imp[p].left, op[p].pc = "ccds", ccd' = ccd \cup {NameOf[k]}, op' = op, table' = table,
               undead' = IF Dying(NameOf[k]) THEN undead \cup {NameOf[k]} ELSE undead
        PROVE  Buried'
    <3>1. CASE Dying(NameOf[k])
      BY <2>4, <3>1 DEF Buried, CcdMatches, Names
    <3>2. CASE ~Dying(NameOf[k])
      <4>1. NameOf[k] \in Names(table) /\ \A q \in Procs : op[q].pc = "drop" => NameOf[k] \notin Names(op[q].known)
        BY <3>2 DEF Dying
      <4> QED BY <2>4, <3>2, <4>1 DEF Buried, CcdMatches, Names
    <3> QED BY <3>1, <3>2
  <2>5. CASE CcdFile(p)
    BY <2>3, <2>4, <2>5 DEF CcdFile
  <2>6. ~CcdFile(p) => UNCHANGED <<ccd, undead>>
    BY <1>3 DEF Import, Look, Txn, Params, PWrite, Truncate, Restore, Pki, Save, CcdPeers, migVars
  <2> QED BY <2>3, <2>5, <2>6
<1>4. ASSUME NEW p \in Procs, Begin(p), Disturb, UNCHANGED <<files, ccd, undead>> PROVE Buried'
  <2>1. \A q \in Procs : op'[q].pc = "drop" => op[q].pc = "drop" /\ op'[q].known \subseteq op[q].known
    BY <1>4, NoDrop
  <2>2. Names(table) \subseteq Names(table')
    BY <1>0, <1>4, RowsStay DEF Names
  <2> QED BY <1>4, <2>1, <2>2, BuriedKept
<1>5. ASSUME NEW p \in Procs, Works(p), Forget, UNCHANGED <<files, ccd, undead>> PROVE Buried'
  <2>1. \A q \in Procs : op'[q].pc = "drop" => op[q].pc = "drop" /\ op'[q].known \subseteq op[q].known
    BY <1>5, NoDrop
  <2>2. CASE ~DropRow(p)
    <3>1. Names(table) \subseteq Names(table')
      BY <1>0, <1>5, <2>2, RowsStay DEF Names
    <3> QED BY <1>5, <2>1, <3>1, BuriedKept
  <2>3. CASE DropRow(p)
    <3>1. op[p].pc = "drop" /\ table' = table \ Named(op[p].known) /\ table \subseteq Keys
      BY <1>0, <2>3 DEF DropRow, WgTypes, WgTypeOK
    <3>2. ASSUME NEW n \in ccd PROVE n \in undead \/ n \in Names(table')
      <4> SUFFICES ASSUME n \notin undead, n \notin Names(table') PROVE FALSE
        OBVIOUS
      <4>1. PICK k \in table : n = NameOf[k]
        BY DEF Buried, CcdMatches, Names
      <4>2. k \in Named(op[p].known)
        BY <3>1, <4>1 DEF Names
      <4>3. n \in Names(op[p].known)
        BY <4>1, <4>2 DEF Named, Names
      <4> QED BY <3>1, <4>3 DEF Buried
    <3>3. CcdMatches'
      BY <1>5, <3>2 DEF CcdMatches, Names
    <3>4. ASSUME NEW q \in Procs, op'[q].pc = "drop", NEW n \in Names(op'[q].known), n \in ccd'
          PROVE  n \in undead'
      BY <1>5, <2>1, <3>4 DEF Buried, Names
    <3> QED BY <3>3, <3>4 DEF Buried, Names
  <2> QED BY <2>2, <2>3
<1>6. CASE (IfDown \/ IfUp) /\ UNCHANGED migVars
  BY <1>6, BuriedKept DEF IfDown, IfUp, migVars
<1>7. CASE UNCHANGED vars
  BY <1>7, BuriedKept DEF vars, wgVars, migVars
<1> QED BY <1>1, <1>2, <1>3, <1>4, <1>5, <1>6, <1>7, Steps

\* main.go:756-758: the CCD file goes before the row does, so a user whose row is gone has none,
\* unless an import wrote the file while the user was being deleted or the deletion knew no
\* OpenVPN directory.
THEOREM FilesOfUsers == Spec => []CcdMatches
<1>1. Init => Buried
  BY DEF Init, WgInit, Idle, Buried, CcdMatches
<1>2. Buried => CcdMatches
  BY DEF Buried
<1> QED BY <1>1, <1>2, InitTypes, NextTypes, NextBuried, PTL DEF Spec

(***************************************************************************)
(* The endpoints.                                                          *)
(***************************************************************************)
\* Phases of the import of a bundle; and what such an import may carry.
Filing == {"params", "pwrite", "rtrunc", "rwrite", "pki", "save"}
Own(i) == i.kind.full => i.wg \notin {"", "src"} /\ i.ov # "src"

LEMMA OwnEndsParts ==
  /\ OwnEnds <=> /\ \A p \in Procs : op[p].pc \in Filing => imp[p].kind.full
                 /\ ~blank => /\ params # "src" /\ "src" \notin cfgs /\ cfgEnd \in cfgs
                              /\ \A p \in Procs : Own(imp[p])
  /\ OwnEnds' <=> /\ \A p \in Procs : op'[p].pc \in Filing => imp'[p].kind.full
                  /\ ~blank' => /\ params' # "src" /\ "src" \notin cfgs' /\ cfgEnd' \in cfgs'
                                /\ \A p \in Procs : Own(imp'[p])
BY DEF OwnEnds, Filing, Own

\* What q's import is and carries is what it was, or it is over.
SameImport(q) ==
  \/ imp'[q] = NoImport /\ op'[q].pc = "idle"
  \/ imp'[q].kind = imp[q].kind /\ imp'[q].wg = imp[q].wg /\ imp'[q].ov = imp[q].ov

LEMMA OwnEndsKept ==
  ASSUME OwnEnds, blank' = blank, \A q \in Procs : SameImport(q),
         \A q \in Procs : op'[q].pc \in Filing => op[q].pc \in Filing \/ imp[q].kind.full,
         ~blank => params' # "src" /\ "src" \notin cfgs' /\ cfgEnd' \in cfgs'
  PROVE  OwnEnds'
<1>1. ASSUME NEW q \in Procs PROVE /\ op'[q].pc \in Filing => imp'[q].kind.full
                                   /\ ~blank => Own(imp'[q])
  <2>1. CASE imp'[q] = NoImport /\ op'[q].pc = "idle"
    <3>1. ~NoImport.kind.full /\ "idle" \notin Filing
      BY DEF NoImport, Filing
    <3> QED BY <2>1, <3>1 DEF Own
  <2>2. CASE imp'[q].kind = imp[q].kind /\ imp'[q].wg = imp[q].wg /\ imp'[q].ov = imp[q].ov
    BY <2>2, OwnEndsParts DEF Own
  <2> QED BY <2>1, <2>2 DEF SameImport
<1> QED BY <1>1, OwnEndsParts

LEMMA NextOwnEnds == Types /\ OwnEnds /\ [Next]_vars => OwnEnds'
<1> SUFFICES ASSUME Types, OwnEnds, [Next]_vars PROVE OwnEnds'
  OBVIOUS
<1>0. WgTypes /\ MigTypes /\ imp \in [Procs -> ImpStates]
  BY TypesParts DEF MigTypes
<1>a. ~blank => params # "src" /\ "src" \notin cfgs /\ cfgEnd \in cfgs
  BY OwnEndsParts
<1>b. Forget => \A q \in Procs : SameImport(q)
  BY DEF Forget, SameImport
<1>c. Disturb => \A q \in Procs : SameImport(q)
  BY <1>0, DisturbTypes DEF SameImport
<1>1. ASSUME NEW p \in Procs, NEW kind \in Kinds, NEW us \in Bundles, StartMigration(p, kind, us)
      PROVE  OwnEnds'
  <2>1. Fresh(p, "look", {}, {}, "idle") /\ UNCHANGED <<params, cfgEnd, cfgs>>
    <3>1. Fresh(p, "look", {}, {}, "idle")
      BY <1>0, <1>1, StartSteps
    <3> QED BY <1>1, <3>1 DEF StartMigration
  <2> DEFINE end == IF params = "blank" THEN "" ELSE params
             d(c) == ApplyBundleConfig(Destination(kind.opt, end, c))
             started(c) == [kind |-> kind, users |-> us, wg |-> IF kind.full THEN d(c).wg ELSE "",
                            ov |-> IF kind.full THEN d(c).ov ELSE "",
                            dir |-> kind.full \/ DirKnown(c), left |-> {},
                            calm |-> \A o \in Procs \ {p} : op[o].pc = "idle"]
  <2>2. PICK c \in cfgs :
          imp' = [q \in Procs |-> IF q = p THEN started(c) ELSE [imp[q] EXCEPT !.calm = FALSE]]
    BY <1>1 DEF StartMigration
  <2>3. blank' = (blank \/ (kind.full /\ ~kind.opt /\ params = "blank"))
    BY <1>1 DEF StartMigration
  <2>4. started(c).kind = kind /\ started(c).wg = (IF kind.full THEN d(c).wg ELSE "")
        /\ started(c).ov = (IF kind.full THEN d(c).ov ELSE "")
    OBVIOUS
  <2>5. ASSUME ~blank', kind.full PROVE d(c).wg \notin {"", "src"} /\ d(c).ov # "src"
    <3>1. ~blank /\ (kind.opt \/ params # "blank")
      BY <2>3, <2>5
    <3>2. params \in (Ends \ {""}) \cup {"blank"} /\ params # "src" /\ c # "src"
      BY <1>0, <1>a, <2>2, <3>1 DEF MigTypes
    <3>3. d(c).wg = IF kind.opt THEN "opt" ELSE end
      BY DEF ApplyBundleConfig, Destination
    <3>4. d(c).ov = LET o == IF kind.opt THEN "opt" ELSE IF c # "" THEN c ELSE end
                    IN  IF o = "" THEN "src" ELSE o
      BY DEF ApplyBundleConfig, Destination
    <3> QED BY <3>1, <3>2, <3>3, <3>4 DEF Ends
  <2> HIDE DEF d, started
  <2>6. /\ imp'[p] = started(c)
        /\ \A q \in Procs : q # p => /\ imp'[q].kind = imp[q].kind /\ imp'[q].wg = imp[q].wg
                                     /\ imp'[q].ov = imp[q].ov
    BY <1>0, <2>2 DEF ImpStates
  <2>7. ASSUME NEW q \in Procs PROVE op'[q].pc \in Filing => imp'[q].kind.full
    <3>1. CASE q = p
      BY <2>1, <3>1 DEF Fresh, Filing
    <3>2. CASE q # p
      BY <2>1, <2>6, <3>2, OwnEndsParts DEF Fresh, Rest
    <3> QED BY <3>1, <3>2
  <2>8. ASSUME ~blank', NEW q \in Procs PROVE Own(imp'[q])
    <3>1. CASE q = p
      BY <2>4, <2>5, <2>6, <2>8, <3>1 DEF Own
    <3>2. CASE q # p
      BY <2>3, <2>6, <2>8, <3>2, OwnEndsParts DEF Own
    <3> QED BY <3>1, <3>2
  <2> QED BY <1>a, <2>1, <2>3, <2>7, <2>8, OwnEndsParts
<1>2. ASSUME NEW p \in Procs, NEW k \in Keys, Delete(p, k) PROVE OwnEnds'
  <2>1. Fresh(p, "drop", {k}, {}, "idle") /\ Disturb /\ UNCHANGED files
    BY <1>0, <1>2, StartSteps DEF Delete
  <2>2. \A q \in Procs : op'[q].pc \in Filing => op[q].pc \in Filing
    BY <2>1 DEF Fresh, Rest, Filing
  <2> QED BY <1>a, <1>c, <2>1, <2>2, OwnEndsKept DEF files
<1>3. ASSUME NEW p \in Procs, Import(p) PROVE OwnEnds'
  <2>0. \A q \in Procs : q # p => op'[q].pc = op[q].pc
    BY <1>0, <1>3, Others DEF Acts, Bystander
  <2>a. op[p].pc \in Filing => imp[p].kind.full /\ (~blank => Own(imp[p]))
    BY OwnEndsParts
  <2>1. CASE Look(p) \/ Params(p)
    <3>1. op'[p].pc \in Filing => op[p].pc \in Filing
      BY <1>0, <2>1, OtherSteps DEF Look, Params, Step, Filing
    <3>2. imp' = imp /\ blank' = blank /\ cfgs' = cfgs /\ cfgEnd' = cfgEnd /\ (params' = params \/ params' = "blank")
      BY <2>1 DEF Look, Params, migVars
    <3> QED BY <1>a, <2>0, <3>1, <3>2, OwnEndsKept DEF SameImport
  <2>2. CASE Txn(p)
    <3>1. imp[p].kind \in [full : BOOLEAN, apply : BOOLEAN, opt : BOOLEAN]
      BY <1>0 DEF ImpStates
    <3>2. op'[p].pc \in Filing => imp[p].kind.full
      BY <1>0, <2>2, <3>1, TxnSteps DEF Ended, Fresh, Filing
    <3> QED BY <1>a, <1>b, <2>0, <2>2, <3>2, OwnEndsKept DEF Txn, files
  <2>3. CASE PWrite(p)
    <3>1. op[p].pc \in Filing /\ op'[p].pc \in Filing
      BY <1>0, <2>3, EnterSteps DEF PWrite, Entered, Filing
    <3>2. /\ imp' = imp /\ blank' = blank /\ cfgs' = cfgs /\ cfgEnd' = cfgEnd
          /\ params' = IF imp[p].wg # "" THEN imp[p].wg ELSE "src"
      BY <2>3 DEF PWrite
    <3> QED BY <1>a, <2>0, <2>a, <3>1, <3>2, OwnEndsKept DEF SameImport, Own
  <2>4. CASE Truncate(p)
    <3>1. op[p].pc \in Filing /\ UNCHANGED migVars
      BY <2>4 DEF Truncate, RTrunc, Filing
    <3> QED BY <1>a, <2>0, <3>1, OwnEndsKept DEF SameImport, migVars
  <2>5. CASE Restore(p)
    <3>1. op[p].pc \in Filing /\ UNCHANGED files /\ Leaves(p, PkiFiles)
      BY <1>0, <2>5, LeavesTypes DEF Restore, RWrite, Filing
    <3> QED BY <1>a, <2>0, <3>1, OwnEndsKept DEF SameImport, Leaves, files
  <2>6. CASE Pki(p)
    <3>1. op[p].pc \in Filing /\ UNCHANGED <<params, cfgEnd, cfgs, blank>>
      BY <2>6 DEF Pki, Filing
    <3>2. CASE Forget
      BY <1>a, <1>b, <2>0, <3>1, <3>2, OwnEndsKept
    <3>3. ASSUME NEW f \in imp[p].left, imp' = [imp EXCEPT ![p].left = @ \ {f}] PROVE OwnEnds'
      <4> DEFINE s == imp[p].left \ {f}
      <4>1. imp' = [imp EXCEPT ![p].left = s] /\ s \in SUBSET (Keys \cup PkiFiles)
        BY <1>0, <3>3 DEF ImpStates
      <4> HIDE DEF s
      <4>2. Leaves(p, s)
        BY <1>0, <4>1, LeavesTypes
      <4> QED BY <1>a, <2>0, <3>1, <4>2, OwnEndsKept DEF SameImport, Leaves
    <3> QED BY <2>6, <3>2, <3>3 DEF Pki
  <2>7. CASE Save(p)
    <3>1. op[p].pc \in Filing
      BY <2>7 DEF Save, Filing
    <3>2. /\ imp' = imp /\ blank' = blank /\ params' = params
          /\ cfgEnd' = imp[p].ov /\ cfgs' = cfgs \cup {cfgEnd'}
      BY <2>7 DEF Save
    <3> QED BY <1>a, <2>0, <2>a, <3>1, <3>2, OwnEndsKept DEF SameImport, Own
  <2>8. CASE CcdPeers(p)
    <3>1. op'[p].pc \notin Filing /\ UNCHANGED files
      BY <1>0, <2>8, OtherSteps DEF CcdPeers, Step, Filing
    <3> DEFINE s == IF imp[p].dir THEN table \cap OvpnKeys ELSE {}
    <3>2. imp' = [imp EXCEPT ![p].left = s] /\ s \in SUBSET (Keys \cup PkiFiles)
      BY <1>0, <2>8 DEF CcdPeers, WgTypes, WgTypeOK
    <3> HIDE DEF s
    <3>3. Leaves(p, s)
      BY <1>0, <3>2, LeavesTypes
    <3> QED BY <1>a, <2>0, <3>1, <3>3, OwnEndsKept DEF SameImport, Leaves, files
  <2>9. CASE CcdFile(p)
    <3>1. op'[p].pc \notin Filing /\ UNCHANGED files
      BY <1>0, <2>9, OtherSteps DEF CcdFile, Ended, Fresh, Filing
    <3>2. CASE Forget
      BY <1>a, <1>b, <2>0, <3>1, <3>2, OwnEndsKept DEF files
    <3>3. ASSUME NEW f \in imp[p].left, imp' = [imp EXCEPT ![p].left = @ \ {f}] PROVE OwnEnds'
      <4> DEFINE s == imp[p].left \ {f}
      <4>1. imp' = [imp EXCEPT ![p].left = s] /\ s \in SUBSET (Keys \cup PkiFiles)
        BY <1>0, <3>3 DEF ImpStates
      <4> HIDE DEF s
      <4>2. Leaves(p, s)
        BY <1>0, <4>1, LeavesTypes
      <4> QED BY <1>a, <2>0, <3>1, <4>2, OwnEndsKept DEF SameImport, Leaves, files
    <3> QED BY <2>9, <3>2, <3>3 DEF CcdFile
  <2> QED BY <1>3, <2>1, <2>2, <2>3, <2>4, <2>5, <2>6, <2>7, <2>8, <2>9 DEF Import
<1>4. ASSUME NEW p \in Procs, Begin(p), Disturb, UNCHANGED <<files, ccd, undead>> PROVE OwnEnds'
  <2>1. \E pc \in {"guard", "import", "xread"} : \E ks, ls : Fresh(p, pc, ks, ls, "idle")
    BY <1>0, <1>4, StartSteps DEF Begin
  <2>2. \A q \in Procs : op'[q].pc \in Filing => op[q].pc \in Filing
    BY <2>1 DEF Fresh, Rest, Filing
  <2> QED BY <1>a, <1>c, <1>4, <2>2, OwnEndsKept DEF files
<1>5. ASSUME NEW p \in Procs, Works(p), Forget, UNCHANGED <<files, ccd, undead>> PROVE OwnEnds'
  <2>1. \A q \in Procs : op'[q].pc \in Filing => op[q].pc \in Filing
    BY <1>0, <1>5, WorkPcs DEF Filing, Merging
  <2> QED BY <1>a, <1>b, <1>5, <2>1, OwnEndsKept DEF files
<1>6. CASE (IfDown \/ IfUp) /\ UNCHANGED migVars
  BY <1>a, <1>6, OwnEndsKept DEF IfDown, IfUp, migVars, SameImport
<1>7. CASE UNCHANGED vars
  BY <1>a, <1>7, OwnEndsKept DEF vars, wgVars, migVars, SameImport
<1> QED BY <1>1, <1>2, <1>3, <1>4, <1>5, <1>6, <1>7, Steps

\* README.md:99-101: no import puts the source's endpoint into params or config.json, unless one
\* had found params truncated: whoever carries one took it from the destination or the option.
THEOREM EndpointOfDestination == Spec => []EndpointKept
<1>1. Init => OwnEnds
  <2> SUFFICES ASSUME Init PROVE OwnEnds
    OBVIOUS
  <2>1. params = "dst" /\ cfgEnd = CfgEnd0 /\ cfgs = {CfgEnd0} /\ CfgEnd0 # "src"
    BY MigrationAssumption DEF Init
  <2>2. \A p \in Procs : op[p].pc = "idle" /\ imp[p] = NoImport
    BY DEF Init, WgInit, Idle
  <2>3. ~NoImport.kind.full
    BY DEF NoImport
  <2>4. \A p \in Procs : Own(imp[p])
    BY <2>2, <2>3 DEF Own
  <2> QED BY <2>1, <2>2, <2>4, OwnEndsParts DEF Filing
<1>2. OwnEnds => EndpointKept
  BY DEF OwnEnds, EndpointKept
<1> QED BY <1>1, <1>2, InitTypes, NextTypes, NextOwnEnds, PTL DEF Spec

(***************************************************************************)
(* The peers that were never imported.                                     *)
(***************************************************************************)
\* What Guarded says of one operation.
Clear(q) ==
  /\ op[q].pc \in {"wgshow", "xshow"} => op[q].known \subseteq born
  /\ ~forced => op[q].pc \notin Merging /\ op[q].then # "ccd"
  /\ ~forced /\ ~blind =>
       /\ op[q].pc \in {"head", "peers", "open", "write", "rename", "strip", "swrite", "sync",
                        "rm", "xpeers"} => Foreign \subseteq born
       /\ op[q].pc \in {"xdb", "xshow", "xrename"} => Foreign \ born \subseteq op[q].peers

LEMMA GuardedParts ==
  /\ Guarded <=> UnimportedStay /\ \A q \in Procs : Clear(q)
  /\ Guarded' <=> UnimportedStay' /\ \A q \in Procs : Clear(q)'
BY DEF Guarded, Clear

LEMMA ClearKept ==
  ASSUME NEW q, Clear(q), Bystander(q), born \subseteq born', forced => forced', blind => blind'
  PROVE  Clear(q)'
BY DEF Clear, Bystander, Merging

LEMMA StayKept ==
  ASSUME UnimportedStay, born \subseteq born', forced => forced', blind => blind',
         conf' = conf, live' = live, up' = up
  PROVE  UnimportedStay'
BY DEF UnimportedStay

\* What has been is not forgotten.
LEMMA Remembered ==
  ASSUME WgTypes, NEW p \in Procs, Acts(p)
  PROVE  born \subseteq born' /\ (forced => forced') /\ (blind => blind')
<1>1. CASE Begin(p)
  BY <1>1 DEF Begin, StartRender, StartImport, StartExpand, StartCreate, history
<1>2. CASE \/ \E kind \in Kinds, us \in Bundles : StartMigration(p, kind, us)
           \/ \E k \in Keys : StartDelete(p, k)
  <2>1. UNCHANGED <<born, forced, blind>>
    BY <1>2, Zenon DEF StartMigration, StartDelete, history
  <2> QED BY <2>1
<1>3. CASE Import(p)
  <2>1. CASE Look(p) \/ Params(p) \/ PWrite(p) \/ Pki(p) \/ Save(p) \/ CcdPeers(p) \/ CcdFile(p)
    <3>1. UNCHANGED <<born, forced, blind>>
      BY <2>1, Zenon DEF Look, Params, PWrite, Pki, Save, CcdPeers, CcdFile, history
    <3> QED BY <3>1
  <2>2. CASE Txn(p)
    BY <2>2 DEF Txn
  <2>3. CASE Truncate(p) \/ Restore(p)
    <3>1. UNCHANGED <<born, forced, blind>>
      BY <2>3, Zenon DEF Truncate, RTrunc, Restore, RWrite
    <3> QED BY <3>1
  <2> QED BY <1>3, <2>1, <2>2, <2>3 DEF Import
<1>4. CASE Works(p)
  <2>1. CASE ImportOne(p)
    BY <2>1, OtherSteps DEF ImportOne, history
  <2>2. CASE DropRow(p) \/ Crash(p)
    BY <2>2 DEF DropRow, Crash, history
  <2>3. CASE WgShow(p) \/ XShow(p)
    <3>1. UNCHANGED <<born, forced>>
      BY <2>3 DEF WgShow, XShow
    <3>2. blind => blind'
      BY <2>3, Zenon DEF WgShow, XShow, Shown
    <3> QED BY <3>1, <3>2
  <2>4. CASE Guard(p) \/ ReadHead(p) \/ Peers(p) \/ Open(p) \/ Write(p) \/ Rename(p)
    BY <2>4 DEF Guard, ReadHead, Peers, Open, Write, Rename, history
  <2>5. CASE Strip(p) \/ StripWrite(p) \/ Sync(p) \/ Remove(p)
    BY <2>5 DEF Strip, StripWrite, Sync, Remove, history
  <2>6. CASE XRead(p) \/ XDb(p) \/ XPeers(p) \/ XRename(p)
    BY <2>6 DEF XRead, XDb, XPeers, XRename, history
  <2> QED BY <1>4, <2>1, <2>2, <2>3, <2>4, <2>5, <2>6 DEF Works, Render, Expand
<1> QED BY <1>1, <1>2, <1>3, <1>4 DEF Acts

\* It is enough to look at who takes the step.
LEMMA GuardedStep ==
  ASSUME Types, Guarded, NEW p \in Procs, Acts(p), Clear(p)', UnimportedStay'
  PROVE  Guarded'
<1>1. \A q \in Procs : q # p => Clear(q)'
  BY TypesParts, GuardedParts, Others, Remembered, ClearKept
<1> QED BY <1>1, GuardedParts

\* A guard that passed saw the interface with its foreign peers; each has, or had, a row.
LEMMA GuardPassed ==
  ASSUME Guarded, NEW p \in Procs, op[p].pc \in {"wgshow", "xshow"}, NEW seen, Shown(p, seen),
         seen \subseteq op[p].known, ~forced, ~blind'
  PROVE  Foreign \subseteq born
<1>1. seen = live /\ up /\ ~blind
  BY DEF Shown
<1>2. \A k \in Foreign \ born : k \in live
  BY <1>1 DEF Guarded, UnimportedStay
<1>3. op[p].known \subseteq born
  BY DEF Guarded
<1> QED BY <1>1, <1>2, <1>3

LEMMA RenderGuarded ==
  ASSUME Types, Guarded, NEW p \in Procs, Render(p)
  PROVE  Clear(p)' /\ UnimportedStay'
<1>0. /\ WgTypes /\ Clear(p) /\ UnimportedStay
      /\ born \subseteq born' /\ (forced => forced') /\ (blind => blind')
      /\ table \subseteq born /\ op[p].then \in {"idle", "ccd"}
  BY TypesParts, GuardedParts, Remembered DEF Acts, Works, WgTypes, WgTypeOK, OpStates
<1>a. Ended(p) => Clear(p)'
  BY DEF Ended, Fresh, Clear, Merging
<1>1. CASE Guard(p) \/ Peers(p) \/ Strip(p)
  <2>1. UnimportedStay'
    BY <1>0, <1>1, StayKept DEF Guard, Peers, Strip, disk
  <2>2. born' = born /\ forced' = forced /\ blind' = blind
    BY <1>1 DEF Guard, Peers, Strip, history
  <2>3. CASE Guard(p)
    <3>1. Step(p, "wgshow", table, op[p].peers) /\ op[p].pc = "guard"
      BY <1>0, <2>3, RenderSteps DEF Guard
    <3> QED BY <1>0, <2>1, <2>2, <3>1 DEF Step, Kept, Clear, Merging
  <2>4. CASE Peers(p) \/ Strip(p)
    <3>1. op[p].pc \in {"peers", "strip"}
      BY <2>4 DEF Peers, Strip
    <3>2. Ended(p) \/ \E pc \in {"open", "swrite"} : \E ks, ls : Step(p, pc, ks, ls)
      BY <1>0, <2>4, RenderSteps
    <3> QED BY <1>0, <1>a, <2>1, <2>2, <3>1, <3>2 DEF Step, Kept, Clear, Merging
  <2> QED BY <1>1, <2>1, <2>3, <2>4
<1>2. CASE WgShow(p)
  <2>1. UnimportedStay'
    BY <1>0, <1>2, StayKept DEF WgShow, disk
  <2>2. PICK seen \in {live, {}} : /\ Shown(p, seen)
                                   /\ IF seen \subseteq op[p].known
                                        THEN op' = [op EXCEPT ![p] = [@ EXCEPT !.pc = "head", !.known = {}]]
                                        ELSE Finish(p)
    BY <1>2, Zenon DEF WgShow
  <2>3. op[p].pc = "wgshow" /\ forced' = forced
    BY <1>2 DEF WgShow
  <2>4. CASE seen \subseteq op[p].known
    <3>1. ~forced /\ ~blind' => Foreign \subseteq born
      BY <2>2, <2>3, <2>4, GuardPassed
    <3>2. Step(p, "head", {}, op[p].peers)
      <4>1. "head" \in Pcs /\ {} \in SUBSET Keys
        BY DEF Pcs
      <4> QED BY <1>0, <2>2, <2>4, <4>1, Stepped
    <3>3. Clear(p)'
      BY <1>0, <2>3, <3>1, <3>2 DEF Step, Kept, Clear, Merging
    <3> QED BY <2>1, <3>3
  <2>5. CASE ~(seen \subseteq op[p].known)
    <3>1. Ended(p)
      <4>1. "idle" \in Pcs /\ {} \in SUBSET Keys
        BY DEF Pcs
      <4> QED BY <1>0, <2>2, <2>5, <4>1, Renewed DEF Finish
    <3> QED BY <1>a, <2>1, <3>1
  <2> QED BY <2>4, <2>5
<1>3. CASE ReadHead(p)
  <2>1. UnimportedStay' /\ UNCHANGED <<born, forced, blind>> /\ op[p].pc = "head"
    BY <1>0, <1>3, StayKept DEF ReadHead, disk, history
  <2>2. Entered(p, "peers", op[p].ok, conf.wide, op[p].peers) => Clear(p)'
    BY <1>0, <2>1 DEF Entered, Clear, Merging
  <2> QED BY <1>0, <1>3, <1>a, <2>1, <2>2, EnterSteps
<1>4. CASE Open(p)
  <2>1. UnimportedStay' /\ UNCHANGED <<born, forced, blind>> /\ op[p].pc = "open"
    BY <1>0, <1>4, StayKept DEF Open
  <2> QED BY <1>0, <1>4, <2>1, RenderSteps DEF Opens, Clear, Merging
<1>5. CASE Write(p)
  <2>1. UNCHANGED <<born, forced, blind, live, up>> /\ op[p].pc = "write"
    BY <1>5 DEF Write
  <2>2. Clear(p)'
    BY <1>0, <1>5, <2>1, RenderSteps DEF Opens, Clear, Merging
  <2>3. UnimportedStay'
    BY <1>0, <2>1 DEF UnimportedStay, Clear
  <2> QED BY <2>2, <2>3
<1>6. CASE Rename(p)
  <2>1. UNCHANGED <<born, forced, blind, live, up>> /\ op[p].pc = "rename"
    BY <1>6 DEF Rename
  <2>2. Clear(p)'
    BY <1>0, <1>6, <1>a, <2>1, RenameSteps DEF Clear, Merging
  <2>3. UnimportedStay'
    BY <1>0, <2>1 DEF UnimportedStay, Clear
  <2> QED BY <2>2, <2>3
<1>7. CASE StripWrite(p)
  <2>1. UnimportedStay' /\ UNCHANGED <<born, forced, blind>> /\ op[p].pc = "swrite"
    BY <1>0, <1>7, StayKept DEF StripWrite, history
  <2> QED BY <1>0, <1>7, <2>1, RenderSteps DEF Step, Kept, Clear, Merging
<1>8. CASE Sync(p)
  <2>1. UNCHANGED <<born, forced, blind, conf, up>> /\ op[p].pc = "sync"
    BY <1>8 DEF Sync, disk
  <2>2. Clear(p)'
    BY <1>0, <1>8, <2>1, RenderSteps DEF Step, Kept, Unsynced, Clear, Merging
  <2>3. UnimportedStay'
    BY <1>0, <2>1 DEF UnimportedStay, Clear
  <2> QED BY <2>2, <2>3
<1>9. CASE Remove(p)
  <2>1. UnimportedStay' /\ UNCHANGED <<born, forced, blind>> /\ op[p].pc = "rm"
    BY <1>0, <1>9, StayKept DEF Remove, history
  <2> QED BY <1>0, <1>9, <2>1, RenderSteps DEF Fresh, Clear, Merging
<1> QED BY <1>1, <1>2, <1>3, <1>4, <1>5, <1>6, <1>7, <1>8, <1>9 DEF Render

LEMMA ExpandGuarded ==
  ASSUME Types, Guarded, NEW p \in Procs, Expand(p)
  PROVE  Clear(p)' /\ UnimportedStay'
<1>0. /\ WgTypes /\ Clear(p) /\ UnimportedStay
      /\ born \subseteq born' /\ (forced => forced') /\ (blind => blind')
      /\ table \subseteq born
  BY TypesParts, GuardedParts, Remembered DEF Acts, Works, WgTypes, WgTypeOK
<1>1. CASE XRead(p)
  <2>1. UnimportedStay' /\ UNCHANGED <<born, forced, blind>> /\ op[p].pc = "xread"
    BY <1>0, <1>1, StayKept DEF XRead, disk, history
  <2>2. Entered(p, "xdb", conf.ok, conf.head, conf.peers)
    BY <1>0, <1>1, EnterSteps
  <2> QED BY <1>0, <2>1, <2>2 DEF Entered, Clear, Merging, UnimportedStay
<1>2. CASE XDb(p)
  <2>1. UnimportedStay' /\ UNCHANGED <<born, forced, blind>> /\ op[p].pc = "xdb"
    BY <1>0, <1>2, StayKept DEF XDb, disk, history
  <2> QED BY <1>0, <1>2, <2>1, ExpandSteps DEF Step, Kept, Clear, Merging
<1>3. CASE XShow(p)
  <2>1. UnimportedStay' /\ UNCHANGED <<born, forced>> /\ op[p].pc = "xshow"
    BY <1>0, <1>3, StayKept DEF XShow, disk
  <2>2. PICK seen \in {live, {}} :
          Shown(p, seen) /\ Goto(p, IF seen \subseteq op[p].known THEN "xpeers" ELSE "xrename")
    BY <1>3 DEF XShow
  <2>3. {"xpeers", "xrename"} \subseteq Pcs /\ {} \in SUBSET Keys
    BY DEF Pcs, Window
  <2>4. CASE seen \subseteq op[p].known
    <3>1. ~forced /\ ~blind' => Foreign \subseteq born
      BY <2>1, <2>2, <2>4, GuardPassed
    <3>2. Step(p, "xpeers", op[p].known, op[p].peers)
      BY <1>0, <2>2, <2>3, <2>4, Stepped DEF Goto
    <3> QED BY <1>0, <2>1, <3>1, <3>2 DEF Step, Kept, Clear, Merging
  <2>5. CASE ~(seen \subseteq op[p].known)
    <3>1. Step(p, "xrename", op[p].known, op[p].peers)
      BY <1>0, <2>2, <2>3, <2>5, Stepped DEF Goto
    <3> QED BY <1>0, <2>1, <3>1 DEF Step, Kept, Clear, Merging
  <2> QED BY <2>4, <2>5
<1>4. CASE XPeers(p)
  <2>1. UnimportedStay' /\ UNCHANGED <<born, forced, blind>> /\ op[p].pc = "xpeers"
    BY <1>0, <1>4, StayKept DEF XPeers, disk, history
  <2> QED BY <1>0, <1>4, <2>1, ExpandSteps DEF Repeopled, Clear, Merging
<1>5. CASE XRename(p)
  <2>1. UNCHANGED <<born, forced, blind, live, up>> /\ op[p].pc = "xrename" /\ conf'.peers = op[p].peers
    BY <1>5 DEF XRename
  <2>2. Clear(p)'
    BY <1>0, <1>5, XRenameSteps DEF Idle, Clear, Merging
  <2>3. UnimportedStay'
    BY <1>0, <2>1 DEF UnimportedStay, Clear
  <2> QED BY <2>2, <2>3
<1> QED BY <1>1, <1>2, <1>3, <1>4, <1>5 DEF Expand

LEMMA ImportGuarded ==
  ASSUME Types, Guarded, NEW p \in Procs, Import(p)
  PROVE  Clear(p)' /\ UnimportedStay'
<1>0. /\ WgTypes /\ MigTypes /\ Clear(p) /\ UnimportedStay
      /\ born \subseteq born' /\ (forced => forced') /\ (blind => blind')
      /\ imp[p].kind \in [full : BOOLEAN, apply : BOOLEAN, opt : BOOLEAN]
  BY TypesParts, GuardedParts, Remembered DEF Acts, MigTypes, ImpStates
<1>a. ASSUME forced', op'[p].pc \notin {"wgshow", "xshow"} PROVE Clear(p)' /\ UnimportedStay'
  BY <1>a DEF Clear, UnimportedStay
<1>1. CASE Look(p)
  <2>1. UnimportedStay' /\ UNCHANGED <<born, forced, blind>> /\ op[p].pc = "look"
    BY <1>0, <1>1, StayKept DEF Look, disk, history
  <2> QED BY <1>0, <1>1, <2>1, OtherSteps DEF Step, Kept, Clear, Merging
<1>2. CASE Txn(p)
  BY <1>0, <1>2, <1>a, TxnSteps DEF Txn, Ended, Fresh
<1>3. CASE ~Look(p) /\ ~Txn(p)
  <2>1. op[p].pc \in Merging
    BY <1>3 DEF Import, Params, PWrite, Truncate, RTrunc, Restore, RWrite, Pki, Save, CcdPeers, CcdFile, Merging
  <2>2. forced'
    BY <1>0, <2>1 DEF Clear
  <2>3. op'[p].pc \notin {"wgshow", "xshow"}
    <3>1. CASE Params(p) \/ Save(p) \/ CcdPeers(p)
      BY <1>0, <3>1, OtherSteps DEF Step
    <3>2. CASE Pki(p) \/ CcdFile(p)
      BY <1>0, <2>1, <3>2, OtherSteps DEF Step, Ended, Fresh, Merging
    <3>3. CASE PWrite(p)
      BY <1>0, <3>3, EnterSteps DEF Entered
    <3>4. CASE Truncate(p) \/ Restore(p)
      BY <1>0, <3>4, OtherSteps DEF Truncate, Restore, Opens
    <3> QED BY <1>3, <3>1, <3>2, <3>3, <3>4 DEF Import
  <2> QED BY <1>a, <2>2, <2>3
<1> QED BY <1>1, <1>2, <1>3

LEMMA NextGuarded == Types /\ Guarded /\ [Next]_vars => Guarded'
<1> SUFFICES ASSUME Types, Guarded, [Next]_vars PROVE Guarded'
  OBVIOUS
<1>0. WgTypes /\ MigTypes /\ UnimportedStay /\ \A q \in Procs : Clear(q)
  BY TypesParts, GuardedParts
<1>a. ASSUME NEW p \in Procs, Acts(p), NEW pc \in {"look", "drop", "guard", "import", "xread", "idle"},
             NEW ks, NEW ls, Fresh(p, pc, ks, ls, "idle"), conf' = conf, live' = live, up' = up
      PROVE  Guarded'
  <2>1. Clear(p)'
    BY <1>a DEF Fresh, Clear, Merging
  <2>2. UnimportedStay'
    BY <1>0, <1>a, Remembered, StayKept
  <2> QED BY <1>a, <2>1, <2>2, GuardedStep
<1>1. ASSUME NEW p \in Procs, NEW kind \in Kinds, NEW us \in Bundles, StartMigration(p, kind, us)
      PROVE  Guarded'
  <2>1. Fresh(p, "look", {}, {}, "idle")
    BY <1>0, <1>1, StartSteps
  <2> QED BY <1>1, <1>a, <2>1 DEF StartMigration, disk, Acts
<1>2. ASSUME NEW p \in Procs, NEW k \in Keys, Delete(p, k) PROVE Guarded'
  <2>1. Fresh(p, "drop", {k}, {}, "idle")
    BY <1>0, <1>2, StartSteps DEF Delete
  <2> QED BY <1>2, <1>a, <2>1 DEF Delete, StartDelete, disk, Acts
<1>3. ASSUME NEW p \in Procs, Import(p) PROVE Guarded'
  BY <1>3, ImportGuarded, GuardedStep DEF Acts
<1>4. ASSUME NEW p \in Procs, Begin(p), Disturb, UNCHANGED <<files, ccd, undead>> PROVE Guarded'
  <2>1. \E pc \in {"guard", "import", "xread"} : \E ks, ls : Fresh(p, pc, ks, ls, "idle")
    BY <1>0, <1>4, StartSteps DEF Begin
  <2>2. conf' = conf /\ live' = live /\ up' = up
    BY <1>4 DEF Begin, StartRender, StartImport, StartExpand, StartCreate, disk
  <2> QED BY <1>4, <1>a, <2>1, <2>2 DEF Acts
<1>5. ASSUME NEW p \in Procs, Works(p), Forget, UNCHANGED <<files, ccd, undead>> PROVE Guarded'
  <2>0. Acts(p)
    BY <1>5 DEF Acts
  <2>1. CASE Render(p)
    BY <2>0, <2>1, RenderGuarded, GuardedStep
  <2>2. CASE Expand(p)
    BY <2>0, <2>2, ExpandGuarded, GuardedStep
  <2>3. CASE DropRow(p)
    <3>1. Clear(p)' /\ UnimportedStay'
      BY <1>0, <2>3, Dropped DEF DropRow, DropSteps, Clear, UnimportedStay
    <3> QED BY <2>0, <3>1, GuardedStep
  <2>4. CASE Crash(p)
    <3>1. Fresh(p, "idle", {}, {}, "idle")
      BY <1>0, <2>4, OtherSteps DEF Ended
    <3> QED BY <1>a, <2>0, <2>4, <3>1 DEF Crash, disk
  <2>5. CASE ImportOne(p)
    <3>1. UnimportedStay'
      BY <1>0, <2>0, <2>5, Remembered, StayKept DEF ImportOne, disk
    <3>2. forced' = forced /\ op[p].pc = "import"
      BY <2>5 DEF ImportOne, history
    <3>3. Clear(p)'
      BY <1>0, <2>5, <3>2, OtherSteps DEF Ended, Fresh, Step, Kept, Clear, Merging
    <3> QED BY <2>0, <3>1, <3>3, GuardedStep
  <2> QED BY <1>5, <2>1, <2>2, <2>3, <2>4, <2>5 DEF Works
<1>6. CASE (IfDown \/ IfUp) /\ UNCHANGED migVars
  <2>1. UNCHANGED <<born, forced, blind, op, conf>>
    BY <1>6 DEF IfDown, IfUp, disk, history
  <2>2. \A q \in Procs : Clear(q)'
    BY <1>0, <2>1 DEF Clear
  <2>3. UnimportedStay'
    BY <1>0, <1>6, <2>1 DEF IfDown, IfUp, UnimportedStay
  <2> QED BY <2>2, <2>3, GuardedParts
<1>7. CASE UNCHANGED vars
  BY <1>7 DEF vars, wgVars, Guarded, UnimportedStay
<1> QED BY <1>1, <1>2, <1>3, <1>4, <1>5, <1>6, <1>7, Steps

\* main.go:443-444, subnet.go:534-535: no peer that was never imported is disconnected or dropped
\* from wg0.conf, unless a render was forced or a guard found the interface down or silent.
THEOREM ForeignPeersStay == Spec => []UnimportedStay
<1>1. Init => Guarded
  BY DEF Init, WgInit, Idle, Whole, Guarded, UnimportedStay, Merging
<1>2. Guarded => UnimportedStay
  BY DEF Guarded
<1> QED BY <1>1, <1>2, InitTypes, NextTypes, NextGuarded, PTL DEF Spec

(***************************************************************************)
(* wg0.conf, whole and in step.                                            *)
(***************************************************************************)
\* Nobody else's file gets another name, except when one is renamed.
LEMMA FilesStayOpen ==
  ASSUME WgTypes, MigTypes, NEW p \in Procs, Acts(p), ~Rename(p), ~XRename(p), NEW q \in Procs, q # p
  PROVE  op'[q].fd = op[q].fd
<1>0. imp[p].kind \in [full : BOOLEAN, apply : BOOLEAN, opt : BOOLEAN]
  BY DEF MigTypes, ImpStates
<1>1. CASE \E kind, us : StartMigration(p, kind, us)
  BY <1>1, StartSteps DEF Fresh, Rest
<1>2. CASE (\E k \in Keys : StartDelete(p, k)) \/ Begin(p)
  BY <1>2, StartSteps DEF Begin, Fresh, Rest
<1>3. CASE Import(p)
  <2>1. CASE Look(p) \/ Params(p) \/ Save(p) \/ CcdPeers(p) \/ Pki(p) \/ CcdFile(p)
    BY <2>1, OtherSteps DEF Step, Ended, Fresh, Rest
  <2>2. CASE Txn(p)
    BY <1>0, <2>2, TxnSteps DEF Ended, Fresh, Rest
  <2>3. CASE PWrite(p)
    BY <2>3, EnterSteps DEF Entered, SameWork
  <2>4. CASE Truncate(p) \/ Restore(p)
    BY <2>4, OtherSteps DEF Truncate, Restore, Opens, Rest
  <2> QED BY <1>3, <2>1, <2>2, <2>3, <2>4 DEF Import
<1>4. CASE Works(p)
  <2>1. CASE ImportOne(p) \/ Crash(p)
    BY <2>1, OtherSteps DEF Step, Ended, Fresh, Rest
  <2>2. CASE DropRow(p)
    BY <2>2, Dropped DEF DropSteps
  <2>3. CASE Guard(p) \/ WgShow(p) \/ Peers(p) \/ Open(p) \/ Write(p)
    BY <2>3, RenderSteps DEF Step, Ended, Fresh, Opens, Rest
  <2>4. CASE Strip(p) \/ StripWrite(p) \/ Sync(p) \/ Remove(p)
    BY <2>4, RenderSteps DEF Step, Ended, Fresh, Unsynced, Rest
  <2>5. CASE ReadHead(p) \/ XRead(p)
    BY <2>5, EnterSteps DEF Ended, Fresh, Rest, Entered, SameWork
  <2>6. CASE XDb(p) \/ XShow(p) \/ XPeers(p)
    BY <2>6, ExpandSteps DEF Step, Repeopled, Rest
  <2> QED BY <1>4, <2>1, <2>2, <2>3, <2>4, <2>5, <2>6 DEF Works, Render, Expand
<1> QED BY <1>1, <1>2, <1>3, <1>4 DEF Acts

\* A step from outside the window leaves the files and what is known of them.
LEMMA Outside ==
  ASSUME WgTypes, NEW p \in Procs, Acts(p), op[p].pc \notin Window
  PROVE  UNCHANGED <<conf, tmp, strip, settled, last, shared, restored>> /\ ~Rename(p) /\ ~XRename(p)
<1>0. ~Rename(p) /\ ~XRename(p)
  BY DEF Rename, XRename, Window
<1>1. CASE \E kind \in Kinds, us \in Bundles : StartMigration(p, kind, us)
  BY <1>0, <1>1, Zenon DEF StartMigration, disk, history
<1>2. CASE (\E k \in Keys : StartDelete(p, k)) \/ Begin(p)
  BY <1>0, <1>2, Zenon DEF Begin, StartRender, StartImport, StartExpand, StartCreate, StartDelete, disk, history
<1>3. CASE Import(p)
  <2>1. CASE Look(p) \/ Params(p) \/ PWrite(p) \/ Pki(p) \/ Save(p) \/ CcdPeers(p) \/ CcdFile(p)
    BY <1>0, <2>1, Zenon DEF Look, Params, PWrite, Pki, Save, CcdPeers, CcdFile, disk, history
  <2>2. CASE Txn(p)
    BY <1>0, <2>2, Zenon DEF Txn, disk
  <2>3. CASE Truncate(p) \/ Restore(p)
    BY <2>3 DEF Truncate, RTrunc, Restore, RWrite, Window
  <2> QED BY <1>3, <2>1, <2>2, <2>3 DEF Import
<1>4. CASE Works(p)
  <2>1. CASE ImportOne(p) \/ DropRow(p) \/ Crash(p)
    BY <1>0, <2>1, Zenon DEF ImportOne, DropRow, Crash, disk, history
  <2>2. CASE Guard(p) \/ WgShow(p) \/ ReadHead(p) \/ XRead(p)
    BY <1>0, <2>2, Zenon DEF Guard, WgShow, ReadHead, XRead, disk, history
  <2>3. CASE Peers(p) \/ Open(p) \/ Write(p) \/ Strip(p) \/ StripWrite(p) \/ Sync(p) \/ Remove(p)
    BY <2>3 DEF Peers, Open, Write, Strip, StripWrite, Sync, Remove, Window
  <2>4. CASE XDb(p) \/ XShow(p) \/ XPeers(p)
    BY <2>4 DEF XDb, XShow, XPeers, Window
  <2> QED BY <1>0, <1>4, <2>1, <2>2, <2>3, <2>4 DEF Works, Render, Expand
<1> QED BY <1>1, <1>2, <1>3, <1>4 DEF Acts

\* Who is in the window was in it, or has just entered.
LEMMA Windows ==
  ASSUME WgTypes, MigTypes, NEW p \in Procs, Acts(p)
  PROVE  \/ \E pc, ok, wide, ls : Entered(p, pc, ok, wide, ls)
         \/ op'[p].pc \in Window => op[p].pc \in Window /\ op'[p].alone = op[p].alone
<1>0. /\ imp[p].kind \in [full : BOOLEAN, apply : BOOLEAN, opt : BOOLEAN]
      /\ op[p].then \in {"idle", "ccd"}
  BY DEF WgTypes, WgTypeOK, OpStates, MigTypes, ImpStates
<1>1. CASE \E kind, us : StartMigration(p, kind, us)
  BY <1>1, StartSteps DEF Fresh, Window
<1>2. CASE (\E k \in Keys : StartDelete(p, k)) \/ Begin(p)
  BY <1>2, StartSteps DEF Begin, Fresh, Window
<1>3. CASE Import(p)
  <2>1. CASE Look(p) \/ Params(p) \/ Save(p) \/ CcdPeers(p)
    BY <2>1, OtherSteps DEF Step, Window
  <2>2. CASE Pki(p) \/ CcdFile(p)
    BY <2>2, OtherSteps DEF Step, Ended, Fresh, Window
  <2>3. CASE Txn(p)
    BY <1>0, <2>3, TxnSteps DEF Ended, Fresh, Window
  <2>4. CASE PWrite(p)
    BY <2>4, EnterSteps
  <2>5. CASE Truncate(p) \/ Restore(p)
    BY <2>5, OtherSteps DEF Truncate, RTrunc, Restore, RWrite, Opens, Window
  <2> QED BY <1>3, <2>1, <2>2, <2>3, <2>4, <2>5 DEF Import
<1>4. CASE Works(p)
  <2>1. CASE ImportOne(p) \/ Crash(p)
    BY <2>1, OtherSteps DEF Step, Ended, Fresh, Window
  <2>2. CASE DropRow(p)
    BY <2>2, Dropped DEF DropSteps, Window
  <2>3. CASE Guard(p) \/ WgShow(p) \/ Peers(p)
    BY <2>3, RenderSteps DEF Guard, WgShow, Peers, Step, Kept, Ended, Fresh, Window
  <2>4. CASE Open(p) \/ Write(p)
    BY <2>4, RenderSteps DEF Open, Write, Opens, Window
  <2>5. CASE Strip(p) \/ StripWrite(p) \/ Sync(p)
    BY <2>5, RenderSteps DEF Strip, StripWrite, Sync, Step, Kept, Ended, Fresh, Unsynced, Window
  <2>6. CASE Remove(p)
    BY <1>0, <2>6, RenderSteps DEF Fresh, Window
  <2>7. CASE ReadHead(p) \/ XRead(p)
    BY <2>7, EnterSteps DEF Ended, Fresh, Window
  <2>8. CASE Rename(p)
    BY <2>8, RenameSteps DEF Rename, Ended, Fresh, Window
  <2>9. CASE XDb(p) \/ XShow(p) \/ XPeers(p)
    BY <2>9, ExpandSteps DEF XDb, XShow, XPeers, Step, Kept, Repeopled, Window
  <2>10. CASE XRename(p)
    BY <2>10, XRenameSteps DEF Idle, Window
  <2> QED BY <1>4, <2>1, <2>2, <2>3, <2>4, <2>5, <2>6, <2>7, <2>8, <2>9, <2>10 DEF Works, Render, Expand
<1> QED BY <1>1, <1>2, <1>3, <1>4 DEF Acts

LEMMA AloneStep ==
  ASSUME WgTypes, MigTypes, Alone, NEW p \in Procs, Acts(p)
  PROVE  Alone'
<1>1. \A q \in Procs : q # p => op'[q].pc = op[q].pc /\ (op'[q].alone => op[q].alone)
  BY Others DEF Bystander
<1>2. ASSUME NEW pc, NEW ok, NEW wide, NEW ls, Entered(p, pc, ok, wide, ls) PROVE Alone'
  BY <1>1, <1>2 DEF Alone, Entered
<1>3. CASE op'[p].pc \in Window => op[p].pc \in Window /\ op'[p].alone = op[p].alone
  BY <1>1, <1>3 DEF Alone
<1> QED BY <1>2, <1>3, Windows

LEMMA ExclusiveStep ==
  ASSUME WgTypes, MigTypes, Exclusive, NEW p \in Procs, Acts(p), shared => shared',
         op'[p].pc \in {"write", "rename"} => op[p].pc \in {"write", "rename"} \/ Open(p)
  PROVE  Exclusive'
<1>1. \A q \in Procs : q # p => op'[q].pc = op[q].pc
  BY Others DEF Bystander
<1>2. CASE Open(p)
  <2>1. ~shared' => ~shared /\ \A q \in Procs : op[q].pc \notin {"write", "rename"}
    BY <1>2 DEF Open
  <2> QED BY <1>1, <2>1 DEF Exclusive
<1>3. CASE op'[p].pc \in {"write", "rename"} => op[p].pc \in {"write", "rename"}
  BY <1>1, <1>3 DEF Exclusive
<1> QED BY <1>2, <1>3

\* For whoever is not alone with wg0.conf, or not at it, little can change.
LEMMA FitsKept ==
  ASSUME NEW q, Fits(q), Bystander(q), ~(op[q].alone /\ op[q].pc \in Window),
         op[q].pc \in Expanding /\ (shared \/ restored) => shared' \/ restored',
         ~shared' => ~shared,
         ~shared' /\ op[q].pc \in {"write", "rename"} => tmp' = tmp /\ op'[q].fd = op[q].fd,
         settled' => op'[q].fd # "conf"
  PROVE  Fits(q)'
<1>0. /\ op'[q].pc = op[q].pc /\ op'[q].ok = op[q].ok /\ op'[q].wide = op[q].wide
      /\ op'[q].peers = op[q].peers /\ (op'[q].alone => op[q].alone)
  BY DEF Bystander
<1>1. op'[q].pc \in Expanding =>
        (op'[q].ok => op'[q].wide) /\ (op'[q].ok \/ shared' \/ restored')
  BY <1>0 DEF Fits
<1>2. op'[q].alone => op'[q].pc \notin Window
  BY <1>0
<1>3. ~shared' => /\ op'[q].pc = "write" => op'[q].fd = "tmp" /\ tmp' = Torn
                  /\ op'[q].pc = "rename" => tmp' = Whole(op'[q].wide, op'[q].peers)
  BY <1>0 DEF Fits
<1> QED BY <1>1, <1>2, <1>3 DEF Fits, Torn, Whole, Window

\* A step from outside the window disturbs nobody.
LEMMA FitsOutside ==
  ASSUME WgTypes, MigTypes, NEW p \in Procs, Acts(p), op[p].pc \notin Window,
         NEW q \in Procs, q # p, Fits(q)
  PROVE  Fits(q)'
<1>1. UNCHANGED <<conf, tmp, strip, settled, last, shared, restored>> /\ op'[q].fd = op[q].fd
  BY Outside, FilesStayOpen
<1>2. Bystander(q)
  BY Others
<1> QED BY <1>1, <1>2 DEF Bystander, Fits, Torn, Whole

\* Who is alone is undisturbed by whoever is not in the window.
LEMMA NotAlone ==
  ASSUME Alone, NEW p \in Procs, op[p].pc \in Window, NEW q \in Procs, q # p
  PROVE  ~(op[q].alone /\ op[q].pc \in Window)
BY DEF Alone

\* It is enough to look at who takes the step, and at the files.
LEMMA SoundStep ==
  ASSUME WgTypes, MigTypes, Sound, NEW p \in Procs, Acts(p),
         shared => shared',
         op'[p].pc \in {"write", "rename"} => op[p].pc \in {"write", "rename"} \/ Open(p),
         op[p].pc \in Window => \A q \in Procs : q # p =>
           /\ op[q].pc \in Expanding /\ (shared \/ restored) => shared' \/ restored'
           /\ ~shared' /\ op[q].pc \in {"write", "rename"} => tmp' = tmp /\ op'[q].fd = op[q].fd
           /\ settled' => op'[q].fd # "conf",
         Fits(p)', Heads', NeverTorn', InStep'
  PROVE  Sound'
<1>1. ASSUME NEW q \in Procs, q # p PROVE Fits(q)'
  <2>1. CASE op[p].pc \in Window
    BY <1>1, <2>1, NotAlone, Others, FitsKept DEF Sound
  <2>2. CASE op[p].pc \notin Window
    BY <1>1, <2>2, FitsOutside DEF Sound
  <2> QED BY <2>1, <2>2
<1>2. Alone' /\ Exclusive'
  BY AloneStep, ExclusiveStep DEF Sound
<1> QED BY <1>1, <1>2 DEF Sound

\* A step from outside the window leaves everything in step.
LEMMA SoundOutside ==
  ASSUME WgTypes, MigTypes, Sound, NEW p \in Procs, Acts(p), op[p].pc \notin Window, live' = live, up' = up,
         op'[p].fd = "none",
         \/ op'[p].pc \notin Window
         \/ op'[p].pc = "peers" /\ op'[p].wide = conf.wide /\ conf.head
         \/ op'[p].pc = "xdb" /\ op'[p].ok = conf.ok /\ op'[p].wide = conf.head
         \/ op'[p].pc = "rtrunc"
  PROVE  Sound'
<1>1. UNCHANGED <<conf, tmp, strip, settled, last, shared, restored>>
  BY Outside
<1>2. Heads' /\ NeverTorn' /\ InStep'
  BY <1>1 DEF Sound, Heads, NeverTorn, InStep, Whole
<1>3. Fits(p)'
  BY <1>1 DEF Sound, Heads, NeverTorn, Fits, Window, Expanding
<1>4. op'[p].pc \notin {"write", "rename"}
  BY DEF Window
<1> QED BY <1>1, <1>2, <1>3, <1>4, SoundStep

LEMMA EndedFits ==
  ASSUME NEW p \in Procs, op'[p].pc \notin Window, op'[p].fd # "conf"
  PROVE  Fits(p)'
BY DEF Fits, Window, Expanding

\* A step that leaves the files, whether from the window or not.
LEMMA SoundQuiet ==
  ASSUME WgTypes, MigTypes, Sound, NEW p \in Procs, Acts(p), ~Rename(p), ~XRename(p),
         UNCHANGED <<conf, tmp, strip, settled, last, shared, restored, live, up>>,
         op'[p].pc \notin {"write", "rename"}, Fits(p)'
  PROVE  Sound'
<1>1. Heads' /\ NeverTorn' /\ InStep'
  BY DEF Sound, Heads, NeverTorn, InStep, Whole
<1>2. \A q \in Procs : q # p => op'[q].fd = op[q].fd /\ Fits(q)
  BY FilesStayOpen DEF Sound
<1>3. \A q \in Procs : q # p => (settled' => op'[q].fd # "conf")
  BY <1>2 DEF Fits
<1> QED BY <1>1, <1>2, <1>3, SoundStep

LEMMA WrittenFiles ==
  ASSUME NEW file, NEW w, NEW ks, NEW f \in Written(file, Whole(w, ks))
  PROVE  /\ f.head /\ f.wide = w
         /\ file = Torn => f = Whole(w, ks)
BY DEF Written, Whole, Garbled, Torn

LEMMA Widened ==
  ASSUME last \in Contents, Heads, NEW v \in BOOLEAN, last' = [last EXCEPT !.wide = v]
  PROVE  last' = Whole(last'.wide, last'.peers) /\ last'.wide = v /\ last'.peers = last.peers
<1>1. last.ok = TRUE /\ last.head = TRUE
  BY DEF Heads, Whole
<1>2. last' \in Contents /\ last'.ok = TRUE /\ last'.head = TRUE /\ last'.wide = v /\ last'.peers = last.peers
  BY <1>1 DEF Contents
<1> QED BY <1>2 DEF Whole, Contents

LEMMA RenderSound ==
  ASSUME Types, Sound, NEW p \in Procs, Render(p)
  PROVE  Sound'
<1>0. /\ WgTypes /\ MigTypes /\ Acts(p) /\ Fits(p) /\ Heads /\ NeverTorn /\ InStep /\ Exclusive /\ Alone
      /\ op[p].alone \in BOOLEAN /\ conf \in Contents /\ last \in Contents
      /\ op[p].then \in {"idle", "ccd"} /\ \A q \in Procs : Fits(q)
      /\ op[p].fd # "none" => op[p].pc \in {"write", "rwrite"}
  BY TypesParts DEF Acts, Works, Sound, WgTypes, WgTypeOK, OpStates, Descriptors
<1>a. Ended(p) => Fits(p)' /\ op'[p].pc \notin {"write", "rename"} /\ op'[p].fd = "none"
                  /\ op'[p].pc \notin Window
  BY EndedFits DEF Ended, Fresh, Window
<1>b. conf' \in Contents
  BY <1>0, RenderTypes DEF WgTypes, WgTypeOK
<1>1. CASE Guard(p) \/ WgShow(p) \/ ReadHead(p)
  <2>1. op[p].pc \notin Window /\ live' = live /\ up' = up /\ op[p].fd = "none"
    BY <1>0, <1>1 DEF Guard, WgShow, ReadHead, Window
  <2>2. CASE Guard(p) \/ WgShow(p)
    <3>1. op'[p].fd = "none" /\ op'[p].pc \notin Window
      BY <1>0, <1>a, <2>1, <2>2, RenderSteps DEF Step, Kept, Window
    <3> QED BY <1>0, <2>1, <3>1, SoundOutside
  <2>3. CASE ReadHead(p)
    <3>1. CASE Ended(p)
      BY <1>0, <1>a, <2>1, <3>1, SoundOutside
    <3>2. CASE conf.head /\ Entered(p, "peers", op[p].ok, conf.wide, op[p].peers)
      BY <1>0, <2>1, <3>2, SoundOutside DEF Entered
    <3> QED BY <1>0, <2>3, <3>1, <3>2, EnterSteps
  <2> QED BY <1>1, <2>2, <2>3
<1>2. CASE Peers(p) \/ Strip(p)
  <2>1. /\ UNCHANGED <<conf, tmp, strip, settled, last, shared, restored, live, up>>
        /\ op[p].pc \in {"peers", "strip"}
    BY <1>2 DEF Peers, Strip, disk, history
  <2>2. ~Rename(p) /\ ~XRename(p)
    BY <2>1 DEF Rename, XRename
  <2>3. Fits(p)' /\ op'[p].pc \notin {"write", "rename"}
    <3>1. CASE Peers(p)
      <4>1. Step(p, "open", op[p].known, table) /\ op[p].pc = "peers"
        BY <1>0, <3>1, RenderSteps DEF Peers
      <4> QED BY <1>0, <2>1, <4>1 DEF Step, Kept, Fits, Expanding
    <3>2. CASE Strip(p)
      <4>1. op[p].pc = "strip" /\ (Ended(p) \/ Step(p, "swrite", op[p].known, conf.peers))
        BY <1>0, <3>2, RenderSteps DEF Strip
      <4>2. op[p].alone => conf = Whole(last.wide, op[p].peers)
        BY <1>0, <4>1 DEF Fits
      <4>3. op[p].alone => conf = Whole(last.wide, conf.peers)
        BY <4>2 DEF Whole
      <4>4. CASE Step(p, "swrite", op[p].known, conf.peers)
        BY <1>0, <2>1, <4>1, <4>3, <4>4 DEF Step, Kept, Fits, Expanding, Whole
      <4> QED BY <1>a, <4>1, <4>4
    <3> QED BY <1>2, <3>1, <3>2
  <2> QED BY <1>0, <2>1, <2>2, <2>3, SoundQuiet
<1>3. CASE Open(p)
  <2>1. op[p].pc = "open" /\ tmp' = Torn /\ UNCHANGED <<conf, strip, settled, last, restored, live, up>>
    BY <1>3 DEF Open
  <2>2. (shared => shared') /\ \A q \in Procs : op[q].pc \in {"write", "rename"} => shared'
    BY <1>3 DEF Open
  <2>3. Opens(p, "write", "tmp") /\ ~Rename(p) /\ ~XRename(p)
    BY <1>0, <1>3, <2>1, RenderSteps DEF Rename, XRename
  <2>4. \A q \in Procs : q # p => op'[q].fd = op[q].fd
    BY <1>0, <2>3, FilesStayOpen
  <2>5. Fits(p)'
    BY <1>0, <2>1, <2>3 DEF Opens, Fits, Expanding, Torn
  <2>6. Heads' /\ NeverTorn' /\ InStep'
    BY <1>0, <2>1, <2>2 DEF Heads, NeverTorn, InStep, Torn, Whole
  <2>7. \A q \in Procs : settled' => op[q].fd # "conf"
    BY <1>0, <2>1 DEF Fits
  <2> QED BY <1>0, <1>3, <2>1, <2>2, <2>4, <2>5, <2>6, <2>7, SoundStep
<1>4. CASE Write(p)
  <2> DEFINE r == Whole(op[p].wide, op[p].peers)
  <2>1. /\ op[p].pc = "write" /\ UNCHANGED <<strip, settled, shared, restored, live, up>>
        /\ IF op[p].fd = "tmp" THEN tmp' \in Written(tmp, r) ELSE tmp' = tmp
        /\ IF op[p].fd = "conf" THEN conf' \in Written(conf, r) ELSE conf' = conf
        /\ last' = [last EXCEPT !.wide = IF op[p].fd = "conf" THEN conf'.wide ELSE last.wide]
    BY <1>4 DEF Write
  <2>2. Opens(p, "rename", "none") /\ ~Rename(p) /\ ~XRename(p)
    BY <1>0, <1>4, <2>1, RenderSteps DEF Rename, XRename
  <2>3. \A q \in Procs : q # p => op'[q].fd = op[q].fd
    BY <1>0, <2>2, FilesStayOpen
  <2>4. op[p].alone \/ ~shared => op[p].fd = "tmp" /\ tmp = Torn /\ tmp' = r
    BY <1>0, <2>1, WrittenFiles DEF Fits
  <2>5. op[p].fd # "conf" => last' = last
    BY <1>0, <2>1 DEF Contents
  <2>6. \A q \in Procs : q # p /\ op[q].pc \in {"write", "rename"} => shared
    BY <1>0, <2>1 DEF Exclusive
  <2>7. Fits(p)'
    BY <1>0, <2>1, <2>2, <2>4, <2>5 DEF Opens, Fits, Expanding, Whole
  <2>8. Heads'
    <3>1. (conf'.ok => conf'.head) /\ (conf'.head => conf'.wide = last'.wide)
      BY <1>0, <2>1, <2>5, WrittenFiles DEF Heads, Contents
    <3>2. tmp' # NoFile /\ tmp'.ok => tmp'.head
      BY <1>0, <2>1, WrittenFiles DEF Heads
    <3>3. last' = Whole(last'.wide, last'.peers)
      <4>1. conf'.wide \in BOOLEAN /\ last.wide \in BOOLEAN
        BY <1>0, <1>b DEF Contents
      <4>2. CASE op[p].fd = "conf"
        BY <1>0, <2>1, <4>1, <4>2, Widened
      <4>3. CASE op[p].fd # "conf"
        BY <1>0, <2>5, <4>3 DEF Heads, Whole
      <4> QED BY <4>2, <4>3
    <3> QED BY <3>1, <3>2, <3>3 DEF Heads
  <2>9. NeverTorn'
    BY <1>0, <2>1, <2>4 DEF NeverTorn
  <2>10. InStep'
    <3>1. settled => op[p].fd # "conf"
      BY <1>0 DEF Fits
    <3> QED BY <1>0, <2>1, <2>5, <3>1 DEF InStep
  <2>11. \A q \in Procs : settled' => op[q].fd # "conf"
    BY <1>0, <2>1 DEF Fits
  <2> QED BY <1>0, <2>1, <2>3, <2>6, <2>7, <2>8, <2>9, <2>10, <2>11, SoundStep
<1>5. CASE Rename(p)
  <2>1. op[p].pc = "rename" /\ UNCHANGED <<strip, shared, restored, live, up>>
    BY <1>5 DEF Rename
  <2>2. CASE tmp = NoFile
    <3>1. UNCHANGED <<conf, tmp, settled, last>> /\ Ended(p)
      BY <1>0, <1>5, <2>2, RenameSteps, NoFileAssumption DEF Rename
    <3>2. Heads' /\ NeverTorn' /\ InStep'
      BY <1>0, <2>1, <3>1 DEF Heads, NeverTorn, InStep, Whole
    <3>3. \A q \in Procs : q # p => op'[q].fd = op[q].fd
      BY <3>1 DEF Ended, Fresh, Rest
    <3>4. \A q \in Procs : settled' => op[q].fd # "conf"
      BY <1>0, <3>1 DEF Fits
    <3> QED BY <1>0, <1>a, <2>1, <3>1, <3>2, <3>3, <3>4, SoundStep
  <2>3. CASE tmp # NoFile
    <3>1. /\ conf' = tmp /\ settled' = FALSE /\ tmp' = NoFile
          /\ last' = [last EXCEPT !.wide = IF op[p].alone THEN last.wide ELSE tmp.wide]
      BY <1>5, <2>3 DEF Rename, Install
    <3>2. /\ op'[p].pc = "strip" /\ op'[p].wide = op[p].wide /\ op'[p].peers = op[p].peers
          /\ op'[p].alone = op[p].alone
      BY <1>0, <1>5, <2>3, RenameSteps
    <3>3. op[p].alone \/ ~shared => tmp = Whole(op[p].wide, op[p].peers)
      BY <1>0, <2>1 DEF Fits
    <3>4. op[p].alone => last' = last /\ op[p].wide = last.wide
      BY <1>0, <2>1, <3>1 DEF Fits, Contents
    <3>5. \A q \in Procs : q # p /\ op[q].pc \in {"write", "rename"} => shared
      BY <1>0, <2>1 DEF Exclusive
    <3>6. Fits(p)'
      BY <3>1, <3>2, <3>3, <3>4 DEF Fits, Expanding, Whole
    <3>7. Heads'
      <4>1. (conf'.ok => conf'.head) /\ tmp' = NoFile
        BY <1>0, <2>3, <3>1 DEF Heads
      <4>2. last' = Whole(last'.wide, last'.peers)
        <5>1. tmp.wide \in BOOLEAN
          BY <1>0, <2>3 DEF WgTypes, WgTypeOK, Contents
        <5>2. CASE op[p].alone
          BY <1>0, <3>4, <5>2 DEF Heads, Whole
        <5>3. CASE ~op[p].alone
          BY <1>0, <3>1, <5>1, <5>3, Widened
        <5> QED BY <5>2, <5>3
      <4>3. conf'.wide = last'.wide
        <5>1. CASE op[p].alone
          BY <3>1, <3>3, <3>4, <5>1 DEF Whole
        <5>2. CASE ~op[p].alone
          BY <1>0, <3>1, <5>2 DEF Contents
        <5> QED BY <5>1, <5>2
      <4> QED BY <4>1, <4>2, <4>3 DEF Heads
    <3>8. NeverTorn' /\ InStep'
      BY <2>1, <3>1, <3>3 DEF NeverTorn, InStep, Whole
    <3> QED BY <1>0, <2>1, <3>1, <3>2, <3>5, <3>6, <3>7, <3>8, SoundStep
  <2> QED BY <2>2, <2>3
<1>6. CASE StripWrite(p)
  <2>1. op[p].pc = "swrite" /\ strip' = op[p].peers /\ UNCHANGED <<conf, tmp, settled, last, shared, restored, live, up>>
    BY <1>6 DEF StripWrite, history
  <2>2. Step(p, "sync", op[p].known, op[p].peers) /\ ~Rename(p) /\ ~XRename(p)
    BY <1>0, <1>6, <2>1, RenderSteps DEF Rename, XRename
  <2>3. \A q \in Procs : q # p => op'[q].fd = op[q].fd
    BY <1>0, <2>2, FilesStayOpen
  <2>4. Fits(p)'
    BY <1>0, <2>1, <2>2 DEF Step, Kept, Fits, Expanding, Whole
  <2>5. Heads' /\ NeverTorn' /\ InStep'
    BY <1>0, <2>1 DEF Heads, NeverTorn, InStep, Whole
  <2>6. \A q \in Procs : settled' => op[q].fd # "conf"
    BY <1>0, <2>1 DEF Fits
  <2> QED BY <1>0, <2>1, <2>2, <2>3, <2>4, <2>5, <2>6, SoundStep DEF Step
<1>7. CASE Sync(p)
  <2>1. op[p].pc = "sync" /\ UNCHANGED <<conf, tmp, strip, shared, restored, up>>
    BY <1>7 DEF Sync, disk
  <2>2. ~Rename(p) /\ ~XRename(p)
    BY <2>1 DEF Rename, XRename
  <2>3. \A q \in Procs : q # p => op'[q].fd = op[q].fd
    BY <1>0, <2>2, FilesStayOpen
  <2>4. op'[p].pc = "rm" /\ op'[p].fd = "none" /\ op'[p].alone = op[p].alone
    BY <1>0, <1>7, <2>1, RenderSteps DEF Step, Kept, Unsynced
  <2>5. CASE up /\ strip # NoFile
    <3>1. live' = strip /\ settled' = op[p].alone /\ (op[p].alone => last' = [last EXCEPT !.peers = op[p].peers])
          /\ (~op[p].alone => last' = last)
      BY <1>7, <2>5 DEF Sync
    <3>2. op[p].alone => /\ conf = Whole(last.wide, op[p].peers) /\ strip = op[p].peers
                         /\ last' = Whole(last.wide, op[p].peers)
      BY <1>0, <2>1, <3>1 DEF Fits, Heads, Whole
    <3>3. Heads'
      BY <1>0, <2>1, <3>1, <3>2 DEF Heads, Whole
    <3>4. NeverTorn' /\ InStep'
      BY <1>0, <2>1, <3>1, <3>2 DEF NeverTorn, InStep, Whole
    <3>5. Fits(p)'
      BY <2>4 DEF Fits, Expanding
    <3>6. ASSUME NEW q \in Procs, q # p, settled' PROVE op'[q].fd # "conf"
      <4>1. op[q].pc \notin Window
        BY <1>0, <2>1, <3>1, <3>6 DEF Alone, Window
      <4> QED BY <1>0, <2>3, <3>6, <4>1 DEF WgTypes, Descriptors, Window
    <3> QED BY <1>0, <2>1, <2>3, <2>4, <3>3, <3>4, <3>5, <3>6, SoundStep
  <2>6. CASE ~(up /\ strip # NoFile)
    <3>1. UNCHANGED <<live, settled, last>>
      BY <1>7, <2>6 DEF Sync
    <3>2. Fits(p)'
      BY <2>4 DEF Fits, Expanding
    <3> QED BY <1>0, <2>1, <2>2, <2>4, <3>1, <3>2, SoundQuiet
  <2> QED BY <2>5, <2>6
<1>8. CASE Remove(p)
  <2>1. op[p].pc = "rm" /\ UNCHANGED <<conf, tmp, settled, last, shared, restored, live, up>>
    BY <1>8 DEF Remove, history
  <2>2. Fresh(p, op[p].then, {}, {}, "idle") /\ ~Rename(p) /\ ~XRename(p)
    BY <1>0, <1>8, <2>1, RenderSteps DEF Rename, XRename
  <2>3. op'[p].pc \notin Window /\ op'[p].fd = "none" /\ \A q \in Procs : q # p => op'[q].fd = op[q].fd
    BY <1>0, <2>2 DEF Fresh, Rest, Window
  <2>4. Fits(p)' /\ op'[p].pc \notin {"write", "rename"}
    BY <2>3, EndedFits DEF Window
  <2>5. Heads' /\ NeverTorn' /\ InStep'
    BY <1>0, <2>1 DEF Heads, NeverTorn, InStep, Whole
  <2>6. \A q \in Procs : settled' => op[q].fd # "conf"
    BY <1>0, <2>1 DEF Fits
  <2> QED BY <1>0, <2>1, <2>3, <2>4, <2>5, <2>6, SoundStep
<1> QED BY <1>1, <1>2, <1>3, <1>4, <1>5, <1>6, <1>7, <1>8 DEF Render

LEMMA ExpandSound ==
  ASSUME Types, Sound, NEW p \in Procs, Expand(p)
  PROVE  Sound'
<1>0. /\ WgTypes /\ MigTypes /\ Acts(p) /\ Fits(p) /\ Heads /\ NeverTorn /\ InStep /\ Alone
      /\ last \in Contents /\ op[p].wide \in BOOLEAN /\ \A q \in Procs : Fits(q)
      /\ op[p].fd # "none" => op[p].pc \in {"write", "rwrite"}
  BY TypesParts DEF Acts, Works, Sound, WgTypes, WgTypeOK, OpStates, Descriptors
<1>1. CASE XRead(p)
  <2>1. op[p].pc \notin Window /\ live' = live /\ up' = up /\ op[p].fd = "none"
    BY <1>0, <1>1 DEF XRead, Window
  <2>2. Entered(p, "xdb", conf.ok, conf.head, conf.peers)
    BY <1>0, <1>1, EnterSteps
  <2> QED BY <1>0, <2>1, <2>2, SoundOutside DEF Entered
<1>2. CASE XDb(p) \/ XShow(p) \/ XPeers(p)
  <2>1. /\ UNCHANGED <<conf, tmp, strip, settled, last, shared, restored, live, up>>
        /\ op[p].pc \in Expanding
    BY <1>2 DEF XDb, XShow, XPeers, disk, history, Expanding
  <2>2. ~Rename(p) /\ ~XRename(p)
    BY <1>2 DEF XDb, XShow, XPeers, Rename, XRename
  <2>3. Fits(p)' /\ op'[p].pc \notin {"write", "rename"}
    <3>1. CASE XDb(p) \/ XShow(p)
      <4>1. \E pc \in Expanding : \E ks, ls : Step(p, pc, ks, ls)
        BY <1>0, <3>1, ExpandSteps DEF Expanding
      <4> QED BY <1>0, <2>1, <4>1 DEF Step, Kept, Fits, Expanding
    <3>2. CASE XPeers(p)
      <4>1. Repeopled(p)
        BY <1>0, <3>2, ExpandSteps
      <4>2. op[p].ok => op[p].wide
        BY <1>0, <2>1 DEF Fits
      <4>3. op'[p].ok \/ shared \/ restored
        <5>1. XPeers(p) /\ op'[p].ok = op[p].wide
          BY <3>2, <4>1 DEF Repeopled
        <5> QED BY <1>0, <2>1, <4>2, <5>1 DEF Fits
      <4> QED BY <1>0, <2>1, <4>1, <4>3 DEF Repeopled, Fits, Expanding
    <3> QED BY <1>2, <3>1, <3>2
  <2> QED BY <1>0, <2>1, <2>2, <2>3, SoundQuiet
<1>3. CASE XRename(p)
  <2>1. /\ op[p].pc = "xrename" /\ UNCHANGED <<tmp, strip, shared, restored, live, up>>
        /\ conf' = [ok |-> op[p].ok, head |-> op[p].wide, wide |-> op[p].wide, peers |-> op[p].peers]
        /\ last' = [last EXCEPT !.wide = op[p].wide]
    BY <1>3 DEF XRename
  <2>2. settled' => settled /\ op[p].ok /\ op[p].peers = last.peers
    BY <1>3, Zenon DEF XRename
  <2>3. op'[p].pc = "idle" /\ op'[p].fd = "none"
    BY <1>0, <1>3, XRenameSteps DEF Idle
  <2>4. Fits(p)'
    BY <2>3, EndedFits DEF Window
  <2>5. (op[p].ok => op[p].wide) /\ (op[p].ok \/ shared \/ restored)
    BY <1>0, <2>1 DEF Fits, Expanding
  <2>6. last' = Whole(last'.wide, last'.peers) /\ last'.wide = op[p].wide /\ last'.peers = last.peers
    BY <1>0, <2>1, Widened
  <2>7. Heads'
    BY <1>0, <2>1, <2>5, <2>6 DEF Heads
  <2>8. NeverTorn'
    BY <2>1, <2>5 DEF NeverTorn
  <2>9. InStep'
    <3> SUFFICES ASSUME settled' PROVE conf' = last' /\ (up' => live' = last'.peers)
      BY DEF InStep
    <3>1. op[p].ok = TRUE /\ op[p].wide = TRUE /\ op[p].peers = last.peers
      BY <1>0, <2>2, <2>5 DEF WgTypes, WgTypeOK, OpStates
    <3>2. conf' = Whole(TRUE, last.peers)
      BY <2>1, <3>1 DEF Whole
    <3>3. last' = Whole(TRUE, last.peers)
      BY <2>6, <3>1
    <3> QED BY <1>0, <2>1, <2>2, <2>6, <3>2, <3>3 DEF InStep
  <2>10. \A q \in Procs : q # p => op'[q].fd = IF op[q].fd = "conf" THEN "gone" ELSE op[q].fd
    BY <1>0, <1>3, XRenameSteps DEF Refiled
  <2>11. ASSUME NEW q \in Procs, q # p, ~shared, op[q].pc \in {"write", "rename"} PROVE op'[q].fd = op[q].fd
    BY <1>0, <2>10, <2>11 DEF Fits, WgTypes, Descriptors
  <2>12. \A q \in Procs : q # p => op'[q].fd # "conf"
    BY <2>10
  <2> QED BY <1>0, <2>1, <2>3, <2>4, <2>7, <2>8, <2>9, <2>11, <2>12, SoundStep
<1> QED BY <1>1, <1>2, <1>3 DEF Expand

LEMMA ImportSound ==
  ASSUME Types, Sound, NEW p \in Procs, Import(p)
  PROVE  Sound'
<1>0. /\ WgTypes /\ MigTypes /\ Acts(p) /\ Fits(p) /\ Heads /\ NeverTorn /\ InStep /\ Alone
      /\ last \in Contents /\ conf \in Contents /\ \A q \in Procs : Fits(q)
      /\ op[p].fd # "none" => op[p].pc \in {"write", "rwrite"}
      /\ op[p].alone \in BOOLEAN
      /\ imp[p].kind \in [full : BOOLEAN, apply : BOOLEAN, opt : BOOLEAN]
  BY TypesParts DEF Acts, Sound, WgTypes, WgTypeOK, OpStates, Descriptors, MigTypes, ImpStates
<1>1. CASE Truncate(p)
  <2>1. /\ op[p].pc = "rtrunc" /\ conf' = Torn /\ settled' = FALSE /\ restored' = TRUE
        /\ UNCHANGED <<tmp, strip, last, shared, live, up>>
    BY <1>1 DEF Truncate, RTrunc
  <2>2. Opens(p, "rwrite", "conf") /\ ~Rename(p) /\ ~XRename(p)
    BY <1>0, <1>1, <2>1, OtherSteps DEF Truncate, Rename, XRename
  <2>3. \A q \in Procs : q # p => op'[q].fd = op[q].fd
    BY <1>0, <2>2, FilesStayOpen
  <2>4. Fits(p)'
    BY <2>1, <2>2 DEF Opens, Fits, Expanding, Torn
  <2>5. Heads' /\ NeverTorn' /\ InStep'
    BY <1>0, <2>1 DEF Heads, NeverTorn, InStep, Torn, Whole
  <2> QED BY <1>0, <2>1, <2>2, <2>3, <2>4, <2>5, SoundStep DEF Opens
<1>2. CASE Restore(p)
  <2> DEFINE r == Whole(FALSE, BundleKeys)
  <2>1. /\ op[p].pc = "rwrite" /\ UNCHANGED <<tmp, strip, settled, shared, live, up>>
        /\ IF op[p].fd = "conf" THEN conf' \in Written(conf, r) ELSE conf' = conf
        /\ last' = [last EXCEPT !.wide = conf'.wide]
        /\ restored' = ~op[p].alone
    BY <1>2 DEF Restore, RWrite
  <2>2. Opens(p, "pki", "none") /\ ~Rename(p) /\ ~XRename(p)
    BY <1>0, <1>2, <2>1, OtherSteps DEF Restore, Rename, XRename
  <2>3. \A q \in Procs : q # p => op'[q].fd = op[q].fd
    BY <1>0, <2>2, FilesStayOpen
  <2>4. Fits(p)'
    BY <2>2, EndedFits DEF Opens, Window
  <2>5. conf' \in Contents
    BY <1>0, <1>2, RestoreTypes DEF Restore, WgTypes, WgTypeOK
  <2>6. last' = Whole(last'.wide, last'.peers) /\ last'.wide = conf'.wide /\ last'.peers = last.peers
    BY <1>0, <2>1, <2>5, Widened DEF Contents
  <2>7. Heads'
    BY <1>0, <2>1, <2>6, WrittenFiles DEF Heads
  <2>8. NeverTorn'
    <3>1. CASE op[p].alone
      <4>1. op[p].fd = "conf" /\ conf = Torn
        BY <1>0, <2>1, <3>1 DEF Fits
      <4> QED BY <2>1, <4>1, WrittenFiles DEF NeverTorn, Whole
    <3>2. CASE ~op[p].alone
      BY <2>1, <3>2 DEF NeverTorn
    <3> QED BY <3>1, <3>2
  <2>9. InStep'
    <3> SUFFICES ASSUME settled' PROVE conf' = last' /\ (up' => live' = last'.peers)
      BY DEF InStep
    <3>1. op[p].fd # "conf" /\ settled
      BY <1>0, <2>1 DEF Fits
    <3>2. conf' = conf /\ conf = last /\ (up => live = last.peers)
      BY <1>0, <2>1, <3>1 DEF InStep
    <3>3. last' = Whole(last.wide, last.peers)
      BY <2>6, <3>2
    <3> QED BY <1>0, <2>1, <2>6, <3>2, <3>3 DEF Heads
  <2>10. ASSUME NEW q \in Procs, q # p, op[q].pc \in Expanding PROVE restored'
    <3>1. ~op[p].alone
      BY <1>0, <2>1, <2>10 DEF Alone, Window, Expanding
    <3> QED BY <2>1, <3>1
  <2>11. \A q \in Procs : settled' => op[q].fd # "conf"
    BY <1>0, <2>1 DEF Fits
  <2> QED BY <1>0, <2>1, <2>2, <2>3, <2>4, <2>7, <2>8, <2>9, <2>10, <2>11, SoundStep DEF Opens
<1>3. CASE ~Truncate(p) /\ ~Restore(p)
  <2>1. op[p].pc \notin Window /\ op[p].fd = "none"
    BY <1>0, <1>3 DEF Import, Look, Txn, Params, PWrite, Pki, Save, CcdPeers, CcdFile, Window
  <2>2. live' = live /\ up' = up
    BY <1>3 DEF Import, Look, Txn, Params, PWrite, Pki, Save, CcdPeers, CcdFile
  <2>3. op'[p].fd = "none" /\ (op'[p].pc \notin Window \/ op'[p].pc = "rtrunc")
    <3>1. CASE Look(p) \/ Params(p) \/ Save(p) \/ CcdPeers(p)
      BY <1>0, <2>1, <3>1, OtherSteps DEF Step, Kept, Window
    <3>2. CASE Pki(p) \/ CcdFile(p)
      BY <1>0, <2>1, <3>2, OtherSteps DEF Step, Kept, Ended, Fresh, Window
    <3>3. CASE Txn(p)
      BY <1>0, <3>3, TxnSteps DEF Ended, Fresh, Window
    <3>4. CASE PWrite(p)
      BY <1>0, <2>1, <3>4, EnterSteps DEF Entered
    <3> QED BY <1>3, <3>1, <3>2, <3>3, <3>4 DEF Import
  <2> QED BY <1>0, <2>1, <2>2, <2>3, SoundOutside
<1> QED BY <1>1, <1>2, <1>3

LEMMA NextSound == Types /\ Sound /\ [Next]_vars => Sound'
<1> SUFFICES ASSUME Types, Sound, [Next]_vars PROVE Sound'
  OBVIOUS
<1>0. WgTypes /\ MigTypes
  BY TypesParts
<1>a. ASSUME NEW p \in Procs, Acts(p), NEW pc, pc \notin Window, NEW ks, NEW ls,
             Fresh(p, pc, ks, ls, "idle"), op[p].pc = "idle", live' = live, up' = up
      PROVE  Sound'
  <2>1. op[p].pc \notin Window /\ op'[p].pc \notin Window /\ op'[p].fd = "none"
    BY <1>a DEF Fresh, Window
  <2> QED BY <1>0, <1>a, <2>1, SoundOutside
<1>1. ASSUME NEW p \in Procs, NEW kind \in Kinds, NEW us \in Bundles, StartMigration(p, kind, us)
      PROVE  Sound'
  <2>1. Fresh(p, "look", {}, {}, "idle") /\ "look" \notin Window
    BY <1>0, <1>1, StartSteps DEF Window
  <2>2. Acts(p)
    BY <1>1 DEF Acts
  <2> QED BY <1>1, <1>a, <2>1, <2>2 DEF StartMigration, StartAt
<1>2. ASSUME NEW p \in Procs, NEW k \in Keys, Delete(p, k) PROVE Sound'
  <2>1. Fresh(p, "drop", {k}, {}, "idle") /\ "drop" \notin Window /\ Acts(p)
    BY <1>0, <1>2, StartSteps DEF Delete, Window, Acts
  <2> QED BY <1>2, <1>a, <2>1 DEF Delete, StartDelete, Start, StartAt
<1>3. ASSUME NEW p \in Procs, Import(p) PROVE Sound'
  BY <1>3, ImportSound
<1>4. ASSUME NEW p \in Procs, Begin(p), Disturb, UNCHANGED <<files, ccd, undead>> PROVE Sound'
  <2>1. \E pc \in {"guard", "import", "xread"} : \E ks, ls : Fresh(p, pc, ks, ls, "idle")
    BY <1>0, <1>4, StartSteps DEF Begin
  <2>2. op[p].pc = "idle" /\ live' = live /\ up' = up
    BY <1>4 DEF Begin, StartRender, StartImport, StartExpand, StartCreate, Start, StartAt
  <2>3. Acts(p) /\ "guard" \notin Window /\ "import" \notin Window /\ "xread" \notin Window
    BY <1>4 DEF Acts, Window
  <2> QED BY <1>a, <2>1, <2>2, <2>3
<1>5. ASSUME NEW p \in Procs, Works(p), Forget, UNCHANGED <<files, ccd, undead>> PROVE Sound'
  <2>0. Acts(p)
    BY <1>5 DEF Acts
  <2>1. CASE Render(p)
    BY <2>1, RenderSound
  <2>2. CASE Expand(p)
    BY <2>2, ExpandSound
  <2>3. CASE DropRow(p) \/ ImportOne(p)
    <3>1. op[p].pc \in {"drop", "import"} /\ live' = live /\ up' = up
      BY <2>3 DEF DropRow, ImportOne
    <3>2. op[p].fd = "none"
      BY <1>0, <3>1 DEF WgTypes, Descriptors
    <3>3. op'[p].fd = "none" /\ op'[p].pc \in {"head", "import", "idle"}
      BY <1>0, <2>3, <3>2, Dropped, OtherSteps DEF DropSteps, Ended, Fresh, Step, Kept
    <3> QED BY <1>0, <2>0, <3>1, <3>3, SoundOutside DEF Window
  <2>4. CASE Crash(p)
    <3>1. Ended(p)
      BY <1>0, <2>4, OtherSteps
    <3>2. op'[p].pc = "idle" /\ op'[p].fd = "none" /\ \A q \in Procs : q # p => op'[q] = op[q]
      BY <3>1 DEF Ended, Fresh, Rest
    <3>3. UNCHANGED <<conf, tmp, strip, settled, last, shared, restored, live, up>>
      BY <2>4, Zenon DEF Crash, disk, history
    <3>4. Fits(p)'
      BY <3>2, EndedFits DEF Window
    <3>5. Heads' /\ NeverTorn' /\ InStep'
      BY <3>3 DEF Sound, Heads, NeverTorn, InStep, Whole
    <3>6. \A q \in Procs : settled => op[q].fd # "conf"
      BY DEF Sound, Fits
    <3> QED BY <1>0, <2>0, <3>2, <3>3, <3>4, <3>5, <3>6, SoundStep
  <2> QED BY <1>5, <2>1, <2>2, <2>3, <2>4 DEF Works
<1>6. CASE (IfDown \/ IfUp) /\ UNCHANGED migVars
  <2>1. UNCHANGED <<conf, tmp, strip, op, settled, last, shared, restored>>
    BY <1>6, Zenon DEF IfDown, IfUp, disk, history
  <2>2. Alone' /\ Exclusive' /\ Heads' /\ NeverTorn'
    BY <2>1 DEF Sound, Alone, Exclusive, Heads, NeverTorn, Whole
  <2>3. \A q \in Procs : Fits(q)'
    BY <2>1 DEF Sound, Fits, Torn, Whole
  <2>4. InStep'
    BY <1>6, <2>1 DEF Sound, InStep, IfDown, IfUp
  <2> QED BY <2>2, <2>3, <2>4 DEF Sound
<1>7. CASE UNCHANGED vars
  <2>1. UNCHANGED <<conf, tmp, strip, op, settled, last, shared, restored, live, up>>
    BY <1>7, Zenon DEF vars, wgVars
  <2>2. Alone' /\ Exclusive' /\ Heads' /\ NeverTorn' /\ InStep'
    BY <2>1 DEF Sound, Alone, Exclusive, Heads, NeverTorn, InStep, Whole
  <2>3. \A q \in Procs : Fits(q)'
    BY <2>1 DEF Sound, Fits, Torn, Whole
  <2> QED BY <2>2, <2>3 DEF Sound
<1> QED BY <1>1, <1>2, <1>3, <1>4, <1>5, <1>6, <1>7, Steps

LEMMA InitSound == Init => Sound
<1> SUFFICES ASSUME Init PROVE Sound
  OBVIOUS
<1>1. /\ conf = Whole(FALSE, Foreign \cup Known) /\ tmp = NoFile /\ last = Whole(FALSE, Foreign \cup Known)
      /\ live = Foreign \cup Known
  BY DEF Init, WgInit
<1>2. \A p \in Procs : op[p].pc = "idle" /\ op[p].alone = FALSE /\ op[p].fd = "none"
  BY DEF Init, WgInit, Idle
<1>3. Alone /\ Exclusive
  BY <1>2 DEF Alone, Exclusive
<1>4. Heads /\ NeverTorn /\ InStep
  BY <1>1 DEF Heads, NeverTorn, InStep, Whole
<1>5. \A p \in Procs : Fits(p)
  BY <1>2 DEF Fits, Expanding
<1> QED BY <1>3, <1>4, <1>5 DEF Sound

\* main.go:462-468: the rename makes wg0.conf whole at every moment and after any crash, unless
\* two renders had the temporary file open at once, or a bundle's file is being put in place.
THEOREM ConfWhole == Spec => []NeverTorn
<1>1. Sound => NeverTorn
  BY DEF Sound
<1> QED BY <1>1, InitTypes, InitSound, NextTypes, NextSound, PTL DEF Spec

\* main.go:460-469: what a render that nobody overlapped has left stays, wg0.conf, interface and
\* table that it read in step, until another render renames its file.
THEOREM RenderInStep == Spec => []InStep
<1>1. Sound => InStep
  BY DEF Sound
<1> QED BY <1>1, InitTypes, InitSound, NextTypes, NextSound, PTL DEF Spec

(***************************************************************************)
(* The import that nothing overlaps.                                       *)
(***************************************************************************)
\* What p's import is and carries, but for what is left to write.
SameMigration(p) ==
  /\ imp'[p].kind = imp[p].kind /\ imp'[p].users = imp[p].users /\ imp'[p].wg = imp[p].wg
  /\ imp'[p].ov = imp[p].ov /\ imp'[p].dir = imp[p].dir /\ imp'[p].calm = imp[p].calm

\* A step that begins nothing is one of an operation under way; an import that is calm is alone.
LEMMA Busy ==
  ASSUME WgTypes, MigTypes, Calm, NEW p \in Procs, Import(p) \/ Works(p)
  PROVE  /\ op[p].pc # "idle"
         /\ \A q \in Procs : q # p => ~imp[q].calm /\ op'[q].pc = op[q].pc
<1>1. op[p].pc # "idle"
  <2>1. CASE Import(p)
    BY <2>1 DEF Import, Look, Txn, Params, PWrite, Truncate, RTrunc, Restore, RWrite, Pki, Save, CcdPeers, CcdFile
  <2>2. CASE Works(p)
    <3>1. Render(p) => op[p].pc # "idle"
      BY DEF Render, Guard, WgShow, ReadHead, Peers, Open, Write, Rename, Strip, StripWrite, Sync, Remove
    <3>2. Expand(p) => op[p].pc # "idle"
      BY DEF Expand, XRead, XDb, XShow, XPeers, XRename
    <3> QED BY <2>2, <3>1, <3>2 DEF Works, ImportOne, DropRow, Crash
  <2> QED BY <2>1, <2>2
<1>2. \A q \in Procs : q # p => ~imp[q].calm
  BY <1>1 DEF Calm, Progress
<1>3. \A q \in Procs : q # p => op'[q].pc = op[q].pc
  BY Others DEF Acts, Bystander
<1> QED BY <1>1, <1>2, <1>3

\* What Progress says of a phase before, and of one during or after, the rendering.
LEMMA EarlyProgress ==
  ASSUME NEW p \in Procs, Progress(p), SameMigration(p), \A q \in Procs : q # p => op'[q].pc = op[q].pc,
         op'[p].pc \in {"txn", "params", "pwrite", "rtrunc", "rwrite", "pki", "save", "head"},
         op'[p].pc \in Window => op'[p].alone,
         op'[p].pc = "txn" => op'[p].known = table',
         op'[p].pc # "txn" => \A i \in 1 .. Len(imp[p].users) : imp[p].users[i] \in table',
         imp[p].kind.full =>
           /\ op'[p].pc = "pki" => PkiFiles \ imp'[p].left \subseteq pki'
           /\ op'[p].pc \in {"save", "head"} => pki' = PkiFiles,
         imp[p].kind.full /\ imp[p].kind.opt =>
           /\ op'[p].pc \notin {"txn", "params", "pwrite"} => params' = "opt"
           /\ op'[p].pc = "head" => cfgEnd' = "opt"
  PROVE  Progress(p)'
<1>1. /\ imp'[p].kind = imp[p].kind /\ imp'[p].users = imp[p].users /\ imp'[p].wg = imp[p].wg
      /\ imp'[p].ov = imp[p].ov /\ imp'[p].dir = imp[p].dir
  BY DEF SameMigration
<1>2. /\ \A q \in Procs \ {p} : op'[q].pc = "idle"
      /\ imp[p].kind.full /\ imp[p].kind.opt => imp[p].wg = "opt" /\ imp[p].ov = "opt"
  BY DEF Progress
<1> QED BY <1>1, <1>2 DEF Progress, ImportPcs, Merging, Rendering

LEMMA LateProgress ==
  ASSUME NEW p \in Procs, Progress(p), SameMigration(p), \A q \in Procs : q # p => op'[q].pc = op[q].pc,
         op[p].pc \in {"head", "ccd", "ccds"} \cup Rendering,
         op'[p].pc \in {"ccd", "ccds"} \cup Rendering,
         UNCHANGED <<table, params, cfgEnd, pki>>,
         op'[p].pc \in Window => op'[p].alone,
         op'[p].pc \in {"open", "write", "rename", "strip", "swrite", "sync"} => op'[p].peers = table,
         op'[p].pc \in {"ccd", "ccds"} \/ (op'[p].pc = "rm" /\ op'[p].then = "ccd") =>
           conf'.ok /\ conf'.peers = table /\ (up' => live' = table),
         imp[p].dir /\ op'[p].pc = "ccds" => Names((table \cap OvpnKeys) \ imp'[p].left) \subseteq ccd'
  PROVE  Progress(p)'
<1>1. /\ imp'[p].kind = imp[p].kind /\ imp'[p].users = imp[p].users /\ imp'[p].wg = imp[p].wg
      /\ imp'[p].ov = imp[p].ov /\ imp'[p].dir = imp[p].dir
  BY DEF SameMigration
<1>2. /\ \A q \in Procs \ {p} : op'[q].pc = "idle"
      /\ \A i \in 1 .. Len(imp[p].users) : imp[p].users[i] \in table
  BY DEF Progress, Rendering
<1>3. imp[p].kind.full => pki = PkiFiles
  BY DEF Progress
<1>4. imp[p].kind.full /\ imp[p].kind.opt =>
        imp[p].wg = "opt" /\ imp[p].ov = "opt" /\ params = "opt" /\ cfgEnd = "opt"
  BY DEF Progress, Rendering
<1>5. op'[p].pc \in ImportPcs /\ op'[p].pc \notin {"look", "txn", "pki", "save", "params", "pwrite"}
  BY DEF ImportPcs, Merging, Rendering
<1>6. \A ks : Names((table' \cap OvpnKeys) \ ks) = Names((table \cap OvpnKeys) \ ks)
  OBVIOUS
<1> QED BY <1>1, <1>2, <1>3, <1>4, <1>5, <1>6 DEF Progress, Names

\* It is enough to look at who takes the step.
LEMMA CalmStep ==
  ASSUME WgTypes, MigTypes, Calm, NEW p \in Procs, Import(p) \/ Works(p),
         \A q \in Procs : q # p => imp'[q] = imp[q] \/ imp'[q] = NoImport,
         op'[p].pc = "idle" => imp'[p] = NoImport,
         imp'[p].calm => Progress(p)'
  PROVE  Calm'
<1>1. \A q \in Procs : q # p => ~imp[q].calm /\ op'[q].pc = op[q].pc
  BY Busy
<1>2. ~NoImport.calm
  BY DEF NoImport
<1>3. ASSUME NEW q \in Procs, q # p PROVE (op'[q].pc = "idle" => imp'[q] = NoImport) /\ ~imp'[q].calm
  BY <1>1, <1>2, <1>3 DEF Calm
<1> QED BY <1>3 DEF Calm

\* A step that forgets what has ended.
LEMMA CalmForgets ==
  ASSUME WgTypes, MigTypes, Calm, NEW p \in Procs, Import(p) \/ Works(p), Forget,
         Progress(p) /\ imp'[p] = imp[p] /\ SameMigration(p) /\ op'[p].pc # "idle" => Progress(p)'
  PROVE  Calm'
<1>1. \A q \in Procs : imp'[q] = IF op'[q].pc = "idle" THEN NoImport ELSE imp[q]
  BY ForgetTypes DEF MigTypes
<1>2. ~NoImport.calm
  BY DEF NoImport
<1>3. ASSUME imp'[p].calm PROVE Progress(p)'
  <2>1. op'[p].pc # "idle" /\ imp'[p] = imp[p]
    BY <1>1, <1>2, <1>3
  <2>2. Progress(p) /\ SameMigration(p)
    BY <1>3, <2>1 DEF Calm, SameMigration
  <2> QED BY <2>1, <2>2
<1> QED BY <1>1, <1>3, CalmStep

\* A step that knows what is left to write, or as much as before.
LEMMA CalmLeaves ==
  ASSUME WgTypes, MigTypes, Calm, NEW p \in Procs, Import(p), op'[p].pc # "idle",
         imp' = imp \/ \E s : Leaves(p, s),
         Progress(p) /\ SameMigration(p) => Progress(p)'
  PROVE  Calm'
<1>1. SameMigration(p) /\ \A q \in Procs : q # p => imp'[q] = imp[q]
  BY DEF SameMigration, Leaves
<1>2. imp'[p].calm => Progress(p)'
  BY <1>1 DEF SameMigration, Calm
<1> QED BY <1>1, <1>2, CalmStep

\* Which file has been written, or that none is left.
LEMMA PkiSteps ==
  ASSUME Types, NEW p \in Procs, Pki(p)
  PROVE  \/ \E f \in imp[p].left : /\ pki' = pki \cup {f} /\ op' = op
                                   /\ Leaves(p, imp[p].left \ {f})
         \/ /\ imp[p].left = {} /\ pki' = pki /\ Forget
            /\ Step(p, "save", op[p].known, op[p].peers) \/ Ended(p)
<1>0. /\ WgTypes /\ imp \in [Procs -> ImpStates] /\ imp[p].left \in SUBSET (Keys \cup PkiFiles)
      /\ op[p].pc = "pki" /\ "save" \in Pcs /\ {} \in SUBSET Keys
  BY TypesParts DEF MigTypes, ImpStates, Pki, Pcs
<1>1. CASE \E f \in imp[p].left : pki' = pki \cup {f} /\ imp' = [imp EXCEPT ![p].left = @ \ {f}] /\ op' = op
  <2>1. PICK f \in imp[p].left : pki' = pki \cup {f} /\ imp' = [imp EXCEPT ![p].left = @ \ {f}] /\ op' = op
    BY <1>1, Zenon
  <2> DEFINE s == imp[p].left \ {f}
  <2>2. imp' = [imp EXCEPT ![p].left = s]
    BY <2>1, Zenon
  <2>3. s \in SUBSET (Keys \cup PkiFiles)
    BY <1>0
  <2>4. Leaves(p, s)
    <3> HIDE DEF s
    <3> QED BY <1>0, <2>2, <2>3, LeavesTypes
  <2> QED BY <2>1, <2>4
<1>2. CASE imp[p].left = {} /\ pki' = pki /\ Forget /\ (Goto(p, "save") \/ Finish(p))
  <2>1. Goto(p, "save") => Step(p, "save", op[p].known, op[p].peers)
    BY <1>0, Stepped DEF Goto
  <2>2. Finish(p) => Ended(p)
    BY <1>0, Renewed DEF Finish
  <2> QED BY <1>2, <2>1, <2>2
<1> QED BY <1>1, <1>2, Zenon DEF Pki

LEMMA CcdSteps ==
  ASSUME Types, NEW p \in Procs, CcdFile(p)
  PROVE  \/ \E k \in imp[p].left : /\ ccd' = ccd \cup {NameOf[k]} /\ op' = op
                                   /\ Leaves(p, imp[p].left \ {k})
         \/ Ended(p) /\ Forget
<1>0. /\ WgTypes /\ imp \in [Procs -> ImpStates] /\ imp[p].left \in SUBSET (Keys \cup PkiFiles)
      /\ {} \in SUBSET Keys /\ "idle" \in Pcs
  BY TypesParts DEF MigTypes, ImpStates, Pcs
<1>1. CASE \E k \in imp[p].left :
             ccd' = ccd \cup {NameOf[k]} /\ imp' = [imp EXCEPT ![p].left = @ \ {k}] /\ op' = op
  <2>1. PICK k \in imp[p].left :
             ccd' = ccd \cup {NameOf[k]} /\ imp' = [imp EXCEPT ![p].left = @ \ {k}] /\ op' = op
    BY <1>1, Zenon
  <2> DEFINE s == imp[p].left \ {k}
  <2>2. imp' = [imp EXCEPT ![p].left = s]
    BY <2>1, Zenon
  <2>3. s \in SUBSET (Keys \cup PkiFiles)
    BY <1>0
  <2>4. Leaves(p, s)
    <3> HIDE DEF s
    <3> QED BY <1>0, <2>2, <2>3, LeavesTypes
  <2> QED BY <2>1, <2>4
<1>2. CASE Finish(p) /\ Forget
  BY <1>0, <1>2, Renewed DEF Finish
<1> QED BY <1>1, <1>2, Zenon DEF CcdFile

LEMMA WorkCalm ==
  ASSUME Types, Sound, Calm, NEW p \in Procs, Works(p), Forget, UNCHANGED <<files, ccd, undead>>
  PROVE  Calm'
<1>0. /\ WgTypes /\ MigTypes /\ Fits(p) /\ conf \in Contents /\ op[p].then \in {"idle", "ccd"}
      /\ \A q \in Procs : q # p => op'[q].pc = op[q].pc
      /\ UNCHANGED <<params, cfgEnd, pki, ccd>>
  BY TypesParts, Busy DEF Sound, WgTypes, WgTypeOK, OpStates, files
<1> SUFFICES ASSUME Progress(p), imp'[p] = imp[p], SameMigration(p), op'[p].pc # "idle"
             PROVE  Progress(p)'
  BY <1>0, CalmForgets
<1>1. /\ \A q \in Procs \ {p} : op[q].pc = "idle"
      /\ op[p].pc \in Window => op[p].alone
      /\ op[p].pc \in {"open", "write", "rename", "strip", "swrite", "sync"} => op[p].peers = table
      /\ op[p].pc = "rm" /\ op[p].then = "ccd" => conf.ok /\ conf.peers = table /\ (up => live = table)
      /\ op[p].pc \in ImportPcs
  BY DEF Progress
<1>2. ~Ended(p)
  BY DEF Ended, Fresh
<1>3. op[p].pc \in {"head"} \cup Rendering /\ Render(p)
  <2>1. ~Crash(p)
    BY <1>0, <1>2, OtherSteps
  <2>2. ~ImportOne(p) /\ ~DropRow(p) /\ ~Expand(p) /\ ~Guard(p) /\ ~WgShow(p)
    BY <1>1 DEF ImportOne, DropRow, Expand, XRead, XDb, XShow, XPeers, XRename, Guard, WgShow,
                ImportPcs, Merging, Rendering
  <2>3. Render(p)
    BY <2>1, <2>2 DEF Works
  <2>4. op[p].pc \in {"head"} \cup Rendering
    BY <2>2, <2>3 DEF Render, ReadHead, Peers, Open, Write, Rename, Strip, StripWrite, Sync, Remove, Rendering
  <2> QED BY <2>3, <2>4
<1> DEFINE pc == op'[p].pc
<1>4. ASSUME UNCHANGED table, pc \in {"ccd"} \cup Rendering, pc \in Window => op'[p].alone,
             pc \in {"open", "write", "rename", "strip", "swrite", "sync"} => op'[p].peers = table,
             pc = "ccd" \/ (pc = "rm" /\ op'[p].then = "ccd") =>
               conf'.ok /\ conf'.peers = table /\ (up' => live' = table)
      PROVE  Progress(p)'
  BY <1>0, <1>3, <1>4, LateProgress DEF Rendering
<1>5. CASE ReadHead(p)
  <2>1. Entered(p, "peers", op[p].ok, conf.wide, op[p].peers)
    BY <1>0, <1>2, <1>5, EnterSteps
  <2>2. pc = "peers" /\ op'[p].alone
    BY <1>1, <2>1 DEF Entered, Window
  <2> QED BY <1>4, <1>5, <2>2 DEF ReadHead, Rendering
<1>6. CASE Peers(p)
  <2>1. Step(p, "open", op[p].known, table)
    BY <1>0, <1>6, RenderSteps
  <2>2. op[p].alone
    BY <1>1, <1>6 DEF Peers, Window
  <2>3. pc = "open" /\ op'[p].alone /\ op'[p].peers = table
    BY <2>1, <2>2 DEF Step, Kept
  <2> QED BY <1>4, <1>6, <2>3 DEF Peers, Rendering
<1>7. CASE Open(p) \/ Write(p)
  <2>1. pc \in {"write", "rename"} /\ op'[p].alone /\ op'[p].peers = table
    BY <1>0, <1>1, <1>7, RenderSteps DEF Open, Write, Opens, Window
  <2>2. UNCHANGED table
    BY <1>7 DEF Open, Write
  <2> QED BY <1>4, <2>1, <2>2 DEF Rendering
<1>8. CASE Rename(p)
  <2>1. pc = "strip" /\ op'[p].alone /\ op'[p].peers = table
    BY <1>0, <1>1, <1>2, <1>8, RenameSteps DEF Rename, Window
  <2> QED BY <1>4, <1>8, <2>1 DEF Rename, Rendering
<1>9. CASE Strip(p)
  <2>1. conf.peers = table /\ op[p].alone
    BY <1>0, <1>1, <1>9 DEF Strip, Fits, Whole, Window
  <2>2. pc = "swrite" /\ op'[p].alone /\ op'[p].peers = table
    BY <1>0, <1>2, <1>9, <2>1, RenderSteps DEF Step, Kept
  <2> QED BY <1>4, <1>9, <2>2 DEF Strip, Rendering
<1>10. CASE StripWrite(p)
  <2>1. pc = "sync" /\ op'[p].alone /\ op'[p].peers = table
    BY <1>0, <1>1, <1>10, RenderSteps DEF StripWrite, Step, Kept, Window
  <2> QED BY <1>4, <1>10, <2>1 DEF StripWrite, Rendering
<1>11. CASE Sync(p)
  <2>1. conf.ok /\ conf.peers = table /\ strip = table /\ op[p].alone
    BY <1>0, <1>1, <1>11 DEF Sync, Fits, Whole, Window
  <2>2. pc = "rm" /\ op'[p].alone
    BY <1>0, <1>11, <2>1, RenderSteps DEF Step, Kept, Unsynced
  <2>3. UNCHANGED <<table, conf, up>>
    BY <1>11, Zenon DEF Sync, disk
  <2>4. CASE up /\ strip # NoFile
    <3>1. live' = table
      BY <1>11, <2>1, <2>4 DEF Sync
    <3> QED BY <1>4, <2>1, <2>2, <2>3, <3>1 DEF Rendering
  <2>5. CASE ~(up /\ strip # NoFile)
    <3>1. op' = [op EXCEPT ![p] = [@ EXCEPT !.pc = "rm", !.then = "idle"]]
      BY <1>11, <2>5 DEF Sync
    <3>2. op'[p].then = "idle"
      BY <1>0, <3>1 DEF WgTypes, WgTypeOK, OpStates
    <3> QED BY <1>4, <2>2, <2>3, <3>2 DEF Rendering
  <2> QED BY <2>4, <2>5
<1>12. CASE Remove(p)
  <2>1. op[p].pc = "rm" /\ UNCHANGED <<table, conf, live, up>>
    BY <1>12, Zenon DEF Remove
  <2>2. Fresh(p, op[p].then, {}, {}, "idle")
    BY <1>0, <1>12, RenderSteps
  <2>3. pc = "ccd" /\ op[p].then = "ccd"
    BY <1>0, <2>2 DEF Fresh
  <2> QED BY <1>1, <1>4, <2>1, <2>3 DEF Window
<1>13. ~Guard(p) /\ ~WgShow(p)
  BY <1>3 DEF Guard, WgShow, Rendering
<1> QED BY <1>3, <1>5, <1>6, <1>7, <1>8, <1>9, <1>10, <1>11, <1>12, <1>13 DEF Render

LEMMA ImportCalm ==
  ASSUME Types, Sound, Calm, NEW p \in Procs, Import(p)
  PROVE  Calm'
<1>0. /\ WgTypes /\ MigTypes /\ imp[p].left \in SUBSET (Keys \cup PkiFiles)
      /\ imp[p].kind \in [full : BOOLEAN, apply : BOOLEAN, opt : BOOLEAN]
      /\ \A q \in Procs : q # p => op'[q].pc = op[q].pc
      /\ op[p].pc # "idle" /\ pki \subseteq PkiFiles /\ imp \in [Procs -> ImpStates]
  BY TypesParts, Busy DEF MigTypes, ImpStates
<1>b. OvpnKeys \subseteq Keys
  BY WgConfAssumption, MigrationAssumption
<1> DEFINE pc == op'[p].pc
<1> DEFINE full == imp[p].kind.full
<1> DEFINE opt == imp[p].kind.full /\ imp[p].kind.opt
<1>a. Progress(p) => /\ \A q \in Procs \ {p} : op[q].pc = "idle"
                     /\ opt => imp[p].wg = "opt" /\ imp[p].ov = "opt"
  BY DEF Progress
<1>1. CASE Look(p)
  <2>1. Step(p, "txn", table, op[p].peers) /\ UNCHANGED <<table, imp>>
    BY <1>0, <1>1, OtherSteps DEF Look, migVars
  <2>2. pc = "txn" /\ op'[p].known = table' /\ "txn" \notin Window
    BY <2>1 DEF Step, Window
  <2>3. ASSUME Progress(p), SameMigration(p) PROVE Progress(p)'
    BY <1>0, <2>2, <2>3, EarlyProgress
  <2> QED BY <1>0, <1>1, <2>1, <2>2, <2>3, CalmLeaves
<1>2. CASE Txn(p)
  <2> DEFINE m == Merge(imp[p].users, op[p].known)
  <2>1. \/ Ended(p)
        \/ m.ok /\ full /\ Fresh(p, "params", {}, {}, "ccd")
        \/ m.ok /\ ~full /\ Fresh(p, "head", {}, {}, "ccd")
    BY <1>0, <1>2, TxnSteps
  <2>2. ASSUME Progress(p), SameMigration(p), pc # "idle" PROVE Progress(p)'
    <3>1. op[p].known = table
      BY <1>2, <2>2 DEF Txn, Progress
    <3>2. m.ok
      BY <2>1, <2>2 DEF Ended, Fresh
    <3>3. \A i \in 1 .. Len(imp[p].users) : imp[p].users[i] \in m.rows
      BY <1>0, <3>1, <3>2, MergeTypes
    <3>4. table' = m.rows
      BY <1>2, <3>2 DEF Txn
    <3>5. pc = "params" \/ (pc = "head" /\ ~full)
      BY <2>1, <2>2 DEF Ended, Fresh
    <3>6. pc \notin Window
      BY <3>5 DEF Window
    <3>7. \A i \in 1 .. Len(imp[p].users) : imp[p].users[i] \in table'
      BY <3>3, <3>4
    <3> HIDE DEF m
    <3> QED BY <1>0, <2>2, <3>5, <3>6, <3>7, EarlyProgress
  <2> QED BY <1>0, <1>2, <2>2, CalmForgets DEF Txn
<1>3. CASE Params(p)
  <2>1. Step(p, "pwrite", op[p].known, op[p].peers) /\ UNCHANGED <<table, imp>> /\ op[p].pc = "params"
    BY <1>0, <1>3, OtherSteps DEF Params
  <2>2. pc = "pwrite" /\ "pwrite" \notin Window
    BY <2>1 DEF Step, Window
  <2>3. ASSUME Progress(p), SameMigration(p) PROVE Progress(p)'
    <3>1. \A i \in 1 .. Len(imp[p].users) : imp[p].users[i] \in table'
      BY <2>1, <2>3 DEF Progress
    <3> QED BY <1>0, <2>2, <2>3, <3>1, EarlyProgress
  <2> QED BY <1>0, <1>3, <2>1, <2>2, <2>3, CalmLeaves
<1>4. CASE PWrite(p)
  <2>1. /\ Entered(p, "rtrunc", op[p].ok, op[p].wide, op[p].peers)
        /\ UNCHANGED <<table, imp>> /\ op[p].pc = "pwrite"
        /\ params' = IF imp[p].wg # "" THEN imp[p].wg ELSE "src"
    BY <1>0, <1>4, EnterSteps DEF PWrite
  <2>2. pc = "rtrunc"
    BY <2>1 DEF Entered
  <2>3. ASSUME Progress(p), SameMigration(p) PROVE Progress(p)'
    <3>1. \A i \in 1 .. Len(imp[p].users) : imp[p].users[i] \in table'
      BY <2>1, <2>3 DEF Progress
    <3>2. op'[p].alone
      BY <1>a, <2>1, <2>3 DEF Entered, Window
    <3>3. opt => params' = "opt"
      BY <1>a, <2>1, <2>3
    <3> QED BY <1>0, <2>2, <2>3, <3>1, <3>2, <3>3, EarlyProgress
  <2> QED BY <1>0, <1>4, <2>1, <2>2, <2>3, CalmLeaves
<1>5. CASE Truncate(p)
  <2>1. Opens(p, "rwrite", "conf") /\ UNCHANGED <<table, imp, params>> /\ op[p].pc = "rtrunc"
    BY <1>0, <1>5, OtherSteps DEF Truncate, RTrunc, migVars
  <2>2. pc = "rwrite"
    BY <2>1 DEF Opens
  <2>3. ASSUME Progress(p), SameMigration(p) PROVE Progress(p)'
    <3>1. /\ \A i \in 1 .. Len(imp[p].users) : imp[p].users[i] \in table'
          /\ opt => params' = "opt"
      BY <2>1, <2>3 DEF Progress
    <3>2. op[p].alone
      BY <2>1, <2>3 DEF Progress, Window
    <3>3. op'[p].alone
      BY <2>1, <3>2 DEF Opens
    <3> QED BY <1>0, <2>2, <2>3, <3>1, <3>3, EarlyProgress
  <2> QED BY <1>0, <1>5, <2>1, <2>2, <2>3, CalmLeaves
<1>6. CASE Restore(p)
  <2>1. Opens(p, "pki", "none") /\ UNCHANGED <<table, params>> /\ op[p].pc = "rwrite"
    BY <1>0, <1>6, OtherSteps DEF Restore, RWrite, files
  <2>2. pc = "pki" /\ "pki" \notin Window
    BY <2>1 DEF Opens, Window
  <2>3. Leaves(p, PkiFiles)
    BY <1>0, <1>6, LeavesTypes DEF Restore
  <2>4. ASSUME Progress(p), SameMigration(p) PROVE Progress(p)'
    <3>1. /\ \A i \in 1 .. Len(imp[p].users) : imp[p].users[i] \in table'
          /\ opt => params' = "opt"
      BY <2>1, <2>4 DEF Progress
    <3>2. PkiFiles \ imp'[p].left \subseteq pki'
      BY <2>3 DEF Leaves
    <3> QED BY <1>0, <2>2, <2>4, <3>1, <3>2, EarlyProgress
  <2> QED BY <1>0, <1>6, <2>2, <2>3, <2>4, CalmLeaves
<1>7. CASE Pki(p)
  <2>0. op[p].pc = "pki" /\ UNCHANGED <<table, params>>
    BY <1>7, Zenon DEF Pki
  <2>a. Progress(p) => /\ \A i \in 1 .. Len(imp[p].users) : imp[p].users[i] \in table'
                       /\ opt => params' = "opt"
                       /\ full => PkiFiles \ imp[p].left \subseteq pki
    BY <2>0 DEF Progress
  <2>1. ASSUME NEW f \in imp[p].left, pki' = pki \cup {f}, op' = op, Leaves(p, imp[p].left \ {f})
        PROVE  Calm'
    <3>1. pc = "pki" /\ "pki" \notin Window
      BY <2>0, <2>1 DEF Window
    <3>2. ASSUME Progress(p), SameMigration(p) PROVE Progress(p)'
      <4>1. full => PkiFiles \ imp'[p].left \subseteq pki'
        BY <2>a, <2>1, <3>2 DEF Leaves
      <4> QED BY <1>0, <2>a, <3>1, <3>2, <4>1, EarlyProgress
    <3> QED BY <1>0, <1>7, <2>1, <3>1, <3>2, CalmLeaves
  <2>2. ASSUME imp[p].left = {}, pki' = pki, Forget,
               Step(p, "save", op[p].known, op[p].peers) \/ Ended(p)
        PROVE  Calm'
    <3>1. ASSUME Progress(p), SameMigration(p), pc # "idle" PROVE Progress(p)'
      <4>1. pc = "save" /\ "save" \notin Window
        BY <2>2, <3>1 DEF Step, Ended, Fresh, Window
      <4>2. full => pki' = PkiFiles
        BY <1>0, <2>a, <2>2, <3>1
      <4> QED BY <1>0, <2>a, <3>1, <4>1, <4>2, EarlyProgress
    <3> QED BY <1>0, <1>7, <2>2, <3>1, CalmForgets
  <2> QED BY <1>7, <2>1, <2>2, PkiSteps
<1>8. CASE Save(p)
  <2>1. /\ Step(p, "head", op[p].known, op[p].peers) /\ UNCHANGED <<table, imp, params, pki>>
        /\ op[p].pc = "save" /\ cfgEnd' = imp[p].ov
    BY <1>0, <1>8, OtherSteps DEF Save
  <2>2. pc = "head" /\ "head" \notin Window
    BY <2>1 DEF Step, Window
  <2>3. ASSUME Progress(p), SameMigration(p) PROVE Progress(p)'
    <3>1. /\ \A i \in 1 .. Len(imp[p].users) : imp[p].users[i] \in table'
          /\ opt => params' = "opt" /\ cfgEnd' = "opt"
          /\ full => pki' = PkiFiles
      BY <1>a, <2>1, <2>3 DEF Progress
    <3> QED BY <1>0, <2>2, <2>3, <3>1, EarlyProgress
  <2> QED BY <1>0, <1>8, <2>1, <2>2, <2>3, CalmLeaves
<1>9. CASE CcdPeers(p)
  <2>1. /\ Step(p, "ccds", op[p].known, op[p].peers) /\ op[p].pc = "ccd"
        /\ UNCHANGED <<table, params, cfgEnd, pki, conf, live, up>>
    BY <1>0, <1>9, OtherSteps DEF CcdPeers, files, disk
  <2>2. pc = "ccds" /\ pc \notin Window
    BY <2>1 DEF Step, Window
  <2>3. Leaves(p, IF imp[p].dir THEN table \cap OvpnKeys ELSE {})
    <3> DEFINE s == IF imp[p].dir THEN table \cap OvpnKeys ELSE {}
    <3>1. imp' = [imp EXCEPT ![p].left = s]
      BY <1>9 DEF CcdPeers
    <3>2. s \in SUBSET (Keys \cup PkiFiles)
      BY <1>b
    <3>3. Leaves(p, s)
      <4> HIDE DEF s
      <4> QED BY <1>0, <3>1, <3>2, LeavesTypes
    <3> QED BY <3>3
  <2>4. ASSUME Progress(p), SameMigration(p) PROVE Progress(p)'
    <3>1. conf'.ok /\ conf'.peers = table /\ (up' => live' = table)
      BY <2>1, <2>4 DEF Progress
    <3>2. imp[p].dir => Names((table \cap OvpnKeys) \ imp'[p].left) \subseteq ccd'
      BY <2>3 DEF Leaves, Names
    <3> QED BY <1>0, <2>1, <2>2, <2>4, <3>1, <3>2, LateProgress
  <2> QED BY <1>0, <1>9, <2>2, <2>3, <2>4, CalmLeaves
<1>10. CASE CcdFile(p)
  <2>0. op[p].pc = "ccds" /\ UNCHANGED <<table, params, cfgEnd, pki, conf, live, up>>
    BY <1>10, Zenon DEF CcdFile, files, disk
  <2>1. ASSUME NEW k \in imp[p].left, ccd' = ccd \cup {NameOf[k]}, op' = op, Leaves(p, imp[p].left \ {k})
        PROVE  Calm'
    <3>1. pc = "ccds" /\ pc \notin Window
      BY <2>0, <2>1 DEF Window
    <3>2. ASSUME Progress(p), SameMigration(p) PROVE Progress(p)'
      <4>1. /\ conf'.ok /\ conf'.peers = table /\ (up' => live' = table)
            /\ imp[p].dir => Names((table \cap OvpnKeys) \ imp[p].left) \subseteq ccd
        BY <2>0, <3>2 DEF Progress
      <4>2. imp[p].dir => Names((table \cap OvpnKeys) \ imp'[p].left) \subseteq ccd'
        <5>1. imp'[p].left = imp[p].left \ {k}
          BY <2>1 DEF Leaves
        <5> QED BY <2>1, <4>1, <5>1 DEF Names
      <4> QED BY <1>0, <2>0, <3>1, <3>2, <4>1, <4>2, LateProgress
    <3> QED BY <1>0, <1>10, <2>1, <3>1, <3>2, CalmLeaves
  <2>2. CASE Ended(p) /\ Forget
    BY <1>0, <1>10, <2>2, CalmForgets DEF Ended, Fresh
  <2> QED BY <1>10, <2>1, <2>2, CcdSteps
<1> QED BY <1>1, <1>2, <1>3, <1>4, <1>5, <1>6, <1>7, <1>8, <1>9, <1>10 DEF Import

\* Whoever begins takes the calm from all others.
LEMMA StartCalm ==
  ASSUME WgTypes, Calm, NEW p \in Procs, op'[p].pc # "idle",
         \A q \in Procs : q # p => op'[q].pc = op[q].pc /\ imp'[q] = [imp[q] EXCEPT !.calm = FALSE],
         MigTypes, imp'[p].calm => Progress(p)'
  PROVE  Calm'
<1>1. \A q \in Procs : imp[q] \in ImpStates
  BY DEF MigTypes
<1>2. ASSUME NEW q \in Procs, q # p PROVE (op'[q].pc = "idle" => imp'[q] = NoImport) /\ ~imp'[q].calm
  <2>1. ~imp'[q].calm
    BY <1>1, <1>2 DEF ImpStates
  <2>2. [NoImport EXCEPT !.calm = FALSE] = NoImport
    <3>1. NoImport \in ImpStates /\ NoImport.calm = FALSE
      BY NoImportType DEF NoImport
    <3> QED BY <3>1 DEF ImpStates
  <2>3. op'[q].pc = "idle" => imp[q] = NoImport
    BY <1>2 DEF Calm
  <2> QED BY <1>2, <2>1, <2>2, <2>3
<1> QED BY <1>2 DEF Calm

LEMMA MigrationStartCalm ==
  ASSUME Types, Calm, NEW p \in Procs, NEW kind \in Kinds, NEW us \in Bundles, StartMigration(p, kind, us)
  PROVE  Calm'
<1>0. WgTypes /\ MigTypes
  BY TypesParts
<1>1. Fresh(p, "look", {}, {}, "idle")
  BY <1>0, StartSteps
<1>2. op'[p].pc = "look" /\ \A q \in Procs : q # p => op'[q] = op[q]
  BY <1>1 DEF Fresh, Rest
<1>3. PICK c \in cfgs :
        LET end == IF params = "blank" THEN "" ELSE params
            d == ApplyBundleConfig(Destination(kind.opt, end, c))
        IN
        imp' = [q \in Procs |->
          IF q = p THEN [kind |-> kind, users |-> us, wg |-> IF kind.full THEN d.wg ELSE "",
                         ov |-> IF kind.full THEN d.ov ELSE "",
                         dir |-> kind.full \/ DirKnown(c), left |-> {},
                         calm |-> \A o \in Procs \ {p} : op[o].pc = "idle"]
          ELSE [imp[q] EXCEPT !.calm = FALSE]]
  BY Zenon DEF StartMigration
<1> DEFINE end == IF params = "blank" THEN "" ELSE params
<1> DEFINE dest == Destination(kind.opt, end, c)
<1> DEFINE d == ApplyBundleConfig(dest)
<1> DEFINE calm == \A o \in Procs \ {p} : op[o].pc = "idle"
<1> DEFINE r == [kind |-> kind, users |-> us, wg |-> IF kind.full THEN d.wg ELSE "",
                 ov |-> IF kind.full THEN d.ov ELSE "",
                 dir |-> kind.full \/ DirKnown(c), left |-> {}, calm |-> calm]
<1>4. imp'[p] = r /\ \A q \in Procs : q # p => imp'[q] = [imp[q] EXCEPT !.calm = FALSE]
  BY <1>3
<1>5. kind.opt => d.wg = "opt" /\ d.ov = "opt"
  <2> SUFFICES ASSUME kind.opt PROVE d.wg = "opt" /\ d.ov = "opt"
    OBVIOUS
  <2>1. dest = [wg |-> "opt", ov |-> "opt"]
    BY DEF Destination
  <2>2. d = [dest EXCEPT !.ov = IF dest.ov = "" THEN "src" ELSE dest.ov]
    BY DEF ApplyBundleConfig
  <2> HIDE DEF dest, d
  <2>3. d = [dest EXCEPT !.ov = "opt"] /\ dest.wg = "opt"
    BY <2>1, <2>2
  <2> QED BY <2>1, <2>3
<1>6. r.kind = kind /\ (r.calm => calm) /\ (kind.full /\ kind.opt => r.wg = "opt" /\ r.ov = "opt")
  <2> HIDE DEF d, calm
  <2> QED BY <1>5
<1>7. ASSUME imp'[p].calm PROVE Progress(p)'
  <2>1. \A q \in Procs \ {p} : op'[q].pc = "idle"
    <3>1. r.calm
      BY <1>4, <1>7, Zenon
    <3>2. calm
      BY <1>6, <3>1, Zenon
    <3> QED BY <1>2, <3>2
  <2>2. imp'[p].kind.full /\ imp'[p].kind.opt => imp'[p].wg = "opt" /\ imp'[p].ov = "opt"
    <3> HIDE DEF r
    <3> QED BY <1>4, <1>6
  <2> QED BY <1>2, <2>1, <2>2 DEF Progress, ImportPcs, Merging, Rendering, Window
<1> QED BY <1>0, <1>2, <1>4, <1>7, StartCalm

LEMMA NextCalm == Types /\ Sound /\ Calm /\ [Next]_vars => Calm'
<1> SUFFICES ASSUME Types, Sound, Calm, [Next]_vars PROVE Calm'
  OBVIOUS
<1>0. WgTypes /\ MigTypes
  BY TypesParts
<1>a. ASSUME NEW p \in Procs, Disturb, NEW pc, pc # "idle", NEW ks, NEW ls, Fresh(p, pc, ks, ls, "idle")
      PROVE  Calm'
  <2>1. \A q \in Procs : imp'[q] = [imp[q] EXCEPT !.calm = FALSE]
    BY <1>a DEF Disturb
  <2>2. ~imp'[p].calm
    BY <1>0, <1>a, DisturbTypes DEF MigTypes
  <2>3. op'[p].pc # "idle" /\ \A q \in Procs : q # p => op'[q].pc = op[q].pc
    BY <1>a DEF Fresh, Rest
  <2> QED BY <1>0, <2>1, <2>2, <2>3, StartCalm
<1>1. ASSUME NEW p \in Procs, NEW kind \in Kinds, NEW us \in Bundles, StartMigration(p, kind, us)
      PROVE  Calm'
  BY <1>1, MigrationStartCalm
<1>2. ASSUME NEW p \in Procs, NEW k \in Keys, Delete(p, k) PROVE Calm'
  BY <1>0, <1>2, <1>a, StartSteps DEF Delete
<1>3. ASSUME NEW p \in Procs, Import(p) PROVE Calm'
  BY <1>3, ImportCalm
<1>4. ASSUME NEW p \in Procs, Begin(p), Disturb PROVE Calm'
  <2>1. \E pc \in {"guard", "import", "xread"} : \E ks, ls : Fresh(p, pc, ks, ls, "idle")
    BY <1>0, <1>4, StartSteps DEF Begin
  <2> QED BY <1>4, <1>a, <2>1
<1>5. ASSUME NEW p \in Procs, Works(p), Forget, UNCHANGED <<files, ccd, undead>> PROVE Calm'
  BY <1>5, WorkCalm
<1>6. CASE (IfDown \/ IfUp) /\ UNCHANGED migVars
  <2>1. UNCHANGED <<table, conf, op, imp, ccd, params, cfgEnd, pki>>
    BY <1>6, Zenon DEF IfDown, IfUp, disk, migVars
  <2>2. \/ up' = FALSE
        \/ up' = TRUE /\ live' = conf.peers
    BY <1>6 DEF IfDown, IfUp
  <2>3. ASSUME NEW p \in Procs, Progress(p) PROVE Progress(p)'
    BY <2>1, <2>2, <2>3 DEF Progress, Names
  <2> QED BY <2>1, <2>3 DEF Calm
<1>7. CASE UNCHANGED vars
  <2>1. UNCHANGED <<table, conf, op, imp, ccd, params, cfgEnd, pki, up, live>>
    BY <1>7, Zenon DEF vars, wgVars, migVars
  <2>2. ASSUME NEW p \in Procs, Progress(p) PROVE Progress(p)'
    BY <2>1, <2>2 DEF Progress, Names
  <2> QED BY <2>1, <2>2 DEF Calm
<1> QED BY <1>1, <1>2, <1>3, <1>4, <1>5, <1>6, <1>7, Steps

\* migration.go:612-632: an import that nothing overlapped and that came to its end has put
\* everything in place, whatever crashed imports and renders left behind; the CCD files where
\* its configuration names the OpenVPN directory, as a bundle's does.
THEOREM ImportInPlace == Spec => []ImportComplete
<1>1. ASSUME Init PROVE Calm
  <2>1. \A p \in Procs : imp[p] = NoImport /\ ~NoImport.calm
    BY <1>1 DEF Init, NoImport
  <2> QED BY <2>1 DEF Calm
<1>2. ASSUME Types, Calm PROVE ImportComplete
  <2> SUFFICES ASSUME NEW p \in Procs, op[p].pc = "ccds", imp[p].left = {}, imp[p].calm
               PROVE  /\ \A i \in 1 .. Len(imp[p].users) : imp[p].users[i] \in table
                      /\ conf.ok /\ conf.peers = table /\ (up => live = table)
                      /\ imp[p].dir => Names(table \cap OvpnKeys) \subseteq ccd
                      /\ imp[p].kind.full =>
                           /\ pki = PkiFiles
                           /\ imp[p].kind.opt => params = "opt" /\ cfgEnd = "opt"
    BY DEF ImportComplete
  <2>1. Progress(p)
    BY <1>2 DEF Calm
  <2>2. imp[p].dir => Names(table \cap OvpnKeys) \subseteq ccd
    BY <2>1 DEF Progress, Names
  <2> QED BY <2>1, <2>2 DEF Progress, Rendering
<1> QED BY <1>1, <1>2, InitTypes, InitSound, NextTypes, NextSound, NextCalm, PTL DEF Spec
=============================================================================
