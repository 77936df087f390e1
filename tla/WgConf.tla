------------------------------- MODULE WgConf -------------------------------
(***************************************************************************)
(* wg0.conf and the peers of the running interface, both made from the     *)
(* peers table.  API handlers and CLI commands (Procs) change the table    *)
(* and then render: guard, head of the file, peer section, a temporary     *)
(* file, a rename, and `wg syncconf` of the stripped file.  Nothing locks  *)
(* a render against another; the temporary file and the stripped file have *)
(* one fixed name each.  Migration adds the imports of a bundle, the third *)
(* writer of wg0.conf, and the specification of the whole.                 *)
(*                                                                         *)
(* A row of the table is represented by its WireGuard key: genKeys never   *)
(* makes a key twice, and name and address of a key do not change.         *)
(***************************************************************************)
EXTENDS FiniteSets, Naturals

CONSTANTS
  Keys,       \* public keys
  NameOf,     \* the username a key's row has
  AddrOf,     \* the address a key's row has
  Foreign,    \* keys in wg0.conf from before WG-Manager
  Known,      \* keys that have a row at the start
  BundleKeys, \* keys of the bundle's users and of its wg0.conf
  Procs,      \* API handlers and CLI commands
  Budget,     \* bound: what the operations begun may cost
  ShortCost,  \* what an operation costs that is no import of a bundle or of users
  MaxFaults,  \* bound: crashes, failed `wg show`, the interface going down
  NoFile      \* stands for a file that does not exist

ASSUME WgConfAssumption ==
  /\ Foreign \cup Known \subseteq Keys /\ BundleKeys \subseteq Keys /\ IsFiniteSet(Keys)
  /\ Budget \in Nat /\ ShortCost \in Nat \ {0} /\ MaxFaults \in Nat
  /\ Foreign \cap Known = {}
  /\ \A k, l \in Foreign \cup Known : NameOf[k] = NameOf[l] \/ AddrOf[k] = AddrOf[l] => k = l

Contents == [ok : BOOLEAN, head : BOOLEAN, wide : BOOLEAN, peers : SUBSET Keys]

ASSUME NoFileAssumption == NoFile \notin Contents

VARIABLES
  table,    \* keys that have a row
  born,     \* keys that ever had a row
  conf,     \* wg0.conf: whole?, is the address wide?, its peers
  tmp,      \* wg0.conf.wgmgr.tmp
  strip,    \* /tmp/wgmgr-wg0.strip
  live,     \* peers of the running interface
  up,       \* is the interface up?
  op,       \* the local state of each operation
  spent,    \* cost of the operations begun
  faults,   \* faults so far
  settled,  \* history: since the last rename, has a render that ran alone finished?
  last,     \* history: what wg0.conf should be once settled
  shared,   \* history: have two renders had the temporary file open at once?
  restored, \* history: was a bundle's wg0.conf left unfinished, or overlapped?
  forced,   \* history: has a deletion or an import begun to force a render?
  blind     \* history: has a guard looked at an interface that was down or did not answer?

disk == <<conf, tmp, strip>>
history == <<settled, last, shared, restored, forced, blind>>
wgVars == <<table, born, conf, tmp, strip, live, up, op, spent, faults,
          settled, last, shared, restored, forced, blind>>

\* Truncated and not written yet; whole; with the tail of a longer file behind a whole one.
Torn == [ok |-> FALSE, head |-> FALSE, wide |-> FALSE, peers |-> {}]
Whole(w, ks) == [ok |-> TRUE, head |-> TRUE, wide |-> w, peers |-> ks]
Garbled(w, ks) == [Whole(w, ks) EXCEPT !.ok = FALSE]

Idle == [pc |-> "idle", known |-> {}, ok |-> TRUE, wide |-> FALSE, peers |-> {},
         fd |-> "none", alone |-> FALSE, then |-> "idle"]

WgInit ==
  /\ table = Known /\ born = Known
  /\ conf = Whole(FALSE, Foreign \cup Known) /\ tmp = NoFile /\ strip = NoFile
  /\ live = Foreign \cup Known /\ up = TRUE
  /\ op = [p \in Procs |-> Idle]
  /\ spent = 0 /\ faults = 0
  /\ settled = TRUE /\ last = Whole(FALSE, Foreign \cup Known)
  /\ shared = FALSE /\ restored = FALSE /\ forced = FALSE /\ blind = FALSE

(***************************************************************************)
(* What the operations do to the table before they render.                 *)
(***************************************************************************)
Goto(p, pc) == op' = [op EXCEPT ![p].pc = pc]
Finish(p) == op' = [op EXCEPT ![p] = Idle]

StartAt(cost, p, r) ==
  /\ op[p].pc = "idle" /\ spent + cost <= Budget
  /\ spent' = spent + cost
  /\ op' = [op EXCEPT ![p] = r]

Start(p, r) == StartAt(ShortCost, p, r)

\* No UNIQUE column stands against a row with key k: name, address, key.
Insertable(k) == \A l \in table : NameOf[l] # NameOf[k] /\ AddrOf[l] # AddrOf[k]

\* create reads the head of wg0.conf for the pool, then inserts.
StartCreate(p, k) ==
  /\ Start(p, [Idle EXCEPT !.pc = "guard"])
  /\ conf.head /\ k \notin born \cup Foreign \cup BundleKeys /\ Insertable(k)
  /\ table' = table \cup {k} /\ born' = born \cup {k}
  /\ UNCHANGED <<disk, live, up, faults, history>>

\* A delete removes the CCD file (Migration), then the row it read; forced render.
StartDelete(p, k) ==
  /\ Start(p, [Idle EXCEPT !.pc = "drop", !.known = {k}])
  /\ k \in table
  /\ UNCHANGED <<table, born, disk, live, up, faults, history>>

Named(ks) == {l \in Keys : \E k \in ks : NameOf[l] = NameOf[k]}

\* An import may have changed the row's key; another delete of the row leaves nothing to delete.
DropRow(p) ==
  LET gone == Named(op[p].known) IN
  /\ op[p].pc = "drop"
  /\ table' = table \ gone
  /\ forced' = TRUE
  /\ op' = [q \in Procs |-> IF q = p THEN [Idle EXCEPT !.pc = "head"]
                            ELSE IF op[q].pc = "drop" THEN [op[q] EXCEPT !.known = @ \ gone]
                            ELSE op[q]]
  /\ UNCHANGED <<born, disk, live, up, spent, faults, settled, last, shared, restored, blind>>

StartRender(p) ==
  /\ Start(p, [Idle EXCEPT !.pc = "guard"])
  /\ UNCHANGED <<table, born, disk, live, up, faults, history>>

\* `wgmgr import` reads the file once and inserts its peers one by one.
StartImport(p) ==
  /\ Start(p, [Idle EXCEPT !.pc = "import", !.peers = conf.peers])
  /\ UNCHANGED <<table, born, disk, live, up, faults, history>>

ImportOne(p) ==
  /\ op[p].pc = "import"
  /\ \/ /\ op[p].peers = {} /\ Finish(p) /\ UNCHANGED <<table, born>>
     \/ \E k \in op[p].peers :
          /\ op' = [op EXCEPT ![p].peers = @ \ {k}]
          /\ table' = IF Insertable(k) THEN table \cup {k} ELSE table
          /\ born' = IF Insertable(k) THEN born \cup {k} ELSE born
  /\ UNCHANGED <<disk, live, up, spent, faults, history>>

(***************************************************************************)
(* renderConf.                                                             *)
(***************************************************************************)
\* Between the reading of wg0.conf and the last use of what was made of it.
Window == {"peers", "open", "write", "rename", "strip", "swrite", "sync", "rm",
           "xdb", "xshow", "xpeers", "xrename", "rtrunc", "rwrite"}

\* p enters its window with r; it is alone if nobody else is in theirs.
Enter(p, r) ==
  LET others == {q \in Procs \ {p} : op[q].pc \in Window} IN
  op' = [q \in Procs |-> IF q = p THEN [r EXCEPT !.alone = (others = {})]
                         ELSE IF q \in others THEN [op[q] EXCEPT !.alone = FALSE]
                         ELSE op[q]]

\* The guard reads the table, then the interface.
Guard(p) ==
  /\ op[p].pc = "guard"
  /\ op' = [op EXCEPT ![p] = [@ EXCEPT !.pc = "wgshow", !.known = table]]
  /\ UNCHANGED <<table, born, disk, live, up, spent, faults, history>>

\* `wg show` that fails lists no peers.
Shown(p, seen) ==
  /\ seen = live \/ (seen = {} /\ faults < MaxFaults)
  /\ faults' = IF seen = live THEN faults ELSE faults + 1
  /\ blind' = (blind \/ ~up \/ seen # live)

\* The mutant of WgShow forgets to refuse.
WgShowUnguarded(p) ==
  /\ op[p].pc = "wgshow"
  /\ Goto(p, "head")
  /\ UNCHANGED <<table, born, disk, live, up, spent, faults, history>>

\* "refusing to render": a peer of the interface has no row.
WgShow(p) ==
  /\ op[p].pc = "wgshow"
  /\ \E seen \in {live, {}} :
       /\ Shown(p, seen)
       /\ IF seen \subseteq op[p].known
            THEN op' = [op EXCEPT ![p] = [@ EXCEPT !.pc = "head", !.known = {}]]
            ELSE Finish(p)
  /\ UNCHANGED <<table, born, disk, live, up, spent, settled, last, shared, restored, forced>>

\* interfaceHead: the file up to its first peer; without an address it dies.
ReadHead(p) ==
  /\ op[p].pc = "head"
  /\ IF conf.head
       THEN Enter(p, [op[p] EXCEPT !.pc = "peers", !.wide = conf.wide])
       ELSE Finish(p)
  /\ UNCHANGED <<table, born, disk, live, up, spent, faults, history>>

Peers(p) ==
  /\ op[p].pc = "peers"
  /\ op' = [op EXCEPT ![p] = [@ EXCEPT !.pc = "open", !.peers = table]]
  /\ UNCHANGED <<table, born, disk, live, up, spent, faults, history>>

\* The mutant of Open truncates wg0.conf itself.
OpenInPlace(p) ==
  /\ op[p].pc = "open"
  /\ conf' = Torn
  /\ op' = [op EXCEPT ![p] = [@ EXCEPT !.pc = "write", !.fd = "conf"]]
  /\ UNCHANGED <<table, born, tmp, strip, live, up, spent, faults, history>>

\* os.WriteFile truncates the temporary file, also when another render is writing it.
Open(p) ==
  /\ op[p].pc = "open"
  /\ tmp' = Torn
  /\ op' = [op EXCEPT ![p] = [@ EXCEPT !.pc = "write", !.fd = "tmp"]]
  /\ shared' = (shared \/ \E q \in Procs : op[q].pc \in {"write", "rename"})
  /\ UNCHANGED <<table, born, conf, strip, live, up, spent, faults, settled, last, restored, forced, blind>>

\* What a file holds after r was written over it: a longer text leaves its tail behind.
Written(file, r) ==
  {r} \cup IF file.head /\ file # r THEN {Garbled(r.wide, r.peers), Garbled(r.wide, r.peers \cup file.peers)}
          ELSE {}

\* The file p has open may have been renamed to wg0.conf, or replaced there, since.
Write(p) ==
  LET r == Whole(op[p].wide, op[p].peers) IN
  /\ op[p].pc = "write"
  /\ IF op[p].fd = "tmp" THEN tmp' \in Written(tmp, r) ELSE tmp' = tmp
  /\ IF op[p].fd = "conf" THEN conf' \in Written(conf, r) ELSE conf' = conf
  /\ last' = [last EXCEPT !.wide = IF op[p].fd = "conf" THEN conf'.wide ELSE @]
  /\ op' = [op EXCEPT ![p] = [@ EXCEPT !.pc = "rename", !.fd = "none"]]
  /\ UNCHANGED <<table, born, strip, live, up, spent, faults, settled, shared, restored, forced, blind>>

\* The file that was wg0.conf has no name any more, the temporary file is wg0.conf.
Moved(fd) == IF fd = "tmp" THEN "conf" ELSE IF fd = "conf" THEN "gone" ELSE fd

\* What wg0.conf becomes, and what it will be once p's render has settled.
Install(p, c) ==
  /\ conf' = c
  /\ settled' = FALSE
  /\ last' = [last EXCEPT !.wide = IF op[p].alone THEN @ ELSE c.wide]

\* Without a temporary file the rename fails and the render dies.
Rename(p) ==
  /\ op[p].pc = "rename"
  /\ IF tmp = NoFile
       THEN Finish(p) /\ UNCHANGED <<conf, tmp, settled, last>>
       ELSE /\ Install(p, tmp)
            /\ tmp' = NoFile
            /\ op' = [q \in Procs |-> IF q = p THEN [op[p] EXCEPT !.pc = "strip"]
                                      ELSE [op[q] EXCEPT !.fd = Moved(@)]]
  /\ UNCHANGED <<table, born, strip, live, up, spent, faults, shared, restored, forced, blind>>

\* wg-quick strip: an empty file has no peers; a garbled one may also be refused.
Strip(p) ==
  /\ op[p].pc = "strip"
  /\ \/ op' = [op EXCEPT ![p] = [@ EXCEPT !.pc = "swrite", !.peers = conf.peers]]
     \/ ~conf.ok /\ Finish(p)
  /\ UNCHANGED <<table, born, disk, live, up, spent, faults, history>>

StripWrite(p) ==
  /\ op[p].pc = "swrite"
  /\ strip' = op[p].peers
  /\ Goto(p, "sync")
  /\ UNCHANGED <<table, born, conf, tmp, live, up, spent, faults, history>>

\* The mutant of Sync adds peers and removes none (`wg addconf`).
SyncAdds(p) ==
  /\ op[p].pc = "sync" /\ up /\ strip # NoFile
  /\ live' = live \cup strip
  /\ settled' = op[p].alone
  /\ last' = IF op[p].alone THEN [last EXCEPT !.peers = op[p].peers] ELSE last
  /\ Goto(p, "rm")
  /\ UNCHANGED <<table, born, disk, up, spent, faults, shared, restored, forced, blind>>

\* `wg syncconf` makes the interface's peers those of the stripped file.
Sync(p) ==
  /\ op[p].pc = "sync"
  /\ IF up /\ strip # NoFile
       THEN /\ live' = strip
            /\ settled' = op[p].alone
            /\ last' = IF op[p].alone THEN [last EXCEPT !.peers = op[p].peers] ELSE last
            /\ Goto(p, "rm")
       ELSE /\ op' = [op EXCEPT ![p] = [@ EXCEPT !.pc = "rm", !.then = "idle"]]
            /\ UNCHANGED <<live, settled, last>>
  /\ UNCHANGED <<table, born, disk, up, spent, faults, shared, restored, forced, blind>>

\* The deferred os.Remove runs also when syncconf failed; then the operation goes on.
Remove(p) ==
  /\ op[p].pc = "rm"
  /\ strip' = NoFile
  /\ op' = [op EXCEPT ![p] = IF @.then = "idle" THEN Idle ELSE [Idle EXCEPT !.pc = op[p].then]]
  /\ UNCHANGED <<table, born, conf, tmp, live, up, spent, faults, history>>

Render(p) ==
  \/ Guard(p) \/ WgShow(p) \/ ReadHead(p) \/ Peers(p) \/ Open(p) \/ Write(p) \/ Rename(p)
  \/ Strip(p) \/ StripWrite(p) \/ Sync(p) \/ Remove(p)

(***************************************************************************)
(* expandWireGuard: the head of the file as it is now, widened, with the   *)
(* peers of the table, or with the file's own when the interface has one   *)
(* the table lacks.  Its temporary file is its own, so its writing is part *)
(* of the rename here; one expand-subnet runs at a time.                   *)
(***************************************************************************)
StartExpand(p) ==
  /\ Start(p, [Idle EXCEPT !.pc = "xread"])
  /\ conf.head /\ ~conf.wide
  /\ \A q \in Procs : op[q].pc \notin {"xread", "xdb", "xshow", "xpeers", "xrename"}
  /\ UNCHANGED <<table, born, disk, live, up, faults, history>>

XRead(p) ==
  /\ op[p].pc = "xread"
  /\ Enter(p, [op[p] EXCEPT !.pc = "xdb", !.ok = conf.ok, !.wide = conf.head, !.peers = conf.peers])
  /\ UNCHANGED <<table, born, disk, live, up, spent, faults, history>>

XDb(p) ==
  /\ op[p].pc = "xdb"
  /\ op' = [op EXCEPT ![p] = [@ EXCEPT !.pc = "xshow", !.known = table]]
  /\ UNCHANGED <<table, born, disk, live, up, spent, faults, history>>

XShow(p) ==
  /\ op[p].pc = "xshow"
  /\ \E seen \in {live, {}} :
       /\ Shown(p, seen)
       /\ Goto(p, IF seen \subseteq op[p].known THEN "xpeers" ELSE "xrename")
  /\ UNCHANGED <<table, born, disk, live, up, spent, settled, last, shared, restored, forced>>

XPeers(p) ==
  /\ op[p].pc = "xpeers"
  /\ op' = [op EXCEPT ![p] = [@ EXCEPT !.pc = "xrename", !.ok = op[p].wide, !.peers = table]]
  /\ UNCHANGED <<table, born, disk, live, up, spent, faults, history>>

XRename(p) ==
  /\ op[p].pc = "xrename"
  /\ conf' = [ok |-> op[p].ok, head |-> op[p].wide, wide |-> op[p].wide, peers |-> op[p].peers]
  /\ settled' = (settled /\ op[p].alone /\ op[p].ok /\ op[p].peers = last.peers)
  /\ last' = [last EXCEPT !.wide = op[p].wide]
  /\ op' = [q \in Procs |-> IF q = p THEN Idle
                            ELSE [op[q] EXCEPT !.fd = IF @ = "conf" THEN "gone" ELSE @]]
  /\ UNCHANGED <<table, born, tmp, strip, live, up, spent, faults, shared, restored, forced, blind>>

Expand(p) == XRead(p) \/ XDb(p) \/ XShow(p) \/ XPeers(p) \/ XRename(p)

(***************************************************************************)
(* The import of a bundle restores the source's wg0.conf in place.         *)
(***************************************************************************)
RTrunc(p) ==
  /\ op[p].pc = "rtrunc"
  /\ conf' = Torn
  /\ settled' = FALSE /\ restored' = TRUE
  /\ op' = [op EXCEPT ![p] = [@ EXCEPT !.pc = "rwrite", !.fd = "conf"]]
  /\ UNCHANGED <<table, born, tmp, strip, live, up, spent, faults, last, shared, forced, blind>>

\* Another writer may have put a new file in the place of the one p has open.
RWrite(p, next) ==
  LET r == Whole(FALSE, BundleKeys) IN
  /\ op[p].pc = "rwrite"
  /\ IF op[p].fd = "conf" THEN conf' \in Written(conf, r) ELSE conf' = conf
  /\ last' = [last EXCEPT !.wide = conf'.wide]
  /\ restored' = ~op[p].alone
  /\ op' = [op EXCEPT ![p] = [@ EXCEPT !.pc = next, !.fd = "none"]]
  /\ UNCHANGED <<table, born, tmp, strip, live, up, spent, faults, settled, shared, forced, blind>>

(***************************************************************************)
(* Faults: a command is killed, a handler dies with its daemon; wg-quick   *)
(* takes the interface down and brings it up from the file.                *)
(***************************************************************************)
Crash(p) ==
  /\ op[p].pc # "idle" /\ faults < MaxFaults
  /\ faults' = faults + 1
  /\ Finish(p)
  /\ UNCHANGED <<table, born, disk, live, up, spent, history>>

IfDown ==
  /\ up /\ faults < MaxFaults
  /\ faults' = faults + 1
  /\ up' = FALSE /\ live' = {}
  /\ UNCHANGED <<table, born, disk, op, spent, history>>

IfUp ==
  /\ ~up /\ conf.head
  /\ up' = TRUE /\ live' = conf.peers
  /\ UNCHANGED <<table, born, disk, op, spent, faults, history>>

Begin(p) ==
  \/ StartRender(p) \/ StartImport(p) \/ StartExpand(p)
  \/ \E k \in Keys : StartCreate(p, k)

(***************************************************************************)
(* Properties.                                                             *)
(***************************************************************************)
Pcs == Window \cup {"idle", "import", "drop", "guard", "wgshow", "head", "xread"}
              \cup {"look", "txn", "params", "pwrite", "pki", "save", "ccd", "ccds"}
OpStates == [pc : Pcs, known : SUBSET Keys, ok : BOOLEAN, wide : BOOLEAN,
             peers : SUBSET Keys, fd : {"none", "tmp", "conf", "gone"}, alone : BOOLEAN,
             then : {"idle", "ccd"}]

WgTypeOK ==
  /\ table \subseteq born /\ born \subseteq Keys
  /\ \A k, l \in table : NameOf[k] = NameOf[l] \/ AddrOf[k] = AddrOf[l] => k = l
  /\ conf \in Contents /\ tmp \in Contents \cup {NoFile}
  /\ strip \in (SUBSET Keys) \cup {NoFile}
  /\ live \subseteq Keys /\ up \in BOOLEAN
  /\ op \in [Procs -> OpStates]
  /\ spent \in 0 .. Budget /\ faults \in 0 .. MaxFaults
  /\ settled \in BOOLEAN /\ last \in Contents
  /\ shared \in BOOLEAN /\ restored \in BOOLEAN /\ forced \in BOOLEAN /\ blind \in BOOLEAN

\* The guard of main.go:443-444 and subnet.go:534-535: a peer that was never imported is
\* neither disconnected nor dropped from wg0.conf, however renders, imports, widenings and
\* crashes interleave, unless a deletion or a migration forced a render, or the guard found the
\* interface down or silent.
UnimportedStay ==
  forced \/ blind \/
    \A k \in Foreign \ born : k \in conf.peers /\ (up => k \in live)

\* main.go:460-469: a render that nobody overlapped leaves wg0.conf and the interface with
\* exactly the peers of the table it read, whatever earlier renders, crashes and restarts of
\* the interface left behind, and with the head it found: a widening stays.  Both hold until
\* another render renames its file, also when the interface is restarted meanwhile.
InStep == settled => conf = last /\ (up => live = last.peers)

\* The rename of main.go:462-468: wg0.conf is whole at every moment and after any crash,
\* unless two renders had the temporary file open at once, or the import of a bundle, which
\* writes in place (migration.go:546), is at it, died there, or met another writer.
NeverTorn == conf.ok \/ shared \/ restored
=============================================================================
