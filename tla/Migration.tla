----------------------------- MODULE Migration -----------------------------
(***************************************************************************)
(* import-users and import-bundle, from the command line or the panel: a   *)
(* transaction merges the source's users by name, a bundle then replaces   *)
(* params, wg0.conf and the OpenVPN files one by one, config.json is       *)
(* saved, wg0.conf rendered (WgConf) and a CCD file written for every      *)
(* identity.  Nothing makes these steps one: an import may die between     *)
(* any two, be repeated, and overlap creates, deletes, renders, widenings  *)
(* and other imports.                                                      *)
(*                                                                         *)
(* The destination has an endpoint of its own in params; "" in config.json *)
(* falls back to it.  A bundle carries OpenVPN files.  A CCD file is       *)
(* represented by the name it carries.                                     *)
(***************************************************************************)
EXTENDS WgConf, Sequences

CONSTANTS
  Bundles,    \* the source's users, in the order of its table
  OvpnKeys,   \* rows of the bundle with an OpenVPN identity
  PkiFiles,   \* the OpenVPN files of a bundle
  Kinds,      \* imports of this instance: [full, apply, opt]
  ImportCost, \* what an import costs of the Budget
  CfgEnd0     \* ovpn_endpoint at the start: "" or "dst"

\* A name is created once: a row of that name is the one an import looked up, or the import's.
ASSUME MigrationAssumption ==
  /\ \A us \in Bundles : us \in Seq(BundleKeys) /\ us # <<>>
  /\ \A us \in Bundles : \A i, j \in 1 .. Len(us) : NameOf[us[i]] = NameOf[us[j]] => i = j
  /\ \A k, l \in Keys \ BundleKeys : NameOf[k] = NameOf[l] => k = l
  /\ OvpnKeys \subseteq BundleKeys
  /\ Kinds \subseteq [full : BOOLEAN, apply : BOOLEAN, opt : BOOLEAN]
  /\ ImportCost \in Nat \ {0} /\ CfgEnd0 \in {"", "dst"}

VARIABLES
  params,   \* SERVER_PUB_IP in params; "blank" while the file is truncated
  cfgEnd,   \* ovpn_endpoint in config.json
  cfgs,     \* history: the values it has had; the daemon's copy is one of them
  pki,      \* the OpenVPN files that are the bundle's
  ccd,      \* names with a CCD file
  imp,      \* what each import knows
  blank,    \* history: has an import taken a truncated params for the destination's?
  undead    \* history: names whose CCD file a deletion that knew no ovpn_dir left, or an
            \* import wrote while they were being deleted

migVars == <<params, cfgEnd, cfgs, pki, ccd, imp, blank, undead>>
files == <<params, cfgEnd, cfgs, pki, blank>>
vars == <<wgVars, migVars>>

Ends == {"", "dst", "src", "opt"}
NoImport == [kind |-> [full |-> FALSE, apply |-> FALSE, opt |-> FALSE], users |-> <<>>,
             wg |-> "", ov |-> "", dir |-> FALSE, left |-> {}, calm |-> FALSE]

Init ==
  /\ WgInit
  /\ params = "dst" /\ cfgEnd = CfgEnd0 /\ cfgs = {CfgEnd0}
  /\ pki = {} /\ ccd = {} /\ undead = {}
  /\ imp = [p \in Procs |-> NoImport]
  /\ blank = FALSE

Names(ks) == {NameOf[k] : k \in ks}

\* ovpn-init and import-bundle set ovpn_dir and ovpn_endpoint in one saveConfig.
DirKnown(c) == c # ""

\* An operation that ends, or dies, forgets what it knew; another that starts ends the calm.
Forget == imp' = [q \in Procs |-> IF op'[q].pc = "idle" THEN NoImport ELSE imp[q]]
Disturb == imp' = [q \in Procs |-> [imp[q] EXCEPT !.calm = FALSE]]

(***************************************************************************)
(* The destination is read, then its users are merged.                     *)
(***************************************************************************)
\* The mutant of Destination lets the manifest's endpoint win.
DestinationOfSource(opt, end, c) ==
  [wg |-> IF opt THEN "opt" ELSE end, ov |-> IF opt THEN "opt" ELSE "src"]

\* The endpoints the destination has, or --endpoint.
Destination(opt, end, c) ==
  [wg |-> IF opt THEN "opt" ELSE end,
   ov |-> IF opt THEN "opt" ELSE IF c # "" THEN c ELSE end]

\* The source's OpenVPN endpoint is for a destination that has none.
ApplyBundleConfig(d) == [d EXCEPT !.ov = IF @ = "" THEN "src" ELSE @]

StartMigration(p, kind, us) ==
  /\ StartAt(ImportCost, p, [Idle EXCEPT !.pc = "look"])
  /\ \E c \in cfgs :
       LET end == IF params = "blank" THEN "" ELSE params
           d == ApplyBundleConfig(Destination(kind.opt, end, c))
       IN
       imp' = [q \in Procs |->
         IF q = p THEN [kind |-> kind, users |-> us, wg |-> IF kind.full THEN d.wg ELSE "",
                        ov |-> IF kind.full THEN d.ov ELSE "",
                        dir |-> kind.full \/ DirKnown(c), left |-> {},
                        calm |-> \A o \in Procs \ {p} : op[o].pc = "idle"]
         ELSE [imp[q] EXCEPT !.calm = FALSE]]
  /\ blank' = (blank \/ (kind.full /\ ~kind.opt /\ params = "blank"))
  /\ UNCHANGED <<table, born, disk, live, up, faults, history>>
  /\ UNCHANGED <<params, cfgEnd, cfgs, pki, ccd, undead>>

\* The first lookup comes before the transaction has the database's lock.
Look(p) ==
  /\ op[p].pc = "look"
  /\ op' = [op EXCEPT ![p] = [@ EXCEPT !.pc = "txn", !.known = table]]
  /\ UNCHANGED <<table, born, disk, live, up, spent, faults, history, migVars>>

\* The mutant of MergeOne lets an import take an address.
MergeAnyway(r, k, found) ==
  [ok |-> TRUE, rows |-> {l \in r.rows : NameOf[l] # NameOf[k]} \cup {k}]

\* One user into the rows r; found is what the lookup saw.  An UPDATE of a row that is gone
\* changes nothing; a name or an address that is taken makes the whole import die.
MergeOne(r, k, found) ==
  LET old == {l \in r.rows : NameOf[l] = NameOf[k]}
      clash == \E l \in r.rows \ old : AddrOf[l] = AddrOf[k]
      new == [ok |-> TRUE, rows |-> (r.rows \ old) \cup {k}]
      failed == [ok |-> FALSE, rows |-> r.rows]
  IN IF ~r.ok THEN r
     ELSE IF NameOf[k] \in Names(found)
            THEN IF old = {} THEN r ELSE IF clash THEN failed ELSE new
            ELSE IF old # {} \/ clash THEN failed ELSE new

Merge(us, known) ==
  LET step[i \in 0 .. Len(us)] ==
        IF i = 0 THEN [ok |-> TRUE, rows |-> table]
        ELSE MergeOne(step[i - 1], us[i], IF i = 1 THEN known ELSE table)
  IN step[Len(us)]

AfterTxn(kind) == IF kind.full THEN "params" ELSE IF kind.apply THEN "head" ELSE "idle"

Txn(p) ==
  LET m == Merge(imp[p].users, op[p].known)
      next == IF m.ok THEN AfterTxn(imp[p].kind) ELSE "idle"
  IN
  /\ op[p].pc = "txn"
  /\ table' = IF m.ok THEN m.rows ELSE table
  /\ born' = born \cup table'
  /\ forced' = TRUE
  /\ op' = [op EXCEPT ![p] = IF next = "idle" THEN Idle ELSE [Idle EXCEPT !.pc = next, !.then = "ccd"]]
  /\ Forget
  /\ UNCHANGED <<disk, live, up, spent, faults, settled, last, shared, restored, blind>>
  /\ UNCHANGED <<files, ccd, undead>>

(***************************************************************************)
(* The files of a bundle.                                                  *)
(***************************************************************************)
Params(p) ==
  /\ op[p].pc = "params"
  /\ params' = "blank"
  /\ Goto(p, "pwrite")
  /\ UNCHANGED <<table, born, disk, live, up, spent, faults, history>>
  /\ UNCHANGED <<cfgEnd, cfgs, pki, ccd, imp, blank, undead>>

PWrite(p) ==
  /\ op[p].pc = "pwrite"
  /\ params' = IF imp[p].wg # "" THEN imp[p].wg ELSE "src"
  /\ Enter(p, [op[p] EXCEPT !.pc = "rtrunc"])
  /\ UNCHANGED <<table, born, disk, live, up, spent, faults, history>>
  /\ UNCHANGED <<cfgEnd, cfgs, pki, ccd, imp, blank, undead>>

Truncate(p) == RTrunc(p) /\ UNCHANGED migVars

Restore(p) ==
  /\ RWrite(p, "pki")
  /\ imp' = [imp EXCEPT ![p].left = PkiFiles]
  /\ UNCHANGED <<files, ccd, undead>>

\* A Go map is walked in any order; --no-apply ends here.
Pki(p) ==
  /\ op[p].pc = "pki"
  /\ \/ \E f \in imp[p].left :
          /\ pki' = pki \cup {f}
          /\ imp' = [imp EXCEPT ![p].left = @ \ {f}]
          /\ op' = op
     \/ /\ imp[p].left = {}
        /\ IF imp[p].kind.apply THEN Goto(p, "save") ELSE Finish(p)
        /\ pki' = pki /\ Forget
  /\ UNCHANGED <<table, born, disk, live, up, spent, faults, history>>
  /\ UNCHANGED <<params, cfgEnd, cfgs, ccd, blank, undead>>

\* The mutant of Save leaves the rendering to the next command.
SaveOnly(p) ==
  /\ op[p].pc = "save"
  /\ cfgEnd' = imp[p].ov /\ cfgs' = cfgs \cup {cfgEnd'}
  /\ Goto(p, "ccd")
  /\ UNCHANGED <<table, born, disk, live, up, spent, faults, history>>
  /\ UNCHANGED <<params, pki, ccd, imp, blank, undead>>

\* The configuration computed at the start is saved whole; ConfigStore has its other fields.
Save(p) ==
  /\ op[p].pc = "save"
  /\ cfgEnd' = imp[p].ov /\ cfgs' = cfgs \cup {cfgEnd'}
  /\ Goto(p, "head")
  /\ UNCHANGED <<table, born, disk, live, up, spent, faults, history>>
  /\ UNCHANGED <<params, pki, ccd, imp, blank, undead>>

(***************************************************************************)
(* applyMigrationState after its render; deletions.                        *)
(***************************************************************************)
\* The configuration the import works with decides whether there is a directory to write to.
CcdPeers(p) ==
  /\ op[p].pc = "ccd"
  /\ imp' = [imp EXCEPT ![p].left = IF imp[p].dir THEN table \cap OvpnKeys ELSE {}]
  /\ Goto(p, "ccds")
  /\ UNCHANGED <<table, born, disk, live, up, spent, faults, history, files, ccd, undead>>

Dying(n) == n \notin Names(table) \/ \E q \in Procs : op[q].pc = "drop" /\ n \in Names(op[q].known)

CcdFile(p) ==
  /\ op[p].pc = "ccds"
  /\ \/ \E k \in imp[p].left :
          /\ ccd' = ccd \cup {NameOf[k]}
          /\ undead' = IF Dying(NameOf[k]) THEN undead \cup {NameOf[k]} ELSE undead
          /\ imp' = [imp EXCEPT ![p].left = @ \ {k}]
          /\ op' = op
     \/ /\ imp[p].left = {}
        /\ Finish(p) /\ Forget
        /\ UNCHANGED <<ccd, undead>>
  /\ UNCHANGED <<table, born, disk, live, up, spent, faults, history, files>>

\* The mutant of Delete leaves the CCD file.
DeleteKeepsCcd(p, k) == StartDelete(p, k) /\ Disturb /\ UNCHANGED <<files, ccd, undead>>

\* ovpnRemoveCCD comes first, the row after it; the panel passes the configuration of the
\* daemon's start, which may know no ovpn_dir.
Delete(p, k) ==
  /\ StartDelete(p, k)
  /\ \E c \in cfgs :
       IF DirKnown(c)
         THEN ccd' = ccd \ {NameOf[k]} /\ undead' = undead \ {NameOf[k]}
         ELSE ccd' = ccd /\ undead' = undead \cup ({NameOf[k]} \cap ccd)
  /\ Disturb
  /\ UNCHANGED files

Import(p) ==
  \/ Look(p) \/ Txn(p) \/ Params(p) \/ PWrite(p) \/ Truncate(p) \/ Restore(p)
  \/ Pki(p) \/ Save(p) \/ CcdPeers(p) \/ CcdFile(p)

Next ==
  \/ \E p \in Procs, kind \in Kinds, us \in Bundles : StartMigration(p, kind, us)
  \/ \E p \in Procs, k \in Keys : Delete(p, k)
  \/ \E p \in Procs : Import(p)
  \/ \E p \in Procs : Begin(p) /\ Disturb /\ UNCHANGED <<files, ccd, undead>>
  \/ \E p \in Procs : /\ ImportOne(p) \/ DropRow(p) \/ Render(p) \/ Expand(p) \/ Crash(p)
                      /\ Forget /\ UNCHANGED <<files, ccd, undead>>
  \/ (IfDown \/ IfUp) /\ UNCHANGED migVars

Spec == Init /\ [][Next]_vars

(***************************************************************************)
(* Properties.                                                             *)
(***************************************************************************)
ImpStates == [kind : [full : BOOLEAN, apply : BOOLEAN, opt : BOOLEAN],
              users : Bundles \cup {<<>>}, wg : Ends, ov : Ends, dir : BOOLEAN,
              left : SUBSET (Keys \cup PkiFiles), calm : BOOLEAN]

\* Tables, files and operations hold values of their kinds; whoever inserts or merges, no two
\* rows share a name or an address (the UNIQUE columns of main.go:177-222).
TypeOK ==
  /\ WgTypeOK
  /\ params \in (Ends \ {""}) \cup {"blank"}
  /\ cfgEnd \in Ends /\ cfgs \in SUBSET Ends
  /\ pki \subseteq PkiFiles /\ ccd \subseteq Names(Keys) /\ undead \subseteq Names(Keys)
  /\ imp \in [Procs -> ImpStates]
  /\ blank \in BOOLEAN

\* README.md:99-101: an import keeps the destination's endpoint, or the one of --endpoint,
\* and never takes the source's, also when it died half-way and is repeated or overlaps
\* another; the exception is an import that found params truncated by one that died there.
EndpointKept == blank \/ (params # "src" /\ cfgEnd # "src")

\* migration.go:612-632: an import that nothing overlapped and that came to its end has put
\* everything in place, whatever an import that died before it left behind: the source's
\* users are in the table, wg0.conf and the interface have exactly the table's peers; where
\* the import's configuration names the OpenVPN directory, which a bundle sees to itself,
\* every identity has its CCD file; all OpenVPN files of a bundle are the source's,
\* --endpoint is in both files.
ImportComplete ==
  \A p \in Procs :
    op[p].pc = "ccds" /\ imp[p].left = {} /\ imp[p].calm =>
      /\ \A i \in 1 .. Len(imp[p].users) : imp[p].users[i] \in table
      /\ conf.ok /\ conf.peers = table /\ (up => live = table)
      /\ imp[p].dir => Names(table \cap OvpnKeys) \subseteq ccd
      /\ imp[p].kind.full =>
           /\ pki = PkiFiles
           /\ imp[p].kind.opt => params = "opt" /\ cfgEnd = "opt"

\* main.go:756-758: a user whose row is gone has no CCD file, however imports, deletions and
\* crashes interleave, unless an import wrote the file while the user was being deleted or
\* the deletion itself knew no OpenVPN directory (Identity's FilesMatch shows that one).
CcdMatches == ccd \subseteq Names(table) \cup undead
=============================================================================
