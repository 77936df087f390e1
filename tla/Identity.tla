------------------------------ MODULE Identity ------------------------------
(***************************************************************************)
(* OpenVPN identities: a user's row in the peers table and the file        *)
(* ccd/<username> that lets the user's certificate in (ccd-exclusive).     *)
(* Every operation touches both, one after the other and under no lock:    *)
(* API handlers of the daemon (Api) and CLI commands (Cli) interleave at   *)
(* every step, and a crash may stop each of them between two steps.        *)
(*                                                                         *)
(* A certificate carries the username only and is good for ten years, so   *)
(* any certificate ever handed out opens a session whenever the file of    *)
(* that name exists: the files are what decides who gets in, and sessions  *)
(* are not part of the state.                                              *)
(***************************************************************************)
EXTENDS Integers, FiniteSets

CONSTANTS
  Names,      \* usernames; a name is a row (UNIQUE) and a file name
  Pool,       \* addresses of the OpenVPN pool
  Api, Cli,   \* threads of the daemon, CLI commands
  MaxIds,     \* bound: rows ever inserted
  MaxFaults,  \* bound: interrupted operations and failed writes
  DirKnown    \* did the daemon start after ovpn-init wrote ovpn_dir?

NoIP == 0
NoId == 0
Procs == Api \cup Cli

ASSUME IdentityAssumption ==
  /\ Pool \subseteq Nat \ {NoIP} /\ IsFiniteSet(Pool)
  /\ Api \cap Cli = {}
  /\ MaxIds \in Nat /\ MaxFaults \in Nat /\ DirKnown \in BOOLEAN

VARIABLES
  row,       \* id (NoId: no row), WireGuard key present?, OpenVPN identity present?, ovpn_ip
  ccd,       \* the address the user's CCD file pushes; NoIP when there is no file
  confDir,   \* ovpn_dir in config.json
  daemonDir, \* a.cfg.OvpnDir, read when the daemon started
  op,        \* the local state of each operation
  lastId,    \* the AUTOINCREMENT counter
  faults,    \* faults so far
  dirty,     \* history: names an interrupted or failed operation was working on
  detached,  \* history: users whose identity was taken away on request
  raced      \* history: names two operations worked on at once

vars == <<row, ccd, confDir, daemonDir, op, lastId, faults, dirty, detached, raced>>
files == <<ccd, confDir, daemonDir>>

Least(S) == CHOOSE x \in S : \A y \in S : x <= y

NoRow == [id |-> NoId, wg |-> FALSE, cn |-> FALSE, ip |-> NoIP]
\* id is the row the operation reads and changes; fresh marks a create, which made a row.
Idle == [pc |-> "idle", names |-> {}, id |-> NoId, ip |-> NoIP, fresh |-> FALSE]
Fresh(o) == o.fresh

Exists(n) == row[n].id # NoId
Ghosts == {n \in Names : Exists(n) /\ ~row[n].wg /\ ~row[n].cn}
Free == Pool \ {row[n].ip : n \in Names}

Name(p) == CHOOSE n \in op[p].names : TRUE
Finish(p) == op' = [op EXCEPT ![p] = Idle]
Goto(p, pc) == op' = [op EXCEPT ![p].pc = pc]
\* A command that works through a list of names is done with one; it ends with the last.
Strike(p, n) ==
  op' = [op EXCEPT ![p] = IF op[p].names = {n} THEN Idle ELSE [op[p] EXCEPT !.names = op[p].names \ {n}]]

\* What the other operations are working on right now.
Others(p) == UNION {op[q].names : q \in Procs \ {p}}

Start(p, o) ==
  /\ op[p].pc = "idle" /\ op' = [op EXCEPT ![p] = o]
  /\ raced' = raced \cup (o.names \cap Others(p))
On(n, pc) == [Idle EXCEPT !.pc = pc, !.names = {n}, !.id = row[n].id]

Init ==
  /\ row = [n \in Names |-> NoRow]
  /\ ccd = [n \in Names |-> NoIP]
  /\ confDir = DirKnown /\ daemonDir = DirKnown
  /\ op = [p \in Procs |-> Idle]
  /\ lastId = 0 /\ faults = 0
  /\ dirty = {} /\ detached = {} /\ raced = {}

(***************************************************************************)
(* `wgmgr ovpn-init` and the daemon's restart.                             *)
(***************************************************************************)
OvpnInit ==
  /\ confDir' = TRUE
  /\ UNCHANGED <<row, ccd, daemonDir, op, lastId, faults, dirty, detached, raced>>

\* The handlers that were running die with the daemon.
Restart ==
  /\ faults < MaxFaults /\ faults' = faults + 1
  /\ daemonDir' = confDir
  /\ op' = [p \in Procs |-> IF p \in Api THEN Idle ELSE op[p]]
  /\ dirty' = dirty \cup UNION {op[p].names : p \in Api}
  /\ UNCHANGED <<row, ccd, confDir, lastId, detached, raced>>

(***************************************************************************)
(* Attach: read the row, pick an address, write the file, set the columns. *)
(***************************************************************************)
Insert(n, wg) ==
  /\ ~Exists(n) /\ lastId < MaxIds
  /\ lastId' = lastId + 1
  /\ row' = [row EXCEPT ![n] = [NoRow EXCEPT !.id = lastId + 1, !.wg = wg]]

\* A WireGuard user is one INSERT.
CreateWG(n) ==
  /\ Insert(n, TRUE)
  /\ UNCHANGED <<files, op, faults, dirty, detached, raced>>

\* An OpenVPN-only user is an INSERT, then an attach of whatever row has the name by then.
StartCreate(p, n) ==
  /\ confDir /\ Insert(n, FALSE)
  /\ Start(p, [Idle EXCEPT !.pc = "read", !.names = {n}, !.fresh = TRUE])
  /\ UNCHANGED <<files, faults, dirty, detached>>

ReadFresh(p) ==
  /\ op[p].pc = "read"
  /\ IF Exists(Name(p))
       THEN op' = [op EXCEPT ![p] = [@ EXCEPT !.pc = "pick", !.id = row[Name(p)].id]]
       ELSE Finish(p)
  /\ UNCHANGED <<row, files, lastId, faults, dirty, detached, raced>>

StartAttach(p, n) ==
  /\ confDir /\ Exists(n) /\ ~row[n].cn
  /\ Start(p, On(n, "pick"))
  /\ UNCHANGED <<row, files, lastId, faults, dirty, detached>>

\* The mutant of Die forgets the cleanup of ovpnAttachNewUser.
DieNoCleanup(p) == Finish(p)

\* An attach that dies takes the row it was called for with it if the row was new.
Die(p) == IF Fresh(op[p]) THEN Goto(p, "undoRow") ELSE Finish(p)

\* The mutant of Pick hands out the address of the least row again.
PickAny(p) ==
  /\ op[p].pc = "pick"
  /\ op' = [op EXCEPT ![p] = [@ EXCEPT !.pc = "file", !.ip = Least(Pool)]]
  /\ UNCHANGED <<row, files, lastId, faults, dirty, detached, raced>>

\* Two attaches that both picked before either wrote its row saw the same addresses free.
Pick(p) ==
  /\ op[p].pc = "pick"
  /\ IF Free # {}
       THEN op' = [op EXCEPT ![p] = [@ EXCEPT !.pc = "file", !.ip = Least(Free)]]
       ELSE Die(p)
  /\ LET late == {q \in Procs : op[q].pc \in {"file", "update"}} IN
     raced' = IF late = {} THEN raced
              ELSE raced \cup op[p].names \cup UNION {op[q].names : q \in late}
  /\ UNCHANGED <<row, files, lastId, faults, dirty, detached>>

WriteFile(p) ==
  /\ op[p].pc = "file"
  /\ ccd' = [ccd EXCEPT ![Name(p)] = op[p].ip]
  /\ Goto(p, "update")
  /\ UNCHANGED <<row, confDir, daemonDir, lastId, faults, dirty, detached, raced>>

\* UPDATE ... WHERE id: nothing happens to a row that is gone.
UpdateRow(p) ==
  LET n == Name(p) IN
  /\ op[p].pc = "update"
  /\ row' = IF row[n].id = op[p].id
              THEN [row EXCEPT ![n] = [@ EXCEPT !.cn = TRUE, !.ip = op[p].ip]] ELSE row
  /\ Finish(p)
  /\ UNCHANGED <<files, lastId, faults, dirty, detached, raced>>

\* The file or the UPDATE cannot be written.
AttachFails(p) ==
  /\ op[p].pc \in {"file", "update"} /\ faults < MaxFaults
  /\ faults' = faults + 1
  /\ Die(p)
  /\ dirty' = IF Fresh(op[p]) THEN dirty ELSE dirty \cup op[p].names
  /\ UNCHANGED <<row, files, lastId, detached, raced>>

Remove(n, id) == IF row[n].id = id THEN [row EXCEPT ![n] = NoRow] ELSE row

UndoRow(p) ==
  /\ op[p].pc = "undoRow"
  /\ row' = Remove(Name(p), op[p].id)
  /\ Goto(p, "undoFile")
  /\ UNCHANGED <<files, lastId, faults, dirty, detached, raced>>

UndoFile(p) ==
  /\ op[p].pc = "undoFile"
  /\ ccd' = [ccd EXCEPT ![Name(p)] = NoIP]
  /\ Finish(p)
  /\ UNCHANGED <<row, confDir, daemonDir, lastId, faults, dirty, detached, raced>>

(***************************************************************************)
(* Detach and delete: remove the file, then change the row.                *)
(***************************************************************************)
StartDetach(p, n) ==
  /\ Exists(n)
  /\ Start(p, On(n, "drop"))
  /\ UNCHANGED <<row, files, lastId, faults, dirty, detached>>

\* The mutant of DropFile leaves the file to the administrator.
KeepFile(p) ==
  /\ op[p].pc = "drop"
  /\ Goto(p, "clear")
  /\ UNCHANGED <<row, files, lastId, faults, dirty, detached, raced>>

\* A detach looks ovpn_dir up again.
DropFile(p) ==
  /\ op[p].pc = "drop"
  /\ ccd' = [ccd EXCEPT ![Name(p)] = NoIP]
  /\ Goto(p, "clear")
  /\ UNCHANGED <<row, confDir, daemonDir, lastId, faults, dirty, detached, raced>>

\* The mutant of ClearRow leaves the address behind.
ClearName(p) ==
  /\ op[p].pc = "clear"
  /\ row' = IF row[Name(p)].id = op[p].id THEN [row EXCEPT ![Name(p)].cn = FALSE] ELSE row
  /\ Finish(p)
  /\ UNCHANGED <<files, lastId, faults, dirty, detached, raced>>

ClearRow(p) ==
  LET n == Name(p) IN
  /\ op[p].pc = "clear"
  /\ IF row[n].id = op[p].id
       THEN /\ row' = [row EXCEPT ![n] = [@ EXCEPT !.cn = FALSE, !.ip = NoIP]]
            /\ detached' = detached \cup {n}
       ELSE UNCHANGED <<row, detached>>
  /\ Finish(p)
  /\ UNCHANGED <<files, lastId, faults, dirty, raced>>

StartDelete(p, n) ==
  /\ Exists(n)
  /\ Start(p, On(n, "dropAll"))
  /\ UNCHANGED <<row, files, lastId, faults, dirty, detached>>

\* The panel's delete looks for the file in the ovpn_dir the daemon started with; `wgmgr rm`
\* reads config.json.  Without an ovpn_dir there is nothing to remove.
DropAll(p) ==
  /\ op[p].pc = "dropAll"
  /\ ccd' = IF (p \in Api /\ daemonDir) \/ (p \in Cli /\ confDir)
              THEN [ccd EXCEPT ![Name(p)] = NoIP] ELSE ccd
  /\ Goto(p, "delete")
  /\ UNCHANGED <<row, confDir, daemonDir, lastId, faults, dirty, detached, raced>>

DeleteRow(p) ==
  /\ op[p].pc = "delete"
  /\ row' = Remove(Name(p), op[p].id)
  /\ detached' = IF row[Name(p)].id = op[p].id THEN detached \ {Name(p)} ELSE detached
  /\ Finish(p)
  /\ UNCHANGED <<files, lastId, faults, dirty, raced>>

(***************************************************************************)
(* `ghost-users --delete` and `ovpn-orphans --purge*`.                     *)
(***************************************************************************)
StartGhosts(p) ==
  /\ p \in Cli /\ Ghosts # {}
  /\ Start(p, [Idle EXCEPT !.pc = "ghosts", !.names = Ghosts])
  /\ UNCHANGED <<row, files, lastId, faults, dirty, detached>>

\* The mutant of DeleteGhost does not look at the identities again.
DeleteListed(p) ==
  /\ op[p].pc = "ghosts"
  /\ \E n \in op[p].names :
       /\ row' = [row EXCEPT ![n] = NoRow]
       /\ detached' = detached \ {n}
       /\ Strike(p, n)
  /\ UNCHANGED <<files, lastId, faults, dirty, raced>>

DeleteGhost(p) ==
  /\ op[p].pc = "ghosts"
  /\ \E n \in op[p].names :
       /\ row' = IF n \in Ghosts THEN [row EXCEPT ![n] = NoRow] ELSE row
       /\ detached' = IF n \in Ghosts THEN detached \ {n} ELSE detached
       /\ Strike(p, n)
  /\ UNCHANGED <<files, lastId, faults, dirty, raced>>

\* The rows are read before the directory.  --purge spares the names with a session, --force
\* none, --purge-test all but the bserver_TEST_ names: any set of names may be spared.
StartOrphans(p) ==
  /\ p \in Cli /\ confDir
  /\ \E spared \in SUBSET Names :
       Start(p, [Idle EXCEPT !.pc = "scan", !.names = {n \in Names \ spared : ~Exists(n)}])
  /\ UNCHANGED <<row, files, lastId, faults, dirty, detached>>

ScanFiles(p) ==
  /\ op[p].pc = "scan"
  /\ LET found == {n \in op[p].names : ccd[n] # NoIP} IN
     IF found = {} THEN Finish(p)
                   ELSE op' = [op EXCEPT ![p] = [@ EXCEPT !.pc = "purge", !.names = found]]
  /\ UNCHANGED <<row, files, lastId, faults, dirty, detached, raced>>

PurgeFile(p) ==
  /\ op[p].pc = "purge"
  /\ \E n \in op[p].names :
       /\ ccd' = [ccd EXCEPT ![n] = NoIP]
       /\ Strike(p, n)
  /\ UNCHANGED <<row, confDir, daemonDir, lastId, faults, dirty, detached, raced>>

\* A command is interrupted, a handler's write fails: what was done stays done.
Interrupt(p) ==
  /\ op[p].pc \notin {"idle", "ghosts", "scan", "purge"} /\ faults < MaxFaults
  /\ faults' = faults + 1
  /\ dirty' = dirty \cup op[p].names
  /\ Finish(p)
  /\ UNCHANGED <<row, files, lastId, detached, raced>>

Begin(p) ==
  \/ StartGhosts(p) \/ StartOrphans(p)
  \/ \E n \in Names : \/ StartCreate(p, n) \/ StartAttach(p, n)
                      \/ StartDetach(p, n) \/ StartDelete(p, n)

Step(p) ==
  \/ ReadFresh(p) \/ Pick(p) \/ WriteFile(p) \/ UpdateRow(p) \/ AttachFails(p)
  \/ UndoRow(p) \/ UndoFile(p) \/ DropFile(p) \/ ClearRow(p)
  \/ DropAll(p) \/ DeleteRow(p) \/ DeleteGhost(p) \/ ScanFiles(p) \/ PurgeFile(p)

Next ==
  \/ OvpnInit \/ Restart
  \/ \E n \in Names : CreateWG(n)
  \/ \E p \in Procs : Begin(p) \/ Step(p) \/ Interrupt(p)

Spec == Init /\ [][Next]_vars

(***************************************************************************)
(* Properties.                                                             *)
(***************************************************************************)
RowValues == [id : 0 .. MaxIds, wg : BOOLEAN, cn : BOOLEAN, ip : Pool \cup {NoIP}]
Pcs == {"idle", "read", "pick", "file", "update", "undoRow", "undoFile", "drop", "clear",
        "dropAll", "delete", "ghosts", "scan", "purge"}
OpValues == [pc : Pcs, names : SUBSET Names, id : 0 .. MaxIds, ip : Pool \cup {NoIP},
             fresh : BOOLEAN]

\* Rows, files and operations hold values of their kinds; a row has an OpenVPN address
\* exactly when it has an identity (ovpn_pki.go:340, 380 set and clear them together).
TypeOK ==
  /\ row \in [Names -> RowValues]
  /\ \A n \in Names : (row[n].cn <=> row[n].ip # NoIP) /\ (~Exists(n) => row[n] = NoRow)
  /\ ccd \in [Names -> Pool \cup {NoIP}]
  /\ confDir \in BOOLEAN /\ daemonDir \in BOOLEAN
  /\ op \in [Procs -> OpValues]
  /\ lastId \in 0 .. MaxIds /\ faults \in 0 .. MaxFaults
  /\ dirty \in SUBSET Names /\ detached \in SUBSET Names /\ raced \in SUBSET Names

Working(n) == \E p \in Procs : n \in op[p].names /\ op[p].pc # "scan"

\* The file lets in exactly the users who have an identity, at the address the block set
\* knows (enforce.go:121-133 blocks ovpn_ip): for every name that no two operations worked
\* on at once and whose operations were not interrupted, whatever happens to other names in
\* between.  A certificate that is still around is no use.
FileMatchesRow ==
  \A n \in Names \ (dirty \cup raced) : ~Working(n) => ccd[n] = row[n].ip

\* What main.go:756-758 and api.go:387-388 say of a deletion: the client's certificate can no
\* longer reconnect.  Violated when the daemon started before ovpn-init.
DeletedStaysOut ==
  \A n \in Names \ dirty : ~Working(n) /\ ~Exists(n) => ccd[n] = NoIP

\* No two users share an OpenVPN address (ovpn_pki.go:192-209; no index of the table forbids
\* it), crashes, deletions and detaches in between included, unless two attaches picked an
\* address before either of them wrote its row.
UniqueAddresses ==
  \A m, n \in Names \ raced : m # n /\ row[m].cn /\ row[n].cn => row[m].ip # row[n].ip

\* ovpnAttachNewUser (ovpn_pki.go:347-350): however operations interleave, and whether
\* the attach finds an address or not, no new row without an identity is left behind, unless
\* a crash cut the cleanup off or the administrator took the identity away.
NoGhostLeft ==
  \A n \in Ghosts : Working(n) \/ n \in dirty \cup detached

\* No user disappears while it has an identity except through a deletion of that very user:
\* never through a list of ghosts read earlier (ghosts.go:48 looks at the identities again), and
\* through the cleanup of a create (ovpn_pki.go:354) only if two operations worked on the name
\* at once, an attach of the same row or a second create of the name among them.
UsersKept ==
  [][\A n \in Names : row[n].cn /\ row'[n].id = NoId =>
       \E p \in Procs : /\ op[p].id = row[n].id
                        /\ op[p].pc = "delete" \/ (op[p].pc = "undoRow" /\ n \in raced)]_vars
=============================================================================
