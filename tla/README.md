# WG-Manager: a TLA+ model, its checks and its proofs

WG-Manager (`wgmgr`) is one Go binary that manages the users of a WireGuard and an OpenVPN
server: a daemon (`wgmgr serve`) with a REST API, a web panel and an enforcement loop, and a
command line that works on the same files and the same SQLite table.  This directory models
the parts of it that change shared state, checks them with TLC on small instances, and proves
with TLAPS, for every size of the system, the safety of the metering, the block set, the
OpenVPN identities, the configuration file, the address pools, `wg0.conf` and the imports.

## 1. The system

| Component | State | Operations | Hard because |
|---|---|---|---|
| Metering and enforcement (`enforce.go`, `reset.go`, handlers in `api.go`, edits in `main.go`, `ovpn.go`) | table `peers` (usage, baselines, quota, expiry, enabled, blocked, addresses), ipset, `enforceMu`; kernel and OpenVPN counters | enforcement pass, recharge, renew, quota, enable/disable, sync, create, delete, `wgmgr enforce` | a pass is a long sequence of reads, writes and external calls against a table everybody else edits; counters restart; writes fail silently; the CLI has another mutex |
| OpenVPN identities (`ovpn_pki.go`, `ghosts.go`, `ovpn_orphans.go`) | row of the user, file `ccd/<username>`, `ovpn_dir` in `config.json` and in the daemon | attach, detach, create, delete, ghost-users, ovpn-orphans, ovpn-init | file and row change one after the other, under no lock, by several processes; names are used again |
| Configuration (`loadConfig`, `saveConfig`, `api.go`) | `config.json`, `a.cfg`, `a.mu` | token regeneration, change-password, set-login, set-base-path, `init --force`, bundle import, ovpn-init and expand-subnet, restart | read-modify-write by several processes; truncate before write; panics while a lock is held |
| Address pools (`subnet.go`, `nextFreeIP`, `ovpnNextFreeIP`) | `wg0.conf`, interface, `server.conf`, CCD files, `ovpn_subnet`, addresses of users | allocation, `expand-subnet` | many steps without a transaction, two pools that must not meet, users arriving meanwhile |
| `wg0.conf` rendering (`main.go`, `subnet.go`, `migration.go`) | `wg0.conf`, its temporary file, the stripped file, the peers of the interface | `renderConf`, `applyLive`, create, delete, `render`, `import`, the rewriting by `expand-subnet` | no lock, fixed names for temporary files, a guard that compares two snapshots |
| Firewall widening (`subnet.go`) | iptables rules | `widenRuleArgs`, `widenFirewall` | positions computed before the inserts, a `-C` that finds any equal rule |
| Migration (`migration.go`) | table, `params`, `wg0.conf`, OpenVPN files, configuration, CCD files | export, `import-users`, `import-bundle` | one transaction, then many files in place; dies half-way and is repeated |
| Version check (`version.go`) | cached answer | `isNewer`, `semParts` | texts that are no versions |
| Update, PKI, server address, panel, menu, installer | little or none | | |

**Interaction.** The loop and the handlers are threads of one process and share `enforceMu`
and `a.mu`.  The commands are other processes: they share only the table, the files and the
kernel.  Renders, imports of a bundle and `expand-subnet` are three writers of `wg0.conf`.  Traffic,
reboots, restarts of the interface and OpenVPN sessions come from outside.

**What makes each part correct.** Metering: no byte is billed twice, none is lost.
Enforcement: the block set is what the table says, and becomes so again after any
disturbance.  Identities: the CCD files admit the users who have an identity and nobody else.
Configuration: an edit is not lost, a revoked token stays revoked, a request is answered.
Pools: addresses stay usable, unique and routed; networks never collide; the firewall treats
the wide pool as it treated the narrow one.  `wg0.conf`: file and interface follow the table,
and nobody who was never imported is cut off.  Migration: what an import promises holds when
it ends, also after one that died; the destination's endpoint is kept.

## 2. Modules

| Module | Models | Runs |
|---|---|---|
| `Meter` | what metering promises of one tunnel (abstract) | as `IsMeter` of `Enforce` |
| `Enforce` | the enforcement pass, `enforceMu`, recharge, edits, ipset, crashes | through `MCEnforce` |
| `EnforceProofs`, `MeteringProofs` | proofs about `Enforce`: types and block set; accounts and implementation of `Meter` | - |
| `Identity`, `IdentityProofs` | OpenVPN identities, and proofs about them | through `MCIdentity` |
| `ConfigStore`, `ConfigProofs` | `config.json`, `a.cfg`, `a.mu`, and proofs about them | through `MCConfigStore` |
| `Firewall` | chains, copies of rules and where they go | in `Subnet` |
| `Subnet`, `SubnetProofs` | allocation and `expand-subnet`, with `Firewall`, and proofs about them | through `MCSubnet` |
| `WgConf` | `renderConf`, `applyLive` and every other writer of `wg0.conf` | in `Migration` |
| `Migration`, `MigrationProofs` | imports of users and bundles, with `WgConf`; the specification of both, and proofs about it | through `MCMigration` |
| `Version` | `isNewer`, `semParts`, with theorems | - |
| `Minimum` | two lemmas: a finite set of numbers has a least one (for the CHOOSEs of `Enforce`, `Identity` and `Subnet`), and what steps up from 0 reaches all (for `Merge`) | - |

`PROJECT.json` maps every definition to the lines it models.

### Enforce
A user is a row id.  `row` says whether the row exists, `pol`, `ip`, `wg` and `ov` hold its
columns, `wgc`, `ovc` and `conn` are the counters and sessions of the two tunnels, `ipset` the
members of the block set.  `tick[p]` holds the local variables of one pass: the daemon has one
pass at a time (`tick[Loop]`, run by whichever thread holds `enforceMu`, the variable
`holder`), every CLI process its own.  The steps of `enforceTick` are actions:
`BeginPass` (ipset, `wg show transfer`), `TickOvpn` (`ovpnUsage`), `TickPeers` (`allPeers`, also
one that broke off, since `rows.Err` is not read), then per peer `TickWG`, `TickOvpnAcct`,
`TickIpset`, `TickFlag`, and at the end `TickSweep`.  The in-memory peer is `snap`, which the
code updates and never reads again from the table.  An ignored error of `db.Exec` loses the
write and goes on; `allPeers` may panic, which releases the lock and answers the request.
Recharge is `RechargeSample` (lock, read counters), then `RechargeCommit` or `RechargeFail`.
An attach takes no lock: `AttachPick` chooses a free OpenVPN address, `AttachWrite` updates the row
and `AttachFail` is every way it ends in between (`att` holds what it picked).  Nothing in the
table keeps `ovpn_ip` unique, so two attaches may give two users one address.
Edits are one UPDATE outside the lock; the panel's are followed by a pass
(`pc = "reconcile"`), the command line's are not.

Abstractions: GB and dates are small numbers and past/future; WireGuard and OpenVPN count
traffic of blocked users, since the tunnels see it before the FORWARD chain does.  Failing calls of
`ipset` count as faults like lost writes, address by address.
`ovc` and `conn` are OpenVPN's sessions as they are; the program sees `status`, the file OpenVPN
writes now and then (`WriteStatus`, external), which lags behind them.  A pass takes whatever the
file holds, at any age, and may meet one of which only the first lines are written: then it
sees some of the sessions (`TickOvpn`).  A recharge refuses a file that is torn or older than two
minutes; a younger one may still miss bytes.  Only when there is no file does the program ask the
management socket, which answers with the counters of the moment.  OpenVPN's usage is
therefore counted from the *file* a recharge took its baseline from: `base[u].ov` is the traffic when
that file was written.  A user whose counters were once taken from the socket (`status.socket`)
is excused, since an older file read afterwards looks like a new session and is billed again.
The age of a file is not state: any file a recharge sees is one it may accept.  User names are not
used again in `Enforce`; `Identity` has that.
The variables `sent`, `base`, `cut`, `stale`, `touched` and `swept` are history, and so are the
fields `sent` and `socket` of `status`: no action reads them to decide anything (the bound on `sent` apart).

`Meter` is the abstract specification: per user the bytes carried, billed in the period, and
due.  A byte carried falls due, a bill is made of due bytes, due bytes may be lost and never
come back, a period closes with at most what was due.  The refinement mapping `WgMeter` takes
`sent`, `used_bytes`, and as due `Outstanding`: what the sample of the running pass or
recharge owes the row, plus what the counters owe the sample.

### Identity
`row[n]` is the row with username n (its id, the presence of a WireGuard key, the identity and
its address), `ccd[n]` the file.  Each operation is a sequence of actions on `op[p]`: create
(INSERT, read back by name, pick, file, UPDATE by id, with the cleanup of
`ovpnAttachNewUser`), attach, detach, delete, ghost-users (list, delete one by one),
ovpn-orphans (read the table, scan the directory, remove).  `Interrupt` stops an operation
between any two steps, `Restart` stops the daemon's.  `op.id` is the id the
read-back by name found, which may be another create's row.  `confDir`/`daemonDir` are `ovpn_dir` in the file and in the daemon.  Certificates carry the name only and outlive everything, so who
may connect is decided by the files; sessions are not state here.  `dirty`, `detached` and
`raced` are history: names an interruption left half-done, and names two operations worked on
at once, which `FileMatchesRow` excuses.

### ConfigStore
`file`, `torn` (truncated, not written), `cfg` (a.cfg), `holder` of `a.mu`.  A request passes
`guard` (read lock), picks the lock, loads, saves in two steps and publishes.  A load of a torn
file dies; `guard` answers and the lock stays.  A bundle's import works on a copy of `a.cfg`
and takes the lock only at its end.  A crash stops every handler; `Restart` needs a readable file.
A file of four fields stands for the configuration, each with writers of its own: the token,
the login, the base path, and what `ovpn-init` and `expand-subnet` write.  These two load early
and save late, and may die in between (`CommandDies`); `init --force` reads nothing and makes
every field anew, also over a torn file.
Copying a.cfg without the lock is a data race in Go; token and hash have fixed lengths, so the
copy is either value and the model takes one of them.

### Subnet
Addresses are numbers of `Bits` bits, an octet has `Octet` values, so HostAllocatable's four
boundary conditions all appear in pools of eight to thirty-two addresses.  `ExpandSubnet` is
`buildExpandPlan` with the confirmation, then one action per effect of `expandWireGuard` and
`expandOpenVPN`; `Dies` leaves everything as it is, and the command may be run again.  The
interface is up during a run.  `ReadRules`, `CopyRule` and `AfterRules` are `widenFirewall` at
the end of each widening, and its copies are live inserts only: the chain is read once, `WidenRuleArgs`
makes the commands, each is
checked and inserted on its own and may fail.  The commands are a set of positions with their
copies, worked through from the last rule to the first (`Comes`).  A rule of `Firewall` is a network with its
negation, the packet classes it asks for besides, and a target; `Verdict` walks the chain as
the kernel does, and `FirewallFollows` compares the verdicts of old and new network.  A reboot (`Boot`)
or a restart of the firewall (`ReloadFirewall`) brings back the chain of the installation without
the copies, except that the rules wg-quick adds itself come from the `PostUp` lines of
`wg0.conf`, which the widening rewrote; the operator has to save the copies, as `subnet.go:316-320`
tells him.
An attach is `LoadSubnet` (`loadConfig`), `OvpnNextFreeIP` (pick), `WriteCCD`, `RecordIP` (UPDATE), with
`AttachDies` between any two: what it loaded may be the narrow pool when it writes.  A user
has one attach at a time here, since `Identity` has two on one name.  A host without an OpenVPN
unit the program knows keeps its running server (`start.unit`, `RestartOpenvpn`).
History: `late` are the users whose CCD file the last command did not see, attached after it had
read the rows or by an attach that had loaded before it saved; `raced`, the users whose
picked address another attach had picked as well; `restored`, a firewall restart that dropped copies.
The masks of `late` users are mended by the next widening.

### WgConf and Migration
A row is its WireGuard key; `NameOf` and `AddrOf` give its unique columns.  `table` and `born`
are the table now and ever, `conf`, `tmp` and `strip` the three files, `live` and `up` the
interface.  A file is truncated (`Torn`), whole, or whole with the tail of a longer text behind
it (`Garbled`), which two writers of one open file can make.  `fd` says where the file a
process has open is now: a rename moves it under the process's hands.  `renderConf` is `Guard`,
`WgShow`, `ReadHead`, `Peers`, `Open`, `Write`, `Rename`; `applyLive` is `Strip`, `StripWrite`,
`Sync`, `Remove`.  `StartCreate`, `StartDelete`, `DropRow`, `StartImport`, `ImportOne` are what the
commands do before; `XRead` to `XRename` is `expandWireGuard` up to its rename (its own
temporary file makes write and rename one step); `RTrunc` and `RWrite` restore the bundle's file
in place.  `Crash` ends any operation between two steps, `IfDown` and `IfUp` are wg-quick.

`Migration` adds `params`, `ovpn_endpoint`, the OpenVPN files and the CCD files.  An import looks
its first user up before the transaction has the lock (`Look`), merges (`Txn`), restores `params`
(`Params`, `PWrite`), `wg0.conf` (`Truncate`, `Restore`) and the OpenVPN files (`Pki`), saves
(`Save`), renders with force, and writes the CCD files (`CcdPeers`, `CcdFile`), these only if
the configuration it works with names the OpenVPN directory (`imp.dir`): an import in the panel works
with `a.cfg`, which may be older than `ovpn-init`.  `DirKnown` says which configurations do; the
directory and `ovpn_endpoint` come into `config.json` together, so an endpoint stands for both.
A deletion works with any configuration of `cfgs` too, and with one that names no directory it leaves the
file (`undead`).  `cfgs` holds every value
`ovpn_endpoint` has had, since an import of the panel starts from a copy of `a.cfg`.
History: `alone` and `settled` say whether a render was overlapped, `shared` whether two had
the temporary file open, `forced`, `blind` and `restored` whether a render was forced, a guard saw
nothing, or a restore of `wg0.conf` is unfinished, `calm` whether an import was alone.

### Version
A text is a record of its fields, numbers or `Bad`; theorems about `IsNewer` are in the module.

## 3. Runs

| Run | Instance | Question |
|---|---|---|
| `enforce_ovpn` | 1 user of OpenVPN, 1 handler, 1 attach, loop, 1 fault, 3 bytes | is a byte billed twice although the status file lags? |
| `enforce_policy` | 2 users, 1 address per pool, 1 handler, 2 attaches, 1 fault, liveness | does the block set follow the table, also for an address with a second owner? |
| `enforce_live` | 1 user of WireGuard with quota 1, expiry, recharge, sync, CLI edits, loop, 1 fault, 2 bytes each way, liveness | are bytes billed once and all of them, is the set exact after a pass, is every request answered, is the daemon a meter? |
| `cli_policy` | 2 users, loop and one `wgmgr enforce` | does the set converge when two passes overlap? |
| `cli_reset` (violation) | 1 user, `recharge --reset` | is a byte of the old period billed again? Yes. |
| `identity` | 2 names, 1 address, 3 ids, a handler and a command, 1 fault | do files and rows agree, cleanup, re-used names, ghost-users under interleaving; who may lose his row? |
| `identity_stale` (violation) | daemon started before `ovpn-init` | does a deleted user stay out? No. |
| `config_kept` | 2 handlers, 1 command, 2 edits, 1 crash, liveness | lost edits, revived tokens, waiting requests |
| `config_lock` (violation) | 1 handler, 1 command | is every request answered? No: a panic keeps `a.mu`. |
| `config_token` (violation) | 2 handlers, one import, one regeneration | does the old token die? No. |
| `subnet` | 2 users with attaches in steps in 2 installations; all placements of the pools by 5 sets of foreign routes, and with a chain of up to four rules; prefixes of two widths, 1 fault | addresses, masks and routes; what may a widening come to lie over; what happens to the packets of the wide pools? |
| `migration` | 2 processes, 5 keys of 4 names, a bundle of 2 users that clash with rows, 2 OpenVPN files, Budget 6, 2 faults | does `wg0.conf` follow the table, what does an import leave? |

**Bounds.** `MaxBytes` of 2 or 3 lets a counter be below, at and above its baseline, a status file be
behind the counter and ahead of the row, and a quota be below, reached and passed; one fault is enough
to lose a write, break a read or restart a
counter at any step, and the proofs of section 5 do not depend on it.  Two users suffice for
an address to change owners while a pass works on an old table; one address makes it the
normal case and makes an attach find the pool exhausted.  In `identity` three ids give a
name a second and a third row.  In `subnet` two widths give a second widening on top of the
first.  Its installations are of three kinds (`Peopled`, `Placed`, `Ruled`), because users, foreign routes
and chains do not influence one another: `expand-subnet` reads the three apart.  Those with users
are pools of one octet each, and a half octet next to a server that is not restarted; the
placements contain pools that are aligned and not, adjacent, far apart, partly
under foreign routes, wholly under a route of a foreign device with other routes beside it, and
a foreign device that has the name of the tunnel's.  In `migration`
a short operation costs 2, an import 3 of the Budget of 6: three short operations (enough for
a delete, a create and a render in any overlap) or two imports (one that dies and its rerun, or two
at once), or an import and one operation.  The bundle renames the owner of an address and gives another's
address away, so every order of its users meets a UNIQUE column.  Two faults are a crash in an import
and one in its rerun, or the interface going down and a guard that fails.

**Fairness.** The loop sleeps a finite interval and comes back, a goroutine inside a pass or a
transaction is scheduled, and Go's mutex hands itself to a waiter that starved
(`Fairness` in `Enforce`: weak for steps inside, strong for taking the lock).  Faults are
bounded, so in the end passes succeed: `BlockedIsDropped` and `AllowedIsServed` say that the
block set recovers once faults and edits stop.  Nothing is assumed of users, commands, traffic
or `wgmgr enforce`.  In `ConfigStore` handlers are scheduled and `RWMutex` alternates readers
and writers (strong fairness per handler); a command that has begun to save goes on.
`config_kept` switches off deadlock checking: a crash in the middle of `os.WriteFile` of the
daemon leaves a torn file with which it cannot start, and the system really stops.  The two
violation runs of `ConfigStore` bound the edits and stop when these are used up.  `migration`
checks safety only and stops when the Budget is spent.

## 4. Where code and documentation disagree

* **`wgmgr recharge --reset`** (`main.go:1481`) zeroes the baselines; WireGuard counts on, and
  the next pass bills the closed period again.  The panel's recharge keeps the live counters as
  the baseline, as `reset.go:16-17` says.
* **Panel delete** (`api.go:389`) looks for the CCD file in the `ovpn_dir` the daemon started
  with; in a daemon older than `ovpn-init` it removes nothing, against `api.go:387-388`.
* **A panic inside `a.mu`** (`api.go:185-190`, `552-557`) leaves the lock taken: every later
  request hangs, against `api.go:144-145`.
* **Bundle import** (`migration.go:606`, `api.go:226-236`) writes an old copy of the
  configuration back, and with it a token that was regenerated meanwhile, against `README.md:67`.

Further observations, which the properties excuse by name and PROJECT.json lists as hazards:

* Identities: two concurrent attaches can take one OpenVPN address; a user created while
  `ovpn-orphans` scans loses the CCD file.
* Identities: a create reads its new row back by the name (`api.go:364`).  If the row was deleted and
  the name created again meanwhile, `ovpnAttachNewUser` works on the other row, and when it finds
  no address it deletes that user, although `ovpn_pki.go:347-350` means the row "inserted moments ago".
  `UsersKept` excuses this as two operations on one name.
* Block set: an OpenVPN address two users share is in the set as the one with the higher id
  needs it, since a pass settles them one after the other.
* Metering: the recharge accepts a status file up to two minutes old (`reset.go:47-57`), so up to two minutes
  of earlier OpenVPN bytes are billed to the new period.  An old file read after an answer of the
  socket bills a session again.  Overlapping passes of two processes can bill a byte twice; a detach
  races with a
  pass over the OpenVPN account.
* Pools: an `expand-subnet` that died between `wg0.conf` and `ip addr add` does not finish on a
  rerun; users attached while the CCD files are rewritten, or by an attach that had loaded the narrow pool,
  keep the narrow mask until the next widening; a restart of the firewall drops the copies, and
  a later widening finds nothing about the present width to copy; of two equal
  rules only the lower one gets its copy before it.  A foreign device whose route covers a pool
  counts as the pool's own (`poolDevs`, `subnet.go:182-199`), so after a widening that covers this
  route its other routes do not refuse the next.  `NoNewClash` therefore compares with the devices
  that met the pool when it was installed.
* `wg0.conf`: a create that the guard refuses has already inserted its row.  After two renders
  lost a race a deleted user's peer can be live again, and from then on every render without
  force refuses, until the next delete.  Two renders that share the temporary file can rename
  a torn one into place, and a `syncconf` from it drops every peer.  An interface that is down, or a
  `wg show` that fails, lets the guard pass.  A render between the table read and the rename
  of `expand-subnet` is undone in the file, although subnet.go:533-534 means to prevent that.
* Migration: an import that died while `params` was truncated makes its rerun take the source's
  endpoint.  A CCD file is written again for a user deleted meanwhile.  Users are merged one
  by one, so an address that a later user of the bundle frees makes the whole import fail; OpenVPN
  addresses are not checked at all.  An import in a daemon that does not know `ovpn_dir` writes no CCD
  files, and
  a deletion there leaves one, without an error.  The imported `last_rx` and `last_tx` are the source's.
* Version: a pre-release and its release compare equal, so the release is never offered; two
  texts that do not parse are each newer than the other.

## 5. Proofs

**Assumptions.** About the constants, each in the module that declares them:
`EnforceAssumption` (ids and addresses are numbers, finite sets, the two pools disjoint, the loop
neither a handler nor a process), `ConfigAssumption` and `IdentityAssumption` (handlers and
commands are different processes, the pool is a finite set of numbers, bounds are numbers),
`SubnetAssumption` (pools and routes are networks, the two pools apart when they are installed),
`WgConfAssumption` (the keys of the start have names and addresses of their own, keys from before
WG-Manager have no row), `NoFileAssumption` (a file that is not there is no file),
`MigrationAssumption` (a bundle's users have different names, a name is created once),
`PowersAssumption` (a network is twice as large as one with a prefix longer by one: the provers
know nothing of 2^n), and in `Version` that `Bad` is no number.  TLC evaluates all of them.

**Hypotheses.** Some theorems hold of part of the program only and say so:
`DaemonOnly` (no `wgmgr enforce`, no `recharge --reset`: section 4 shows why),
`DaemonOnlyNoDetach` (besides, no detach), `OneDaemon` (no `wgmgr enforce`),
`DirKnown` (the daemon knows `ovpn_dir` from its start; `identity_stale` is the other case).

| Theorem | Under | States for every size |
|---|---|---|
| `TypeCorrect` (`EnforceProofs`) | | `TypeOK`, and a pass inside its loop has a current user |
| `BlockSetExact`, `FlagsExact`, `SweepLeavesNone` (`EnforceProofs`) | `OneDaemon` | `FreshExact`, `FlagMatchesSet`, `NoLeftover` |
| `NeverBilledTwice` (`MeteringProofs`) | `DaemonOnly` | `NeverOverbilled` |
| `EveryByteBilled` (`MeteringProofs`) | `DaemonOnly` | `NothingLost` |
| `OvpnNeverBilledTwice` (`MeteringProofs`) | `DaemonOnlyNoDetach` | `NeverOverbilledOvpn` |
| `DaemonIsMeter` (`MeteringProofs`) | `DaemonOnly` | `IsMeter`: `Enforce` implements `Meter` |
| `IdentityTypes`, `AddressesUnique`, `NoGhostStays` (`IdentityProofs`) | | `TypeOK`, `UniqueAddresses`, `NoGhostLeft` |
| `FilesMatch` (`IdentityProofs`) | `DirKnown` | `FileMatchesRow` |
| `UsersStay` (`IdentityProofs`) | | the action property `UsersKept` |
| `MutualExclusion` (`ConfigProofs`) | | `TypeOK`, and `a.mu` excludes |
| `TokensStayDead`, `NoEditLost` (`ConfigProofs`) | | `OldTokenStaysDead`, `EditsKept` |
| `Types`, `NeverOverlap`, `AddressesStayUsable`, `ServerNeverMoves`, `MasksNeverBehind`, `NeverOverOthers`, `RoutedWhenOver` (`SubnetProofs`) | | `TypeOK`, `PoolsApart`, `AddressesUsable`, `ServerStays`, `MasksFollow`, `NoNewClash`, `Routed` |
| `FirewallMirrors` (`SubnetProofs`) | | `FirewallFollows` |
| `MigrationTypes` (`MigrationProofs`) | | `TypeOK`: also that no two rows share a name or an address |
| `ForeignPeersStay`, `ConfWhole`, `RenderInStep` (`MigrationProofs`) | | `UnimportedStay`, `NeverTorn`, `InStep` |
| `EndpointOfDestination`, `FilesOfUsers`, `ImportInPlace` (`MigrationProofs`) | | `EndpointKept`, `CcdMatches`, `ImportComplete` |
| `NoWayBack`, `UpdatesGoUp` (`Version`) | | between releases `isNewer` is asymmetric and transitive |

`MeteringInvariant`, `BlockSetInvariant` and `ConfigInvariant` state the inductive invariants
themselves.  None of the properties is inductive as it stands; what is added, and why:

* **Types of `Enforce`.** `PhaseInv`: a pass between `TickWG` and `TickFlag` has a current user;
  without it `Cur` is an arbitrary CHOOSE.
* **`NeverOverbilled`.** A row may be within its traffic while the counters are about to add the
  same bytes again.  `Metering` adds what is due: account plus `Due(counters, row)` is at most the
  traffic of the period; and, while a pass or recharge holds a sample, account plus what the
  sample adds plus what the counters have gained over the sample.  The last part is what makes a
  lost write or a crash harmless: the sample is thrown away and only the row counts.  It needs
  `LockInv`: while a pass holds its sample nobody else moves the accounts, so the snapshot equals
  the row.  `DueNat`, `DueZero` and `DueByte` do the arithmetic with resets.
* **`NothingLost`.** `Balance`: as long as a user's counters were never reset, row, sample and
  counters follow one another (`Behind`), so every delta is a plain difference (`DueGain`), and
  the row plus its distance from the counters is the traffic.  A recharge that holds a sample
  keeps the same account from the moment of the sample (`RechargeBalanced`).
* **`NeverOverbilledOvpn`.** What is due is measured against the status file, not the counter:
  `OvpnAccounts` says that the file, the sample of a pass, the snapshot of its peers and the row
  stay within the traffic (`FileWithinTraffic`, `SampleWithinTraffic`, `SnapshotCurrent`,
  `RowWithinTraffic`), each by the bytes it still misses, and that a recharge which holds a sample
  knows the traffic of the file it came from (`RechargeWithinTraffic`).  The counter starts at zero with every
  session, and a user who never had an identity is in no session and no file (`Unused`): a create
  cannot meet old ones.  A detach breaks just this, which is why it is excluded.
* **The block set.** `BlockSet` follows a pass through its loop: the snapshot of an untouched user
  who is still to come is his row, one who is done is `Settled` (his addresses are in the set
  exactly if his row says blocked, and the flag agrees), the addresses the pass knows are owned,
  and no user still to come has in the snapshot an address of an untouched one, so settling one
  user cannot undo another.  That starts from `AddressesApart`, which speaks of WireGuard addresses only:
  they are UNIQUE in the table.  OpenVPN addresses may be shared, so `FreshExact` promises of a user the
  addresses that are his alone (`OwnIPs`), and a step that gives or takes a shared address counts as a
  change of everybody who has it (`Sharers`).
  Between passes this holds of everybody who did not change.
* **The refinement.** `Metering` gives the natural-number type of `Outstanding` and the equality of
  snapshot and row inside a pass.  `StepOf` says, action by action and user by user, which
  abstract step is taken: `TickWG` and `RechargeCommit` bill or close, traffic carries, resets and
  deletions lose, everything else leaves the account and can only lower what is due.
* **Identities.** `Safe` (types, and what each phase of an operation has in its variables);
  `Picked`: an address that was picked and not yet written is nobody else's, unless the two
  raced; `Alone`: an operation alone with its name finds row and file as it left them (`Fits`, one
  line for each group of phases), from which `FileMatchesRow` follows when it ends; and
  `GhostsUndone`: every ghost has the create that is still to give it an identity or take it back.
  `UsersKept` needs `Bare` besides: as long as no two operations worked on a name at once, the row an attach
  or its cleanup works on has no identity, so what a cleanup removes is not a user who has one.
* **Configuration.** `LockedOK` ties `holder` to the phases of the handlers.  `ValuesInv` hands
  values out in order.  Without a clash `CopyInv` says that whoever is about to save holds the
  only copy, and it is the file with one field changed; `TokenInv`, that a token on its way to
  the file is neither dead nor in use.  The two theorems are then single conjuncts.
* **Pools.** `IInv` has eleven parts.  The argument rests on aligned networks: two of them are nested
  or apart (`NestedOrApart`), so a widened pool contains the old one (`SameBase`, `HostWidened`)
  and what was apart can meet only through the check of `buildExpandPlan`.  `WgWidens` and
  `OvWidens` order the prefix lengths in file, interface, `config.json`, `server.conf`, running
  server and command, also after a command that died and was repeated narrower or wider; `Apart`
  and `Clear` hold of what the command is about to write as well; `InProgress` says where a
  command without faults stands; `Masks`, which masks it has not come to yet; and `Attaching`, that an
  attach under way works
  with a pool that has only been widened since (`Knows`) and that the address it picked is nobody's unless
  another attach raced with it (`PickedFree`).
* **`FirewallFollows`.** `Firewalled`, for chains of any length and any number of widenings.  The
  narrow pool's hosts are treated as before (`SameForNarrow`): a copy goes in just before its
  original, which would have decided the packet anyway.  The wide pool's are treated as they are:
  between commands every rule about the pool is for its whole present width or stands behind a
  rule that is and that asks the same (`Settled`), so no host of the pool is told from another.
  Within a command `Mirroring` has a rule about the old width either copied or still to be copied;
  `Commands` keeps the places right, which it does because the copies run from the last to the
  first; `Distinct` is what makes the check `-C` harmless, since a copy that is already there would
  be left where it is.  `Fine` limits all this to chains that met no fault and no restart of the
  firewall.  Rules of the operator about larger networks treat the pool alike, and rules
  about the other pool cannot meet it (`Origin`, with `PoolsApart`).  `Copyable` states what is
  left to the operator: a negated rule, two equal rules, a rule about only a part of the
  widened pool, which tells its hosts apart at any width, and one about just the widened pool that
  was there before and so may be taken for the copy, wherever it stands.
* **Types of `Migration`.** `Types` adds `Descriptors` (an open file belongs to a writer, and the
  temporary file is there while it is open under its name) and `Leftovers` (what an import has
  still to write is of the kind it writes).  That rows keep names and addresses apart needs
  `Merged`: what `Merge` makes of a whole bundle.  `Merge` is a recursive function; the lemma shows
  that its equation has a solution and then goes up along the bundle (`Upward`), from `OneMerged`
  for one user.  The same lemma says that a merge which succeeds has every user of the bundle.
* **`NeverTorn` and `InStep`.** `Sound`: who is alone in the window between the reading of
  `wg0.conf` and the last use of it is so until the other's `Enter` says otherwise (`Alone`); no
  two renders have the temporary file open (`Exclusive`); a whole file has a head, and `last`
  knows which (`Heads`); and `Fits`, which says phase by phase what the files are for an operation:
  the temporary file is what its one writer makes of it, the stripped file and `wg0.conf` are as an
  operation alone left them, and once a render has settled nobody has `wg0.conf` open.  The last
  part is what keeps `InStep` after the render: the name of a file may move under an open handle.
* **`UnimportedStay`.** `Guarded`: whoever is past a guard that saw the interface knows that every
  foreign peer on it has a row, or, a widening, still has these peers in what it will write.  Only
  deletions and imports get past without, and these set `forced`.  A render past
  its guard means that no unimported foreign peer is left, so even two of them that share the
  temporary file need no exception.
* **`CcdMatches`** needs of the deletions under way that the file they removed is gone or recorded
  in `undead` (`Buried`), as it is when the deletion's configuration named no directory;
  **`EndpointKept`**, that no import carries the source's endpoint and no
  value `ovpn_endpoint` ever had is the source's (`OwnEnds`).
* **`ImportComplete`.** `Calm`: an import that nothing overlapped has come as far as its phase says
  (`Progress`), and everybody else is idle, so each of its steps finds the files as the last left
  them; `Sound` gives it `wg0.conf` and the interface after its render.  CCD files are promised where
  `imp.dir` holds, which it does after a bundle's `Save`.

The step theorems have one lemma or step per action.  TLC checks `Metering`
and `IsMeter` in `enforce_live`; the other inductive invariants were checked on the same instances before they
were proved.

**Only model-checked.** Liveness (`BlockedIsDropped`, `AllowedIsServed` and the requests that are
answered), which is out of the prover's reach.

## 6. Plan

1. Done: `Enforce` with `Meter`, `Identity`, `ConfigStore`, `Subnet` with `Firewall`, `WgConf` with
   `Migration`, `Version`; the proofs of section 5.
2. Open hazards without a property: detach and a second attach in the OpenVPN account, a
   status file that is cut in the middle of a number or has two sessions of one name, two renewals at
   once (dates), a torn `config.json` after a crash.

## 7. Not modelled

Keys, certificates and rendered profiles (data without state); the panel's pages, the menu and
the installer (I/O); server address discovery (a chain of fallbacks without state); the schema
migration (one transaction at start); the export of users and bundles (a read of table and files)
and the decoding of what is imported (bad input is refused before anything is written); the
cache of the latest release (one variable, one mutex) and the update (an external script);
ports and protocols of a bundle, which take the same way as its endpoint.
