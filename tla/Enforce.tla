------------------------------ MODULE Enforce ------------------------------
(***************************************************************************)
(* Metering and enforcement: the peers table, the byte counters of the two *)
(* tunnels, the block ipset, and the processes that touch them.            *)
(*                                                                         *)
(* One daemon (`wgmgr serve`) runs the enforcement loop (thread Loop) and  *)
(* the API handlers (threads Handlers); they share enforceMu.  A pass      *)
(* (enforceTick) is a sequence of steps, because the daemon may crash and  *)
(* other actors may act between any two of its calls.  `wgmgr enforce`     *)
(* (CliTicks) runs the same pass in another operating system process,      *)
(* whose enforceMu is another mutex.                                       *)
(*                                                                         *)
(* Users stand for rows of the peers table (AUTOINCREMENT ids, so a row id *)
(* is never used twice).  An address is a number, NoIP the empty string.   *)
(***************************************************************************)
EXTENDS Integers, FiniteSets

CONSTANTS
  Users,      \* row ids
  WgIPs,      \* addresses of the WireGuard pool
  OvpnIPs,    \* addresses of the OpenVPN pool
  Quotas,     \* the values quota_bytes takes; 0 means no quota
  Handlers,   \* API goroutines of the daemon
  CliTicks,   \* `wgmgr enforce` processes; {} when nobody runs one
  Attachers,  \* handlers and commands that attach OpenVPN identities
  Ops,        \* the operations the environment may call in this instance
  Streams,    \* the byte streams that carry traffic in this instance
  MaxBytes,   \* bound: bytes one user sends through one tunnel
  MaxFaults,  \* bound: crashes, reboots, failed reads and failed writes
  Loop, None  \* the daemon's loop thread; "no thread"

NoIP == 0
AllIPs == WgIPs \cup OvpnIPs
Threads == Handlers \cup {Loop}
Daemon == Loop                     \* the daemon's pass is tick[Loop]
Procs == CliTicks \cup {Daemon}

ASSUME EnforceAssumption ==
  /\ Users \subseteq Nat /\ IsFiniteSet(Users)
  /\ WgIPs \subseteq Nat \ {NoIP} /\ IsFiniteSet(WgIPs)
  /\ OvpnIPs \subseteq Nat \ {NoIP} /\ IsFiniteSet(OvpnIPs)
  /\ WgIPs \cap OvpnIPs = {}
  /\ Quotas \subseteq Nat /\ 0 \in Quotas
  /\ MaxBytes \in Nat /\ MaxFaults \in Nat
  /\ Loop \notin Handlers \cup CliTicks /\ None \notin Handlers \cup {Loop}

VARIABLES
  row,      \* [Users -> {"new", "live", "gone"}]: no row yet, a row, a deleted row
  pol,      \* enabled, expires_at, quota_bytes and blocked of the row
  ip,       \* address and ovpn_ip of the row
  att,      \* attaches that have picked an address and not yet written the row
  wg,       \* used_bytes, last_rx and last_tx of the row
  ov,       \* used_ovpn_bytes and last_ovpn_bytes of the row
  wgc,      \* WireGuard's own rx/tx counters (since the interface came up)
  ovc,      \* OpenVPN's own byte counter of the session
  conn,     \* does the user hold an OpenVPN session?
  status,   \* OpenVPN's --status file: sessions and bytes when it was last written
  ipset,    \* members of the block set
  holder,   \* the daemon thread that holds enforceMu
  hs,       \* what each API handler is doing
  tick,     \* the local variables of each enforcement pass
  faults,   \* faults so far
  sent,     \* history: bytes that crossed each tunnel of the user
  base,     \* history: sent when the current billing period began; of OpenVPN, as the file had it
  cut,      \* history: users whose WireGuard counters were ever reset
  stale,    \* history: users touched, or a call for them lost, since the last pass read them
  touched,  \* history: users touched since the running pass read them
  swept     \* history: did the sweep of the last finished pass succeed?

db == <<row, pol, ip, att, wg, ov>>
kernel == <<wgc, ovc, conn, status>>
history == <<sent, base, cut, stale, touched, swept>>
vars == <<row, pol, ip, att, wg, ov, wgc, ovc, conn, status, ipset, holder, hs, tick,
          faults, sent, base, cut, stale, touched, swept>>

Expiries == {"none", "future", "past"}   \* "none" also stands for an unparsable date
Phases == {"idle", "ovpn", "peers", "wg", "ovpnacct", "ipset", "flag"}

(***************************************************************************)
(* Operators of the code.                                                  *)
(***************************************************************************)
\* The mutant of Delta never notices a counter reset.
DeltaNoReset(cur, last) == cur - last

\* Bytes to bill for a counter that reads `cur` and read `last` before.
Delta(cur, last) == IF cur < last THEN cur ELSE cur - last

EffBlocked(pl, used) ==
  \/ ~pl.enabled
  \/ pl.expires = "past"
  \/ pl.quota > 0 /\ used >= pl.quota

IPsOf(a) == {a.wg, a.ovpn} \ {NoIP}

Live == {u \in Users : row[u] = "live"}
OwnedIPs(us) == UNION {IPsOf(ip[u]) : u \in us}
Least(S) == CHOOSE x \in S : \A y \in S : x <= y
Free(pool) == pool \ OwnedIPs(Live)

Blk(u) == EffBlocked(pol[u], wg[u].used + ov[u].used)

(***************************************************************************)
(* History: u's row changed under the feet of the passes that read it.     *)
(***************************************************************************)
Touch(us) ==
  /\ stale' = stale \cup us
  /\ touched' = [p \in Procs |-> touched[p] \cup us]
  /\ UNCHANGED swept

NoTouch == UNCHANGED <<stale, touched, swept>>

\* Users with u's OpenVPN address: what is done for the one is done for all.
Sharers(u) == {v \in Users : ip[v].ovpn = ip[u].ovpn /\ ip[u].ovpn # NoIP}

\* The columns of a row that was just inserted, and of no row.
NewPolicy == [enabled |-> TRUE, expires |-> "none", quota |-> 0, blocked |-> FALSE]
NoIPs == [wg |-> NoIP, ovpn |-> NoIP]
NoWgUse == [used |-> 0, rx |-> 0, tx |-> 0]
NoOvpnUse == [used |-> 0, last |-> 0]
NoCounters == [rx |-> 0, tx |-> 0]
NoRow == [pol |-> NewPolicy, ip |-> NoIPs, wg |-> NoWgUse, ov |-> NoOvpnUse]

FreshTick == [ph |-> "idle", todo |-> {}, known |-> {}, wgok |-> FALSE,
              tr |-> [u \in Users |-> NoCounters],
              ovdom |-> {}, ovcur |-> [u \in Users |-> 0],
              snap |-> [u \in Users |-> NoRow]]

NoAttach == [user |-> 0, ip |-> NoIP]

\* The status file before OpenVPN wrote it.  sent is history, what the sessions had carried by
\* then; so is socket, the users for whom the management socket was ever asked instead.
NoStatus == [up |-> {}, bytes |-> [u \in Users |-> 0], sent |-> [u \in Users |-> 0], socket |-> {}]

IdleHandler == [pc |-> "idle", user |-> 0, rx |-> 0, tx |-> 0, ovpn |-> 0,
                wgsent |-> 0, ovsent |-> 0]

Init ==
  /\ row = [u \in Users |-> "new"]
  /\ pol = [u \in Users |-> NewPolicy]
  /\ ip = [u \in Users |-> NoIPs]
  /\ att = [a \in Attachers |-> NoAttach]
  /\ wg = [u \in Users |-> NoWgUse]
  /\ ov = [u \in Users |-> NoOvpnUse]
  /\ wgc = [u \in Users |-> NoCounters]
  /\ ovc = [u \in Users |-> 0]
  /\ conn = [u \in Users |-> FALSE]
  /\ status = NoStatus
  /\ ipset = {}
  /\ holder = None
  /\ hs = [h \in Handlers |-> IdleHandler]
  /\ tick = [p \in Procs |-> FreshTick]
  /\ faults = 0
  /\ sent = [u \in Users |-> [wg |-> 0, ov |-> 0]]
  /\ base = [u \in Users |-> [wg |-> 0, ov |-> 0]]
  /\ cut = {}
  /\ stale = {} /\ touched = [p \in Procs |-> {}] /\ swept = TRUE

(***************************************************************************)
(* The tunnels.  Traffic crosses them whatever the ipset says: a blocked   *)
(* packet is counted by the tunnel before the FORWARD chain drops it.      *)
(***************************************************************************)
WgTraffic(u) ==
  /\ u \in Live /\ ip[u].wg # NoIP /\ sent[u].wg < MaxBytes
  /\ \E s \in Streams \cap {"rx", "tx"} : wgc' = [wgc EXCEPT ![u][s] = @ + 1]
  /\ sent' = [sent EXCEPT ![u].wg = @ + 1]
  /\ NoTouch
  /\ UNCHANGED <<db, ovc, conn, status, ipset, holder, hs, tick, faults, base, cut>>

OvpnTraffic(u) ==
  /\ "ovpn" \in Streams /\ u \in Live /\ conn[u] /\ sent[u].ov < MaxBytes
  /\ ovc' = [ovc EXCEPT ![u] = @ + 1]
  /\ sent' = [sent EXCEPT ![u].ov = @ + 1]
  /\ NoTouch
  /\ UNCHANGED <<db, wgc, conn, status, ipset, holder, hs, tick, faults, base, cut>>

\* The interface went down and came up: WireGuard counts from zero again.
WgRestart ==
  /\ faults < MaxFaults /\ faults' = faults + 1
  /\ wgc' = [u \in Users |-> NoCounters]
  /\ cut' = Users
  /\ NoTouch
  /\ UNCHANGED <<db, ovc, conn, status, ipset, holder, hs, tick, sent, base>>

\* ccd-exclusive: only a user with an OpenVPN identity can open a session.
OvpnConnect(u) ==
  /\ "ovpn" \in Streams /\ u \in Live /\ ip[u].ovpn # NoIP /\ ~conn[u]
  /\ conn' = [conn EXCEPT ![u] = TRUE]
  /\ ovc' = [ovc EXCEPT ![u] = 0]
  /\ NoTouch
  /\ UNCHANGED <<db, wgc, status, ipset, holder, hs, tick, faults, sent, base, cut>>

OvpnDisconnect(u) ==
  /\ conn[u]
  /\ conn' = [conn EXCEPT ![u] = FALSE]
  /\ ovc' = [ovc EXCEPT ![u] = 0]
  /\ NoTouch
  /\ UNCHANGED <<db, wgc, status, ipset, holder, hs, tick, faults, sent, base, cut>>

\* OpenVPN writes the file again every few seconds, line by line.
WriteStatus ==
  /\ status' = [status EXCEPT !.up = {u \in Users : conn[u]}, !.bytes = ovc,
                              !.sent = [u \in Users |-> sent[u].ov]]
  /\ NoTouch
  /\ UNCHANGED <<db, wgc, ovc, conn, ipset, holder, hs, tick, faults, sent, base, cut>>

\* Time passes: a future expiry is now in the past.
Expire(u) ==
  /\ u \in Live /\ pol[u].expires = "future"
  /\ pol' = [pol EXCEPT ![u].expires = "past"]
  /\ Touch({u})
  /\ UNCHANGED <<row, ip, att, wg, ov, kernel, ipset, holder, hs, tick, faults, sent, base, cut>>

(***************************************************************************)
(* Users come and go.  None of these calls enforceTick.                    *)
(***************************************************************************)
NewRow(u, wgip, q, x) ==
  /\ row[u] = "new"
  /\ \A v \in Users : v < u => row[v] # "new"      \* ids are handed out in order
  /\ row' = [row EXCEPT ![u] = "live"]
  /\ ip' = [ip EXCEPT ![u].wg = wgip]
  /\ pol' = [pol EXCEPT ![u] = [NewPolicy EXCEPT !.quota = q, !.expires = x]]
  /\ Touch({u})
  /\ UNCHANGED <<att, wg, ov, kernel, ipset, holder, hs, tick, faults, sent, base, cut>>

CreatePeer(u) ==
  /\ "create" \in Ops /\ Free(WgIPs) # {}
  /\ \E q \in Quotas, x \in {"none", "future"} : NewRow(u, Least(Free(WgIPs)), q, x)

\* The row of an OpenVPN-only user; an attach gives it its identity.
CreateOvpnOnly(u) ==
  /\ "createOvpn" \in Ops
  /\ \E q \in Quotas, x \in {"none", "future"} : NewRow(u, NoIP, q, x)

DeletePeer(u) ==
  /\ "delete" \in Ops /\ u \in Live
  /\ row' = [row EXCEPT ![u] = "gone"]
  /\ ip' = [ip EXCEPT ![u] = NoIPs]
  /\ pol' = [pol EXCEPT ![u] = NewPolicy]
  /\ wg' = [wg EXCEPT ![u] = NoWgUse]
  /\ ov' = [ov EXCEPT ![u] = NoOvpnUse]
  /\ wgc' = [wgc EXCEPT ![u] = NoCounters]    \* renderConf drops the WireGuard peer
  /\ Touch({u} \cup Sharers(u))
  /\ UNCHANGED <<att, ovc, conn, status, ipset, holder, hs, tick, faults, sent, base, cut>>

\* An attach looks the row up, picks an address, issues a certificate, writes the CCD file and
\* sets the columns, all under no lock: others may pick the same address meanwhile.
AttachPick(a, u) ==
  /\ "attach" \in Ops /\ att[a] = NoAttach
  /\ u \in Live /\ ip[u].ovpn = NoIP /\ Free(OvpnIPs) # {}
  /\ att' = [att EXCEPT ![a] = [user |-> u, ip |-> Least(Free(OvpnIPs))]]
  /\ NoTouch
  /\ UNCHANGED <<row, pol, ip, wg, ov, kernel, ipset, holder, hs, tick, faults, sent, base, cut>>

\* The UPDATE, by row id, leaves the usage columns alone.
AttachWrite(a) ==
  LET u == att[a].user IN
  /\ att[a] # NoAttach
  /\ att' = [att EXCEPT ![a] = NoAttach]
  /\ IF u \in Live THEN ip' = [ip EXCEPT ![u].ovpn = att[a].ip] /\ Touch({u} \cup Sharers(u))
                   ELSE NoTouch /\ UNCHANGED ip
  /\ UNCHANGED <<row, pol, wg, ov, kernel, ipset, holder, hs, tick, faults, sent, base, cut>>

\* The attach is interrupted, or a write fails.
AttachFail(a) ==
  /\ att[a] # NoAttach /\ faults < MaxFaults
  /\ att' = [att EXCEPT ![a] = NoAttach] /\ faults' = faults + 1
  /\ NoTouch
  /\ UNCHANGED <<row, pol, ip, wg, ov, kernel, ipset, holder, hs, tick, sent, base, cut>>

\* The CCD file goes, but OpenVPN keeps the session that is already up.
OvpnDetach(u) ==
  /\ "detach" \in Ops /\ u \in Live
  /\ ip' = [ip EXCEPT ![u].ovpn = NoIP]
  /\ ov' = [ov EXCEPT ![u] = NoOvpnUse]
  /\ Touch({u} \cup Sharers(u))
  /\ UNCHANGED <<row, pol, att, wg, kernel, ipset, holder, hs, tick, faults, sent, base, cut>>

(***************************************************************************)
(* Edits of a row: one UPDATE outside enforceMu.  The API handler then     *)
(* runs a pass (pc = "reconcile"); the CLI command does not.               *)
(***************************************************************************)
EnableRow(u) == "enable" \in Ops /\ pol' = [pol EXCEPT ![u].enabled = TRUE]
DisableRow(u) == "enable" \in Ops /\ pol' = [pol EXCEPT ![u].enabled = FALSE]
RenewRow(u) == "renew" \in Ops /\ \E x \in Expiries : pol' = [pol EXCEPT ![u].expires = x]
QuotaRow(u) == "quota" \in Ops /\ \E q \in Quotas : pol' = [pol EXCEPT ![u].quota = q]

EditRow(u) ==
  /\ u \in Live
  /\ EnableRow(u) \/ DisableRow(u) \/ RenewRow(u) \/ QuotaRow(u)
  /\ Touch({u})
  /\ UNCHANGED <<row, ip, att, wg, ov, kernel, ipset, holder, tick, faults, sent, base, cut>>

ApiEdit(h, u) ==
  /\ hs[h].pc = "idle" /\ EditRow(u)
  /\ hs' = [hs EXCEPT ![h].pc = "reconcile"]

CliEdit(u) ==
  /\ "cli" \in Ops /\ EditRow(u)
  /\ UNCHANGED hs

Sync(h) ==
  /\ "sync" \in Ops /\ hs[h].pc = "idle"
  /\ hs' = [hs EXCEPT ![h].pc = "reconcile"]
  /\ NoTouch
  /\ UNCHANGED <<db, kernel, ipset, holder, tick, faults, sent, base, cut>>

\* A call that may fail: one fault more.
Attempt(ok) ==
  /\ ok \/ faults < MaxFaults
  /\ faults' = IF ok THEN faults ELSE faults + 1

(***************************************************************************)
(* Recharge.  The API takes enforceMu, samples WireGuard's live counters   *)
(* and OpenVPN's file (up to two minutes old, but whole) or, without a     *)
(* file, the management socket, and commits them as the new baseline; then *)
(* it reconciles.  A sample that is refused, or a transaction that fails,  *)
(* leaves the row as it was.                                               *)
(***************************************************************************)
RechargeSample(h, u) ==
  /\ "recharge" \in Ops /\ hs[h].pc = "idle" /\ holder = None /\ u \in Live
  /\ holder' = h
  /\ \E file \in BOOLEAN :
       /\ Attempt(file)
       /\ hs' = [hs EXCEPT ![h] =
            [pc |-> "commit", user |-> u,
             rx |-> IF ip[u].wg # NoIP THEN wgc[u].rx ELSE wg[u].rx,
             tx |-> IF ip[u].wg # NoIP THEN wgc[u].tx ELSE wg[u].tx,
             ovpn |-> IF ip[u].ovpn = NoIP THEN ov[u].last
                      ELSE IF file THEN status.bytes[u] ELSE ovc[u],
             wgsent |-> sent[u].wg,
             ovsent |-> IF file /\ ip[u].ovpn # NoIP THEN status.sent[u] ELSE sent[u].ov]]
       /\ status' = IF file THEN status ELSE [status EXCEPT !.socket = @ \cup {u}]
  /\ NoTouch
  /\ UNCHANGED <<db, wgc, ovc, conn, ipset, tick, sent, base, cut>>

RechargeCommit(h) ==
  LET u == hs[h].user IN
  /\ hs[h].pc = "commit"
  /\ IF u \in Live
       THEN /\ wg' = [wg EXCEPT ![u] = [used |-> 0, rx |-> hs[h].rx, tx |-> hs[h].tx]]
            /\ ov' = [ov EXCEPT ![u] = [used |-> 0, last |-> hs[h].ovpn]]
            /\ \E q \in Quotas : pol' = [pol EXCEPT ![u].quota = q]
            /\ base' = [base EXCEPT ![u] = [wg |-> hs[h].wgsent, ov |-> hs[h].ovsent]]
            /\ Touch({u})
       ELSE NoTouch /\ UNCHANGED <<wg, ov, pol, base>>
  /\ holder' = None
  /\ hs' = [hs EXCEPT ![h] = [IdleHandler EXCEPT !.pc = "reconcile"]]
  /\ UNCHANGED <<row, ip, att, kernel, ipset, tick, faults, sent, cut>>

RechargeFail(h) ==
  /\ hs[h].pc = "commit" /\ faults < MaxFaults
  /\ faults' = faults + 1
  /\ holder' = None
  /\ hs' = [hs EXCEPT ![h] = IdleHandler]
  /\ NoTouch
  /\ UNCHANGED <<db, kernel, ipset, tick, sent, base, cut>>

\* Only set_gb or add_gb: one transaction under enforceMu, nothing to sample.
RechargeQuota(h, u) ==
  /\ "recharge" \in Ops /\ hs[h].pc = "idle" /\ holder = None /\ u \in Live
  /\ \E q \in Quotas : pol' = [pol EXCEPT ![u].quota = q]
  /\ hs' = [hs EXCEPT ![h].pc = "reconcile"]
  /\ Touch({u})
  /\ UNCHANGED <<row, ip, att, wg, ov, kernel, ipset, holder, tick, faults, sent, base, cut>>

\* `wgmgr recharge --reset`: no lock, and the baselines go to zero.
CliRecharge(u) ==
  /\ "cliRecharge" \in Ops /\ u \in Live
  /\ wg' = [wg EXCEPT ![u] = NoWgUse]
  /\ base' = [base EXCEPT ![u].wg = sent[u].wg]
  /\ Touch({u})
  /\ UNCHANGED <<row, pol, ip, att, ov, kernel, ipset, holder, hs, tick, faults, sent, cut>>

(***************************************************************************)
(* enforceTick.  tick[p] holds the pass's local variables; a pass of the   *)
(* daemon runs under enforceMu, a CLI pass under its own, so nothing       *)
(* orders the two.                                                         *)
(***************************************************************************)
Cur(p) == Least(tick[p].todo)          \* peers are visited in id order
Snap(p) == tick[p].snap[Cur(p)]        \* the loop variable, updated in memory

Note(p, ok) == IF ok THEN NoTouch ELSE Touch({Cur(p)})

Waiting == {Loop} \cup {h \in Handlers : hs[h].pc = "reconcile"}

\* The mutant of MayStart drops enforceMu.
MayStartUnlocked(t) == t \in Waiting

MayStart(t) == holder = None /\ t \in Waiting

\* ensureIPSet and wgTransfer; a failed `wg show` yields an empty map.
BeginPass(p) ==
  /\ tick[p].ph = "idle"
  /\ \E ok \in BOOLEAN :
       /\ Attempt(ok)
       /\ tick' = [tick EXCEPT ![p] = [FreshTick EXCEPT !.ph = "ovpn", !.wgok = ok,
                                         !.tr = IF ok THEN wgc ELSE FreshTick.tr]]
  /\ NoTouch
  /\ UNCHANGED <<db, kernel, ipset, hs, sent, base, cut>>

TickStart(t) ==
  /\ MayStart(t) /\ BeginPass(Daemon)
  /\ holder' = t

CliTickStart(p) == BeginPass(p) /\ UNCHANGED holder

ReadOvpn(p, dom, bytes) ==
  tick' = [tick EXCEPT ![p] = [@ EXCEPT !.ph = "peers", !.ovdom = dom,
             !.ovcur = [u \in Users |-> IF u \in dom THEN bytes[u] ELSE 0]]]

\* ovpnUsage: the sessions of the status file, without the lines that are not there yet when
\* the file is being written; none if nothing can be read.  Without a file, the sessions and
\* bytes of the moment, from the management socket.
TickOvpn(p) ==
  /\ tick[p].ph = "ovpn"
  /\ \/ \E seen \in SUBSET status.up :
          Attempt(seen = status.up) /\ ReadOvpn(p, seen, status.bytes) /\ UNCHANGED status
     \/ LET up == {u \in Users : conn[u]} IN
        Attempt(FALSE) /\ ReadOvpn(p, up, ovc) /\ status' = [status EXCEPT !.socket = @ \cup up]
  /\ NoTouch
  /\ UNCHANGED <<db, wgc, ovc, conn, ipset, holder, hs, sent, base, cut>>

\* allPeers: one SELECT ORDER BY id; rows.Err is not looked at, so a read that breaks off
\* passes for a shorter table.
TickPeers(p) ==
  /\ tick[p].ph = "peers"
  /\ \E seen \in {Live} \cup {{u \in Live : u < n} : n \in Live} :
       /\ Attempt(seen = Live)
       /\ tick' = [tick EXCEPT ![p] = [@ EXCEPT !.ph = "wg", !.todo = seen, !.known = OwnedIPs(seen),
                     !.snap = [u \in Users |-> IF u \in seen
                       THEN [pol |-> pol[u], ip |-> ip[u], wg |-> wg[u], ov |-> ov[u]]
                       ELSE NoRow]]]
       /\ touched' = [touched EXCEPT ![p] = Live \ seen]
  /\ UNCHANGED <<db, kernel, ipset, holder, hs, sent, base, cut, stale, swept>>

\* The mutant of Release answers the request and keeps enforceMu.
ReleaseLeak(p) ==
  /\ hs' = [h \in Handlers |-> IF h = holder THEN IdleHandler ELSE hs[h]]
  /\ UNCHANGED holder

\* The thread that held enforceMu answers its request or goes to sleep.
Release(p) ==
  IF p = Daemon
    THEN /\ holder' = None
         /\ hs' = [h \in Handlers |-> IF h = holder THEN IdleHandler ELSE hs[h]]
    ELSE UNCHANGED <<holder, hs>>

\* allPeers dies; the deferred Unlock runs and the caller recovers.
TickPanic(p) ==
  /\ tick[p].ph = "peers" /\ faults < MaxFaults
  /\ faults' = faults + 1
  /\ tick' = [tick EXCEPT ![p] = FreshTick]
  /\ Release(p)
  /\ NoTouch
  /\ UNCHANGED <<db, kernel, ipset, sent, base, cut>>

\* The mutant of Metered writes the two baselines to each other's columns.
MeteredSwapped(p) ==
  LET tr == tick[p].tr[Cur(p)]  s == Snap(p).wg
  IN [used |-> s.used + Delta(tr.rx, s.rx) + Delta(tr.tx, s.tx), rx |-> tr.tx, tx |-> tr.rx]

Metered(p) ==
  LET tr == tick[p].tr[Cur(p)]  s == Snap(p).wg
  IN [used |-> s.used + Delta(tr.rx, s.rx) + Delta(tr.tx, s.tx), rx |-> tr.rx, tx |-> tr.tx]

\* The mutant of TickWG moves usage and baseline in two writes, and stops between them.
TickWGSplit(p) ==
  /\ tick[p].ph = "wg" /\ tick[p].todo # {}
  /\ LET u == Cur(p) IN
     IF tick[p].wgok /\ Snap(p).ip.wg # NoIP
       THEN \E ok \in BOOLEAN :
              /\ Attempt(ok)
              /\ tick' = [tick EXCEPT ![p] = [@ EXCEPT !.ph = "ovpnacct", !.snap[u].wg = Metered(p)]]
              /\ wg' = IF u \notin Live THEN wg
                       ELSE IF ok THEN [wg EXCEPT ![u] = Metered(p)]
                       ELSE [wg EXCEPT ![u].used = Metered(p).used]
              /\ Note(p, ok)
       ELSE tick' = [tick EXCEPT ![p].ph = "ovpnacct"] /\ NoTouch /\ UNCHANGED <<wg, faults>>
  /\ UNCHANGED <<row, pol, ip, att, ov, kernel, ipset, holder, hs, sent, base, cut>>

\* One UPDATE sets used_bytes, last_rx and last_tx.
TickWG(p) ==
  /\ tick[p].ph = "wg" /\ tick[p].todo # {}
  /\ LET u == Cur(p) IN
     IF tick[p].wgok /\ Snap(p).ip.wg # NoIP
       THEN \E ok \in BOOLEAN :
              /\ Attempt(ok)
              /\ tick' = [tick EXCEPT ![p] = [@ EXCEPT !.ph = "ovpnacct", !.snap[u].wg = Metered(p)]]
              /\ wg' = IF ok /\ u \in Live THEN [wg EXCEPT ![u] = Metered(p)] ELSE wg
              /\ Note(p, ok)
       ELSE tick' = [tick EXCEPT ![p].ph = "ovpnacct"] /\ NoTouch /\ UNCHANGED <<wg, faults>>
  /\ UNCHANGED <<row, pol, ip, att, ov, kernel, ipset, holder, hs, sent, base, cut>>

MeteredOvpn(p) ==
  LET cur == tick[p].ovcur[Cur(p)]  s == Snap(p).ov
  IN [used |-> s.used + Delta(cur, s.last), last |-> cur]

\* The mutant of TickOvpnAcct bills the whole session on every pass.
TickOvpnAcctWhole(p) ==
  /\ tick[p].ph = "ovpnacct"
  /\ LET u == Cur(p)
         m == [used |-> Snap(p).ov.used + tick[p].ovcur[u], last |-> tick[p].ovcur[u]] IN
     /\ tick' = [tick EXCEPT ![p] = [@ EXCEPT !.ph = "ipset", !.snap[u].ov = m]]
     /\ ov' = IF u \in Live /\ Snap(p).ip.ovpn # NoIP THEN [ov EXCEPT ![u] = m] ELSE ov
  /\ NoTouch
  /\ UNCHANGED <<row, pol, ip, att, wg, kernel, ipset, holder, hs, faults, sent, base, cut>>

TickOvpnAcct(p) ==
  /\ tick[p].ph = "ovpnacct"
  /\ LET u == Cur(p) IN
     IF u \in tick[p].ovdom /\ Snap(p).ip.ovpn # NoIP
       THEN \E ok \in BOOLEAN :
              /\ Attempt(ok)
              /\ tick' = [tick EXCEPT ![p] = [@ EXCEPT !.ph = "ipset", !.snap[u].ov = MeteredOvpn(p)]]
              /\ ov' = IF ok /\ u \in Live THEN [ov EXCEPT ![u] = MeteredOvpn(p)] ELSE ov
              /\ Note(p, ok)
       ELSE tick' = [tick EXCEPT ![p].ph = "ipset"] /\ NoTouch /\ UNCHANGED <<ov, faults>>
  /\ UNCHANGED <<row, pol, ip, att, wg, kernel, ipset, holder, hs, sent, base, cut>>

\* The mutant of Blocked lets the user who reached the quota exactly stay on.
BlockedPastQuota(p) ==
  LET pl == Snap(p).pol IN
  \/ ~pl.enabled
  \/ pl.expires = "past"
  \/ pl.quota > 0 /\ Snap(p).wg.used + Snap(p).ov.used > pl.quota

Blocked(p) == EffBlocked(Snap(p).pol, Snap(p).wg.used + Snap(p).ov.used)

\* The mutant of TickIpset trusts the blocked column and skips an unchanged user.
TickIpsetOnChange(p) ==
  /\ tick[p].ph = "ipset"
  /\ ipset' = IF Blocked(p) = Snap(p).pol.blocked THEN ipset
              ELSE IF Blocked(p) THEN ipset \cup IPsOf(Snap(p).ip) ELSE ipset \ IPsOf(Snap(p).ip)
  /\ tick' = [tick EXCEPT ![p].ph = "flag"]
  /\ NoTouch
  /\ UNCHANGED <<db, kernel, holder, hs, faults, sent, base, cut>>

\* `ipset add` or `ipset del` of both tunnel addresses; a call that fails is not noticed.
TickIpset(p) ==
  /\ tick[p].ph = "ipset"
  /\ \E failed \in SUBSET IPsOf(Snap(p).ip) :
       LET ips == IPsOf(Snap(p).ip) \ failed IN
       /\ Attempt(failed = {})
       /\ ipset' = IF Blocked(p) THEN ipset \cup ips ELSE ipset \ ips
       /\ Note(p, failed = {})
  /\ tick' = [tick EXCEPT ![p].ph = "flag"]
  /\ UNCHANGED <<db, kernel, holder, hs, sent, base, cut>>

\* The mutant of TickFlag never clears the blocked column.
TickFlagSticky(p) ==
  /\ tick[p].ph = "flag"
  /\ pol' = IF Cur(p) \in Live /\ Blocked(p) THEN [pol EXCEPT ![Cur(p)].blocked = TRUE] ELSE pol
  /\ tick' = [tick EXCEPT ![p] = [tick[p] EXCEPT !.ph = "wg",
                                 !.todo = tick[p].todo \ {Cur(p)}, !.snap[Cur(p)] = NoRow]]
  /\ NoTouch
  /\ UNCHANGED <<row, ip, att, wg, ov, kernel, ipset, holder, hs, faults, sent, base, cut>>

TickFlag(p) ==
  /\ tick[p].ph = "flag"
  /\ LET u == Cur(p) IN
     /\ tick' = [tick EXCEPT ![p] = [tick[p] EXCEPT !.ph = "wg",
                                    !.todo = tick[p].todo \ {u}, !.snap[u] = NoRow]]
     /\ IF Blocked(p) # Snap(p).pol.blocked
          THEN \E ok \in BOOLEAN :
                 /\ Attempt(ok)
                 /\ pol' = IF ok /\ u \in Live THEN [pol EXCEPT ![u].blocked = Blocked(p)]
                           ELSE pol
                 /\ Note(p, ok)
          ELSE NoTouch /\ UNCHANGED <<pol, faults>>
  /\ UNCHANGED <<row, ip, att, wg, ov, kernel, ipset, holder, hs, sent, base, cut>>

\* The mutant of TickSweep leaves members nobody claims.
TickNoSweep(p) ==
  /\ tick[p].ph = "wg" /\ tick[p].todo = {}
  /\ stale' = touched[p] /\ swept' = TRUE
  /\ tick' = [tick EXCEPT ![p] = FreshTick]
  /\ Release(p)
  /\ UNCHANGED <<db, kernel, ipset, faults, sent, base, cut, touched>>

\* Members that no peer of the SELECT claims leave the set, except those the listing or a
\* failed `ipset del` left out.
TickSweep(p) ==
  /\ tick[p].ph = "wg" /\ tick[p].todo = {}
  /\ \E kept \in SUBSET (ipset \ tick[p].known) :
       /\ Attempt(kept = {})
       /\ ipset' = (ipset \cap tick[p].known) \cup kept
       /\ stale' = touched[p] /\ swept' = (kept = {}) /\ UNCHANGED touched
  /\ tick' = [tick EXCEPT ![p] = FreshTick]
  /\ Release(p)
  /\ UNCHANGED <<db, kernel, sent, base, cut>>

TickStep(p) ==
  \/ TickOvpn(p) \/ TickPeers(p) \/ TickWG(p) \/ TickOvpnAcct(p)
  \/ TickIpset(p) \/ TickFlag(p) \/ TickSweep(p)

(***************************************************************************)
(* Crashes.  The table and the kernel outlive the daemon; a reboot also    *)
(* empties the ipset and restarts every counter.                           *)
(***************************************************************************)
Crash ==
  /\ faults < MaxFaults /\ faults' = faults + 1
  /\ holder' = None
  /\ hs' = [h \in Handlers |-> IdleHandler]
  /\ tick' = [tick EXCEPT ![Daemon] = FreshTick]
  /\ \E lost \in SUBSET Attachers :     \* those of the handlers, not those of commands
       att' = [a \in Attachers |-> IF a \in lost THEN NoAttach ELSE att[a]]
  /\ Touch(Users)
  /\ UNCHANGED <<row, pol, ip, wg, ov, kernel, ipset, sent, base, cut>>

Reboot ==
  /\ faults < MaxFaults /\ faults' = faults + 1
  /\ holder' = None
  /\ hs' = [h \in Handlers |-> IdleHandler]
  /\ tick' = [p \in Procs |-> FreshTick]
  /\ ipset' = {}
  /\ wgc' = [u \in Users |-> NoCounters] /\ cut' = Users
  /\ ovc' = [u \in Users |-> 0] /\ conn' = [u \in Users |-> FALSE]
  /\ status' \in {status, [NoStatus EXCEPT !.sent = [u \in Users |-> sent[u].ov],
                                         !.socket = status.socket]}
  /\ att' = [a \in Attachers |-> NoAttach]
  /\ Touch(Users)
  /\ UNCHANGED <<row, pol, ip, wg, ov, sent, base>>

Environment ==
  \/ WgRestart \/ WriteStatus
  \/ \E u \in Users : WgTraffic(u) \/ OvpnTraffic(u) \/ OvpnConnect(u)
                      \/ OvpnDisconnect(u) \/ Expire(u)

Rows == \E u \in Users :
  \/ CreatePeer(u) \/ CreateOvpnOnly(u) \/ DeletePeer(u)
  \/ OvpnDetach(u) \/ CliEdit(u) \/ CliRecharge(u)
  \/ \E a \in Attachers : AttachPick(a, u)

Attaches == \E a \in Attachers : AttachWrite(a) \/ AttachFail(a)

Requests == \E h \in Handlers :
  \/ Sync(h) \/ RechargeCommit(h) \/ RechargeFail(h)
  \/ \E u \in Users : ApiEdit(h, u) \/ RechargeSample(h, u) \/ RechargeQuota(h, u)

Passes ==
  \/ \E t \in Threads : TickStart(t)
  \/ \E p \in CliTicks : CliTickStart(p)
  \/ \E p \in Procs : TickStep(p) \/ TickPanic(p)

Next == Environment \/ Rows \/ Attaches \/ Requests \/ Passes \/ Crash \/ Reboot

Spec == Init /\ [][Next]_vars

(***************************************************************************)
(* Scheduling: the loop sleeps a finite interval and comes back, a         *)
(* goroutine inside a pass or a transaction runs on, and a Go mutex hands  *)
(* itself to a waiter that waited long enough (its starvation mode).       *)
(***************************************************************************)
Fairness ==
  /\ WF_vars(TickStep(Daemon))
  /\ \A t \in Threads : SF_vars(TickStart(t))
  /\ \A h \in Handlers : WF_vars(RechargeCommit(h))

FairSpec == Spec /\ Fairness

(***************************************************************************)
(* Properties.                                                             *)
(***************************************************************************)
Policies == [enabled : BOOLEAN, expires : Expiries, quota : Quotas, blocked : BOOLEAN]
Addresses == [wg : WgIPs \cup {NoIP}, ovpn : OvpnIPs \cup {NoIP}]
WgRows == [used : Nat, rx : Nat, tx : Nat]
OvpnRows == [used : Nat, last : Nat]
Snapshots == [Users -> [pol : Policies, ip : Addresses, wg : WgRows, ov : OvpnRows]]
TickStates == [ph : Phases, todo : SUBSET Users, known : SUBSET AllIPs, wgok : BOOLEAN,
               tr : [Users -> [rx : Nat, tx : Nat]],
               ovdom : SUBSET Users, ovcur : [Users -> Nat], snap : Snapshots]
HandlerStates == [pc : {"idle", "reconcile", "commit"}, user : Users \cup {0},
                  rx : Nat, tx : Nat, ovpn : Nat, wgsent : Nat, ovsent : Nat]

AttachStates == {NoAttach} \cup [user : Users, ip : OvpnIPs]
StatusFiles == [up : SUBSET Users, bytes : [Users -> Nat], sent : [Users -> Nat],
                socket : SUBSET Users]

\* Every column, counter and local variable holds a value of its kind: in particular no
\* byte count of peers is ever negative, although every delta is a subtraction.
TypeOK ==
  /\ row \in [Users -> {"new", "live", "gone"}]
  /\ pol \in [Users -> Policies]
  /\ ip \in [Users -> Addresses]
  /\ att \in [Attachers -> AttachStates]
  /\ wg \in [Users -> WgRows]
  /\ ov \in [Users -> OvpnRows]
  /\ wgc \in [Users -> [rx : Nat, tx : Nat]]
  /\ ovc \in [Users -> Nat]
  /\ conn \in [Users -> BOOLEAN]
  /\ status \in StatusFiles
  /\ ipset \in SUBSET AllIPs
  /\ holder \in Threads \cup {None}
  /\ hs \in [Handlers -> HandlerStates]
  /\ tick \in [Procs -> TickStates]
  /\ faults \in Nat
  /\ sent \in [Users -> [wg : Nat, ov : Nat]]
  /\ base \in [Users -> [wg : Nat, ov : Nat]]
  /\ cut \in SUBSET Users
  /\ stale \in SUBSET Users
  /\ touched \in [Procs -> SUBSET Users]
  /\ swept \in BOOLEAN

\* enforceMu and the delta carry-over (enforce.go:13-17, 80-81): across resets of the
\* counters, crashes, lost writes and recharges, WireGuard never bills a user more bytes
\* than crossed the tunnel in the current billing period.
NeverOverbilled == \A u \in Live : wg[u].used <= sent[u].wg - base[u].wg

\* The same for OpenVPN's sessions, whose counters start again on every reconnect and are read
\* from a file that lags behind them, also when lines of it are missing (ovpn.go:97-120): what is
\* billed never exceeds what crossed the tunnel since the file was written that the recharge took
\* its baseline from (reset.go:46-57).  So bytes up to two minutes older than the recharge may be
\* billed to the new period, and none twice.  Not for a user for whom a pass once fell back to the
\* management socket (ovpn.go:121): the file it reads next may be older than the answer.
NeverOverbilledOvpn ==
  \A u \in Live \ status.socket : ov[u].used <= sent[u].ov - base[u].ov

\* What WireGuard's counters c still owe the account r.
Due(c, r) == Delta(c.rx, r.rx) + Delta(c.tx, r.tx)

\* enforceMu: a pass or a transaction of the daemon runs with the mutex held, one at a time.
LockInv ==
  /\ tick[Daemon].ph # "idle" => holder # None /\ \A h \in Handlers : hs[h].pc # "commit"
  /\ \A h \in Handlers : hs[h].pc = "commit" => holder = h /\ hs[h].user \in Users

\* The account plus what the counters still owe it never exceeds the traffic of the period:
\* at rest, between a pass's sample and its UPDATE, and between a recharge's sample and its
\* commit.  A pass works on the account as it is in the table.
MeterInv ==
  /\ \A u \in Users :
       /\ wg[u].used + Due(wgc[u], wg[u]) <= sent[u].wg - base[u].wg
       /\ ip[u].wg = NoIP => wgc[u] = NoCounters
       /\ row[u] = "new" => ip[u].wg = NoIP
       /\ row[u] # "gone" /\ tick[Daemon].ph # "idle" /\ tick[Daemon].wgok =>
            wg[u].used + Due(tick[Daemon].tr[u], wg[u]) + Due(wgc[u], tick[Daemon].tr[u])
              <= sent[u].wg - base[u].wg
       /\ /\ tick[Daemon].ph \in {"wg", "ovpnacct", "ipset", "flag"}
          /\ u \in tick[Daemon].todo /\ row[u] # "gone"
          /\ tick[Daemon].ph = "wg" \/ u # Cur(Daemon)
          => tick[Daemon].snap[u].wg = wg[u]
  /\ \A h \in Handlers : hs[h].pc = "commit" =>
       Due(wgc[hs[h].user], hs[h]) <= sent[hs[h].user].wg - hs[h].wgsent

\* The inductive invariant behind NeverOverbilled: no byte is billed twice, because the
\* sample a pass or a recharge works on stays valid while enforceMu is held.
Metering == LockInv /\ MeterInv

\* While WireGuard's counters of a user were never reset, the row accounts for every byte:
\* what is billed plus what is still to be billed is what the user sent in the period,
\* whatever pass, crash, lost write or recharge came in between (enforce.go:97-112).
NothingLost ==
  \A u \in Live \ cut :
    wg[u].used + (wgc[u].rx - wg[u].rx) + (wgc[u].tx - wg[u].tx) = sent[u].wg - base[u].wg

\* No thread is inside a pass or a recharge.
Quiet == holder = None /\ \A p \in Procs : tick[p].ph = "idle"

\* The addresses of u without an OpenVPN address that another user has, too.
OwnIPs(u) == IPsOf(ip[u]) \ {ip[v].ovpn : v \in Live \ {u}}

\* After a pass, the tunnel addresses of every user whose row did not change since the pass
\* read it, and for whom no write or ipset call of the pass failed, are in the block set if the
\* row says blocked and out of it otherwise, also after crashes, reboots and the deletion of the
\* address's earlier owner (enforce.go:128-139, api.go:414-418).  An OpenVPN address that two
\* attaches gave to two users is out of it: the pass leaves it as the later of them needs it.
FreshExact ==
  Quiet => \A u \in Live \ stale : \A a \in OwnIPs(u) : a \in ipset <=> Blk(u)

\* The column the panel shows agrees with the decision the block set carries.
FlagMatchesSet == Quiet => \A u \in Live \ stale : pol[u].blocked = Blk(u)

\* The sweep (enforce.go:144-157): once a pass has seen the table as it is, no member of
\* the block set is left without an owner, so a reassigned address starts unblocked.
NoLeftover == Quiet /\ stale = {} /\ swept => ipset \subseteq OwnedIPs(Live)

\* A user who stays blocked in the table is in the end dropped for good, whoever takes
\* enforceMu, and although a pass may still work on a table read earlier.
BlockedIsDropped ==
  \A u \in Users :
    <>[](u \in Live /\ ip[u].wg # NoIP /\ Blk(u)) => <>[](ip[u].wg \in ipset)

\* A user who stays entitled to traffic is in the end served for good, also when the
\* address belonged to a blocked user before.
AllowedIsServed ==
  \A u \in Users :
    <>[](u \in Live /\ ip[u].wg # NoIP /\ ~Blk(u)) => <>[](ip[u].wg \notin ipset)

\* Every API call that took or waits for enforceMu is answered.
RequestAnswered == \A h \in Handlers : hs[h].pc # "idle" ~> hs[h].pc = "idle"

(***************************************************************************)
(* The meter this implements.  While a pass holds a sample of WireGuard's  *)
(* counters, or a recharge one of its user's, the bytes that are due are   *)
(* those the sample owes the row and those the counters owe the sample.    *)
(***************************************************************************)
Sample(u) ==
  IF tick[Daemon].ph # "idle" /\ tick[Daemon].wgok THEN tick[Daemon].tr[u]
  ELSE IF holder \in Handlers /\ hs[holder].pc = "commit" /\ hs[holder].user = u THEN hs[holder]
  ELSE wg[u]

Outstanding(u) ==
  IF row[u] = "gone" THEN 0 ELSE Due(Sample(u), wg[u]) + Due(wgc[u], Sample(u))

WgMeter == INSTANCE Meter WITH
  carried <- [u \in Users |-> sent[u].wg],
  billed <- [u \in Users |-> wg[u].used],
  due <- [u \in Users |-> Outstanding(u)]

\* enforceMu makes the daemon's passes and recharges a meter (enforce.go:13-17, 97-112,
\* reset.go:68-112): every byte billed was due and is due no longer, across resets of the
\* counters, writes that fail, crashes and recharges, and bytes that were once lost are
\* not made up for by billing others twice.
IsMeter == WgMeter!Spec
=============================================================================
