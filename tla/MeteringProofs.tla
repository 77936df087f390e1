--------------------------- MODULE MeteringProofs --------------------------
(***************************************************************************)
(* The daemon never bills a byte twice and loses none, whatever its        *)
(* threads, its users and the tunnels do, as long as nothing outside       *)
(* enforceMu moves the accounts: no `wgmgr enforce`, no `wgmgr recharge    *)
(* --reset`, and for the OpenVPN account no detach.  The run cli_reset     *)
(* shows that the reset has to be excluded.  Under the same condition the  *)
(* daemon implements the abstract Meter (the last part).                   *)
(***************************************************************************)
EXTENDS EnforceProofs

\* Only the daemon moves the accounts.
DaemonOnly == CliTicks = {} /\ "cliRecharge" \notin Ops

Counters == [rx : Nat, tx : Nat]

(***************************************************************************)
(* Arithmetic of the carry-over.                                           *)
(***************************************************************************)

\* What counters owe an account is a byte count, and nothing once they were read into it.
LEMMA DueNat ==
  ASSUME NEW c, NEW r, c.rx \in Nat, c.tx \in Nat, r.rx \in Nat, r.tx \in Nat
  PROVE  /\ Due(c, r) \in Nat
         /\ (c.rx = r.rx /\ c.tx = r.tx) => Due(c, r) = 0
BY DEF Due, Delta

\* Counters at zero owe nothing: a reset never adds to the bill by itself.
LEMMA DueZero ==
  ASSUME NEW r, r.rx \in Nat, r.tx \in Nat
  PROVE  Due(NoCounters, r) = 0
BY DEF Due, Delta, NoCounters

\* One more byte on the wire is at most one more byte due.
LEMMA DueByte ==
  ASSUME NEW c \in Counters, NEW r, r.rx \in Nat, r.tx \in Nat, NEW s \in {"rx", "tx"}
  PROVE  Due([c EXCEPT ![s] = @ + 1], r) <= Due(c, r) + 1
<1>1. CASE s = "rx"
  BY <1>1 DEF Due, Delta, Counters
<1>2. CASE s = "tx"
  BY <1>2 DEF Due, Delta, Counters
<1> QED BY <1>1, <1>2

\* The kinds of values the invariant speaks of.
LEMMA Kinds ==
  ASSUME TypeOK, NEW u \in Users
  PROVE  /\ wg[u] \in WgRows /\ wgc[u] \in Counters
         /\ tick[Daemon].tr[u] \in Counters
         /\ sent[u].wg \in Nat /\ base[u].wg \in Nat
BY DEF TypeOK, TickStates, Counters, Procs

(***************************************************************************)
(* Steps that leave the accounts, WireGuard's counters and the passes      *)
(* alone.                                                                  *)
(***************************************************************************)
LEMMA MeterFrame ==
  ASSUME TypeOK, Metering,
         wg' = wg, wgc' = wgc, base' = base, tick' = tick,
         \A u \in Users : sent'[u].wg = sent[u].wg,
         \A u \in Users : row[u] = "gone" => row'[u] = "gone",
         \A u \in Users : row'[u] = "new" => row[u] = "new" /\ ip'[u] = ip[u],
         \A u \in Users : ip'[u].wg = NoIP => ip[u].wg = NoIP,
         holder' = holder,
         \A h \in Handlers : hs'[h].pc = "commit" => hs'[h] = hs[h]
  PROVE  Metering'
<1>1. LockInv'
  BY DEF Metering, LockInv
<1>2. ASSUME NEW h \in Handlers, hs'[h].pc = "commit"
      PROVE  Due(wgc'[hs'[h].user], hs'[h]) <= sent'[hs'[h].user].wg - hs'[h].wgsent
  BY <1>2 DEF Metering, MeterInv, LockInv
<1>3. Cur(Daemon)' = Cur(Daemon)
  BY DEF Cur
<1> QED BY <1>1, <1>2, <1>3 DEF Metering, MeterInv

LEMMA InitMetering == Init => Metering
<1> SUFFICES ASSUME Init PROVE Metering
  OBVIOUS
<1>1. \A u \in Users : Due(wgc[u], wg[u]) = 0
  BY DueZero DEF Init, NoWgUse
<1>2. tick[Daemon].ph = "idle"
  BY DEF Init, Procs, FreshTick
<1>3. \A h \in Handlers : hs[h].pc = "idle"
  BY DEF Init, IdleHandler
<1>4. LockInv
  BY <1>2, <1>3 DEF LockInv
<1>5. MeterInv
  BY <1>1, <1>2, <1>3 DEF MeterInv, Init, NoWgUse, NoIPs
<1> QED BY <1>4, <1>5 DEF Metering

(***************************************************************************)
(* Traffic and resets.                                                     *)
(***************************************************************************)
LEMMA WgTrafficMetering ==
  ASSUME TypeOK, Metering, NEW v \in Users, WgTraffic(v)
  PROVE  Metering'
<1>1. PICK s \in {"rx", "tx"} : wgc' = [wgc EXCEPT ![v][s] = @ + 1]
  BY DEF WgTraffic
<1>2. /\ wgc[v] \in Counters /\ wgc'[v] = [wgc[v] EXCEPT ![s] = @ + 1]
      /\ \A u \in Users : u # v => wgc'[u] = wgc[u]
  BY <1>1, Kinds DEF TypeOK
<1>3. /\ sent'[v].wg = sent[v].wg + 1
      /\ \A u \in Users : u # v => sent'[u] = sent[u]
  BY DEF WgTraffic, TypeOK
<1>4. UNCHANGED <<row, pol, ip, wg, ov, holder, hs, tick, base>> /\ ip[v].wg # NoIP
  BY DEF WgTraffic, db
<1>5. \A r : r.rx \in Nat /\ r.tx \in Nat => Due(wgc'[v], r) <= Due(wgc[v], r) + 1
  BY <1>2, DueByte
<1>6. LockInv'
  BY <1>4 DEF Metering, LockInv
<1>7. Cur(Daemon)' = Cur(Daemon)
  BY <1>4 DEF Cur
<1>8. ASSUME NEW u \in Users
      PROVE  /\ wg'[u].used + Due(wgc'[u], wg'[u]) <= sent'[u].wg - base'[u].wg
             /\ ip'[u].wg = NoIP => wgc'[u] = NoCounters
             /\ row'[u] = "new" => ip'[u].wg = NoIP
             /\ row'[u] # "gone" /\ tick'[Daemon].ph # "idle" /\ tick'[Daemon].wgok =>
                  wg'[u].used + Due(tick'[Daemon].tr[u], wg'[u])
                    + Due(wgc'[u], tick'[Daemon].tr[u]) <= sent'[u].wg - base'[u].wg
  <2>1. CASE u # v
    BY <1>2, <1>3, <1>4, <2>1 DEF Metering, MeterInv
  <2>2. CASE u = v
    <3>1. /\ wg[u].used \in Nat /\ wg[u].rx \in Nat /\ wg[u].tx \in Nat
          /\ sent[u].wg \in Nat /\ base[u].wg \in Nat
          /\ tick[Daemon].tr[u].rx \in Nat /\ tick[Daemon].tr[u].tx \in Nat
          /\ wgc[u].rx \in Nat /\ wgc[u].tx \in Nat /\ wgc'[u].rx \in Nat /\ wgc'[u].tx \in Nat
      BY <1>2, <2>2, Kinds DEF WgRows, Counters
    <3>2. /\ Due(wgc[u], wg[u]) \in Nat /\ Due(wgc'[u], wg[u]) \in Nat
          /\ Due(tick[Daemon].tr[u], wg[u]) \in Nat
          /\ Due(wgc[u], tick[Daemon].tr[u]) \in Nat /\ Due(wgc'[u], tick[Daemon].tr[u]) \in Nat
      BY <3>1, DueNat
    <3>3. /\ Due(wgc'[u], wg[u]) <= Due(wgc[u], wg[u]) + 1
          /\ Due(wgc'[u], tick[Daemon].tr[u]) <= Due(wgc[u], tick[Daemon].tr[u]) + 1
      BY <1>5, <2>2, <3>1
    <3> QED BY <1>3, <1>4, <2>2, <3>1, <3>2, <3>3 DEF Metering, MeterInv
  <2> QED BY <2>1, <2>2
<1>9. ASSUME NEW h \in Handlers, hs'[h].pc = "commit"
      PROVE  Due(wgc'[hs'[h].user], hs'[h]) <= sent'[hs'[h].user].wg - hs'[h].wgsent
  <2> DEFINE u == hs[h].user
  <2>1. u \in Users /\ hs'[h] = hs[h] /\ Due(wgc[u], hs[h]) <= sent[u].wg - hs[h].wgsent
    BY <1>4, <1>9 DEF Metering, MeterInv, LockInv
  <2>2. hs[h].rx \in Nat /\ hs[h].tx \in Nat /\ hs[h].wgsent \in Nat /\ sent[u].wg \in Nat
    BY <2>1, Kinds DEF TypeOK, HandlerStates
  <2>3. CASE u # v
    BY <1>2, <1>3, <2>1, <2>3
  <2>4. CASE u = v
    <3>1. /\ wgc[u].rx \in Nat /\ wgc[u].tx \in Nat /\ wgc'[u].rx \in Nat /\ wgc'[u].tx \in Nat
      BY <1>2, <2>4 DEF Counters
    <3>2. Due(wgc[u], hs[h]) \in Nat /\ Due(wgc'[u], hs[h]) \in Nat
      BY <2>2, <3>1, DueNat
    <3> QED BY <1>3, <1>5, <2>1, <2>2, <2>4, <3>2
  <2> QED BY <2>3, <2>4
<1> QED BY <1>4, <1>6, <1>7, <1>8, <1>9 DEF Metering, MeterInv
\* Counters that start again at zero owe no more than before.
LEMMA CutMetering ==
  ASSUME TypeOK, Metering,
         \A u \in Users : wgc'[u] = NoCounters,
         wg' = wg, base' = base, sent' = sent, row' = row, ip' = ip,
         \/ tick' = tick /\ holder' = holder /\ hs' = hs
         \/ tick'[Daemon].ph = "idle" /\ \A h \in Handlers : hs'[h].pc # "commit"
  PROVE  Metering'
<1>1. ASSUME NEW u \in Users
      PROVE  /\ wg[u].used + Due(wgc'[u], wg[u]) <= sent[u].wg - base[u].wg
             /\ row[u] # "gone" /\ tick[Daemon].ph # "idle" /\ tick[Daemon].wgok =>
                  wg[u].used + Due(tick[Daemon].tr[u], wg[u])
                    + Due(wgc'[u], tick[Daemon].tr[u]) <= sent[u].wg - base[u].wg
  <2>1. /\ wg[u].used \in Nat /\ wg[u].rx \in Nat /\ wg[u].tx \in Nat
        /\ sent[u].wg \in Nat /\ base[u].wg \in Nat
        /\ tick[Daemon].tr[u].rx \in Nat /\ tick[Daemon].tr[u].tx \in Nat
        /\ wgc[u].rx \in Nat /\ wgc[u].tx \in Nat
    BY Kinds DEF WgRows, Counters
  <2>2. /\ Due(wgc[u], wg[u]) \in Nat /\ Due(tick[Daemon].tr[u], wg[u]) \in Nat
        /\ Due(wgc[u], tick[Daemon].tr[u]) \in Nat
    BY <2>1, DueNat
  <2>3. Due(wgc'[u], wg[u]) = 0 /\ Due(wgc'[u], tick[Daemon].tr[u]) = 0
    BY <2>1, DueZero
  <2> QED BY <2>1, <2>2, <2>3 DEF Metering, MeterInv
<1>2. CASE tick' = tick /\ holder' = holder /\ hs' = hs
  <2>1. ASSUME NEW h \in Handlers, hs[h].pc = "commit"
        PROVE  Due(wgc'[hs[h].user], hs[h]) <= sent[hs[h].user].wg - hs[h].wgsent
    <3> DEFINE u == hs[h].user
    <3>1. u \in Users /\ Due(wgc[u], hs[h]) <= sent[u].wg - hs[h].wgsent
      BY <2>1 DEF Metering, MeterInv, LockInv
    <3>2. /\ hs[h].rx \in Nat /\ hs[h].tx \in Nat /\ hs[h].wgsent \in Nat
          /\ sent[u].wg \in Nat /\ wgc[u].rx \in Nat /\ wgc[u].tx \in Nat
      BY <3>1, Kinds DEF TypeOK, HandlerStates, Counters
    <3>3. Due(wgc[u], hs[h]) \in Nat /\ Due(wgc'[u], hs[h]) = 0
      BY <3>1, <3>2, DueNat, DueZero
    <3> QED BY <3>1, <3>2, <3>3
  <2>2. Cur(Daemon)' = Cur(Daemon) /\ LockInv'
    BY <1>2 DEF Cur, Metering, LockInv
  <2> QED BY <1>1, <1>2, <2>1, <2>2 DEF Metering, MeterInv
<1>3. CASE tick'[Daemon].ph = "idle" /\ \A h \in Handlers : hs'[h].pc # "commit"
  BY <1>1, <1>3 DEF Metering, MeterInv, LockInv
<1> QED BY <1>2, <1>3

\* A pass or a transaction that ends, however it ends, leaves the accounts in order.
LEMMA EndMetering ==
  ASSUME Metering,
         wg' = wg, wgc' = wgc, base' = base, sent' = sent, row' = row, ip' = ip,
         tick'[Daemon].ph = "idle",
         \A h \in Handlers : hs'[h].pc # "commit"
  PROVE  Metering'
BY DEF Metering, MeterInv, LockInv

LEMMA EnvironmentMetering ==
  TypeOK /\ Metering /\ Environment => Metering'
<1> SUFFICES ASSUME TypeOK, Metering, Environment PROVE Metering'
  OBVIOUS
<1>1. CASE WgRestart
  BY <1>1, CutMetering DEF WgRestart, db
<1>2. ASSUME NEW u \in Users, OvpnTraffic(u) PROVE Metering'
  <2>1. \A v \in Users : sent'[v].wg = sent[v].wg
    BY <1>2 DEF OvpnTraffic, TypeOK
  <2> QED BY <1>2, <2>1, MeterFrame DEF OvpnTraffic, db
<1>3. ASSUME NEW u \in Users, OvpnConnect(u) \/ OvpnDisconnect(u) PROVE Metering'
  BY <1>3, MeterFrame DEF OvpnConnect, OvpnDisconnect, db
<1>4. ASSUME NEW u \in Users, Expire(u) PROVE Metering'
  BY <1>4, MeterFrame DEF Expire, kernel
<1>5. CASE WriteStatus
  BY <1>5, MeterFrame DEF WriteStatus, db
<1> QED BY <1>1, <1>2, <1>3, <1>4, <1>5, WgTrafficMetering DEF Environment

(***************************************************************************)
(* Rows and requests.                                                      *)
(***************************************************************************)
LEMMA NewRowMetering ==
  ASSUME TypeOK, Metering, NEW u \in Users, NEW w, NEW q, NEW x, NewRow(u, w, q, x)
  PROVE  Metering'
<1>1. \A v \in Users : v # u => row'[v] = row[v] /\ ip'[v] = ip[v]
  BY DEF NewRow, TypeOK
<1>2. row[u] = "new" /\ row'[u] = "live" /\ ip[u].wg = NoIP
  BY DEF NewRow, TypeOK, Metering, MeterInv
<1> QED BY <1>1, <1>2, MeterFrame DEF NewRow, kernel

LEMMA DeleteMetering ==
  ASSUME TypeOK, Metering, NEW u \in Users, DeletePeer(u)
  PROVE  Metering'
<1>1. /\ row'[u] = "gone" /\ wg'[u] = NoWgUse /\ wgc'[u] = NoCounters
      /\ \A v \in Users : v # u => /\ row'[v] = row[v] /\ wg'[v] = wg[v]
                                   /\ wgc'[v] = wgc[v] /\ ip'[v] = ip[v]
  BY DEF DeletePeer, TypeOK
<1>2. UNCHANGED <<sent, base, tick, holder, hs>>
  BY DEF DeletePeer
<1>3. wg'[u].used + Due(wgc'[u], wg'[u]) <= sent'[u].wg - base'[u].wg
  <2>1. wg'[u].used + Due(wgc'[u], wg'[u]) = 0
    BY <1>1 DEF NoWgUse, NoCounters, Due, Delta
  <2>2. wg[u].used \in Nat /\ Due(wgc[u], wg[u]) \in Nat
        /\ sent[u].wg \in Nat /\ base[u].wg \in Nat
    BY Kinds, DueNat DEF WgRows, Counters
  <2>3. wg[u].used + Due(wgc[u], wg[u]) <= sent[u].wg - base[u].wg
    BY DEF Metering, MeterInv
  <2> QED BY <1>2, <2>1, <2>2, <2>3
<1>4. ASSUME NEW h \in Handlers, hs[h].pc = "commit"
      PROVE  Due(wgc'[hs[h].user], hs[h]) <= sent[hs[h].user].wg - hs[h].wgsent
  <2>1. hs[h].user \in Users /\
        Due(wgc[hs[h].user], hs[h]) <= sent[hs[h].user].wg - hs[h].wgsent
    BY <1>4 DEF Metering, MeterInv, LockInv
  <2>2. /\ hs[h].rx \in Nat /\ hs[h].tx \in Nat /\ hs[h].wgsent \in Nat /\ sent[u].wg \in Nat
        /\ wgc[u].rx \in Nat /\ wgc[u].tx \in Nat
    BY Kinds DEF TypeOK, HandlerStates, Counters
  <2>3. Due(NoCounters, hs[h]) = 0 /\ Due(wgc[u], hs[h]) \in Nat
    BY <2>2, DueZero, DueNat
  <2> QED BY <1>1, <2>1, <2>2, <2>3
<1>5. LockInv' /\ Cur(Daemon)' = Cur(Daemon)
  BY <1>2 DEF Metering, LockInv, Cur
<1> QED BY <1>1, <1>2, <1>3, <1>4, <1>5 DEF Metering, MeterInv

LEMMA EditMetering ==
  ASSUME TypeOK, Metering, NEW u \in Users, EditRow(u),
         \A h \in Handlers : hs'[h].pc = "commit" => hs'[h] = hs[h]
  PROVE  Metering'
BY MeterFrame DEF EditRow, kernel

\* A write of the OpenVPN address of a row changes no other address.
LEMMA OvpnAddressOnly ==
  ASSUME TypeOK, NEW u \in Users, NEW a, ip' = [ip EXCEPT ![u].ovpn = a]
  PROVE  /\ \A v \in Users : ip'[v].wg = ip[v].wg
         /\ \A v \in Users : v # u => ip'[v] = ip[v]
         /\ ip'[u].ovpn = a
<1>1. ip \in [Users -> Addresses] /\ ip[u] \in Addresses
  BY DEF TypeOK
<1>2. ip' = [ip EXCEPT ![u] = [ip[u] EXCEPT !.ovpn = a]]
  OBVIOUS
<1>3. [ip[u] EXCEPT !.ovpn = a].wg = ip[u].wg /\ [ip[u] EXCEPT !.ovpn = a].ovpn = a
  BY <1>1 DEF Addresses
<1> QED BY <1>1, <1>2, <1>3

LEMMA RowsMetering ==
  ASSUME TypeOK, Metering, DaemonOnly, Rows
  PROVE  Metering'
<1> SUFFICES ASSUME NEW u \in Users,
                    \/ CreatePeer(u) \/ CreateOvpnOnly(u) \/ DeletePeer(u)
                    \/ OvpnDetach(u) \/ CliEdit(u) \/ CliRecharge(u)
                    \/ \E a \in Attachers : AttachPick(a, u)
             PROVE  Metering'
  BY DEF Rows
<1>1. CASE CreatePeer(u) \/ CreateOvpnOnly(u)
  BY <1>1, NewRowMetering DEF CreatePeer, CreateOvpnOnly
<1>2. CASE OvpnDetach(u)
  <2>1. ip' = [ip EXCEPT ![u].ovpn = NoIP] /\ row[u] = "live"
    BY <1>2 DEF OvpnDetach, Live
  <2>2. /\ \A v \in Users : ip'[v].wg = ip[v].wg
        /\ \A v \in Users : v # u => ip'[v] = ip[v]
    BY <2>1, OvpnAddressOnly
  <2> QED BY <1>2, <2>1, <2>2, MeterFrame DEF OvpnDetach, kernel
<1>3. CASE CliEdit(u)
  BY <1>3, EditMetering DEF CliEdit
<1>4. CASE CliRecharge(u)
  BY <1>4 DEF CliRecharge, DaemonOnly
<1>5. ASSUME NEW a \in Attachers, AttachPick(a, u) PROVE Metering'
  BY <1>5, MeterFrame DEF AttachPick, kernel
<1> QED BY <1>1, <1>2, <1>3, <1>4, <1>5, DeleteMetering

\* An attach knows nothing of the WireGuard account.
LEMMA AttachesMetering ==
  ASSUME TypeOK, Metering, Attaches
  PROVE  Metering'
<1> SUFFICES ASSUME NEW a \in Attachers, AttachWrite(a) \/ AttachFail(a) PROVE Metering'
  BY DEF Attaches
<1>1. CASE AttachFail(a)
  BY <1>1, MeterFrame DEF AttachFail, kernel
<1>2. CASE AttachWrite(a)
  <2> DEFINE u == att[a].user
  <2>1. CASE u \in Live
    <3>1. ip' = [ip EXCEPT ![u].ovpn = att[a].ip] /\ row[u] = "live" /\ u \in Users
      BY <1>2, <2>1 DEF AttachWrite, Live
    <3> HIDE DEF u
    <3>2. /\ \A v \in Users : ip'[v].wg = ip[v].wg
          /\ \A v \in Users : v # u => ip'[v] = ip[v]
      BY <3>1, OvpnAddressOnly
    <3> QED BY <1>2, <3>1, <3>2, MeterFrame DEF AttachWrite, kernel
  <2>2. CASE u \notin Live
    BY <1>2, <2>2, MeterFrame DEF AttachWrite, kernel
  <2> QED BY <2>1, <2>2
<1> QED BY <1>1, <1>2

\* The sample of a recharge owes nothing yet, and enforceMu keeps every pass away from it.
LEMMA RechargeSampleMetering ==
  ASSUME TypeOK, Metering, NEW h \in Handlers, NEW u \in Users, RechargeSample(h, u)
  PROVE  Metering'
<1>1. /\ tick[Daemon].ph = "idle" /\ \A g \in Handlers : hs[g].pc # "commit"
      /\ UNCHANGED <<row, ip, wg, wgc, tick, sent, base>> /\ holder' = h
  BY EnforceAssumption DEF RechargeSample, Metering, LockInv, db
<1>2. /\ hs'[h].pc = "commit" /\ hs'[h].user = u /\ hs'[h].wgsent = sent[u].wg
      /\ hs'[h].rx = IF ip[u].wg # NoIP THEN wgc[u].rx ELSE wg[u].rx
      /\ hs'[h].tx = IF ip[u].wg # NoIP THEN wgc[u].tx ELSE wg[u].tx
      /\ \A g \in Handlers : g # h => hs'[g] = hs[g]
  BY DEF RechargeSample, TypeOK
<1>3. Due(wgc[u], hs'[h]) = 0
  <2>1. wgc[u].rx \in Nat /\ wgc[u].tx \in Nat /\ wg[u].rx \in Nat /\ wg[u].tx \in Nat
    BY Kinds DEF Counters, WgRows
  <2>2. CASE ip[u].wg # NoIP
    BY <1>2, <2>1, <2>2, DueNat
  <2>3. CASE ip[u].wg = NoIP
    BY <1>2, <2>1, <2>3, DueZero DEF Metering, MeterInv
  <2> QED BY <2>2, <2>3
<1>4. sent[u].wg \in Nat
  BY Kinds
<1>5. Due(wgc[u], hs'[h]) <= sent[u].wg - hs'[h].wgsent
  BY <1>2, <1>3, <1>4
<1> QED BY <1>1, <1>2, <1>5 DEF Metering, MeterInv, LockInv

\* What crossed the tunnel since the sample is in the new period and in the counters.
LEMMA RechargeCommitMetering ==
  ASSUME TypeOK, Metering, NEW h \in Handlers, RechargeCommit(h)
  PROVE  Metering'
<1> DEFINE u == hs[h].user
<1>1. /\ tick[Daemon].ph = "idle" /\ u \in Users
      /\ Due(wgc[u], hs[h]) <= sent[u].wg - hs[h].wgsent
  BY DEF RechargeCommit, Metering, MeterInv, LockInv
<1>2. /\ UNCHANGED <<row, ip, wgc, tick, sent>>
      /\ \A g \in Handlers : hs'[g].pc # "commit"
  <2>1. \A g \in Handlers : hs[g].pc = "commit" => g = h
    BY DEF RechargeCommit, Metering, LockInv
  <2>2. hs'[h].pc = "reconcile" /\ \A g \in Handlers : g # h => hs'[g] = hs[g]
    BY DEF RechargeCommit, TypeOK, IdleHandler
  <2> QED BY <2>1, <2>2 DEF RechargeCommit, kernel
<1>3. CASE u \notin Live
  BY <1>1, <1>2, <1>3, EndMetering DEF RechargeCommit
<1>4. CASE u \in Live
  <2>1. /\ wg'[u] = [used |-> 0, rx |-> hs[h].rx, tx |-> hs[h].tx]
        /\ base'[u].wg = hs[h].wgsent
        /\ \A v \in Users : v # u => wg'[v] = wg[v] /\ base'[v] = base[v]
    BY <1>1, <1>4 DEF RechargeCommit, TypeOK
  <2>2. hs[h].wgsent \in Nat /\ sent[u].wg \in Nat
        /\ Due(wgc[u], hs[h]) \in Nat /\ Due(wgc[u], wg'[u]) = Due(wgc[u], hs[h])
    <3>1. hs[h].rx \in Nat /\ hs[h].tx \in Nat /\ hs[h].wgsent \in Nat
          /\ wgc[u].rx \in Nat /\ wgc[u].tx \in Nat /\ sent[u].wg \in Nat
      BY <1>1, Kinds DEF TypeOK, HandlerStates, Counters
    <3>2. Due(wgc[u], wg'[u]) = Due(wgc[u], hs[h])
      BY <2>1 DEF Due
    <3> QED BY <3>1, <3>2, DueNat
  <2>3. wg'[u].used + Due(wgc'[u], wg'[u]) <= sent'[u].wg - base'[u].wg
    BY <1>1, <1>2, <2>1, <2>2
  <2> QED BY <1>1, <1>2, <2>1, <2>3 DEF Metering, MeterInv, LockInv
<1> QED BY <1>3, <1>4

LEMMA RequestsMetering ==
  ASSUME TypeOK, Metering, Requests
  PROVE  Metering'
<1> SUFFICES ASSUME NEW h \in Handlers,
                    \/ Sync(h) \/ RechargeCommit(h) \/ RechargeFail(h)
                    \/ \E u \in Users : ApiEdit(h, u) \/ RechargeSample(h, u) \/ RechargeQuota(h, u)
             PROVE  Metering'
  BY DEF Requests
<1>0. \A r : hs' = [hs EXCEPT ![h].pc = r] => hs'[h].pc = r /\ \A g \in Handlers : g # h => hs'[g] = hs[g]
  BY DEF TypeOK, HandlerStates
<1>1. CASE Sync(h)
  <2>1. \A g \in Handlers : hs'[g].pc = "commit" => hs'[g] = hs[g]
    BY <1>0, <1>1 DEF Sync
  <2> QED BY <1>1, <2>1, MeterFrame DEF Sync, db, kernel
<1>2. CASE RechargeFail(h)
  <2>1. tick[Daemon].ph = "idle" /\ \A g \in Handlers : hs[g].pc = "commit" => g = h
    BY <1>2 DEF RechargeFail, Metering, LockInv
  <2>2. hs'[h].pc = "idle" /\ \A g \in Handlers : g # h => hs'[g] = hs[g]
    BY <1>2 DEF RechargeFail, TypeOK, IdleHandler
  <2>3. \A g \in Handlers : hs'[g].pc # "commit"
    BY <2>1, <2>2
  <2> QED BY <1>2, <2>1, <2>3, EndMetering DEF RechargeFail, db, kernel
<1>3. ASSUME NEW u \in Users, ApiEdit(h, u) PROVE Metering'
  <2>1. \A g \in Handlers : hs'[g].pc = "commit" => hs'[g] = hs[g]
    BY <1>0, <1>3 DEF ApiEdit
  <2> QED BY <1>3, <2>1, EditMetering DEF ApiEdit
<1>4. ASSUME NEW u \in Users, RechargeQuota(h, u) PROVE Metering'
  <2>1. \A g \in Handlers : hs'[g].pc = "commit" => hs'[g] = hs[g]
    BY <1>0, <1>4 DEF RechargeQuota
  <2> QED BY <1>4, <2>1, MeterFrame DEF RechargeQuota, kernel
<1> QED BY <1>1, <1>2, <1>3, <1>4, RechargeCommitMetering, RechargeSampleMetering

(***************************************************************************)
(* The steps of the daemon's pass.                                         *)
(***************************************************************************)

\* A step that leaves the WireGuard accounts alone and hands the loop on to the next user.
LEMMA PassFrame ==
  ASSUME Metering,
         UNCHANGED <<row, ip, wg, wgc, base, sent, holder, hs>>,
         tick[Daemon].ph # "idle",
         tick'[Daemon].tr = tick[Daemon].tr, tick'[Daemon].wgok = tick[Daemon].wgok,
         \A u \in Users :
           /\ tick'[Daemon].ph \in {"wg", "ovpnacct", "ipset", "flag"}
           /\ u \in tick'[Daemon].todo /\ row[u] # "gone"
           /\ tick'[Daemon].ph = "wg" \/ u # Cur(Daemon)'
           => tick'[Daemon].snap[u].wg = wg[u]
  PROVE  Metering'
BY DEF Metering, MeterInv, LockInv

LEMMA TickStartMetering ==
  ASSUME TypeOK, Metering, NEW t \in Threads, TickStart(t)
  PROVE  Metering'
<1>1. /\ \A h \in Handlers : hs[h].pc # "commit"
      /\ holder' # None
      /\ UNCHANGED <<row, ip, wg, wgc, base, sent, hs>>
  BY EnforceAssumption
     DEF TickStart, MayStart, BeginPass, Threads, Metering, LockInv, db, kernel
<1>2. PICK ok \in BOOLEAN :
        tick' = [tick EXCEPT ![Daemon] = [FreshTick EXCEPT !.ph = "ovpn", !.wgok = ok,
                                           !.tr = IF ok THEN wgc ELSE FreshTick.tr]]
  BY DEF TickStart, BeginPass
<1>3. tick'[Daemon].ph = "ovpn" /\ (tick'[Daemon].wgok => tick'[Daemon].tr = wgc)
  BY <1>2 DEF TypeOK, FreshTick, Procs
<1>4. ASSUME NEW u \in Users
      PROVE  wg[u].used + Due(wgc[u], wg[u]) + Due(wgc[u], wgc[u]) <= sent[u].wg - base[u].wg
  <2>1. /\ wg[u].used \in Nat /\ wg[u].rx \in Nat /\ wg[u].tx \in Nat
        /\ wgc[u].rx \in Nat /\ wgc[u].tx \in Nat
    BY Kinds DEF WgRows, Counters
  <2>2. Due(wgc[u], wg[u]) \in Nat /\ Due(wgc[u], wgc[u]) = 0
    BY <2>1, DueNat
  <2> QED BY <2>1, <2>2 DEF Metering, MeterInv
<1> QED BY <1>1, <1>3, <1>4 DEF Metering, MeterInv, LockInv

\* What the last step of a row leaves in the local state of the pass.
LEMMA FlagRecord ==
  ASSUME tick \in [Procs -> TickStates], Daemon \in Procs, NEW v,
         tick' = [tick EXCEPT ![Daemon] = [tick[Daemon] EXCEPT !.ph = "wg",
                                          !.todo = tick[Daemon].todo \ {v}, !.snap[v] = NoRow]]
  PROVE  /\ tick'[Daemon].ph = "wg" /\ tick'[Daemon].todo = tick[Daemon].todo \ {v}
         /\ tick'[Daemon].tr = tick[Daemon].tr /\ tick'[Daemon].wgok = tick[Daemon].wgok
         /\ tick'[Daemon].ovdom = tick[Daemon].ovdom /\ tick'[Daemon].ovcur = tick[Daemon].ovcur
         /\ \A u \in Users : u # v => tick'[Daemon].snap[u] = tick[Daemon].snap[u]
<1> DEFINE T == [tick[Daemon] EXCEPT !.ph = "wg", !.todo = @ \ {v}, !.snap[v] = NoRow]
<1>1. /\ T.ph = "wg" /\ T.todo = tick[Daemon].todo \ {v}
      /\ T.tr = tick[Daemon].tr /\ T.wgok = tick[Daemon].wgok
      /\ T.ovdom = tick[Daemon].ovdom /\ T.ovcur = tick[Daemon].ovcur
      /\ \A u \in Users : u # v => T.snap[u] = tick[Daemon].snap[u]
  BY DEF TickStates, Snapshots
<1>2. tick' = [tick EXCEPT ![Daemon] = T]
  BY Zenon
<1> HIDE DEF T
<1> QED BY <1>1, <1>2

\* The four steps that read or write something else than WireGuard's account.
LEMMA OtherStepsMetering ==
  ASSUME TypeOK, PhaseInv, Metering,
         \/ TickOvpn(Daemon) \/ TickPeers(Daemon) \/ TickOvpnAcct(Daemon)
         \/ TickIpset(Daemon) \/ TickFlag(Daemon)
  PROVE  Metering'
<1>0. tick[Daemon].snap \in Snapshots /\ Daemon \in Procs /\ tick \in [Procs -> TickStates]
      /\ tick[Daemon] \in TickStates
  BY DEF TypeOK, TickStates, Procs
<1>1. CASE TickOvpn(Daemon)
  <2>1. /\ tick'[Daemon].ph = "peers" /\ tick'[Daemon].tr = tick[Daemon].tr
        /\ tick'[Daemon].wgok = tick[Daemon].wgok
    <3>1. PICK dom, cur : tick' = [tick EXCEPT ![Daemon] = [@ EXCEPT !.ph = "peers",
                                     !.ovdom = dom, !.ovcur = cur]]
      BY <1>1 DEF TickOvpn, ReadOvpn
    <3> QED BY <1>0, <3>1 DEF TickStates
  <2> QED BY <1>1, <2>1, PassFrame DEF TickOvpn, db, kernel
<1>2. CASE TickPeers(Daemon)
  <2>1. /\ tick'[Daemon].tr = tick[Daemon].tr /\ tick'[Daemon].wgok = tick[Daemon].wgok
        /\ \A u \in tick'[Daemon].todo : tick'[Daemon].snap[u].wg = wg[u]
    <3>1. PICK seen \in SUBSET Live :
            /\ Attempt(seen = Live)
            /\ tick' = [tick EXCEPT ![Daemon] = [@ EXCEPT !.ph = "wg", !.todo = seen,
                          !.known = OwnedIPs(seen),
                          !.snap = [u \in Users |-> IF u \in seen
                            THEN [pol |-> pol[u], ip |-> ip[u], wg |-> wg[u], ov |-> ov[u]]
                            ELSE NoRow]]]
            /\ touched' = [touched EXCEPT ![Daemon] = Live \ seen]
      BY <1>2 DEF TickPeers
    <3> DEFINE S == [u \in Users |-> IF u \in seen
                      THEN [pol |-> pol[u], ip |-> ip[u], wg |-> wg[u], ov |-> ov[u]]
                      ELSE NoRow]
    <3>2. \A u \in seen : S[u].wg = wg[u]
      BY DEF Live
    <3>3. tick' = [tick EXCEPT ![Daemon] = [@ EXCEPT !.ph = "wg", !.todo = seen,
                     !.known = OwnedIPs(seen), !.snap = S]]
      BY <3>1
    <3> HIDE DEF S
    <3>4. /\ tick'[Daemon].tr = tick[Daemon].tr /\ tick'[Daemon].wgok = tick[Daemon].wgok
          /\ tick'[Daemon].todo = seen /\ tick'[Daemon].snap = S
      BY <1>0, <3>3 DEF TickStates
    <3> QED BY <3>2, <3>4
  <2> QED BY <1>2, <2>1, PassFrame DEF TickPeers, db, kernel
<1>3. CASE TickOvpnAcct(Daemon)
  <2> DEFINE v == Cur(Daemon)
  <2>1. v \in Users
    BY <1>3, CurIsUser, <1>0 DEF TickOvpnAcct
  <2>2. /\ tick'[Daemon].tr = tick[Daemon].tr /\ tick'[Daemon].wgok = tick[Daemon].wgok
        /\ tick'[Daemon].todo = tick[Daemon].todo /\ tick'[Daemon].ph = "ipset"
        /\ \A u \in Users : u # v => tick'[Daemon].snap[u] = tick[Daemon].snap[u]
    <3>1. CASE tick' = [tick EXCEPT ![Daemon].ph = "ipset"]
      BY <1>0, <3>1 DEF TickStates
    <3>2. CASE tick' = [tick EXCEPT ![Daemon] = [@ EXCEPT !.ph = "ipset", !.snap[v].ov = MeteredOvpn(Daemon)]]
      <4> HIDE DEF v
      <4> QED BY <1>0, <3>2 DEF TickStates, Snapshots
    <3> QED BY <1>3, <3>1, <3>2 DEF TickOvpnAcct
  <2>3. Cur(Daemon)' = Cur(Daemon)
    BY <2>2 DEF Cur
  <2>4. UNCHANGED <<row, ip, wg, wgc, base, sent, holder, hs>> /\ tick[Daemon].ph = "ovpnacct"
    BY <1>3 DEF TickOvpnAcct, kernel
  <2>5. \A u \in Users : u \in tick[Daemon].todo /\ row[u] # "gone" /\ u # v
          => tick[Daemon].snap[u].wg = wg[u]
    BY <2>4 DEF Metering, MeterInv
  <2> QED BY <2>2, <2>3, <2>4, <2>5, PassFrame
<1>4. CASE TickIpset(Daemon)
  <2>1. /\ tick'[Daemon] = [tick[Daemon] EXCEPT !.ph = "flag"]
        /\ UNCHANGED <<row, ip, wg, wgc, base, sent, holder, hs>> /\ tick[Daemon].ph = "ipset"
    BY <1>0, <1>4 DEF TickIpset, db, kernel
  <2>2. /\ tick'[Daemon].tr = tick[Daemon].tr /\ tick'[Daemon].wgok = tick[Daemon].wgok
        /\ tick'[Daemon].todo = tick[Daemon].todo /\ tick'[Daemon].ph = "flag"
        /\ tick'[Daemon].snap = tick[Daemon].snap
    BY <1>0, <2>1 DEF TickStates
  <2>3. Cur(Daemon)' = Cur(Daemon)
    BY <2>2 DEF Cur
  <2>4. \A u \in Users : u \in tick[Daemon].todo /\ row[u] # "gone" /\ u # Cur(Daemon)
          => tick[Daemon].snap[u].wg = wg[u]
    BY <2>1 DEF Metering, MeterInv
  <2> QED BY <2>1, <2>2, <2>3, <2>4, PassFrame
<1>5. CASE TickFlag(Daemon)
  <2> DEFINE v == Cur(Daemon)
  <2>1. /\ tick' = [tick EXCEPT ![Daemon] = [tick[Daemon] EXCEPT !.ph = "wg",
                                            !.todo = tick[Daemon].todo \ {v}, !.snap[v] = NoRow]]
        /\ UNCHANGED <<row, ip, wg, wgc, base, sent, holder, hs>> /\ tick[Daemon].ph = "flag"
    BY <1>5 DEF TickFlag, kernel
  <2>2. /\ tick'[Daemon].tr = tick[Daemon].tr /\ tick'[Daemon].wgok = tick[Daemon].wgok
        /\ tick'[Daemon].todo = tick[Daemon].todo \ {v} /\ tick'[Daemon].ph = "wg"
        /\ \A u \in Users : u # v => tick'[Daemon].snap[u] = tick[Daemon].snap[u]
    BY <1>0, <2>1, FlagRecord
  <2>3. \A u \in Users : u \in tick[Daemon].todo /\ row[u] # "gone" /\ u # v
          => tick[Daemon].snap[u].wg = wg[u]
    BY <2>1 DEF Metering, MeterInv
  <2> QED BY <2>1, <2>2, <2>3, PassFrame
<1> QED BY <1>1, <1>2, <1>3, <1>4, <1>5

\* What the UPDATE of a pass writes: the account as it is in the table, with what the
\* sample owed it.
LEMMA TickWGAccount ==
  ASSUME TypeOK, PhaseInv, Metering, TickWG(Daemon), wg' # wg
  PROVE  LET v == Cur(Daemon)
             tr == tick[Daemon].tr[v]
         IN /\ v \in Users /\ row[v] = "live" /\ tick[Daemon].wgok
            /\ wg'[v] = [used |-> wg[v].used + Due(tr, wg[v]), rx |-> tr.rx, tx |-> tr.tx]
            /\ \A u \in Users : u # v => wg'[u] = wg[u]
<1> DEFINE v == Cur(Daemon)
           tr == tick[Daemon].tr[v]
<1>0. tick[Daemon].ph = "wg" /\ v \in Users /\ v \in tick[Daemon].todo
  <2>1. tick[Daemon].ph = "wg" /\ tick[Daemon].todo # {}
    BY DEF TickWG
  <2> QED BY <2>1, CurIsUser DEF TypeOK, TickStates, Procs
<1>1. wg' = [wg EXCEPT ![v] = Metered(Daemon)] /\ row[v] = "live" /\ tick[Daemon].wgok
  BY DEF TickWG, Live
<1>2. Snap(Daemon).wg = wg[v]
  BY <1>0, <1>1 DEF Metering, MeterInv, Snap
<1>3. Metered(Daemon).used = wg[v].used + Due(tr, wg[v])
  <2>1. /\ wg[v].used \in Nat /\ wg[v].rx \in Nat /\ wg[v].tx \in Nat
        /\ tr.rx \in Nat /\ tr.tx \in Nat
    BY <1>0, Kinds DEF WgRows, Counters
  <2>2. Delta(tr.rx, wg[v].rx) \in Nat /\ Delta(tr.tx, wg[v].tx) \in Nat
    BY <2>1, DeltaNat
  <2> HIDE DEF tr
  <2>3. Metered(Daemon).used
          = wg[v].used + Delta(tr.rx, wg[v].rx) + Delta(tr.tx, wg[v].tx)
    BY <1>2 DEF Metered, tr
  <2> QED BY <2>1, <2>2, <2>3 DEF Due
<1>4. Metered(Daemon) = [used |-> Metered(Daemon).used, rx |-> tr.rx, tx |-> tr.tx]
  BY DEF Metered
<1> QED BY <1>0, <1>1, <1>3, <1>4 DEF TypeOK

\* The UPDATE bills what the sample owed the account; only what crossed the tunnel since
\* the sample is still due.
LEMMA TickWGMetering ==
  ASSUME TypeOK, PhaseInv, Metering, TickWG(Daemon)
  PROVE  Metering'
<1> DEFINE v == Cur(Daemon)
           tr == tick[Daemon].tr[v]
<1>0. /\ tick[Daemon].snap \in Snapshots /\ tick \in [Procs -> TickStates] /\ Daemon \in Procs
      /\ tick[Daemon] \in TickStates
      /\ tick[Daemon].ph = "wg" /\ v \in Users /\ v \in tick[Daemon].todo
      /\ UNCHANGED <<row, ip, wgc, base, sent, holder, hs>>
  <2>1. tick[Daemon].ph = "wg" /\ tick[Daemon].todo # {}
    BY DEF TickWG
  <2> QED BY <2>1, CurIsUser DEF TickWG, TypeOK, TickStates, Procs, kernel
<1>1. /\ tick'[Daemon].tr = tick[Daemon].tr /\ tick'[Daemon].wgok = tick[Daemon].wgok
      /\ tick'[Daemon].todo = tick[Daemon].todo /\ tick'[Daemon].ph = "ovpnacct"
      /\ \A u \in Users : u # v => tick'[Daemon].snap[u] = tick[Daemon].snap[u]
  <2>1. CASE tick' = [tick EXCEPT ![Daemon].ph = "ovpnacct"]
    BY <1>0, <2>1 DEF TickStates
  <2>2. CASE tick' = [tick EXCEPT ![Daemon] = [@ EXCEPT !.ph = "ovpnacct", !.snap[v].wg = Metered(Daemon)]]
    <3> HIDE DEF v
    <3> QED BY <1>0, <2>2 DEF TickStates, Snapshots
  <2> QED BY <2>1, <2>2 DEF TickWG
<1>2. Cur(Daemon)' = v
  BY <1>1 DEF Cur
<1>3. CASE wg' = wg
  <2>1. \A u \in Users : u \in tick[Daemon].todo /\ row[u] # "gone"
          => tick[Daemon].snap[u].wg = wg[u]
    BY <1>0 DEF Metering, MeterInv
  <2> QED BY <1>0, <1>1, <1>2, <1>3, <2>1, PassFrame
<1>4. CASE wg' # wg
  <2>1. /\ wg' = [wg EXCEPT ![v] = Metered(Daemon)] /\ row[v] = "live"
        /\ tick[Daemon].wgok
    BY <1>4 DEF TickWG, Live
  <2>3. /\ wg'[v] = [used |-> wg[v].used + Due(tr, wg[v]), rx |-> tr.rx, tx |-> tr.tx]
        /\ \A u \in Users : u # v => wg'[u] = wg[u]
    BY <1>4, TickWGAccount
  <2>4. /\ Due(wgc[v], wg'[v]) = Due(wgc[v], tr) /\ Due(tr, wg'[v]) = 0
        /\ wg'[v].used = wg[v].used + Due(tr, wg[v]) /\ wg'[v].used \in Nat
        /\ Due(wgc[v], tr) \in Nat
    <3>1. /\ tr.rx \in Nat /\ tr.tx \in Nat /\ wg[v].used \in Nat
          /\ wg[v].rx \in Nat /\ wg[v].tx \in Nat /\ wgc[v].rx \in Nat /\ wgc[v].tx \in Nat
      BY <1>0, Kinds DEF WgRows, Counters
    <3>2. wg'[v].rx = tr.rx /\ wg'[v].tx = tr.tx
          /\ wg'[v].used = wg[v].used + Due(tr, wg[v])
      BY <2>3
    <3> HIDE DEF tr, v
    <3>3. Due(wgc[v], wg'[v]) = Due(wgc[v], tr)
      BY <3>2 DEF Due
    <3>4. Due(tr, wg'[v]) = 0
      BY <3>1, <3>2, DueNat
    <3>5. Due(tr, wg[v]) \in Nat /\ Due(wgc[v], tr) \in Nat
      BY <3>1, DueNat
    <3> QED BY <3>1, <3>2, <3>3, <3>4, <3>5
  <2>5. wg[v].used + Due(tr, wg[v]) + Due(wgc[v], tr) <= sent[v].wg - base[v].wg
    BY <1>0, <2>1 DEF Metering, MeterInv
  <2>6. /\ wg'[v].used + Due(wgc'[v], wg'[v]) <= sent'[v].wg - base'[v].wg
        /\ wg'[v].used + Due(tick'[Daemon].tr[v], wg'[v])
             + Due(wgc'[v], tick'[Daemon].tr[v]) <= sent'[v].wg - base'[v].wg
    <3>1. sent[v].wg \in Nat /\ base[v].wg \in Nat
      BY <1>0, Kinds
    <3>2. tick'[Daemon].tr[v] = tr
      BY <1>1
    <3> HIDE DEF tr, v
    <3> QED BY <1>0, <2>4, <2>5, <3>1, <3>2
  <2>7. ASSUME NEW u \in Users
        PROVE  /\ wg'[u].used + Due(wgc'[u], wg'[u]) <= sent'[u].wg - base'[u].wg
               /\ row'[u] # "gone" /\ tick'[Daemon].ph # "idle" /\ tick'[Daemon].wgok =>
                    wg'[u].used + Due(tick'[Daemon].tr[u], wg'[u])
                      + Due(wgc'[u], tick'[Daemon].tr[u]) <= sent'[u].wg - base'[u].wg
               /\ u \in tick'[Daemon].todo /\ row'[u] # "gone" /\ u # v
                  => tick'[Daemon].snap[u].wg = wg'[u]
    <3>1. CASE u = v
      BY <2>6, <3>1
    <3>2. CASE u # v
      BY <1>0, <1>1, <2>3, <3>2 DEF Metering, MeterInv
    <3> QED BY <3>1, <3>2
  <2>8. LockInv'
    BY <1>0, <1>1 DEF Metering, LockInv
  <2>9. \A u \in Users : /\ ip'[u].wg = NoIP => wgc'[u] = NoCounters
                         /\ row'[u] = "new" => ip'[u].wg = NoIP
    BY <1>0 DEF Metering, MeterInv
  <2>10. \A h \in Handlers : hs'[h].pc = "commit" =>
           Due(wgc'[hs'[h].user], hs'[h]) <= sent'[hs'[h].user].wg - hs'[h].wgsent
    BY <1>0 DEF Metering, MeterInv
  <2> QED BY <1>1, <1>2, <2>7, <2>8, <2>9, <2>10 DEF Metering, MeterInv
<1> QED BY <1>3, <1>4

LEMMA PassesMetering ==
  ASSUME TypeOK, PhaseInv, Metering, DaemonOnly, Passes
  PROVE  Metering'
<1>1. Procs = {Daemon}
  BY DEF Procs, DaemonOnly
<1>2. CASE TickSweep(Daemon) \/ TickPanic(Daemon)
  <2>1. tick[Daemon].ph # "idle" /\ tick'[Daemon].ph = "idle"
    BY <1>1, <1>2 DEF TickSweep, TickPanic, FreshTick, TypeOK
  <2>2. \A h \in Handlers : hs'[h].pc # "commit"
    BY <1>2, <2>1 DEF TickSweep, TickPanic, Release, IdleHandler, Metering, LockInv
  <2> QED BY <1>2, <2>1, <2>2, EndMetering DEF TickSweep, TickPanic, db, kernel
<1>3. \A p \in Procs : TickStep(p) => Metering'
  BY <1>1, <1>2, TickWGMetering, OtherStepsMetering DEF TickStep
<1>4. CASE \E p \in CliTicks : CliTickStart(p)
  BY <1>4 DEF DaemonOnly
<1> QED BY <1>1, <1>2, <1>3, <1>4, TickStartMetering DEF Passes

LEMMA FaultsMetering ==
  ASSUME TypeOK, Metering, Crash \/ Reboot
  PROVE  Metering'
<1>1. tick'[Daemon].ph = "idle" /\ \A h \in Handlers : hs'[h].pc # "commit"
  BY DEF Crash, Reboot, FreshTick, IdleHandler, TypeOK, Procs
<1>2. CASE Crash
  BY <1>1, <1>2, EndMetering DEF Crash, db, kernel
<1>3. CASE Reboot
  BY <1>1, <1>3, CutMetering DEF Reboot
<1> QED BY <1>2, <1>3

LEMMA NextMetering ==
  ASSUME DaemonOnly, TypeOK, PhaseInv, Metering, [Next]_vars
  PROVE  Metering'
<1>1. CASE UNCHANGED vars
  BY <1>1 DEF vars, Metering, LockInv, MeterInv, Cur
<1>2. CASE Next
  BY <1>2, EnvironmentMetering, RowsMetering, AttachesMetering, RequestsMetering,
     PassesMetering, FaultsMetering DEF Next
<1> QED BY <1>1, <1>2

\* enforce.go:13-17 and reset.go:16-18 hold of the daemon: no interleaving of its loop,
\* its API calls, counter resets, lost writes and crashes bills a byte twice, and every
\* pass and recharge finds the accounts as its sample left them.
THEOREM MeteringInvariant == ASSUME DaemonOnly PROVE Spec => []Metering
<1>1. TypeOK /\ PhaseInv /\ Metering /\ [Next]_vars => Metering'
  BY NextMetering
<1>2. Spec => [](TypeOK /\ PhaseInv)
  BY TypeCorrect
<1> QED BY <1>1, <1>2, InitMetering, PTL DEF Spec

\* No user is ever billed more WireGuard bytes than crossed the tunnel in the period.
THEOREM NeverBilledTwice == ASSUME DaemonOnly PROVE Spec => []NeverOverbilled
<1>1. TypeOK /\ Metering => NeverOverbilled
  <2> SUFFICES ASSUME TypeOK, Metering, NEW u \in Users PROVE wg[u].used <= sent[u].wg - base[u].wg
    BY DEF NeverOverbilled, Live
  <2>1. wg[u].used \in Nat /\ Due(wgc[u], wg[u]) \in Nat
        /\ sent[u].wg \in Nat /\ base[u].wg \in Nat
    BY Kinds, DueNat DEF WgRows, Counters
  <2> QED BY <2>1 DEF Metering, MeterInv
<1> QED BY <1>1, MeteringInvariant, TypeCorrect, PTL

(***************************************************************************)
(* No byte is lost either: while WireGuard's counters of a user were never *)
(* reset, the row, a pass's sample and the counters follow one another,    *)
(* and the row and its distance from the counters make up the traffic.     *)
(***************************************************************************)
Behind(r, c) == r.rx <= c.rx /\ r.tx <= c.tx
Gain(c, r) == (c.rx - r.rx) + (c.tx - r.tx)

\* The users whose traffic must be accounted for to the byte.
Uncut == {u \in Users : row[u] # "gone"} \ cut

RowBalanced(u) ==
  /\ Behind(wg[u], wgc[u])
  /\ wg[u].used + Gain(wgc[u], wg[u]) = sent[u].wg - base[u].wg

SampleBetween(u) ==
  tick[Daemon].ph # "idle" /\ tick[Daemon].wgok =>
    Behind(wg[u], tick[Daemon].tr[u]) /\ Behind(tick[Daemon].tr[u], wgc[u])

RechargeBalanced(h) ==
  hs[h].pc = "commit" /\ hs[h].user \in Uncut =>
    /\ Behind(hs[h], wgc[hs[h].user])
    /\ Gain(wgc[hs[h].user], hs[h]) = sent[hs[h].user].wg - hs[h].wgsent

\* The inductive invariant behind NothingLost.
Balance ==
  /\ \A u \in Uncut : RowBalanced(u) /\ SampleBetween(u)
  /\ \A h \in Handlers : RechargeBalanced(h)

\* Over counters that went on from r, a delta is the plain difference.
LEMMA DueGain ==
  ASSUME NEW c, NEW r, c.rx \in Nat, c.tx \in Nat, r.rx \in Nat, r.tx \in Nat, Behind(r, c)
  PROVE  Due(c, r) = Gain(c, r)
BY DEF Behind, Gain, Due, Delta

\* Steps that leave the accounts, the counters and the passes alone.
LEMMA BalanceFrame ==
  ASSUME Balance, Metering,
         UNCHANGED <<wg, wgc, base, cut>>,
         \/ tick' = tick
         \/ tick'[Daemon].ph = "idle"
         \/ /\ tick[Daemon].ph # "idle" /\ tick'[Daemon].tr = tick[Daemon].tr
            /\ tick'[Daemon].wgok = tick[Daemon].wgok,
         \A u \in Users : sent'[u].wg = sent[u].wg,
         \A u \in Users : row[u] = "gone" => row'[u] = "gone",
         \A h \in Handlers : hs'[h].pc = "commit" => hs'[h] = hs[h]
  PROVE  Balance'
<1>1. Uncut' \subseteq Uncut /\ Uncut \subseteq Users
  BY DEF Uncut
<1>2. ASSUME NEW u \in Uncut' PROVE RowBalanced(u)' /\ SampleBetween(u)'
  BY <1>1, <1>2 DEF Balance, RowBalanced, SampleBetween
<1>3. ASSUME NEW h \in Handlers PROVE RechargeBalanced(h)'
  BY <1>1 DEF Balance, RechargeBalanced
<1> QED BY <1>2, <1>3 DEF Balance

LEMMA InitBalance == Init => Balance
<1> SUFFICES ASSUME Init PROVE Balance
  OBVIOUS
<1>1. tick[Daemon].ph = "idle" /\ \A h \in Handlers : hs[h].pc = "idle"
  BY DEF Init, Procs, FreshTick, IdleHandler
<1>2. ASSUME NEW u \in Users PROVE RowBalanced(u)
  BY DEF Init, NoWgUse, NoCounters, RowBalanced, Behind, Gain
<1> QED BY <1>1, <1>2 DEF Balance, Uncut, SampleBetween, RechargeBalanced

\* A byte on the wire is a byte more in the counters.
LEMMA WgTrafficBalance ==
  ASSUME TypeOK, Metering, Balance, NEW v \in Users, WgTraffic(v)
  PROVE  Balance'
<1>1. PICK s \in {"rx", "tx"} : wgc' = [wgc EXCEPT ![v][s] = @ + 1]
  BY DEF WgTraffic
<1>2. /\ wgc[v] \in Counters /\ wgc'[v] = [wgc[v] EXCEPT ![s] = @ + 1]
      /\ \A u \in Users : u # v => wgc'[u] = wgc[u]
  BY <1>1, Kinds DEF TypeOK
<1>3. /\ sent'[v].wg = sent[v].wg + 1
      /\ \A u \in Users : u # v => sent'[u] = sent[u]
  BY DEF WgTraffic, TypeOK
<1>4. UNCHANGED <<row, wg, hs, tick, base, cut>> /\ Uncut' = Uncut
  BY DEF WgTraffic, db, Uncut
<1>5. /\ wgc[v].rx \in Nat /\ wgc[v].tx \in Nat
      /\ \/ wgc'[v].rx = wgc[v].rx + 1 /\ wgc'[v].tx = wgc[v].tx
         \/ wgc'[v].rx = wgc[v].rx /\ wgc'[v].tx = wgc[v].tx + 1
  BY <1>2 DEF Counters
<1>6. \A r : r.rx \in Nat /\ r.tx \in Nat =>
        /\ Behind(r, wgc[v]) => Behind(r, wgc'[v])
        /\ Gain(wgc'[v], r) = Gain(wgc[v], r) + 1
        /\ Gain(wgc[v], r) \in Int
  BY <1>5 DEF Behind, Gain
<1>7. ASSUME NEW u \in Uncut PROVE RowBalanced(u)' /\ SampleBetween(u)'
  <2>1. u \in Users
    BY DEF Uncut
  <2>2. RowBalanced(u) /\ SampleBetween(u)
    BY DEF Balance
  <2>3. CASE u # v
    BY <1>2, <1>3, <1>4, <2>1, <2>2, <2>3 DEF RowBalanced, SampleBetween
  <2>4. CASE u = v
    <3>1. /\ wg[v].used \in Nat /\ wg[v].rx \in Nat /\ wg[v].tx \in Nat
          /\ sent[v].wg \in Nat /\ base[v].wg \in Nat
          /\ tick[Daemon].tr[v].rx \in Nat /\ tick[Daemon].tr[v].tx \in Nat
      BY Kinds DEF WgRows, Counters
    <3>2. RowBalanced(v)'
      BY <1>3, <1>4, <1>6, <2>2, <2>4, <3>1 DEF RowBalanced
    <3>3. SampleBetween(v)'
      BY <1>4, <1>6, <2>2, <2>4, <3>1 DEF SampleBetween
    <3> QED BY <2>4, <3>2, <3>3
  <2> QED BY <2>3, <2>4
<1>8. ASSUME NEW h \in Handlers PROVE RechargeBalanced(h)'
  <2>1. RechargeBalanced(h)
    BY DEF Balance
  <2>2. CASE hs[h].user # v
    BY <1>2, <1>3, <1>4, <2>1, <2>2 DEF RechargeBalanced, Uncut
  <2>3. CASE hs[h].user = v
    <3>1. hs[h].rx \in Nat /\ hs[h].tx \in Nat /\ hs[h].wgsent \in Nat /\ sent[v].wg \in Nat
      BY Kinds DEF TypeOK, HandlerStates
    <3> QED BY <1>3, <1>4, <1>6, <2>1, <2>3, <3>1 DEF RechargeBalanced
  <2> QED BY <2>2, <2>3
<1> QED BY <1>4, <1>7, <1>8 DEF Balance

LEMMA EnvironmentBalance ==
  ASSUME TypeOK, Metering, Balance, Environment
  PROVE  Balance'
<1>1. CASE WgRestart
  BY <1>1 DEF WgRestart, Balance, Uncut, RechargeBalanced
<1>2. ASSUME NEW u \in Users, OvpnTraffic(u) PROVE Balance'
  <2>1. \A v \in Users : sent'[v].wg = sent[v].wg
    BY <1>2 DEF OvpnTraffic, TypeOK
  <2> QED BY <1>2, <2>1, BalanceFrame DEF OvpnTraffic, db
<1>3. ASSUME NEW u \in Users, OvpnConnect(u) \/ OvpnDisconnect(u) PROVE Balance'
  BY <1>3, BalanceFrame DEF OvpnConnect, OvpnDisconnect, db
<1>4. ASSUME NEW u \in Users, Expire(u) PROVE Balance'
  BY <1>4, BalanceFrame DEF Expire, kernel
<1>5. CASE WriteStatus
  BY <1>5, BalanceFrame DEF WriteStatus, db
<1> QED BY <1>1, <1>2, <1>3, <1>4, <1>5, WgTrafficBalance DEF Environment

LEMMA DeleteBalance ==
  ASSUME TypeOK, Metering, Balance, NEW u \in Users, DeletePeer(u)
  PROVE  Balance'
<1>1. /\ row'[u] = "gone"
      /\ \A v \in Users : v # u => row'[v] = row[v] /\ wg'[v] = wg[v] /\ wgc'[v] = wgc[v]
      /\ UNCHANGED <<sent, base, tick, hs, cut>>
  BY DEF DeletePeer, TypeOK
<1>2. \A v \in Uncut' : v \in Uncut /\ v # u /\ v \in Users
  BY <1>1 DEF Uncut
<1>3. ASSUME NEW v \in Uncut' PROVE RowBalanced(v)' /\ SampleBetween(v)'
  BY <1>1, <1>2 DEF Balance, RowBalanced, SampleBetween
<1>4. ASSUME NEW h \in Handlers PROVE RechargeBalanced(h)'
  BY <1>1, <1>2 DEF Balance, RechargeBalanced
<1> QED BY <1>3, <1>4 DEF Balance

LEMMA RowsBalance ==
  ASSUME TypeOK, Metering, Balance, DaemonOnly, Rows
  PROVE  Balance'
<1> SUFFICES ASSUME NEW u \in Users,
                    \/ CreatePeer(u) \/ CreateOvpnOnly(u) \/ DeletePeer(u)
                    \/ OvpnDetach(u) \/ CliEdit(u) \/ CliRecharge(u)
                    \/ \E a \in Attachers : AttachPick(a, u)
             PROVE  Balance'
  BY DEF Rows
<1>1. CASE CreatePeer(u) \/ CreateOvpnOnly(u)
  <2>1. PICK w, q, x : NewRow(u, w, q, x)
    BY <1>1 DEF CreatePeer, CreateOvpnOnly
  <2>2. \A v \in Users : row[v] = "gone" => row'[v] = "gone"
    BY <2>1 DEF NewRow, TypeOK
  <2> QED BY <2>1, <2>2, BalanceFrame DEF NewRow, kernel
<1>2. ASSUME OvpnDetach(u) \/ \E a \in Attachers : AttachPick(a, u) PROVE Balance'
  BY <1>2, BalanceFrame DEF OvpnDetach, AttachPick, kernel
<1>3. CASE CliEdit(u)
  BY <1>3, BalanceFrame DEF CliEdit, EditRow, kernel
<1>4. CASE CliRecharge(u)
  BY <1>4 DEF CliRecharge, DaemonOnly
<1> QED BY <1>1, <1>2, <1>3, <1>4, DeleteBalance

LEMMA AttachesBalance ==
  ASSUME TypeOK, Metering, Balance, Attaches
  PROVE  Balance'
BY BalanceFrame DEF Attaches, AttachWrite, AttachFail, kernel

\* Without a tunnel the baseline a recharge samples is the row's, and counters and row are zero.
LEMMA RechargeSampleBalance ==
  ASSUME TypeOK, Metering, Balance, NEW h \in Handlers, NEW u \in Users, RechargeSample(h, u)
  PROVE  Balance'
<1>1. /\ UNCHANGED <<row, ip, wg, wgc, tick, sent, base, cut>>
      /\ Uncut' = Uncut
  BY DEF RechargeSample, db, kernel, Uncut
<1>2. /\ hs'[h].pc = "commit" /\ hs'[h].user = u /\ hs'[h].wgsent = sent[u].wg
      /\ hs'[h].rx = IF ip[u].wg # NoIP THEN wgc[u].rx ELSE wg[u].rx
      /\ hs'[h].tx = IF ip[u].wg # NoIP THEN wgc[u].tx ELSE wg[u].tx
      /\ \A g \in Handlers : g # h => hs'[g] = hs[g]
  BY DEF RechargeSample, TypeOK
<1>3. /\ wgc[u].rx \in Nat /\ wgc[u].tx \in Nat /\ wg[u].rx \in Nat /\ wg[u].tx \in Nat
      /\ sent[u].wg \in Nat
  BY Kinds DEF Counters, WgRows
<1>4. u \in Uncut => hs'[h].rx = wgc[u].rx /\ hs'[h].tx = wgc[u].tx
  <2>1. CASE ip[u].wg # NoIP
    BY <1>2, <2>1
  <2>2. CASE ip[u].wg = NoIP
    <3>1. wgc[u].rx = 0 /\ wgc[u].tx = 0
      BY <2>2 DEF Metering, MeterInv, NoCounters
    <3>2. u \in Uncut => wg[u].rx <= wgc[u].rx /\ wg[u].tx <= wgc[u].tx
      BY DEF Balance, RowBalanced, Behind
    <3> QED BY <1>2, <1>3, <2>2, <3>1, <3>2
  <2> QED BY <2>1, <2>2
<1>5. RechargeBalanced(h)'
  BY <1>1, <1>2, <1>3, <1>4 DEF RechargeBalanced, Behind, Gain
<1>6. \A g \in Handlers : RechargeBalanced(g)'
  BY <1>1, <1>2, <1>5 DEF Balance, RechargeBalanced
<1> QED BY <1>1, <1>6 DEF Balance, RowBalanced, SampleBetween

\* The new period starts with the traffic and the counters of the sample.
LEMMA RechargeCommitBalance ==
  ASSUME TypeOK, Metering, Balance, NEW h \in Handlers, RechargeCommit(h)
  PROVE  Balance'
<1> DEFINE u == hs[h].user
<1>1. u \in Users /\ tick[Daemon].ph = "idle"
  BY DEF RechargeCommit, Metering, LockInv
<1>2. /\ UNCHANGED <<row, wgc, tick, sent, cut>> /\ Uncut' = Uncut
      /\ \A g \in Handlers : hs'[g].pc # "commit"
  <2>1. \A g \in Handlers : hs[g].pc = "commit" => g = h
    BY DEF RechargeCommit, Metering, LockInv
  <2>2. hs'[h].pc = "reconcile" /\ \A g \in Handlers : g # h => hs'[g] = hs[g]
    BY DEF RechargeCommit, TypeOK, IdleHandler
  <2> QED BY <2>1, <2>2 DEF RechargeCommit, kernel, Uncut
<1>3. /\ \A v \in Users : v # u => wg'[v] = wg[v] /\ base'[v] = base[v]
      /\ u \in Live => /\ wg'[u] = [used |-> 0, rx |-> hs[h].rx, tx |-> hs[h].tx]
                       /\ base'[u].wg = hs[h].wgsent
      /\ u \notin Live => UNCHANGED <<wg, base>>
  BY <1>1 DEF RechargeCommit, TypeOK
<1>4. hs[h].pc = "commit" /\ RechargeBalanced(h)
  BY DEF RechargeCommit, Balance
<1>5. ASSUME NEW v \in Uncut PROVE RowBalanced(v)'
  <2>1. v \in Users /\ RowBalanced(v)
    BY DEF Balance, Uncut
  <2>2. CASE v # u \/ u \notin Live
    BY <1>1, <1>2, <1>3, <2>1, <2>2 DEF RowBalanced
  <2>3. CASE v = u /\ u \in Live
    <3>1. /\ Behind(hs[h], wgc[u]) /\ Gain(wgc[u], hs[h]) = sent[u].wg - hs[h].wgsent
      BY <1>4, <2>3 DEF RechargeBalanced
    <3>2. /\ hs[h].rx \in Nat /\ hs[h].tx \in Nat /\ hs[h].wgsent \in Nat
          /\ wgc[u].rx \in Nat /\ wgc[u].tx \in Nat /\ sent[u].wg \in Nat
      BY <1>1, Kinds DEF TypeOK, HandlerStates, Counters
    <3>3. wg'[u].used = 0 /\ wg'[u].rx = hs[h].rx /\ wg'[u].tx = hs[h].tx
      BY <1>3, <2>3
    <3> HIDE DEF u
    <3> QED BY <1>2, <1>3, <2>3, <3>1, <3>2, <3>3 DEF RowBalanced, Behind, Gain
  <2> QED BY <2>2, <2>3
<1> QED BY <1>1, <1>2, <1>5 DEF Balance, SampleBetween, RechargeBalanced

LEMMA RequestsBalance ==
  ASSUME TypeOK, Metering, Balance, Requests
  PROVE  Balance'
<1> SUFFICES ASSUME NEW h \in Handlers,
                    \/ Sync(h) \/ RechargeCommit(h) \/ RechargeFail(h)
                    \/ \E u \in Users : ApiEdit(h, u) \/ RechargeSample(h, u) \/ RechargeQuota(h, u)
             PROVE  Balance'
  BY DEF Requests
<1>1. ASSUME \/ Sync(h) \/ RechargeFail(h)
             \/ \E u \in Users : ApiEdit(h, u) \/ RechargeQuota(h, u)
      PROVE  Balance'
  <2>1. hs'[h].pc # "commit" /\ \A g \in Handlers : g # h => hs'[g] = hs[g]
    <3>1. CASE hs' = [hs EXCEPT ![h] = IdleHandler]
      BY <3>1 DEF TypeOK, IdleHandler
    <3>2. CASE hs' = [hs EXCEPT ![h].pc = "reconcile"]
      BY <3>2 DEF TypeOK, HandlerStates
    <3> QED BY <1>1, <3>1, <3>2 DEF Sync, RechargeFail, ApiEdit, RechargeQuota
  <2>2. UNCHANGED <<row, wg, wgc, base, cut, tick, sent>>
    BY <1>1 DEF Sync, RechargeFail, ApiEdit, EditRow, RechargeQuota, db, kernel
  <2> QED BY <2>1, <2>2, BalanceFrame
<1> QED BY <1>1, RechargeCommitBalance, RechargeSampleBalance

\* A pass starts with the counters as they are.
LEMMA TickStartBalance ==
  ASSUME TypeOK, Metering, Balance, NEW t \in Threads, TickStart(t)
  PROVE  Balance'
<1>1. UNCHANGED <<row, wg, wgc, base, sent, hs, cut>> /\ Uncut' = Uncut
  BY DEF TickStart, BeginPass, db, kernel, Uncut
<1>2. PICK ok \in BOOLEAN :
        tick' = [tick EXCEPT ![Daemon] = [FreshTick EXCEPT !.ph = "ovpn", !.wgok = ok,
                                           !.tr = IF ok THEN wgc ELSE FreshTick.tr]]
  BY DEF TickStart, BeginPass
<1>3. tick'[Daemon].wgok => tick'[Daemon].tr = wgc
  BY <1>2 DEF TypeOK, FreshTick, Procs
<1>4. \A u \in Users : Behind(wgc[u], wgc[u])
  BY Kinds DEF Behind, Counters
<1>5. ASSUME NEW u \in Uncut PROVE SampleBetween(u)'
  BY <1>1, <1>3, <1>4 DEF Balance, RowBalanced, SampleBetween, Uncut
<1> QED BY <1>1, <1>5 DEF Balance, RowBalanced, RechargeBalanced

\* The UPDATE bills the difference between the row and the sample, and the sample becomes
\* the baseline.
LEMMA TickWGBalance ==
  ASSUME TypeOK, PhaseInv, Metering, Balance, TickWG(Daemon)
  PROVE  Balance'
<1> DEFINE v == Cur(Daemon)
           tr == tick[Daemon].tr[v]
<1>1. /\ UNCHANGED <<row, wgc, base, sent, hs, cut>> /\ Uncut' = Uncut
      /\ tick[Daemon].ph # "idle"
  BY DEF TickWG, kernel, Uncut
<1>2. tick'[Daemon].tr = tick[Daemon].tr /\ tick'[Daemon].wgok = tick[Daemon].wgok
  <2>0. tick \in [Procs -> TickStates] /\ Daemon \in Procs
    BY DEF TypeOK, Procs
  <2>1. CASE tick' = [tick EXCEPT ![Daemon].ph = "ovpnacct"]
    BY <2>0, <2>1 DEF TickStates
  <2>2. CASE tick' = [tick EXCEPT ![Daemon] = [@ EXCEPT !.ph = "ovpnacct", !.snap[v].wg = Metered(Daemon)]]
    <3> HIDE DEF v
    <3> QED BY <2>0, <2>2 DEF TickStates, Snapshots
  <2> QED BY <2>1, <2>2 DEF TickWG
<1>3. CASE wg' = wg
  BY <1>1, <1>2, <1>3, BalanceFrame
<1>4. CASE wg' # wg
  <2>1. /\ v \in Users /\ tick[Daemon].wgok
        /\ wg'[v] = [used |-> wg[v].used + Due(tr, wg[v]), rx |-> tr.rx, tx |-> tr.tx]
        /\ \A u \in Users : u # v => wg'[u] = wg[u]
    BY <1>4, TickWGAccount
  <2>2. /\ wg[v].used \in Nat /\ wg[v].rx \in Nat /\ wg[v].tx \in Nat
        /\ wgc[v].rx \in Nat /\ wgc[v].tx \in Nat /\ tr.rx \in Nat /\ tr.tx \in Nat
        /\ sent[v].wg \in Nat /\ base[v].wg \in Nat
    BY <2>1, Kinds DEF WgRows, Counters
  <2>3. /\ wg'[v].used = wg[v].used + Due(tr, wg[v])
        /\ wg'[v].rx = tr.rx /\ wg'[v].tx = tr.tx
    BY <2>1
  <2>4. ASSUME NEW u \in Uncut PROVE RowBalanced(u)' /\ SampleBetween(u)'
    <3>1. CASE u # v
      BY <1>1, <1>2, <2>1, <3>1 DEF Balance, RowBalanced, SampleBetween, Uncut
    <3>2. CASE u = v
      <4>1. /\ Behind(wg[u], tr) /\ Behind(tr, wgc[u])
            /\ wg[u].used + Gain(wgc[u], wg[u]) = sent[u].wg - base[u].wg
        BY <1>1, <2>1, <3>2 DEF Balance, RowBalanced, SampleBetween
      <4>2. tick'[Daemon].tr[u] = tr
        BY <1>2, <3>2
      <4> HIDE DEF tr, v
      <4>3. Due(tr, wg[u]) = Gain(tr, wg[u])
        BY <2>2, <3>2, <4>1, DueGain
      <4>4. wg'[u].used + Gain(wgc[u], wg'[u]) = sent[u].wg - base[u].wg
        BY <2>2, <2>3, <3>2, <4>1, <4>3 DEF Gain
      <4>5. Behind(wg'[u], tr) /\ Behind(wg'[u], wgc[u])
        BY <2>2, <2>3, <3>2, <4>1 DEF Behind
      <4> QED BY <1>1, <4>1, <4>2, <4>4, <4>5 DEF RowBalanced, SampleBetween
    <3> QED BY <3>1, <3>2
  <2> QED BY <1>1, <2>4 DEF Balance, RechargeBalanced
<1> QED BY <1>3, <1>4

\* The other steps of a pass keep its sample.
LEMMA OtherStepsBalance ==
  ASSUME TypeOK, Metering, Balance,
         \/ TickOvpn(Daemon) \/ TickPeers(Daemon) \/ TickOvpnAcct(Daemon)
         \/ TickIpset(Daemon) \/ TickFlag(Daemon)
  PROVE  Balance'
<1>1. tick \in [Procs -> TickStates] /\ Daemon \in Procs /\ tick[Daemon] \in TickStates
  BY DEF TypeOK, Procs
<1>2. /\ UNCHANGED <<row, wg, wgc, base, sent, hs, cut>> /\ tick[Daemon].ph # "idle"
  BY DEF TickOvpn, TickPeers, TickOvpnAcct, TickIpset, TickFlag, db, kernel
<1>3. tick'[Daemon].tr = tick[Daemon].tr /\ tick'[Daemon].wgok = tick[Daemon].wgok
  <2>1. CASE TickOvpn(Daemon)
    <3>1. PICK dom, cur : tick' = [tick EXCEPT ![Daemon] = [@ EXCEPT !.ph = "peers",
                                     !.ovdom = dom, !.ovcur = cur]]
      BY <2>1 DEF TickOvpn, ReadOvpn
    <3> QED BY <1>1, <3>1 DEF TickStates
  <2>2. CASE TickPeers(Daemon)
    <3> DEFINE S(seen) == [u \in Users |-> IF u \in seen
                           THEN [pol |-> pol[u], ip |-> ip[u], wg |-> wg[u], ov |-> ov[u]]
                           ELSE NoRow]
    <3>1. PICK seen : tick' = [tick EXCEPT ![Daemon] = [@ EXCEPT !.ph = "wg", !.todo = seen,
                                 !.known = OwnedIPs(seen), !.snap = S(seen)]]
      BY <2>2 DEF TickPeers
    <3> HIDE DEF S
    <3> QED BY <1>1, <3>1 DEF TickStates
  <2>3. CASE TickOvpnAcct(Daemon)
    <3> DEFINE v == Cur(Daemon)
    <3>1. CASE tick' = [tick EXCEPT ![Daemon].ph = "ipset"]
      BY <1>1, <3>1 DEF TickStates
    <3>2. CASE tick' = [tick EXCEPT ![Daemon] = [@ EXCEPT !.ph = "ipset", !.snap[v].ov = MeteredOvpn(Daemon)]]
      <4> HIDE DEF v
      <4> QED BY <1>1, <3>2 DEF TickStates, Snapshots
    <3> QED BY <2>3, <3>1, <3>2 DEF TickOvpnAcct
  <2>4. CASE TickIpset(Daemon)
    BY <1>1, <2>4 DEF TickIpset, TickStates
  <2>5. CASE TickFlag(Daemon)
    <3> DEFINE v == Cur(Daemon)
    <3>1. tick' = [tick EXCEPT ![Daemon] = [tick[Daemon] EXCEPT !.ph = "wg",
                                           !.todo = tick[Daemon].todo \ {v}, !.snap[v] = NoRow]]
      BY <2>5 DEF TickFlag
    <3> HIDE DEF v
    <3> QED BY <1>1, <3>1 DEF TickStates, Snapshots
  <2> QED BY <2>1, <2>2, <2>3, <2>4, <2>5
<1> QED BY <1>2, <1>3, BalanceFrame

LEMMA PassesBalance ==
  ASSUME TypeOK, PhaseInv, Metering, Balance, DaemonOnly, Passes
  PROVE  Balance'
<1>1. Procs = {Daemon}
  BY DEF Procs, DaemonOnly
<1>2. CASE TickSweep(Daemon) \/ TickPanic(Daemon)
  <2>1. tick'[Daemon].ph = "idle"
    BY <1>1, <1>2 DEF TickSweep, TickPanic, FreshTick, TypeOK
  <2>2. \A h \in Handlers : hs'[h].pc = "commit" => hs'[h] = hs[h]
    BY <1>2 DEF TickSweep, TickPanic, Release, IdleHandler
  <2> QED BY <1>2, <2>1, <2>2, BalanceFrame DEF TickSweep, TickPanic, db, kernel
<1>3. \A p \in Procs : TickStep(p) => Balance'
  BY <1>1, <1>2, TickWGBalance, OtherStepsBalance DEF TickStep
<1>4. CASE \E p \in CliTicks : CliTickStart(p)
  BY <1>4 DEF DaemonOnly
<1> QED BY <1>1, <1>2, <1>3, <1>4, TickStartBalance DEF Passes

LEMMA FaultsBalance ==
  ASSUME TypeOK, Metering, Balance, Crash \/ Reboot
  PROVE  Balance'
<1>1. CASE Crash
  <2>1. tick'[Daemon].ph = "idle" /\ \A h \in Handlers : hs'[h].pc # "commit"
    BY <1>1 DEF Crash, FreshTick, IdleHandler, TypeOK, Procs
  <2> QED BY <1>1, <2>1, BalanceFrame DEF Crash, db, kernel
<1>2. CASE Reboot
  BY <1>2 DEF Reboot, Balance, Uncut, RechargeBalanced
<1> QED BY <1>1, <1>2

\* enforce.go:97-112: a pass that dies, a write that fails or a recharge that is not
\* committed loses no byte, because the row goes on from its own baseline the next time.
THEOREM EveryByteBilled == ASSUME DaemonOnly PROVE Spec => []NothingLost
<1>1. ASSUME TypeOK, PhaseInv, Metering, Balance, [Next]_vars PROVE Balance'
  <2>1. CASE UNCHANGED vars
    BY <1>1, <2>1 DEF vars, Balance, Uncut, RowBalanced, SampleBetween, RechargeBalanced
  <2>2. CASE Next
    BY <1>1, <2>2, EnvironmentBalance, RowsBalance, AttachesBalance, RequestsBalance,
       PassesBalance, FaultsBalance DEF Next
  <2> QED BY <1>1, <2>1, <2>2
<1>2. TypeOK /\ Balance => NothingLost
  <2> SUFFICES ASSUME TypeOK, Balance, NEW u \in Live \ cut
               PROVE  wg[u].used + (wgc[u].rx - wg[u].rx) + (wgc[u].tx - wg[u].tx)
                        = sent[u].wg - base[u].wg
    BY DEF NothingLost
  <2>1. u \in Users /\ RowBalanced(u)
    BY DEF Balance, Uncut, Live
  <2>2. /\ wg[u].used \in Nat /\ wg[u].rx \in Nat /\ wg[u].tx \in Nat
        /\ wgc[u].rx \in Nat /\ wgc[u].tx \in Nat
    BY <2>1, Kinds DEF WgRows, Counters
  <2> QED BY <2>1, <2>2 DEF RowBalanced, Gain
<1> QED BY <1>1, <1>2, InitBalance, TypeCorrect, MeteringInvariant, PTL DEF Spec

(***************************************************************************)
(* The OpenVPN account.  Its counter starts again with every session, and  *)
(* passes and recharges see it through a file written now and then: the    *)
(* row follows the file, and the file the sessions.  A user for whom the   *)
(* socket was asked instead is excused, for the next file may be older     *)
(* than the answer.  A detach zeroes the account and leaves the session    *)
(* running (ovpn_pki.go:374-384), so what it bills after a second attach   *)
(* is excluded here.                                                       *)
(***************************************************************************)
DaemonOnlyNoDetach == DaemonOnly /\ "detach" \notin Ops

\* The account plus what the file still owes it is traffic of the period that the file knows.
RowWithinTraffic(u) ==
  row[u] # "gone" /\ u \notin status.socket =>
    ov[u].used + Delta(status.bytes[u], ov[u].last) <= status.sent[u] - base[u].ov

\* The same between a pass's reading of the file and its UPDATE.
SampleWithinTraffic(u) ==
  /\ row[u] # "gone" /\ u \notin status.socket
  /\ tick[Daemon].ph # "idle" /\ u \in tick[Daemon].ovdom
  => ov[u].used + Delta(tick[Daemon].ovcur[u], ov[u].last)
       + Delta(status.bytes[u], tick[Daemon].ovcur[u]) <= status.sent[u] - base[u].ov

\* What the session owes the file is what crossed the tunnel since the file was written.
FileWithinTraffic(u) == Delta(ovc[u], status.bytes[u]) <= sent[u].ov - status.sent[u]

\* Only an identity opens a session.
Unused(u) ==
  row[u] # "gone" /\ ip[u].ovpn = NoIP =>
    ~conn[u] /\ ovc[u] = 0 /\ sent[u].ov = 0 /\ status.bytes[u] = 0 /\ status.sent[u] = 0

SnapshotCurrent(u) ==
  /\ tick[Daemon].ph \in {"wg", "ovpnacct", "ipset", "flag"}
  /\ u \in tick[Daemon].todo /\ row[u] # "gone"
  /\ tick[Daemon].ph \in {"wg", "ovpnacct"} \/ u # Cur(Daemon)
  => tick[Daemon].snap[u].ov = ov[u]

RechargeWithinTraffic(h) ==
  hs[h].pc = "commit" /\ hs[h].user \notin status.socket =>
    Delta(status.bytes[hs[h].user], hs[h].ovpn) <= status.sent[hs[h].user] - hs[h].ovsent

\* The inductive invariant behind NeverOverbilledOvpn.
OvpnAccounts ==
  /\ \A u \in Users : /\ RowWithinTraffic(u) /\ SampleWithinTraffic(u)
                      /\ FileWithinTraffic(u) /\ Unused(u) /\ SnapshotCurrent(u)
  /\ \A h \in Handlers : RechargeWithinTraffic(h)

\* The kinds of values the invariant speaks of.
LEMMA OvpnKinds ==
  ASSUME TypeOK, NEW u \in Users
  PROVE  /\ ov[u].used \in Nat /\ ov[u].last \in Nat /\ ovc[u] \in Nat
         /\ tick[Daemon].ovcur[u] \in Nat /\ sent[u].ov \in Nat /\ base[u].ov \in Nat
         /\ status.bytes[u] \in Nat /\ status.sent[u] \in Nat
<1>1. status.bytes \in [Users -> Nat] /\ status.sent \in [Users -> Nat]
  BY DEF TypeOK, StatusFiles
<1> QED BY <1>1 DEF TypeOK, TickStates, OvpnRows, Procs

\* A counter at zero owes nothing, one read into the account nothing more, and a byte on
\* the wire at most itself.
LEMMA DeltaFacts ==
  ASSUME NEW c \in Nat, NEW r \in Nat
  PROVE  /\ Delta(c, r) \in Nat /\ Delta(0, r) = 0 /\ Delta(c, c) = 0
         /\ Delta(c + 1, r) <= Delta(c, r) + 1
BY DEF Delta

\* A reading in between never makes less due.
LEMMA DeltaTriangle ==
  ASSUME NEW c \in Nat, NEW s \in Nat, NEW r \in Nat
  PROVE  Delta(c, r) <= Delta(s, r) + Delta(c, s)
BY DEF Delta

\* The file never knows more traffic than there was.
LEMMA FileBehind ==
  ASSUME TypeOK, OvpnAccounts, NEW u \in Users
  PROVE  status.sent[u] <= sent[u].ov
<1>1. ovc[u] \in Nat /\ status.bytes[u] \in Nat /\ status.sent[u] \in Nat /\ sent[u].ov \in Nat
  BY OvpnKinds
<1>2. Delta(ovc[u], status.bytes[u]) \in Nat
  BY <1>1, DeltaFacts
<1> QED BY <1>1, <1>2 DEF OvpnAccounts, FileWithinTraffic

\* Steps that leave the account, its counter, the file and the sample of the pass alone.
LEMMA OvpnFrame ==
  ASSUME TypeOK, Metering, OvpnAccounts,
         ov' = ov, ovc' = ovc, conn' = conn, status' = status,
         \A u \in Users : sent'[u].ov = sent[u].ov /\ base'[u].ov = base[u].ov,
         \A u \in Users : row[u] = "gone" => row'[u] = "gone",
         \A u \in Users : row'[u] # "gone" /\ ip[u].ovpn # NoIP => ip'[u].ovpn # NoIP,
         \/ tick' = tick
         \/ tick'[Daemon].ph = "idle"
         \/ /\ tick[Daemon].ph # "idle"
            /\ tick'[Daemon].ovdom = tick[Daemon].ovdom /\ tick'[Daemon].ovcur = tick[Daemon].ovcur
            /\ \A u \in Users : SnapshotCurrent(u)',
         \A h \in Handlers : hs'[h].pc = "commit" => hs'[h] = hs[h]
  PROVE  OvpnAccounts'
<1>1. ASSUME NEW u \in Users
      PROVE  RowWithinTraffic(u)' /\ SampleWithinTraffic(u)' /\ FileWithinTraffic(u)' /\ Unused(u)'
  BY <1>1 DEF OvpnAccounts, RowWithinTraffic, SampleWithinTraffic, FileWithinTraffic, Unused
<1>2. ASSUME NEW u \in Users PROVE SnapshotCurrent(u)'
  <2>1. CASE tick' = tick
    <3>1. Cur(Daemon)' = Cur(Daemon)
      BY <2>1 DEF Cur
    <3> QED BY <2>1, <3>1 DEF OvpnAccounts, SnapshotCurrent
  <2>2. CASE tick'[Daemon].ph = "idle"
    BY <2>2 DEF SnapshotCurrent
  <2> QED BY <2>1, <2>2
<1>3. ASSUME NEW h \in Handlers PROVE RechargeWithinTraffic(h)'
  BY DEF OvpnAccounts, RechargeWithinTraffic
<1> QED BY <1>1, <1>2, <1>3 DEF OvpnAccounts

LEMMA InitOvpn == Init => OvpnAccounts
<1> SUFFICES ASSUME Init PROVE OvpnAccounts
  OBVIOUS
<1>1. tick[Daemon].ph = "idle" /\ \A h \in Handlers : hs[h].pc = "idle"
  BY DEF Init, Procs, FreshTick, IdleHandler
<1>2. \A u \in Users : ov[u].used = 0 /\ ov[u].last = 0 /\ ovc[u] = 0 /\ ~conn[u]
                       /\ sent[u].ov = 0 /\ base[u].ov = 0
  BY DEF Init, NoOvpnUse
<1>3. \A u \in Users : status.bytes[u] = 0 /\ status.sent[u] = 0
  BY DEF Init, NoStatus
<1> QED BY <1>1, <1>2, <1>3 DEF OvpnAccounts, RowWithinTraffic, SampleWithinTraffic,
     FileWithinTraffic, Unused, SnapshotCurrent, RechargeWithinTraffic, Delta

(***************************************************************************)
(* Traffic, sessions and the file.                                         *)
(***************************************************************************)
LEMMA OvpnTrafficKept ==
  ASSUME TypeOK, Metering, OvpnAccounts, NEW v \in Users, OvpnTraffic(v)
  PROVE  OvpnAccounts'
<1>1. /\ UNCHANGED <<row, ip, ov, conn, status, hs, tick, base>> /\ conn[v] /\ row[v] # "gone"
      /\ ovc'[v] = ovc[v] + 1 /\ sent'[v].ov = sent[v].ov + 1
      /\ \A u \in Users : u # v => ovc'[u] = ovc[u] /\ sent'[u] = sent[u]
  BY DEF OvpnTraffic, db, TypeOK, Live
<1>2. ovc[v] \in Nat /\ sent[v].ov \in Nat /\ status.bytes[v] \in Nat /\ status.sent[v] \in Nat
  BY OvpnKinds
<1>3. /\ Delta(ovc[v] + 1, status.bytes[v]) <= Delta(ovc[v], status.bytes[v]) + 1
      /\ Delta(ovc[v], status.bytes[v]) \in Nat
  BY <1>2, DeltaFacts
<1>4. Delta(ovc[v] + 1, status.bytes[v]) \in Nat
  <2>1. ovc[v] + 1 \in Nat
    BY <1>2
  <2> QED BY <1>2, <2>1, DeltaFacts
<1>5. Cur(Daemon)' = Cur(Daemon)
  BY <1>1 DEF Cur
<1>6. ASSUME NEW u \in Users PROVE FileWithinTraffic(u)' /\ Unused(u)'
  <2>1. FileWithinTraffic(u) /\ Unused(u)
    BY DEF OvpnAccounts
  <2>2. CASE u # v
    BY <1>1, <2>1, <2>2 DEF FileWithinTraffic, Unused
  <2>3. CASE u = v
    <3>1. FileWithinTraffic(v)'
      BY <1>1, <1>2, <1>3, <1>4, <2>1, <2>3 DEF FileWithinTraffic
    <3>2. Unused(v)'
      BY <1>1, <2>1, <2>3 DEF Unused
    <3> QED BY <2>3, <3>1, <3>2
  <2> QED BY <2>2, <2>3
<1>7. ASSUME NEW u \in Users
      PROVE  RowWithinTraffic(u)' /\ SampleWithinTraffic(u)' /\ SnapshotCurrent(u)'
  BY <1>1, <1>5 DEF OvpnAccounts, RowWithinTraffic, SampleWithinTraffic, SnapshotCurrent
<1>8. \A h \in Handlers : RechargeWithinTraffic(h)'
  BY <1>1 DEF OvpnAccounts, RechargeWithinTraffic
<1> QED BY <1>6, <1>7, <1>8 DEF OvpnAccounts

\* A session begins or ends: its counter starts again at zero.
LEMMA SessionsKept ==
  ASSUME TypeOK, Metering, OvpnAccounts,
         UNCHANGED <<row, ip, ov, status, sent, base>>,
         \A u \in Users : \/ ovc'[u] = ovc[u] /\ conn'[u] = conn[u]
                          \/ ovc'[u] = 0 /\ ~conn'[u]
                          \/ ovc'[u] = 0 /\ ip[u].ovpn # NoIP,
         \/ tick' = tick /\ hs' = hs
         \/ tick'[Daemon].ph = "idle" /\ \A h \in Handlers : hs'[h].pc # "commit"
  PROVE  OvpnAccounts'
<1>1. ASSUME NEW u \in Users PROVE FileWithinTraffic(u)' /\ Unused(u)'
  <2>1. FileWithinTraffic(u) /\ Unused(u)
    BY DEF OvpnAccounts
  <2>2. /\ status.bytes[u] \in Nat /\ status.sent[u] \in Nat /\ sent[u].ov \in Nat
    BY OvpnKinds
  <2>3. Delta(0, status.bytes[u]) = 0 /\ status.sent[u] <= sent[u].ov
    BY <2>2, DeltaFacts, FileBehind
  <2>4. FileWithinTraffic(u)'
    BY <2>1, <2>2, <2>3 DEF FileWithinTraffic
  <2>5. Unused(u)'
    BY <2>1 DEF Unused
  <2> QED BY <2>4, <2>5
<1>2. ASSUME NEW u \in Users
      PROVE  RowWithinTraffic(u)' /\ SampleWithinTraffic(u)' /\ SnapshotCurrent(u)'
  <2>1. RowWithinTraffic(u) /\ SampleWithinTraffic(u) /\ SnapshotCurrent(u)
    BY DEF OvpnAccounts
  <2>2. CASE tick' = tick
    <3>1. Cur(Daemon)' = Cur(Daemon)
      BY <2>2 DEF Cur
    <3> QED BY <2>1, <2>2, <3>1 DEF RowWithinTraffic, SampleWithinTraffic, SnapshotCurrent
  <2>3. CASE tick'[Daemon].ph = "idle"
    BY <2>1, <2>3 DEF RowWithinTraffic, SampleWithinTraffic, SnapshotCurrent
  <2> QED BY <2>2, <2>3
<1>3. \A h \in Handlers : RechargeWithinTraffic(h)'
  BY DEF OvpnAccounts, RechargeWithinTraffic
<1> QED BY <1>1, <1>2, <1>3 DEF OvpnAccounts

\* A recharge that is to be committed is a user's.
LEMMA LockedUser ==
  ASSUME Metering, NEW h \in Handlers, hs[h].pc = "commit"
  PROVE  hs[h].user \in Users
BY DEF Metering, LockInv

\* The file catches up with the sessions.
LEMMA WriteStatusKept ==
  ASSUME TypeOK, Metering, OvpnAccounts, WriteStatus
  PROVE  OvpnAccounts'
<1>1. /\ UNCHANGED <<row, ip, ov, ovc, conn, sent, base, tick, hs>>
      /\ status'.bytes = ovc /\ status'.socket = status.socket
      /\ \A u \in Users : status'.sent[u] = sent[u].ov
  <2>1. status' = [status EXCEPT !.up = {u \in Users : conn[u]}, !.bytes = ovc,
                                 !.sent = [u \in Users |-> sent[u].ov]]
    BY DEF WriteStatus
  <2>2. status'.bytes = ovc /\ status'.socket = status.socket
        /\ status'.sent = [u \in Users |-> sent[u].ov]
    BY <2>1 DEF TypeOK, StatusFiles
  <2> QED BY <2>2 DEF WriteStatus, db
<1>2. Cur(Daemon)' = Cur(Daemon)
  BY <1>1 DEF Cur
<1>3. ASSUME NEW u \in Users, NEW r \in Nat
      PROVE  /\ Delta(ovc[u], r) - sent[u].ov <= Delta(status.bytes[u], r) - status.sent[u]
             /\ Delta(ovc[u], r) \in Nat /\ Delta(status.bytes[u], r) \in Nat
  <2>1. ovc[u] \in Nat /\ status.bytes[u] \in Nat /\ status.sent[u] \in Nat /\ sent[u].ov \in Nat
    BY OvpnKinds
  <2>2. Delta(ovc[u], r) <= Delta(status.bytes[u], r) + Delta(ovc[u], status.bytes[u])
    BY <2>1, DeltaTriangle
  <2>3. Delta(ovc[u], status.bytes[u]) <= sent[u].ov - status.sent[u]
    BY DEF OvpnAccounts, FileWithinTraffic
  <2>4. /\ Delta(ovc[u], r) \in Nat /\ Delta(status.bytes[u], r) \in Nat
        /\ Delta(ovc[u], status.bytes[u]) \in Nat
    BY <2>1, DeltaFacts
  <2> QED BY <2>1, <2>2, <2>3, <2>4
<1>4. ASSUME NEW u \in Users
      PROVE  /\ RowWithinTraffic(u)' /\ SampleWithinTraffic(u)' /\ FileWithinTraffic(u)'
             /\ Unused(u)' /\ SnapshotCurrent(u)'
  <2>1. /\ RowWithinTraffic(u) /\ SampleWithinTraffic(u) /\ FileWithinTraffic(u)
        /\ Unused(u) /\ SnapshotCurrent(u)
    BY DEF OvpnAccounts
  <2>2. /\ ov[u].used \in Nat /\ ov[u].last \in Nat /\ ovc[u] \in Nat
        /\ tick[Daemon].ovcur[u] \in Nat /\ sent[u].ov \in Nat /\ base[u].ov \in Nat
        /\ status.bytes[u] \in Nat /\ status.sent[u] \in Nat
    BY OvpnKinds
  <2>3. RowWithinTraffic(u)'
    <3>1. /\ Delta(ovc[u], ov[u].last) - sent[u].ov
               <= Delta(status.bytes[u], ov[u].last) - status.sent[u]
          /\ Delta(ovc[u], ov[u].last) \in Nat /\ Delta(status.bytes[u], ov[u].last) \in Nat
      BY <1>3, <2>2
    <3> QED BY <1>1, <2>1, <2>2, <3>1 DEF RowWithinTraffic
  <2>4. SampleWithinTraffic(u)'
    <3>1. /\ Delta(ovc[u], tick[Daemon].ovcur[u]) - sent[u].ov
               <= Delta(status.bytes[u], tick[Daemon].ovcur[u]) - status.sent[u]
          /\ Delta(ovc[u], tick[Daemon].ovcur[u]) \in Nat
          /\ Delta(status.bytes[u], tick[Daemon].ovcur[u]) \in Nat
      BY <1>3, <2>2
    <3>2. Delta(tick[Daemon].ovcur[u], ov[u].last) \in Nat
      BY <2>2, DeltaFacts
    <3> QED BY <1>1, <2>1, <2>2, <3>1, <3>2 DEF SampleWithinTraffic
  <2>5. FileWithinTraffic(u)'
    <3>1. Delta(ovc[u], ovc[u]) = 0
      BY <2>2, DeltaFacts
    <3> QED BY <1>1, <2>2, <3>1 DEF FileWithinTraffic
  <2>6. Unused(u)'
    BY <1>1, <2>1 DEF Unused
  <2>7. SnapshotCurrent(u)'
    BY <1>1, <1>2, <2>1 DEF SnapshotCurrent
  <2> QED BY <2>3, <2>4, <2>5, <2>6, <2>7
<1>5. ASSUME NEW h \in Handlers PROVE RechargeWithinTraffic(h)'
  <2> DEFINE v == hs[h].user
  <2> SUFFICES ASSUME hs[h].pc = "commit", v \notin status.socket
               PROVE  Delta(ovc[v], hs[h].ovpn) <= sent[v].ov - hs[h].ovsent
    BY <1>1, LockedUser DEF RechargeWithinTraffic
  <2>1. v \in Users /\ Delta(status.bytes[v], hs[h].ovpn) <= status.sent[v] - hs[h].ovsent
    BY LockedUser DEF OvpnAccounts, RechargeWithinTraffic
  <2>2. hs[h].ovpn \in Nat /\ hs[h].ovsent \in Nat
    BY DEF TypeOK, HandlerStates
  <2> HIDE DEF v
  <2>3. /\ Delta(ovc[v], hs[h].ovpn) - sent[v].ov
             <= Delta(status.bytes[v], hs[h].ovpn) - status.sent[v]
        /\ Delta(ovc[v], hs[h].ovpn) \in Nat /\ Delta(status.bytes[v], hs[h].ovpn) \in Nat
    BY <1>3, <2>1, <2>2
  <2>4. sent[v].ov \in Nat /\ status.sent[v] \in Nat
    BY <2>1, OvpnKinds
  <2> QED BY <2>1, <2>2, <2>3, <2>4
<1> QED BY <1>4, <1>5 DEF OvpnAccounts

LEMMA EnvironmentOvpn ==
  ASSUME TypeOK, Metering, OvpnAccounts, Environment
  PROVE  OvpnAccounts'
<1>1. CASE WgRestart
  BY <1>1, OvpnFrame DEF WgRestart, db
<1>2. ASSUME NEW u \in Users, WgTraffic(u) PROVE OvpnAccounts'
  <2>1. \A v \in Users : sent'[v].ov = sent[v].ov
    BY <1>2 DEF WgTraffic, TypeOK
  <2> QED BY <1>2, <2>1, OvpnFrame DEF WgTraffic, db
<1>3. ASSUME NEW u \in Users, OvpnConnect(u) \/ OvpnDisconnect(u) PROVE OvpnAccounts'
  <2>1. \A v \in Users : \/ ovc'[v] = ovc[v] /\ conn'[v] = conn[v]
                         \/ ovc'[v] = 0 /\ ~conn'[v]
                         \/ ovc'[v] = 0 /\ ip[v].ovpn # NoIP
    BY <1>3 DEF OvpnConnect, OvpnDisconnect, TypeOK
  <2> QED BY <1>3, <2>1, SessionsKept DEF OvpnConnect, OvpnDisconnect, db
<1>4. ASSUME NEW u \in Users, Expire(u) PROVE OvpnAccounts'
  BY <1>4, OvpnFrame DEF Expire, kernel
<1> QED BY <1>1, <1>2, <1>3, <1>4, OvpnTrafficKept, WriteStatusKept DEF Environment

(***************************************************************************)
(* Rows and requests.                                                      *)
(***************************************************************************)
LEMMA DeleteOvpn ==
  ASSUME TypeOK, Metering, OvpnAccounts, NEW v \in Users, DeletePeer(v)
  PROVE  OvpnAccounts'
<1>1. /\ row'[v] = "gone" /\ UNCHANGED <<ovc, conn, status, tick, sent, base, hs>>
      /\ \A u \in Users : u # v => row'[u] = row[u] /\ ov'[u] = ov[u] /\ ip'[u] = ip[u]
  BY DEF DeletePeer, TypeOK
<1>2. Cur(Daemon)' = Cur(Daemon)
  BY <1>1 DEF Cur
<1>3. ASSUME NEW u \in Users
      PROVE  /\ RowWithinTraffic(u)' /\ SampleWithinTraffic(u)' /\ FileWithinTraffic(u)'
             /\ Unused(u)' /\ SnapshotCurrent(u)'
  BY <1>1, <1>2 DEF OvpnAccounts, RowWithinTraffic, SampleWithinTraffic, FileWithinTraffic,
     Unused, SnapshotCurrent
<1>4. \A h \in Handlers : RechargeWithinTraffic(h)'
  BY <1>1 DEF OvpnAccounts, RechargeWithinTraffic
<1> QED BY <1>3, <1>4 DEF OvpnAccounts

LEMMA RowsOvpn ==
  ASSUME TypeOK, Metering, OvpnAccounts, DaemonOnlyNoDetach, Rows
  PROVE  OvpnAccounts'
<1> SUFFICES ASSUME NEW u \in Users,
                    \/ CreatePeer(u) \/ CreateOvpnOnly(u) \/ DeletePeer(u)
                    \/ OvpnDetach(u) \/ CliEdit(u) \/ CliRecharge(u)
                    \/ \E a \in Attachers : AttachPick(a, u)
             PROVE  OvpnAccounts'
  BY DEF Rows
<1>1. CASE CreatePeer(u) \/ CreateOvpnOnly(u)
  <2>1. PICK w, q, x : NewRow(u, w, q, x)
    BY <1>1 DEF CreatePeer, CreateOvpnOnly
  <2>2. \A v \in Users : row[v] = "gone" => row'[v] = "gone"
    BY <2>1 DEF NewRow, TypeOK
  <2>3. \A v \in Users : ip'[v].ovpn = ip[v].ovpn
    <3>1. ip' = [ip EXCEPT ![u].wg = w] /\ ip \in [Users -> Addresses]
      BY <2>1 DEF NewRow, TypeOK
    <3> QED BY <3>1 DEF Addresses
  <2> QED BY <2>1, <2>2, <2>3, OvpnFrame DEF NewRow, kernel
<1>2. ASSUME NEW a \in Attachers, AttachPick(a, u) PROVE OvpnAccounts'
  BY <1>2, OvpnFrame DEF AttachPick, kernel
<1>3. CASE CliEdit(u)
  BY <1>3, OvpnFrame DEF CliEdit, EditRow, kernel
<1>4. CASE CliRecharge(u) \/ OvpnDetach(u)
  BY <1>4 DEF CliRecharge, OvpnDetach, DaemonOnlyNoDetach, DaemonOnly
<1> QED BY <1>1, <1>2, <1>3, <1>4, DeleteOvpn

\* An attach gives an address and never takes one away.
LEMMA AttachesOvpn ==
  ASSUME TypeOK, Metering, OvpnAccounts, Attaches
  PROVE  OvpnAccounts'
<1> SUFFICES ASSUME NEW a \in Attachers, AttachWrite(a) \/ AttachFail(a) PROVE OvpnAccounts'
  BY DEF Attaches
<1>1. CASE AttachFail(a)
  BY <1>1, OvpnFrame DEF AttachFail, kernel
<1>2. CASE AttachWrite(a)
  <2> DEFINE u == att[a].user
  <2>1. CASE u \in Live
    <3>1. /\ ip' = [ip EXCEPT ![u].ovpn = att[a].ip] /\ u \in Users /\ att[a] # NoAttach
      BY <1>2, <2>1 DEF AttachWrite, Live
    <3>2. att[a].ip # NoIP
      BY <3>1, EnforceAssumption DEF TypeOK, AttachStates
    <3> HIDE DEF u
    <3>3. \A v \in Users : ip[v].ovpn # NoIP => ip'[v].ovpn # NoIP
      BY <3>1, <3>2, OvpnAddressOnly
    <3> QED BY <1>2, <3>3, OvpnFrame DEF AttachWrite, kernel
  <2>2. CASE u \notin Live
    BY <1>2, <2>2, OvpnFrame DEF AttachWrite, kernel
  <2> QED BY <2>1, <2>2
<1> QED BY <1>1, <1>2

\* The baseline a recharge takes from the file is the file's, and so is the traffic it closes.
LEMMA RechargeSampleOvpn ==
  ASSUME TypeOK, Metering, OvpnAccounts, NEW h \in Handlers, NEW v \in Users,
         RechargeSample(h, v)
  PROVE  OvpnAccounts'
<1>1. PICK file \in BOOLEAN :
        /\ hs' = [hs EXCEPT ![h] =
             [pc |-> "commit", user |-> v,
              rx |-> IF ip[v].wg # NoIP THEN wgc[v].rx ELSE wg[v].rx,
              tx |-> IF ip[v].wg # NoIP THEN wgc[v].tx ELSE wg[v].tx,
              ovpn |-> IF ip[v].ovpn = NoIP THEN ov[v].last
                       ELSE IF file THEN status.bytes[v] ELSE ovc[v],
              wgsent |-> sent[v].wg,
              ovsent |-> IF file /\ ip[v].ovpn # NoIP THEN status.sent[v] ELSE sent[v].ov]]
        /\ status' = IF file THEN status ELSE [status EXCEPT !.socket = @ \cup {v}]
  BY DEF RechargeSample
<1>2. /\ hs'[h].user = v
      /\ hs'[h].ovpn = (IF ip[v].ovpn = NoIP THEN ov[v].last
                        ELSE IF file THEN status.bytes[v] ELSE ovc[v])
      /\ hs'[h].ovsent = (IF file /\ ip[v].ovpn # NoIP THEN status.sent[v] ELSE sent[v].ov)
      /\ \A g \in Handlers : g # h => hs'[g] = hs[g]
  BY <1>1 DEF TypeOK
<1>3. /\ status'.bytes = status.bytes /\ status'.sent = status.sent
      /\ status.socket \subseteq status'.socket /\ (~file => v \in status'.socket)
  BY <1>1 DEF TypeOK, StatusFiles
<1>4. UNCHANGED <<row, ip, ov, ovc, conn, tick, sent, base>> /\ row[v] = "live"
  BY DEF RechargeSample, db, Live
<1>5. RechargeWithinTraffic(h)'
  <2>1. status.bytes[v] \in Nat /\ status.sent[v] \in Nat /\ ov[v].last \in Nat
    BY OvpnKinds
  <2>2. Delta(0, ov[v].last) = 0 /\ Delta(status.bytes[v], status.bytes[v]) = 0
    BY <2>1, DeltaFacts
  <2>3. Unused(v)
    BY DEF OvpnAccounts
  <2>4. CASE ip[v].ovpn = NoIP
    BY <1>2, <1>3, <1>4, <2>2, <2>3, <2>4 DEF RechargeWithinTraffic, Unused
  <2>5. CASE ip[v].ovpn # NoIP /\ file
    BY <1>2, <1>3, <1>4, <2>1, <2>2, <2>5 DEF RechargeWithinTraffic
  <2>6. CASE ~file
    BY <1>2, <1>3, <2>6 DEF RechargeWithinTraffic
  <2> QED BY <2>4, <2>5, <2>6
<1>6. \A g \in Handlers : RechargeWithinTraffic(g)'
  <2>1. \A g \in Handlers : g # h => RechargeWithinTraffic(g)'
    BY <1>2, <1>3 DEF OvpnAccounts, RechargeWithinTraffic
  <2> QED BY <1>5, <2>1
<1>7. Cur(Daemon)' = Cur(Daemon)
  BY <1>4 DEF Cur
<1>8. ASSUME NEW u \in Users
      PROVE  /\ RowWithinTraffic(u)' /\ SampleWithinTraffic(u)' /\ FileWithinTraffic(u)'
             /\ Unused(u)' /\ SnapshotCurrent(u)'
  BY <1>3, <1>4, <1>7 DEF OvpnAccounts, RowWithinTraffic, SampleWithinTraffic,
     FileWithinTraffic, Unused, SnapshotCurrent
<1> QED BY <1>6, <1>8 DEF OvpnAccounts

LEMMA RechargeCommitOvpn ==
  ASSUME TypeOK, Metering, OvpnAccounts, NEW h \in Handlers, RechargeCommit(h)
  PROVE  OvpnAccounts'
<1> DEFINE v == hs[h].user
<1>1. v \in Users /\ tick[Daemon].ph = "idle" /\ hs[h].pc = "commit"
  BY DEF RechargeCommit, Metering, LockInv
<1>2. /\ UNCHANGED <<row, ip, ovc, conn, status, tick, sent>>
      /\ \A g \in Handlers : hs'[g].pc # "commit"
  <2>1. \A g \in Handlers : hs[g].pc = "commit" => g = h
    BY DEF RechargeCommit, Metering, LockInv
  <2>2. hs'[h].pc = "reconcile" /\ \A g \in Handlers : g # h => hs'[g] = hs[g]
    BY DEF RechargeCommit, TypeOK, IdleHandler
  <2> QED BY <2>1, <2>2 DEF RechargeCommit, kernel
<1>3. CASE v \notin Live
  BY <1>2, <1>3, OvpnFrame DEF RechargeCommit
<1>4. CASE v \in Live
  <2>1. /\ ov'[v].used = 0 /\ ov'[v].last = hs[h].ovpn /\ base'[v].ov = hs[h].ovsent
        /\ \A u \in Users : u # v => ov'[u] = ov[u] /\ base'[u] = base[u]
    BY <1>1, <1>4 DEF RechargeCommit, TypeOK
  <2>2. v \notin status.socket
          => Delta(status.bytes[v], hs[h].ovpn) <= status.sent[v] - hs[h].ovsent
    BY <1>1 DEF OvpnAccounts, RechargeWithinTraffic
  <2>3. Delta(status.bytes[v], hs[h].ovpn) \in Nat
    <3>1. status.bytes[v] \in Nat /\ hs[h].ovpn \in Nat
      BY <1>1, OvpnKinds DEF TypeOK, HandlerStates
    <3> QED BY <3>1, DeltaFacts
  <2>4. ASSUME NEW u \in Users PROVE RowWithinTraffic(u)'
    <3>1. CASE u = v
      BY <1>2, <2>1, <2>2, <2>3, <3>1 DEF RowWithinTraffic
    <3>2. CASE u # v
      BY <1>2, <2>1, <3>2 DEF OvpnAccounts, RowWithinTraffic
    <3> QED BY <3>1, <3>2
  <2>5. ASSUME NEW u \in Users PROVE SampleWithinTraffic(u)' /\ SnapshotCurrent(u)'
    BY <1>1, <1>2 DEF SampleWithinTraffic, SnapshotCurrent
  <2>6. ASSUME NEW u \in Users PROVE FileWithinTraffic(u)' /\ Unused(u)'
    BY <1>2 DEF OvpnAccounts, FileWithinTraffic, Unused
  <2>7. \A g \in Handlers : RechargeWithinTraffic(g)'
    BY <1>2 DEF RechargeWithinTraffic
  <2> QED BY <2>4, <2>5, <2>6, <2>7 DEF OvpnAccounts
<1> QED BY <1>3, <1>4

LEMMA RequestsOvpn ==
  ASSUME TypeOK, Metering, OvpnAccounts, Requests
  PROVE  OvpnAccounts'
<1> SUFFICES ASSUME NEW h \in Handlers,
                    \/ Sync(h) \/ RechargeCommit(h) \/ RechargeFail(h)
                    \/ \E u \in Users : ApiEdit(h, u) \/ RechargeSample(h, u) \/ RechargeQuota(h, u)
             PROVE  OvpnAccounts'
  BY DEF Requests
<1>1. ASSUME \/ Sync(h) \/ RechargeFail(h)
             \/ \E u \in Users : ApiEdit(h, u) \/ RechargeQuota(h, u)
      PROVE  OvpnAccounts'
  <2>1. hs'[h].pc # "commit" /\ \A g \in Handlers : g # h => hs'[g] = hs[g]
    <3>1. CASE hs' = [hs EXCEPT ![h] = IdleHandler]
      BY <3>1 DEF TypeOK, IdleHandler
    <3>2. CASE hs' = [hs EXCEPT ![h].pc = "reconcile"]
      BY <3>2 DEF TypeOK, HandlerStates
    <3> QED BY <1>1, <3>1, <3>2 DEF Sync, RechargeFail, ApiEdit, RechargeQuota
  <2>2. UNCHANGED <<row, ip, ov, ovc, conn, status, base, tick, sent>>
    BY <1>1 DEF Sync, RechargeFail, ApiEdit, EditRow, RechargeQuota, db, kernel
  <2> QED BY <2>1, <2>2, OvpnFrame
<1> QED BY <1>1, RechargeCommitOvpn, RechargeSampleOvpn

(***************************************************************************)
(* The steps of a pass.                                                    *)
(***************************************************************************)
LEMMA TickStartOvpn ==
  ASSUME TypeOK, Metering, OvpnAccounts, NEW t \in Threads, TickStart(t)
  PROVE  OvpnAccounts'
<1>1. UNCHANGED <<row, ip, ov, ovc, conn, status, base, sent, hs>>
  BY DEF TickStart, BeginPass, db, kernel
<1>2. PICK ok \in BOOLEAN :
        tick' = [tick EXCEPT ![Daemon] = [FreshTick EXCEPT !.ph = "ovpn", !.wgok = ok,
                                           !.tr = IF ok THEN wgc ELSE FreshTick.tr]]
  BY DEF TickStart, BeginPass
<1>3. tick'[Daemon].ph = "ovpn" /\ tick'[Daemon].ovdom = {}
  BY <1>2 DEF TypeOK, FreshTick, Procs
<1> QED BY <1>1, <1>3 DEF OvpnAccounts, RowWithinTraffic, SampleWithinTraffic,
     FileWithinTraffic, Unused, SnapshotCurrent, RechargeWithinTraffic

\* The sample is the file's, or else its users are excused.
LEMMA TickOvpnKept ==
  ASSUME TypeOK, Metering, OvpnAccounts, TickOvpn(Daemon)
  PROVE  OvpnAccounts'
<1>1. UNCHANGED <<row, ip, ov, ovc, conn, base, sent, hs>>
  BY DEF TickOvpn, db
<1>2. PICK dom, bytes :
        /\ ReadOvpn(Daemon, dom, bytes)
        /\ status'.bytes = status.bytes /\ status'.sent = status.sent
        /\ status.socket \subseteq status'.socket
        /\ bytes = status.bytes \/ dom \subseteq status'.socket
  <2>1. CASE \E seen \in SUBSET status.up :
               Attempt(seen = status.up) /\ ReadOvpn(Daemon, seen, status.bytes) /\ UNCHANGED status
    BY <2>1
  <2>2. CASE LET up == {u \in Users : conn[u]} IN
             /\ Attempt(FALSE) /\ ReadOvpn(Daemon, up, ovc)
             /\ status' = [status EXCEPT !.socket = @ \cup up]
    <3> DEFINE up == {u \in Users : conn[u]}
    <3>1. ReadOvpn(Daemon, up, ovc) /\ status' = [status EXCEPT !.socket = @ \cup up]
      BY <2>2
    <3> HIDE DEF up
    <3>2. /\ status'.bytes = status.bytes /\ status'.sent = status.sent
          /\ status.socket \subseteq status'.socket /\ up \subseteq status'.socket
      BY <3>1 DEF TypeOK, StatusFiles
    <3> QED BY <3>1, <3>2
  <2> QED BY <2>1, <2>2 DEF TickOvpn
<1> DEFINE cur == [u \in Users |-> IF u \in dom THEN bytes[u] ELSE 0]
<1>3. /\ tick'[Daemon].ph = "peers" /\ tick'[Daemon].ovdom = dom /\ tick'[Daemon].ovcur = cur
  <2>1. tick' = [tick EXCEPT ![Daemon] = [@ EXCEPT !.ph = "peers", !.ovdom = dom, !.ovcur = cur]]
    BY <1>2 DEF ReadOvpn
  <2> HIDE DEF cur
  <2> QED BY <2>1 DEF TypeOK, TickStates, Procs
<1>4. ASSUME NEW u \in Users PROVE SampleWithinTraffic(u)'
  <2> SUFFICES ASSUME row[u] # "gone", u \in dom, u \notin status'.socket
               PROVE  ov[u].used + Delta(cur[u], ov[u].last) + Delta(status.bytes[u], cur[u])
                        <= status.sent[u] - base[u].ov
    BY <1>1, <1>2, <1>3 DEF SampleWithinTraffic
  <2>1. cur[u] = status.bytes[u] /\ u \notin status.socket
    BY <1>2
  <2>2. /\ ov[u].used \in Nat /\ ov[u].last \in Nat /\ status.bytes[u] \in Nat
    BY OvpnKinds
  <2>3. /\ Delta(status.bytes[u], ov[u].last) \in Nat
        /\ Delta(status.bytes[u], status.bytes[u]) = 0
    BY <2>2, DeltaFacts
  <2> HIDE DEF cur
  <2> QED BY <2>1, <2>2, <2>3 DEF OvpnAccounts, RowWithinTraffic
<1> HIDE DEF cur
<1>5. ASSUME NEW u \in Users
      PROVE  /\ RowWithinTraffic(u)' /\ FileWithinTraffic(u)' /\ Unused(u)' /\ SnapshotCurrent(u)'
  BY <1>1, <1>2, <1>3 DEF OvpnAccounts, RowWithinTraffic, FileWithinTraffic, Unused,
     SnapshotCurrent
<1>6. \A h \in Handlers : RechargeWithinTraffic(h)'
  BY <1>1, <1>2 DEF OvpnAccounts, RechargeWithinTraffic
<1> QED BY <1>4, <1>5, <1>6 DEF OvpnAccounts

\* The UPDATE bills what the sample of the session owed the account.
LEMMA TickOvpnAcctKept ==
  ASSUME TypeOK, PhaseInv, Metering, OvpnAccounts, TickOvpnAcct(Daemon)
  PROVE  OvpnAccounts'
<1> DEFINE v == Cur(Daemon)
           cur == tick[Daemon].ovcur[v]
<1>0. /\ tick \in [Procs -> TickStates] /\ Daemon \in Procs /\ tick[Daemon] \in TickStates
      /\ tick[Daemon].ph = "ovpnacct" /\ v \in Users /\ v \in tick[Daemon].todo
      /\ UNCHANGED <<row, ip, ovc, conn, status, base, sent, hs>>
  <2>1. tick \in [Procs -> TickStates] /\ Daemon \in Procs /\ tick[Daemon] \in TickStates
        /\ tick[Daemon].ph = "ovpnacct"
        /\ UNCHANGED <<row, ip, ovc, conn, status, base, sent, hs>>
    BY DEF TickOvpnAcct, TypeOK, Procs, kernel
  <2> QED BY <2>1, CurIsUser
<1>1. /\ tick'[Daemon].ovdom = tick[Daemon].ovdom /\ tick'[Daemon].ovcur = tick[Daemon].ovcur
      /\ tick'[Daemon].todo = tick[Daemon].todo /\ tick'[Daemon].ph = "ipset"
      /\ \A u \in Users : u # v => tick'[Daemon].snap[u] = tick[Daemon].snap[u]
  <2>1. CASE tick' = [tick EXCEPT ![Daemon].ph = "ipset"]
    BY <1>0, <2>1 DEF TickStates
  <2>2. CASE tick' = [tick EXCEPT ![Daemon] = [@ EXCEPT !.ph = "ipset", !.snap[v].ov = MeteredOvpn(Daemon)]]
    <3> HIDE DEF v
    <3> QED BY <1>0, <2>2 DEF TickStates, Snapshots
  <2> QED BY <2>1, <2>2 DEF TickOvpnAcct
<1>2. Cur(Daemon)' = v
  BY <1>1 DEF Cur
<1>3. \A u \in Users : u # v => ov'[u] = ov[u]
  BY <1>0 DEF TickOvpnAcct, TypeOK
<1>4. ASSUME NEW u \in Users PROVE SnapshotCurrent(u)' /\ FileWithinTraffic(u)' /\ Unused(u)'
  <2>1. SnapshotCurrent(u) /\ FileWithinTraffic(u) /\ Unused(u)
    BY DEF OvpnAccounts
  <2>2. FileWithinTraffic(u)' /\ Unused(u)'
    BY <1>0, <2>1 DEF FileWithinTraffic, Unused
  <2>3. SnapshotCurrent(u)'
    BY <1>0, <1>1, <1>2, <1>3, <2>1 DEF SnapshotCurrent
  <2> QED BY <2>2, <2>3
<1>5. \A h \in Handlers : RechargeWithinTraffic(h)'
  BY <1>0 DEF OvpnAccounts, RechargeWithinTraffic
<1>6. ASSUME NEW u \in Users PROVE RowWithinTraffic(u)' /\ SampleWithinTraffic(u)'
  <2>0. RowWithinTraffic(u) /\ SampleWithinTraffic(u)
    BY DEF OvpnAccounts
  <2>1. CASE ov'[u] = ov[u]
    BY <1>0, <1>1, <2>0, <2>1 DEF RowWithinTraffic, SampleWithinTraffic
  <2>2. CASE ov'[u] # ov[u]
    <3>1. u = v
      BY <1>3, <2>2
    <3>2. /\ ov' = [ov EXCEPT ![v] = MeteredOvpn(Daemon)] /\ row[v] = "live"
          /\ v \in tick[Daemon].ovdom
      BY <2>2, <3>1 DEF TickOvpnAcct, Live
    <3>3. Snap(Daemon).ov = ov[v]
      BY <1>0, <3>2 DEF OvpnAccounts, SnapshotCurrent, Snap
    <3>4. ov'[v] = [used |-> ov[v].used + Delta(cur, ov[v].last), last |-> cur]
      BY <1>0, <3>2, <3>3 DEF MeteredOvpn, TypeOK
    <3>5. ov'[u].used = ov[u].used + Delta(cur, ov[u].last) /\ ov'[u].last = cur
      BY <3>1, <3>4
    <3>6. /\ ov[u].used \in Nat /\ ov[u].last \in Nat /\ cur \in Nat
          /\ status.bytes[u] \in Nat /\ status.sent[u] \in Nat /\ base[u].ov \in Nat
      BY <3>1, OvpnKinds
    <3>7. u \notin status.socket =>
            ov[u].used + Delta(cur, ov[u].last) + Delta(status.bytes[u], cur)
              <= status.sent[u] - base[u].ov
      BY <1>0, <2>0, <3>1, <3>2 DEF SampleWithinTraffic
    <3>8. tick'[Daemon].ovcur[u] = cur
      BY <1>1, <3>1
    <3> HIDE DEF cur
    <3>9. /\ Delta(cur, cur) = 0 /\ Delta(status.bytes[u], cur) \in Nat
          /\ Delta(cur, ov[u].last) \in Nat
      BY <3>6, DeltaFacts
    <3>10. RowWithinTraffic(u)'
      BY <1>0, <3>5, <3>6, <3>7, <3>9 DEF RowWithinTraffic
    <3>11. SampleWithinTraffic(u)'
      BY <1>0, <3>5, <3>6, <3>7, <3>8, <3>9 DEF SampleWithinTraffic
    <3> QED BY <3>10, <3>11
  <2> QED BY <2>1, <2>2
<1> QED BY <1>4, <1>5, <1>6 DEF OvpnAccounts

\* The other steps of a pass keep its sample, and a snapshot until it is used up.
LEMMA OtherStepsOvpn ==
  ASSUME TypeOK, PhaseInv, Metering, OvpnAccounts,
         TickPeers(Daemon) \/ TickWG(Daemon) \/ TickIpset(Daemon) \/ TickFlag(Daemon)
  PROVE  OvpnAccounts'
<1> DEFINE v == Cur(Daemon)
<1>0. /\ tick \in [Procs -> TickStates] /\ Daemon \in Procs /\ tick[Daemon] \in TickStates
      /\ tick[Daemon].snap \in Snapshots
  BY DEF TypeOK, TickStates, Procs
<1>1. /\ UNCHANGED <<row, ip, ov, ovc, conn, status, base, sent, hs>> /\ tick[Daemon].ph # "idle"
  BY DEF TickPeers, TickWG, TickIpset, TickFlag, db, kernel
<1>2. \A u \in Users : SnapshotCurrent(u)
  BY DEF OvpnAccounts
<1>3. CASE TickPeers(Daemon)
  <2> DEFINE S(seen) == [u \in Users |-> IF u \in seen
                         THEN [pol |-> pol[u], ip |-> ip[u], wg |-> wg[u], ov |-> ov[u]]
                         ELSE NoRow]
  <2>1. PICK seen : tick' = [tick EXCEPT ![Daemon] = [@ EXCEPT !.ph = "wg", !.todo = seen,
                               !.known = OwnedIPs(seen), !.snap = S(seen)]]
    BY <1>3 DEF TickPeers
  <2>2. \A u \in Users : u \in seen => S(seen)[u].ov = ov[u]
    OBVIOUS
  <2> HIDE DEF S
  <2>3. /\ tick'[Daemon].ovdom = tick[Daemon].ovdom /\ tick'[Daemon].ovcur = tick[Daemon].ovcur
        /\ tick'[Daemon].todo = seen /\ tick'[Daemon].snap = S(seen)
    BY <1>0, <2>1 DEF TickStates
  <2>4. \A u \in Users : SnapshotCurrent(u)'
    BY <1>1, <2>2, <2>3 DEF SnapshotCurrent
  <2> QED BY <1>1, <2>3, <2>4, OvpnFrame
<1>4. CASE TickWG(Daemon)
  <2>0. tick[Daemon].ph = "wg" /\ v \in Users
    <3>1. tick[Daemon].ph = "wg" /\ tick[Daemon].todo # {}
      BY <1>4 DEF TickWG
    <3> QED BY <1>0, <3>1, CurIsUser
  <2>1. /\ tick'[Daemon].ovdom = tick[Daemon].ovdom /\ tick'[Daemon].ovcur = tick[Daemon].ovcur
        /\ tick'[Daemon].todo = tick[Daemon].todo
        /\ \A u \in Users : tick'[Daemon].snap[u].ov = tick[Daemon].snap[u].ov
    <3>1. CASE tick' = [tick EXCEPT ![Daemon].ph = "ovpnacct"]
      BY <1>0, <3>1 DEF TickStates
    <3>2. CASE tick' = [tick EXCEPT ![Daemon] = [@ EXCEPT !.ph = "ovpnacct", !.snap[v].wg = Metered(Daemon)]]
      <4> HIDE DEF v
      <4> QED BY <1>0, <2>0, <3>2 DEF TickStates, Snapshots
    <3> QED BY <1>4, <3>1, <3>2 DEF TickWG
  <2>2. \A u \in Users : SnapshotCurrent(u)'
    BY <1>1, <1>2, <2>0, <2>1 DEF SnapshotCurrent
  <2> QED BY <1>1, <2>1, <2>2, OvpnFrame
<1>5. CASE TickIpset(Daemon)
  <2>0. tick[Daemon].ph = "ipset" /\ tick'[Daemon] = [tick[Daemon] EXCEPT !.ph = "flag"]
    BY <1>0, <1>5 DEF TickIpset
  <2>1. /\ tick'[Daemon].ovdom = tick[Daemon].ovdom /\ tick'[Daemon].ovcur = tick[Daemon].ovcur
        /\ tick'[Daemon].todo = tick[Daemon].todo /\ tick'[Daemon].ph = "flag"
        /\ tick'[Daemon].snap = tick[Daemon].snap
    BY <1>0, <2>0 DEF TickStates
  <2>2. Cur(Daemon)' = v
    BY <2>1 DEF Cur
  <2>3. \A u \in Users : SnapshotCurrent(u)'
    BY <1>1, <1>2, <2>0, <2>1, <2>2 DEF SnapshotCurrent
  <2> QED BY <1>1, <2>1, <2>3, OvpnFrame
<1>6. CASE TickFlag(Daemon)
  <2>0. /\ tick[Daemon].ph = "flag"
        /\ tick' = [tick EXCEPT ![Daemon] = [tick[Daemon] EXCEPT !.ph = "wg",
                                            !.todo = tick[Daemon].todo \ {v}, !.snap[v] = NoRow]]
    BY <1>6 DEF TickFlag
  <2>1. /\ tick'[Daemon].ovdom = tick[Daemon].ovdom /\ tick'[Daemon].ovcur = tick[Daemon].ovcur
        /\ tick'[Daemon].todo = tick[Daemon].todo \ {v}
        /\ \A u \in Users : u # v => tick'[Daemon].snap[u] = tick[Daemon].snap[u]
    BY <1>0, <2>0, FlagRecord
  <2>2. \A u \in Users : SnapshotCurrent(u)'
    BY <1>1, <1>2, <2>0, <2>1 DEF SnapshotCurrent
  <2> QED BY <1>1, <2>1, <2>2, OvpnFrame
<1> QED BY <1>3, <1>4, <1>5, <1>6

LEMMA PassesOvpn ==
  ASSUME TypeOK, PhaseInv, Metering, OvpnAccounts, DaemonOnly, Passes
  PROVE  OvpnAccounts'
<1>1. Procs = {Daemon}
  BY DEF Procs, DaemonOnly
<1>2. CASE TickSweep(Daemon) \/ TickPanic(Daemon)
  <2>1. tick'[Daemon].ph = "idle"
    BY <1>1, <1>2 DEF TickSweep, TickPanic, FreshTick, TypeOK
  <2>2. \A h \in Handlers : hs'[h].pc = "commit" => hs'[h] = hs[h]
    BY <1>2 DEF TickSweep, TickPanic, Release, IdleHandler
  <2> QED BY <1>2, <2>1, <2>2, OvpnFrame DEF TickSweep, TickPanic, db, kernel
<1>3. \A p \in Procs : TickStep(p) => OvpnAccounts'
  BY <1>1, <1>2, TickOvpnKept, TickOvpnAcctKept, OtherStepsOvpn DEF TickStep
<1>4. CASE \E p \in CliTicks : CliTickStart(p)
  BY <1>4 DEF DaemonOnly
<1> QED BY <1>1, <1>2, <1>3, <1>4, TickStartOvpn DEF Passes

LEMMA FaultsOvpn ==
  ASSUME TypeOK, Metering, OvpnAccounts, Crash \/ Reboot
  PROVE  OvpnAccounts'
<1>1. tick'[Daemon].ph = "idle" /\ \A h \in Handlers : hs'[h].pc # "commit"
  BY DEF Crash, Reboot, FreshTick, IdleHandler, TypeOK, Procs
<1>2. CASE Crash
  BY <1>1, <1>2, OvpnFrame DEF Crash, kernel
<1>3. CASE Reboot
  <2>1. UNCHANGED <<row, ip, ov, sent, base>> /\ \A u \in Users : ovc'[u] = 0 /\ ~conn'[u]
    BY <1>3 DEF Reboot
  <2>2. CASE status' = status
    BY <1>1, <2>1, <2>2, SessionsKept
  <2>3. CASE status' # status
    <3>1. /\ status'.socket = status.socket
          /\ \A u \in Users : status'.bytes[u] = 0 /\ status'.sent[u] = sent[u].ov
      <4>1. status' = [NoStatus EXCEPT !.sent = [u \in Users |-> sent[u].ov],
                                       !.socket = status.socket]
        BY <1>3, <2>3 DEF Reboot
      <4>2. /\ status'.socket = status.socket /\ status'.bytes = [u \in Users |-> 0]
            /\ status'.sent = [u \in Users |-> sent[u].ov]
        BY <4>1 DEF NoStatus
      <4> QED BY <4>2
    <3>2. ASSUME NEW u \in Users
          PROVE  /\ RowWithinTraffic(u)' /\ SampleWithinTraffic(u)' /\ FileWithinTraffic(u)'
                 /\ Unused(u)' /\ SnapshotCurrent(u)'
      <4>1. /\ ov[u].used \in Nat /\ ov[u].last \in Nat /\ sent[u].ov \in Nat
            /\ base[u].ov \in Nat /\ status.bytes[u] \in Nat /\ status.sent[u] \in Nat
        BY OvpnKinds
      <4>2. /\ Delta(0, ov[u].last) = 0 /\ Delta(0, 0) = 0
            /\ Delta(status.bytes[u], ov[u].last) \in Nat
        BY <4>1, DeltaFacts
      <4>3. RowWithinTraffic(u) /\ Unused(u) /\ status.sent[u] <= sent[u].ov
        BY FileBehind DEF OvpnAccounts
      <4>4. RowWithinTraffic(u)'
        BY <2>1, <3>1, <4>1, <4>2, <4>3 DEF RowWithinTraffic
      <4>5. FileWithinTraffic(u)'
        BY <2>1, <3>1, <4>1, <4>2 DEF FileWithinTraffic
      <4>6. Unused(u)'
        BY <2>1, <3>1, <4>3 DEF Unused
      <4> QED BY <1>1, <4>4, <4>5, <4>6 DEF SampleWithinTraffic, SnapshotCurrent
    <3> QED BY <1>1, <3>2 DEF OvpnAccounts, RechargeWithinTraffic
  <2> QED BY <2>2, <2>3
<1> QED BY <1>2, <1>3

\* enforce.go:108-120 and reset.go:46-57, 114-115: sessions that end and begin between a pass's
\* reading of the status file and its UPDATE, or around a recharge, never make OpenVPN bill a
\* byte twice, although the file lags behind the sessions and lines of it may be missing.
THEOREM OvpnNeverBilledTwice ==
  ASSUME DaemonOnlyNoDetach PROVE Spec => []NeverOverbilledOvpn
<1>0. DaemonOnly
  BY DEF DaemonOnlyNoDetach
<1>1. ASSUME TypeOK, PhaseInv, Metering, OvpnAccounts, [Next]_vars PROVE OvpnAccounts'
  <2>1. CASE UNCHANGED vars
    BY <1>1, <2>1, OvpnFrame DEF vars
  <2>2. CASE Next
    BY <1>0, <1>1, <2>2, EnvironmentOvpn, RowsOvpn, AttachesOvpn, RequestsOvpn, PassesOvpn,
       FaultsOvpn DEF Next
  <2> QED BY <1>1, <2>1, <2>2
<1>2. TypeOK /\ OvpnAccounts => NeverOverbilledOvpn
  <2> SUFFICES ASSUME TypeOK, OvpnAccounts, NEW u \in Live \ status.socket
               PROVE  ov[u].used <= sent[u].ov - base[u].ov
    BY DEF NeverOverbilledOvpn
  <2>1. u \in Users /\ row[u] # "gone"
    BY DEF Live
  <2>2. /\ ov[u].used \in Nat /\ ov[u].last \in Nat /\ status.bytes[u] \in Nat
        /\ status.sent[u] \in Nat /\ sent[u].ov \in Nat /\ base[u].ov \in Nat
    BY <2>1, OvpnKinds
  <2>3. Delta(status.bytes[u], ov[u].last) \in Nat /\ status.sent[u] <= sent[u].ov
    BY <2>1, <2>2, DeltaFacts, FileBehind
  <2> QED BY <2>1, <2>2, <2>3 DEF OvpnAccounts, RowWithinTraffic
<1> QED BY <1>0, <1>1, <1>2, InitOvpn, TypeCorrect, MeteringInvariant, PTL DEF Spec

(***************************************************************************)
(* The daemon's metering implements Meter: every step of Enforce is, for   *)
(* each user, a step of the abstract meter or leaves it alone.             *)
(***************************************************************************)
(***************************************************************************)
(* Arithmetic and samples.                                                 *)
(***************************************************************************)

\* A sample never finds less due than the row would: skipping one loses bytes, at most.
LEMMA DueTriangle ==
  ASSUME NEW c, NEW s, NEW r, c.rx \in Nat, c.tx \in Nat, s.rx \in Nat, s.tx \in Nat,
         r.rx \in Nat, r.tx \in Nat
  PROVE  Due(c, r) <= Due(s, r) + Due(c, s)
<1>1. Delta(c.rx, r.rx) <= Delta(s.rx, r.rx) + Delta(c.rx, s.rx)
  BY DEF Delta
<1>2. Delta(c.tx, r.tx) <= Delta(s.tx, r.tx) + Delta(c.tx, s.tx)
  BY DEF Delta
<1>3. /\ Delta(c.rx, r.rx) \in Nat /\ Delta(s.rx, r.rx) \in Nat /\ Delta(c.rx, s.rx) \in Nat
      /\ Delta(c.tx, r.tx) \in Nat /\ Delta(s.tx, r.tx) \in Nat /\ Delta(c.tx, s.tx) \in Nat
  BY DEF Delta
<1> QED BY <1>1, <1>2, <1>3 DEF Due

\* Every value the refinement mapping is made of is a byte count.
LEMMA SampleNat ==
  ASSUME TypeOK, NEW u \in Users
  PROVE  /\ Sample(u).rx \in Nat /\ Sample(u).tx \in Nat
         /\ wg[u].used \in Nat /\ wg[u].rx \in Nat /\ wg[u].tx \in Nat
         /\ wgc[u].rx \in Nat /\ wgc[u].tx \in Nat
         /\ sent[u].wg \in Nat
         /\ Due(Sample(u), wg[u]) \in Nat /\ Due(wgc[u], Sample(u)) \in Nat
         /\ Due(wgc[u], wg[u]) \in Nat
<1>1. /\ wg[u].used \in Nat /\ wg[u].rx \in Nat /\ wg[u].tx \in Nat
      /\ wgc[u].rx \in Nat /\ wgc[u].tx \in Nat
      /\ tick[Daemon].tr[u].rx \in Nat /\ tick[Daemon].tr[u].tx \in Nat /\ sent[u].wg \in Nat
  BY Kinds DEF WgRows, Counters
<1>2. holder \in Handlers => hs[holder].rx \in Nat /\ hs[holder].tx \in Nat
  BY DEF TypeOK, HandlerStates
<1>3. Sample(u).rx \in Nat /\ Sample(u).tx \in Nat
  BY <1>1, <1>2 DEF Sample
<1> QED BY <1>1, <1>3, DueNat

\* At rest, and always for a pass that could not read the counters, the row is the sample.
LEMMA SampleAtRest ==
  ASSUME NEW u \in Users,
         tick[Daemon].ph # "idle" => ~tick[Daemon].wgok,
         \A h \in Handlers : hs[h].pc # "commit"
  PROVE  Sample(u) = wg[u]
BY DEF Sample

(***************************************************************************)
(* One user's part of a step.                                              *)
(***************************************************************************)
CarryOf(u) ==
  /\ sent'[u].wg = sent[u].wg + 1 /\ wg'[u].used = wg[u].used
  /\ Outstanding(u)' <= Outstanding(u) + 1
BillOf(u) ==
  /\ sent'[u].wg = sent[u].wg /\ wg'[u].used >= wg[u].used
  /\ wg'[u].used + Outstanding(u)' = wg[u].used + Outstanding(u)
LoseOf(u) ==
  /\ sent'[u].wg = sent[u].wg /\ wg'[u].used = wg[u].used
  /\ Outstanding(u)' <= Outstanding(u)
CloseOf(u) ==
  /\ sent'[u].wg = sent[u].wg /\ wg'[u].used = 0
  /\ Outstanding(u)' <= Outstanding(u)
StepOf(u) == CarryOf(u) \/ BillOf(u) \/ LoseOf(u) \/ CloseOf(u)

LEMMA OutstandingNat ==
  ASSUME TypeOK, NEW u \in Users
  PROVE  Outstanding(u) \in Nat
BY SampleNat DEF Outstanding

\* Nothing the mapping looks at changes.
LEMMA StillOf ==
  ASSUME TypeOK, NEW u \in Users,
         wg'[u] = wg[u], wgc'[u] = wgc[u], sent'[u].wg = sent[u].wg,
         row[u] = "gone" <=> row'[u] = "gone",
         tick'[Daemon].ph = tick[Daemon].ph, tick'[Daemon].wgok = tick[Daemon].wgok,
         tick'[Daemon].tr = tick[Daemon].tr, holder' = holder,
         holder \in Handlers =>
           \/ hs'[holder] = hs[holder]
           \/ hs[holder].pc # "commit" /\ hs'[holder].pc # "commit"
  PROVE  StepOf(u)
<1>1. Sample(u)' = Sample(u)
  BY DEF Sample
<1>2. Outstanding(u)' = Outstanding(u)
  BY <1>1 DEF Outstanding
<1> QED BY <1>2, OutstandingNat DEF StepOf, LoseOf

\* A sample is dropped, or the counters start again: bytes may be lost.
LEMMA DropOf ==
  ASSUME TypeOK, TypeOK', NEW u \in Users,
         wg'[u] = wg[u], sent'[u].wg = sent[u].wg, row'[u] = row[u],
         wgc'[u] = wgc[u] \/ wgc'[u] = NoCounters,
         Sample(u)' = Sample(u) \/ Sample(u)' = wg[u]
  PROVE  StepOf(u)
<1>1. Due(NoCounters, Sample(u)) = 0 /\ Due(NoCounters, wg[u]) = 0
  BY SampleNat, DueZero
<1>2. Due(wg[u], wg[u]) = 0
  BY SampleNat, DueNat
<1>3. Due(wgc[u], wg[u]) <= Due(Sample(u), wg[u]) + Due(wgc[u], Sample(u))
  BY SampleNat, DueTriangle
<1>4. Outstanding(u)' <= Outstanding(u)
  <2>1. CASE row[u] = "gone"
    BY <2>1 DEF Outstanding
  <2>2. CASE row[u] # "gone"
    <3>1. /\ Outstanding(u) = Due(Sample(u), wg[u]) + Due(wgc[u], Sample(u))
          /\ Outstanding(u)' = Due(Sample(u)', wg[u]) + Due(wgc'[u], Sample(u)')
      BY <2>2 DEF Outstanding
    <3> QED BY <1>1, <1>2, <1>3, <3>1, SampleNat
  <2> QED BY <2>1, <2>2
<1> QED BY <1>4 DEF StepOf, LoseOf

\* A sample is taken: it is the counters, and finds due what the row was owed.
LEMMA TakeOf ==
  ASSUME TypeOK, NEW u \in Users, Sample(u) = wg[u],
         wg'[u] = wg[u], sent'[u].wg = sent[u].wg, row'[u] = row[u], wgc'[u] = wgc[u],
         \/ Sample(u)' = wg[u]
         \/ Sample(u)'.rx = wgc[u].rx /\ Sample(u)'.tx = wgc[u].tx
  PROVE  StepOf(u)
<1>1. Due(wg[u], wg[u]) = 0
  BY SampleNat, DueNat
<1>2. CASE Sample(u)' = wg[u]
  <2>1. Outstanding(u)' = Outstanding(u)
    BY <1>2 DEF Outstanding
  <2> QED BY <2>1, OutstandingNat DEF StepOf, LoseOf
<1>3. CASE Sample(u)'.rx = wgc[u].rx /\ Sample(u)'.tx = wgc[u].tx
  <2>1. Due(wgc[u], Sample(u)') = 0
    BY <1>3, SampleNat, DueNat
  <2>2. Due(Sample(u)', wg[u]) = Due(wgc[u], wg[u])
    BY <1>3 DEF Due
  <2>3. Outstanding(u)' = Outstanding(u)
    BY <1>1, <2>1, <2>2, SampleNat DEF Outstanding
  <2> QED BY <2>3, OutstandingNat DEF StepOf, LoseOf
<1> QED BY <1>2, <1>3

(***************************************************************************)
(* The actions.                                                            *)
(***************************************************************************)
LEMMA EnvironmentStep ==
  ASSUME TypeOK, TypeOK', Metering, Environment, NEW u \in Users
  PROVE  StepOf(u)
<1>1. CASE WgRestart
  <2>1. wgc'[u] = NoCounters /\ UNCHANGED <<row, wg, sent, tick, holder, hs>>
    BY <1>1 DEF WgRestart, db
  <2>2. Sample(u)' = Sample(u)
    BY <2>1 DEF Sample
  <2> QED BY <2>1, <2>2, DropOf
<1>2. ASSUME NEW v \in Users, WgTraffic(v) PROVE StepOf(u)
  <2>1. UNCHANGED <<row, wg, tick, holder, hs>>
    BY <1>2 DEF WgTraffic, db
  <2>2. CASE u # v
    <3>1. wgc'[u] = wgc[u] /\ sent'[u] = sent[u]
      BY <1>2, <2>2 DEF WgTraffic, TypeOK
    <3> QED BY <2>1, <3>1, StillOf
  <2>3. CASE u = v
    <3>1. PICK s \in {"rx", "tx"} : wgc' = [wgc EXCEPT ![v][s] = @ + 1]
      BY <1>2 DEF WgTraffic
    <3>2. wgc[v] \in Counters /\ wgc'[v] = [wgc[v] EXCEPT ![s] = @ + 1]
      BY <3>1, Kinds DEF TypeOK
    <3>3. Due(wgc'[u], Sample(u)) <= Due(wgc[u], Sample(u)) + 1
      BY <2>3, <3>2, DueByte, SampleNat
    <3>4. Sample(u)' = Sample(u)
      BY <2>1 DEF Sample
    <3>5. row[u] = "live" /\ sent'[u].wg = sent[u].wg + 1
      BY <1>2, <2>3 DEF WgTraffic, TypeOK, Live
    <3>6. /\ Outstanding(u) = Due(Sample(u), wg[u]) + Due(wgc[u], Sample(u))
          /\ Outstanding(u)' = Due(Sample(u), wg[u]) + Due(wgc'[u], Sample(u))
      BY <2>1, <3>4, <3>5 DEF Outstanding
    <3>7. Due(wgc'[u], Sample(u)) \in Nat
      <4>1. Sample(u)'.rx \in Nat /\ Due(wgc'[u], Sample(u)') \in Nat
        BY SampleNat, DueNat, Kinds, <3>2, <3>4 DEF TypeOK
      <4> QED BY <3>4, <4>1
    <3>8. Outstanding(u)' <= Outstanding(u) + 1
      BY <3>3, <3>6, <3>7, SampleNat
    <3> QED BY <2>1, <3>5, <3>8 DEF StepOf, CarryOf
  <2> QED BY <2>2, <2>3
<1>3. ASSUME NEW v \in Users, OvpnTraffic(v) PROVE StepOf(u)
  <2>1. UNCHANGED <<row, wg, wgc, tick, holder, hs>> /\ sent'[u].wg = sent[u].wg
    BY <1>3 DEF OvpnTraffic, TypeOK, db
  <2> QED BY <2>1, StillOf
<1>4. ASSUME NEW v \in Users, OvpnConnect(v) \/ OvpnDisconnect(v) \/ Expire(v)
      PROVE  StepOf(u)
  <2>1. UNCHANGED <<row, wg, wgc, sent, tick, holder, hs>>
    BY <1>4 DEF OvpnConnect, OvpnDisconnect, Expire, db, kernel
  <2> QED BY <2>1, StillOf
<1>5. CASE WriteStatus
  BY <1>5, StillOf DEF WriteStatus, db
<1> QED BY <1>1, <1>2, <1>3, <1>4, <1>5 DEF Environment

LEMMA RowsStep ==
  ASSUME TypeOK, Metering, DaemonOnly, Rows, NEW u \in Users
  PROVE  StepOf(u)
<1> SUFFICES ASSUME NEW v \in Users,
                    \/ CreatePeer(v) \/ CreateOvpnOnly(v) \/ DeletePeer(v)
                    \/ OvpnDetach(v) \/ CliEdit(v) \/ CliRecharge(v)
                    \/ \E a \in Attachers : AttachPick(a, v)
             PROVE  StepOf(u)
  BY DEF Rows
<1>1. ASSUME NEW w, NEW q, NEW x, NewRow(v, w, q, x) PROVE StepOf(u)
  <2>1. UNCHANGED <<wg, wgc, sent, tick, holder, hs>> /\ (row[u] = "gone" <=> row'[u] = "gone")
    BY <1>1 DEF NewRow, kernel, TypeOK
  <2> QED BY <2>1, StillOf
<1>2. CASE DeletePeer(v)
  <2>1. UNCHANGED <<sent, tick, holder, hs>>
    BY <1>2 DEF DeletePeer
  <2>2. CASE u = v
    <3>1. row'[u] = "gone" /\ wg'[u].used = 0
      BY <1>2, <2>2 DEF DeletePeer, TypeOK, NoWgUse
    <3>2. Outstanding(u)' = 0
      BY <3>1 DEF Outstanding
    <3> QED BY <2>1, <3>1, <3>2, OutstandingNat DEF StepOf, CloseOf
  <2>3. CASE u # v
    <3>1. wg'[u] = wg[u] /\ wgc'[u] = wgc[u] /\ row'[u] = row[u]
      BY <1>2, <2>3 DEF DeletePeer, TypeOK
    <3> QED BY <2>1, <3>1, StillOf
  <2> QED BY <2>2, <2>3
<1>3. ASSUME OvpnDetach(v) \/ CliEdit(v) \/ \E a \in Attachers : AttachPick(a, v)
      PROVE  StepOf(u)
  <2>1. UNCHANGED <<row, wg, wgc, sent, tick, holder, hs>>
    BY <1>3 DEF OvpnDetach, CliEdit, EditRow, AttachPick, kernel
  <2> QED BY <2>1, StillOf
<1>4. CASE CliRecharge(v)
  BY <1>4 DEF CliRecharge, DaemonOnly
<1> QED BY <1>1, <1>2, <1>3, <1>4 DEF CreatePeer, CreateOvpnOnly

LEMMA AttachesStep ==
  ASSUME TypeOK, Attaches, NEW u \in Users
  PROVE  StepOf(u)
<1>1. UNCHANGED <<row, wg, wgc, sent, tick, holder, hs>>
  BY DEF Attaches, AttachWrite, AttachFail, kernel
<1> QED BY <1>1, StillOf

LEMMA RechargeCommitStep ==
  ASSUME TypeOK, Metering, NEW h \in Handlers, RechargeCommit(h), NEW u \in Users
  PROVE  StepOf(u)
<1>1. /\ tick[Daemon].ph = "idle" /\ holder = h /\ hs[h].user \in Users
      /\ \A g \in Handlers : hs[g].pc = "commit" => g = h
  BY DEF RechargeCommit, Metering, LockInv
<1>2. /\ UNCHANGED <<row, wgc, sent, tick>> /\ holder' \notin Handlers
  BY EnforceAssumption DEF RechargeCommit, kernel
<1>3. Sample(u)' = wg'[u]
  BY <1>1, <1>2 DEF Sample
<1>4. CASE u = hs[h].user /\ u \in Live
  <2>1. Sample(u) = hs[h]
    BY <1>1, <1>4 DEF Sample, RechargeCommit
  <2>2. wg'[u] = [used |-> 0, rx |-> hs[h].rx, tx |-> hs[h].tx]
    BY <1>4 DEF RechargeCommit, TypeOK
  <2>3. /\ Due(wgc[u], wg'[u]) = Due(wgc[u], Sample(u)) /\ Due(wg'[u], wg'[u]) = 0
    <3>1. Due(wgc[u], wg'[u]) = Due(wgc[u], Sample(u))
      BY <2>1, <2>2 DEF Due
    <3>2. wg'[u].rx \in Nat /\ wg'[u].tx \in Nat
      BY <2>1, <2>2, SampleNat
    <3> QED BY <3>1, <3>2, DueNat
  <2>4. Outstanding(u)' <= Outstanding(u)
    <3>1. row[u] # "gone"
      BY <1>4 DEF Live
    <3>2. /\ Outstanding(u)' = 0 + Due(wgc[u], Sample(u))
          /\ Outstanding(u) = Due(Sample(u), wg[u]) + Due(wgc[u], Sample(u))
      BY <1>2, <1>3, <2>3, <3>1 DEF Outstanding
    <3> QED BY <3>2, SampleNat
  <2> QED BY <1>2, <2>2, <2>4 DEF StepOf, CloseOf
<1>5. CASE u # hs[h].user
  <2>1. Sample(u) = wg[u]
    BY <1>1, <1>5 DEF Sample
  <2>2. wg'[u] = wg[u]
    BY <1>5 DEF RechargeCommit, TypeOK
  <2> QED BY <1>2, <1>3, <2>1, <2>2, TakeOf
<1>6. CASE u = hs[h].user /\ u \notin Live
  <2>1. wg' = wg
    BY <1>6 DEF RechargeCommit
  <2>2. row[u] # "live" /\ row[u] \in {"new", "live", "gone"}
    BY <1>6 DEF Live, TypeOK
  <2>3. Due(wgc[u], wg[u]) <= Due(Sample(u), wg[u]) + Due(wgc[u], Sample(u))
    BY SampleNat, DueTriangle
  <2>4. Due(wg[u], wg[u]) = 0
    BY SampleNat, DueNat
  <2>5. Outstanding(u)' <= Outstanding(u)
    BY <1>2, <1>3, <2>1, <2>3, <2>4, SampleNat DEF Outstanding
  <2> QED BY <1>2, <2>1, <2>5 DEF StepOf, LoseOf
<1> QED BY <1>4, <1>5, <1>6

LEMMA RequestsStep ==
  ASSUME TypeOK, TypeOK', Metering, Requests, NEW u \in Users
  PROVE  StepOf(u)
<1> SUFFICES ASSUME NEW h \in Handlers,
                    \/ Sync(h) \/ RechargeCommit(h) \/ RechargeFail(h)
                    \/ \E v \in Users : ApiEdit(h, v) \/ RechargeSample(h, v) \/ RechargeQuota(h, v)
             PROVE  StepOf(u)
  BY DEF Requests
<1>1. ASSUME NEW v \in Users, Sync(h) \/ ApiEdit(h, v) \/ RechargeQuota(h, v) PROVE StepOf(u)
  <2>1. /\ UNCHANGED <<row, wg, wgc, sent, tick, holder>>
        /\ hs[h].pc = "idle" /\ hs' = [hs EXCEPT ![h].pc = "reconcile"]
    BY <1>1 DEF Sync, ApiEdit, EditRow, RechargeQuota, db, kernel
  <2>2. hs'[h].pc = "reconcile" /\ \A g \in Handlers : g # h => hs'[g] = hs[g]
    BY <2>1 DEF TypeOK, HandlerStates
  <2> QED BY <2>1, <2>2, StillOf
<1>2. CASE RechargeFail(h)
  <2>1. tick[Daemon].ph = "idle" /\ holder' \notin Handlers /\ UNCHANGED <<row, wg, wgc, sent, tick>>
    BY <1>2, EnforceAssumption DEF RechargeFail, Metering, LockInv, db, kernel
  <2>2. Sample(u)' = wg[u]
    BY <2>1 DEF Sample
  <2> QED BY <2>1, <2>2, DropOf
<1>3. ASSUME NEW v \in Users, RechargeSample(h, v) PROVE StepOf(u)
  <2>1. /\ tick[Daemon].ph = "idle" /\ \A g \in Handlers : hs[g].pc # "commit"
        /\ UNCHANGED <<row, ip, wg, wgc, sent, tick>> /\ holder' = h
    BY <1>3, EnforceAssumption DEF RechargeSample, Metering, LockInv, db, kernel
  <2>2. /\ hs'[h].pc = "commit" /\ hs'[h].user = v
        /\ hs'[h].rx = IF ip[v].wg # NoIP THEN wgc[v].rx ELSE wg[v].rx
        /\ hs'[h].tx = IF ip[v].wg # NoIP THEN wgc[v].tx ELSE wg[v].tx
    BY <1>3 DEF RechargeSample, TypeOK
  <2>3. Sample(u) = wg[u]
    BY <2>1, SampleAtRest
  <2>4. CASE u # v
    <3>1. Sample(u)' = wg[u]
      BY <2>1, <2>2, <2>4 DEF Sample
    <3> QED BY <2>1, <2>3, <3>1, TakeOf
  <2>5. CASE u = v
    <3>1. Sample(u)' = hs'[h]
      BY <2>1, <2>2, <2>5 DEF Sample
    <3>2. CASE ip[u].wg # NoIP
      BY <2>1, <2>2, <2>3, <2>5, <3>1, <3>2, TakeOf
    <3>3. CASE ip[u].wg = NoIP
      <4>1. wgc[u] = NoCounters
        BY <3>3 DEF Metering, MeterInv
      <4>2. /\ Due(hs'[h], wg[u]) = 0 /\ Due(NoCounters, hs'[h]) = 0
            /\ Due(wg[u], wg[u]) = 0 /\ Due(NoCounters, wg[u]) = 0
        BY <2>2, <2>5, <3>3, SampleNat, DueNat, DueZero
      <4>3. Outstanding(u)' = Outstanding(u)
        BY <2>1, <2>3, <3>1, <4>1, <4>2 DEF Outstanding
      <4> QED BY <2>1, <4>3, OutstandingNat DEF StepOf, LoseOf
    <3> QED BY <3>2, <3>3
  <2> QED BY <2>4, <2>5
<1> QED BY <1>1, <1>2, <1>3, RechargeCommitStep

(***************************************************************************)
(* The pass.                                                               *)
(***************************************************************************)

\* Between its start and its end a pass keeps the sample it started with.
LEMMA MidPass ==
  ASSUME TypeOK, PhaseInv,
         \/ TickOvpn(Daemon) \/ TickPeers(Daemon) \/ TickWG(Daemon) \/ TickOvpnAcct(Daemon)
         \/ TickIpset(Daemon) \/ TickFlag(Daemon)
  PROVE  /\ tick[Daemon].ph # "idle" /\ tick'[Daemon].ph # "idle"
         /\ tick'[Daemon].tr = tick[Daemon].tr /\ tick'[Daemon].wgok = tick[Daemon].wgok
         /\ UNCHANGED <<row, wgc, sent, holder, hs>>
<1>0. tick[Daemon] \in TickStates /\ tick \in [Procs -> TickStates] /\ Daemon \in Procs
  BY DEF TypeOK, Procs
<1>1. CASE TickOvpn(Daemon)
  <2>1. PICK dom, cur : tick' = [tick EXCEPT ![Daemon] = [@ EXCEPT !.ph = "peers",
                                   !.ovdom = dom, !.ovcur = cur]]
    BY <1>1 DEF TickOvpn, ReadOvpn
  <2> QED BY <1>0, <1>1, <2>1 DEF TickOvpn, TickStates, db, kernel
<1>2. CASE TickPeers(Daemon)
  <2>1. PICK seen, snap :
          tick' = [tick EXCEPT ![Daemon] = [@ EXCEPT !.ph = "wg", !.todo = seen,
                     !.known = OwnedIPs(seen), !.snap = snap]]
    BY <1>2 DEF TickPeers
  <2> QED BY <1>0, <1>2, <2>1 DEF TickPeers, TickStates, db, kernel
<1>3. CASE TickWG(Daemon)
  <2>1. \/ tick' = [tick EXCEPT ![Daemon].ph = "ovpnacct"]
        \/ \E v, m : tick' = [tick EXCEPT ![Daemon] = [@ EXCEPT !.ph = "ovpnacct", !.snap[v].wg = m]]
    <3>1. CASE tick' = [tick EXCEPT ![Daemon].ph = "ovpnacct"]
      BY <3>1
    <3>2. CASE tick' = [tick EXCEPT ![Daemon] = [@ EXCEPT !.ph = "ovpnacct",
                                                 !.snap[Cur(Daemon)].wg = Metered(Daemon)]]
      <4> SUFFICES \E v, m : tick' = [tick EXCEPT ![Daemon] = [@ EXCEPT !.ph = "ovpnacct", !.snap[v].wg = m]]
        OBVIOUS
      <4> WITNESS Cur(Daemon), Metered(Daemon)
      <4> QED BY <3>2
    <3> QED BY <1>3, <3>1, <3>2 DEF TickWG
  <2>2. /\ tick'[Daemon].ph = "ovpnacct"
        /\ tick'[Daemon].tr = tick[Daemon].tr /\ tick'[Daemon].wgok = tick[Daemon].wgok
    <3>1. CASE tick' = [tick EXCEPT ![Daemon].ph = "ovpnacct"]
      BY <1>0, <3>1 DEF TickStates
    <3>2. CASE \E v, m : tick' = [tick EXCEPT ![Daemon] = [@ EXCEPT !.ph = "ovpnacct", !.snap[v].wg = m]]
      <4>1. PICK v, m : tick' = [tick EXCEPT ![Daemon] = [@ EXCEPT !.ph = "ovpnacct", !.snap[v].wg = m]]
        BY <3>2
      <4> QED BY <1>0, <4>1 DEF TickStates
    <3> QED BY <2>1, <3>1, <3>2
  <2> QED BY <1>3, <2>2 DEF TickWG, kernel
<1>4. CASE TickOvpnAcct(Daemon)
  <2>1. \/ tick' = [tick EXCEPT ![Daemon].ph = "ipset"]
        \/ \E v, m : tick' = [tick EXCEPT ![Daemon] = [@ EXCEPT !.ph = "ipset", !.snap[v].ov = m]]
    <3>1. CASE tick' = [tick EXCEPT ![Daemon].ph = "ipset"]
      BY <3>1
    <3>2. CASE tick' = [tick EXCEPT ![Daemon] = [@ EXCEPT !.ph = "ipset",
                                                 !.snap[Cur(Daemon)].ov = MeteredOvpn(Daemon)]]
      <4> SUFFICES \E v, m : tick' = [tick EXCEPT ![Daemon] = [@ EXCEPT !.ph = "ipset", !.snap[v].ov = m]]
        OBVIOUS
      <4> WITNESS Cur(Daemon), MeteredOvpn(Daemon)
      <4> QED BY <3>2
    <3> QED BY <1>4, <3>1, <3>2 DEF TickOvpnAcct
  <2>2. /\ tick'[Daemon].ph = "ipset"
        /\ tick'[Daemon].tr = tick[Daemon].tr /\ tick'[Daemon].wgok = tick[Daemon].wgok
    <3>1. CASE tick' = [tick EXCEPT ![Daemon].ph = "ipset"]
      BY <1>0, <3>1 DEF TickStates
    <3>2. CASE \E v, m : tick' = [tick EXCEPT ![Daemon] = [@ EXCEPT !.ph = "ipset", !.snap[v].ov = m]]
      <4>1. PICK v, m : tick' = [tick EXCEPT ![Daemon] = [@ EXCEPT !.ph = "ipset", !.snap[v].ov = m]]
        BY <3>2
      <4> QED BY <1>0, <4>1 DEF TickStates
    <3> QED BY <2>1, <3>1, <3>2
  <2> QED BY <1>4, <2>2 DEF TickOvpnAcct, kernel
<1>5. CASE TickIpset(Daemon)
  BY <1>0, <1>5 DEF TickIpset, TickStates, db, kernel
<1>6. CASE TickFlag(Daemon)
  <2>1. \E v : tick' = [tick EXCEPT ![Daemon] = [tick[Daemon] EXCEPT !.ph = "wg",
                                                !.todo = tick[Daemon].todo \ {v}, !.snap[v] = NoRow]]
    BY <1>6 DEF TickFlag
  <2> QED BY <1>0, <1>6, <2>1 DEF TickFlag, TickStates, kernel
<1> QED BY <1>1, <1>2, <1>3, <1>4, <1>5, <1>6

\* The UPDATE bills the bytes the sample owed the row, and they are due no longer.
LEMMA TickWGStep ==
  ASSUME TypeOK, PhaseInv, Metering, TickWG(Daemon), NEW u \in Users
  PROVE  StepOf(u)
<1>1. /\ tick[Daemon].ph # "idle" /\ tick'[Daemon].ph # "idle"
      /\ tick'[Daemon].tr = tick[Daemon].tr /\ tick'[Daemon].wgok = tick[Daemon].wgok
      /\ UNCHANGED <<row, wgc, sent, holder, hs>>
  BY MidPass
<1>2. CASE wg'[u] = wg[u]
  <2>1. Sample(u)' = Sample(u)
    BY <1>1, <1>2, MidPass DEF Sample
  <2>2. Outstanding(u)' = Outstanding(u)
    BY <1>1, <1>2, <2>1 DEF Outstanding
  <2> QED BY <1>1, <1>2, <2>2, OutstandingNat DEF StepOf, LoseOf
<1>3. CASE wg'[u] # wg[u]
  <2> DEFINE tr == tick[Daemon].tr[u]
  <2>1. /\ u = Cur(Daemon) /\ row[u] = "live" /\ tick[Daemon].wgok
        /\ wg'[u] = [used |-> wg[u].used + Due(tr, wg[u]), rx |-> tr.rx, tx |-> tr.tx]
    BY <1>3, TickWGAccount
  <2>2. Sample(u) = tr /\ Sample(u)' = tr
    BY <2>1, MidPass DEF Sample
  <2>3. /\ Due(tr, wg[u]) \in Nat /\ Due(wgc[u], tr) \in Nat /\ tr.rx \in Nat /\ tr.tx \in Nat
    BY <2>2, SampleNat
  <2> HIDE DEF tr
  <2>4. /\ wg'[u].used = wg[u].used + Due(tr, wg[u]) /\ wg'[u].rx = tr.rx /\ wg'[u].tx = tr.tx
    BY <2>1
  <2>5. Due(tr, wg'[u]) = 0
    BY <2>3, <2>4, DueNat
  <2>6. /\ Outstanding(u) = Due(tr, wg[u]) + Due(wgc[u], tr)
        /\ Outstanding(u)' = Due(tr, wg'[u]) + Due(wgc[u], tr)
    BY <1>1, <2>1, <2>2 DEF Outstanding
  <2>7. wg'[u].used >= wg[u].used /\ wg'[u].used + Outstanding(u)' = wg[u].used + Outstanding(u)
    BY <2>3, <2>4, <2>5, <2>6, SampleNat
  <2> QED BY <1>1, <2>7 DEF StepOf, BillOf
<1> QED BY <1>2, <1>3

LEMMA PassesStep ==
  ASSUME TypeOK, TypeOK', PhaseInv, Metering, DaemonOnly, Passes, NEW u \in Users
  PROVE  StepOf(u)
<1>1. Procs = {Daemon} /\ ~\E p \in CliTicks : CliTickStart(p)
  BY DEF Procs, DaemonOnly
<1>2. ASSUME NEW t \in Threads, TickStart(t) PROVE StepOf(u)
  <2>1. /\ tick[Daemon].ph = "idle" /\ \A h \in Handlers : hs[h].pc # "commit"
        /\ UNCHANGED <<row, wg, wgc, sent, hs>>
    BY <1>2, EnforceAssumption
       DEF TickStart, MayStart, BeginPass, Metering, LockInv, db, kernel
  <2>2. PICK ok \in BOOLEAN :
          tick' = [tick EXCEPT ![Daemon] = [FreshTick EXCEPT !.ph = "ovpn", !.wgok = ok,
                                             !.tr = IF ok THEN wgc ELSE FreshTick.tr]]
    BY <1>2 DEF TickStart, BeginPass
  <2>3. tick'[Daemon].ph = "ovpn" /\ (tick'[Daemon].wgok => tick'[Daemon].tr = wgc)
    BY <2>2 DEF TypeOK, FreshTick, Procs
  <2>4. Sample(u) = wg[u]
    BY <2>1, SampleAtRest
  <2>5. Sample(u)' = wg[u] \/ Sample(u)' = wgc[u]
    BY <2>1, <2>3 DEF Sample
  <2> QED BY <2>1, <2>4, <2>5, TakeOf
<1>3. CASE \/ TickOvpn(Daemon) \/ TickPeers(Daemon) \/ TickOvpnAcct(Daemon)
           \/ TickIpset(Daemon) \/ TickFlag(Daemon)
  <2>1. wg' = wg
    BY <1>3 DEF TickOvpn, TickPeers, TickOvpnAcct, TickIpset, TickFlag, db
  <2>2. Sample(u)' = Sample(u)
    BY <1>3, <2>1, MidPass DEF Sample
  <2> QED BY <1>3, <2>1, <2>2, MidPass, DropOf
<1>4. CASE TickSweep(Daemon) \/ TickPanic(Daemon)
  <2>1. tick'[Daemon].ph = "idle" /\ holder' \notin Handlers /\ UNCHANGED <<row, wg, wgc, sent>>
    BY <1>1, <1>4, EnforceAssumption DEF TickSweep, TickPanic, Release, FreshTick, TypeOK, db, kernel
  <2>2. Sample(u)' = wg[u]
    BY <2>1 DEF Sample
  <2> QED BY <2>1, <2>2, DropOf
<1> QED BY <1>1, <1>2, <1>3, <1>4, TickWGStep DEF Passes, TickStep

LEMMA FaultsStep ==
  ASSUME TypeOK, TypeOK', Crash \/ Reboot, NEW u \in Users
  PROVE  StepOf(u)
<1>1. /\ tick'[Daemon].ph = "idle" /\ holder' \notin Handlers /\ UNCHANGED <<row, wg, sent>>
      /\ wgc'[u] = wgc[u] \/ wgc'[u] = NoCounters
  BY EnforceAssumption DEF Crash, Reboot, FreshTick, TypeOK, Procs, db, kernel
<1>2. Sample(u)' = wg[u]
  BY <1>1 DEF Sample
<1> QED BY <1>1, <1>2, DropOf

\* What the mapping yields has the kind the abstract meter asks for.
LEMMA MeterKinds ==
  TypeOK => \A u \in Users : sent[u].wg \in Nat /\ wg[u].used \in Nat /\ Outstanding(u) \in Nat
BY SampleNat, OutstandingNat

LEMMA EveryStep ==
  ASSUME TypeOK, TypeOK', PhaseInv, Metering, DaemonOnly, [Next]_vars, NEW u \in Users
  PROVE  StepOf(u)
<1>1. CASE UNCHANGED vars
  BY <1>1, StillOf DEF vars
<1>2. CASE Next
  BY <1>2, EnvironmentStep, RowsStep, AttachesStep, RequestsStep, PassesStep, FaultsStep DEF Next
<1> QED BY <1>1, <1>2

\* enforce.go:97-112 and reset.go:68-112 under enforceMu implement the abstract meter: each
\* byte billed was due and is due no longer, for any users, handlers, addresses and bounds.
THEOREM DaemonIsMeter == ASSUME DaemonOnly PROVE Spec => IsMeter
<1>1. Init => WgMeter!Init
  <2> SUFFICES ASSUME Init, NEW u \in Users
               PROVE  sent[u].wg = 0 /\ wg[u].used = 0 /\ Outstanding(u) = 0
    BY DEF WgMeter!Init
  <2>1. wg[u] = NoWgUse /\ wgc[u] = NoCounters /\ sent[u].wg = 0
    BY DEF Init
  <2>2. tick[Daemon].ph = "idle" /\ \A h \in Handlers : hs[h].pc # "commit"
    BY DEF Init, Procs, FreshTick, IdleHandler
  <2>3. Sample(u) = NoWgUse
    BY <2>1, <2>2, SampleAtRest
  <2>4. Due(NoWgUse, NoWgUse) = 0 /\ Due(NoCounters, NoWgUse) = 0
    BY DEF Due, Delta, NoWgUse, NoCounters
  <2> QED BY <2>1, <2>3, <2>4 DEF Outstanding, NoWgUse
<1>2. DaemonOnly /\ TypeOK /\ TypeOK' /\ PhaseInv /\ Metering /\ [Next]_vars
        => [WgMeter!Next]_<<[u \in Users |-> sent[u].wg], [u \in Users |-> wg[u].used],
                            [u \in Users |-> Outstanding(u)]>>
  <2> SUFFICES ASSUME DaemonOnly, TypeOK, TypeOK', PhaseInv, Metering, [Next]_vars
               PROVE  WgMeter!Next
    OBVIOUS
  <2>1. (\A u \in Users : sent[u].wg \in Nat /\ wg[u].used \in Nat /\ Outstanding(u) \in Nat)'
    BY MeterKinds, PTL
  <2>2. \A u \in Users : StepOf(u)
    BY EveryStep
  <2> QED
    BY <2>1, <2>2
    DEF WgMeter!Next, WgMeter!Accounts, WgMeter!Carry, WgMeter!Bill, WgMeter!Lose,
        WgMeter!Close, StepOf, CarryOf, BillOf, LoseOf, CloseOf
<1>3. Spec => [](TypeOK /\ PhaseInv)
  BY TypeCorrect
<1>4. Spec => []Metering
  BY MeteringInvariant
<1> QED BY <1>1, <1>2, <1>3, <1>4, PTL DEF Spec, IsMeter, WgMeter!Spec
=============================================================================
