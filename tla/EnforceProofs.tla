--------------------------- MODULE EnforceProofs ---------------------------
(***************************************************************************)
(* Proofs about Enforce, for any number of users, addresses, API handlers  *)
(* and operations, and any bounds: types, and the block set.               *)
(***************************************************************************)
EXTENDS Enforce, Minimum

(***************************************************************************)
(* The loop variable of a pass.                                            *)
(***************************************************************************)

\* A non-empty set of row ids has a least one, so ORDER BY id visits every row.
LEMMA LeastInSet ==
  ASSUME NEW S, S \subseteq Nat, IsFiniteSet(S), S # {}
  PROVE  Least(S) \in S
BY MinimumExists DEF Least

\* A pass that is working on a user has one left to do.
PhaseInv ==
  \A p \in Procs : tick[p].ph \in {"ovpnacct", "ipset", "flag"} => tick[p].todo # {}

LEMMA CurIsUser ==
  ASSUME TypeOK, PhaseInv, NEW p \in Procs,
         tick[p].ph \in {"ovpnacct", "ipset", "flag"} \/ tick[p].todo # {}
  PROVE  Cur(p) \in Users /\ Cur(p) \in tick[p].todo
<1>1. tick[p].todo \in SUBSET Users /\ tick[p].todo # {}
  BY DEF TypeOK, PhaseInv, TickStates
<1>2. tick[p].todo \subseteq Nat /\ IsFiniteSet(tick[p].todo)
  BY <1>1, EnforceAssumption, FS_Subset
<1> QED BY <1>1, <1>2, LeastInSet DEF Cur

\* The delta of two counter readings is a byte count, never negative.
LEMMA DeltaNat ==
  ASSUME NEW c \in Nat, NEW l \in Nat
  PROVE  Delta(c, l) \in Nat
BY DEF Delta

LEMMA FreshTickType == FreshTick \in TickStates
BY EnforceAssumption DEF FreshTick, TickStates, Phases, Snapshots, Policies, Addresses,
   WgRows, OvpnRows, NoRow, NewPolicy, NoIPs, NoWgUse, NoOvpnUse, NoCounters, Expiries, NoIP

LEMMA NoAttachType == NoAttach \in AttachStates
BY DEF NoAttach, AttachStates

LEMMA NoStatusType == NoStatus \in StatusFiles
BY DEF NoStatus, StatusFiles

LEMMA IdleHandlerType == IdleHandler \in HandlerStates
BY DEF IdleHandler, HandlerStates

LEMMA RowDefaults ==
  /\ NewPolicy \in Policies /\ NoIPs \in Addresses
  /\ NoWgUse \in WgRows /\ NoOvpnUse \in OvpnRows
  /\ NoCounters \in [rx : Nat, tx : Nat]
BY EnforceAssumption DEF NewPolicy, Policies, Expiries, NoIPs, Addresses, NoWgUse, WgRows,
   NoOvpnUse, OvpnRows, NoCounters

LEMMA SnapshotRow ==
  ASSUME NEW S \in Snapshots, NEW u \in Users
  PROVE  /\ S[u].pol \in Policies /\ S[u].ip \in Addresses
         /\ S[u].wg \in WgRows /\ S[u].ov \in OvpnRows
BY DEF Snapshots

LEMMA MeteredType ==
  ASSUME TypeOK, NEW p \in Procs, Cur(p) \in Users
  PROVE  Metered(p) \in WgRows /\ MeteredOvpn(p) \in OvpnRows
<1>1. tick[p].snap \in Snapshots /\ tick[p].tr[Cur(p)] \in [rx : Nat, tx : Nat]
      /\ tick[p].ovcur[Cur(p)] \in Nat
  BY DEF TypeOK, TickStates
<1>2. Snap(p).wg \in WgRows /\ Snap(p).ov \in OvpnRows
  BY <1>1, SnapshotRow DEF Snap
<1>3. /\ Delta(tick[p].tr[Cur(p)].rx, Snap(p).wg.rx) \in Nat
      /\ Delta(tick[p].tr[Cur(p)].tx, Snap(p).wg.tx) \in Nat
      /\ Delta(tick[p].ovcur[Cur(p)], Snap(p).ov.last) \in Nat
  BY <1>1, <1>2, DeltaNat DEF WgRows, OvpnRows
<1>4. Metered(p) \in WgRows
  BY <1>1, <1>2, <1>3 DEF Metered, WgRows
<1>5. MeteredOvpn(p) \in OvpnRows
  BY <1>1, <1>2, <1>3 DEF MeteredOvpn, OvpnRows
<1> QED BY <1>4, <1>5

\* A fresh installation is well typed.
LEMMA InitType == Init => TypeOK /\ PhaseInv
<1> SUFFICES ASSUME Init PROVE TypeOK /\ PhaseInv
  OBVIOUS
<1>1. tick \in [Procs -> TickStates]
  BY FreshTickType DEF Init
<1>2. hs \in [Handlers -> HandlerStates]
  BY IdleHandlerType DEF Init
<1>3. TypeOK
  BY <1>1, <1>2, RowDefaults, NoAttachType, NoStatusType DEF Init, TypeOK, Threads, Procs
<1>4. PhaseInv
  BY DEF Init, PhaseInv, FreshTick
<1> QED BY <1>3, <1>4

(***************************************************************************)
(* Type correctness of every step, one lemma per group of actions.         *)
(***************************************************************************)
LEMMA TouchType ==
  ASSUME TypeOK, NEW us \in SUBSET Users, Touch(us) \/ NoTouch
  PROVE  stale' \in SUBSET Users /\ touched' \in [Procs -> SUBSET Users] /\ swept' \in BOOLEAN
<1>1. stale \in SUBSET Users /\ touched \in [Procs -> SUBSET Users] /\ swept \in BOOLEAN
  BY DEF TypeOK
<1>2. CASE Touch(us)
  <2>1. \A p \in Procs : touched[p] \cup us \in SUBSET Users
    BY <1>1
  <2> QED BY <1>1, <1>2, <2>1 DEF Touch
<1>3. CASE NoTouch
  BY <1>1, <1>3 DEF NoTouch
<1> QED BY <1>2, <1>3

LEMMA EnvironmentType == TypeOK /\ PhaseInv /\ Environment => TypeOK' /\ PhaseInv'
<1> SUFFICES ASSUME TypeOK, PhaseInv, Environment PROVE TypeOK' /\ PhaseInv'
  OBVIOUS
<1> USE DEF db, kernel
<1>1. CASE WgRestart
  BY <1>1, RowDefaults DEF WgRestart, TypeOK, PhaseInv, NoTouch
<1>2. ASSUME NEW u \in Users, WgTraffic(u) PROVE TypeOK' /\ PhaseInv'
  <2>1. PICK s \in {"rx", "tx"} : wgc' = [wgc EXCEPT ![u][s] = @ + 1]
    BY <1>2 DEF WgTraffic
  <2>2. wgc[u] \in [rx : Nat, tx : Nat] /\ sent[u] \in [wg : Nat, ov : Nat]
    BY DEF TypeOK
  <2>3. wgc' \in [Users -> [rx : Nat, tx : Nat]]
    <3>1. wgc \in [Users -> [rx : Nat, tx : Nat]]
      BY DEF TypeOK
    <3>2. [wgc[u] EXCEPT ![s] = @ + 1] \in [rx : Nat, tx : Nat]
      <4>1. CASE s = "rx"
        BY <2>2, <4>1
      <4>2. CASE s = "tx"
        BY <2>2, <4>2
      <4> QED BY <4>1, <4>2
    <3>3. wgc' = [wgc EXCEPT ![u] = [wgc[u] EXCEPT ![s] = @ + 1]]
      BY <2>1
    <3> QED BY <3>1, <3>2, <3>3
  <2>4. sent' \in [Users -> [wg : Nat, ov : Nat]]
    <3>1. sent[u].wg + 1 \in Nat
      BY <2>2
    <3>2. [sent[u] EXCEPT !.wg = sent[u].wg + 1] \in [wg : Nat, ov : Nat]
      BY <2>2, <3>1
    <3> QED BY <1>2, <3>2 DEF WgTraffic, TypeOK
  <2> QED BY <1>2, <2>3, <2>4 DEF WgTraffic, TypeOK, PhaseInv, NoTouch
<1>3. ASSUME NEW u \in Users, OvpnTraffic(u) PROVE TypeOK' /\ PhaseInv'
  <2>1. sent' \in [Users -> [wg : Nat, ov : Nat]] /\ ovc' \in [Users -> Nat]
    <3>1. sent \in [Users -> [wg : Nat, ov : Nat]] /\ ovc \in [Users -> Nat]
      BY DEF TypeOK
    <3>2. sent' = [sent EXCEPT ![u].ov = @ + 1] /\ ovc' = [ovc EXCEPT ![u] = @ + 1]
      BY <1>3 DEF OvpnTraffic
    <3> QED BY <3>1, <3>2
  <2> QED BY <1>3, <2>1 DEF OvpnTraffic, TypeOK, PhaseInv, NoTouch
<1>4. ASSUME NEW u \in Users, OvpnConnect(u) PROVE TypeOK' /\ PhaseInv'
  BY <1>4 DEF OvpnConnect, TypeOK, PhaseInv, NoTouch
<1>5. ASSUME NEW u \in Users, OvpnDisconnect(u) PROVE TypeOK' /\ PhaseInv'
  BY <1>5 DEF OvpnDisconnect, TypeOK, PhaseInv, NoTouch
<1>6. ASSUME NEW u \in Users, Expire(u) PROVE TypeOK' /\ PhaseInv'
  <2>1. pol' \in [Users -> Policies]
    <3>1. pol[u] \in Policies
      BY DEF TypeOK
    <3>2. [pol[u] EXCEPT !.expires = "past"] \in Policies
      BY <3>1 DEF Policies, Expiries
    <3>3. pol' = [pol EXCEPT ![u] = [pol[u] EXCEPT !.expires = "past"]]
      BY <1>6 DEF Expire
    <3> QED BY <3>2, <3>3 DEF TypeOK
  <2> QED BY <1>6, <2>1, TouchType DEF Expire, TypeOK, PhaseInv
<1>7. CASE WriteStatus
  <2>1. status' = [status EXCEPT !.up = {u \in Users : conn[u]}, !.bytes = ovc,
                                 !.sent = [u \in Users |-> sent[u].ov]]
    BY <1>7 DEF WriteStatus
  <2>2. status \in StatusFiles /\ ovc \in [Users -> Nat]
        /\ [u \in Users |-> sent[u].ov] \in [Users -> Nat]
    BY DEF TypeOK
  <2>3. status' \in StatusFiles
    BY <2>1, <2>2 DEF StatusFiles
  <2> QED BY <1>7, <2>3 DEF WriteStatus, TypeOK, PhaseInv, NoTouch
<1> QED BY <1>1, <1>2, <1>3, <1>4, <1>5, <1>6, <1>7 DEF Environment

LEMMA QuotaEditType ==
  ASSUME TypeOK, NEW u \in Users, NEW q \in Quotas, pol' = [pol EXCEPT ![u].quota = q]
  PROVE  pol' \in [Users -> Policies]
<1>1. pol[u] \in Policies
  BY DEF TypeOK
<1>2. [pol[u] EXCEPT !.quota = q] \in Policies
  BY <1>1 DEF Policies
<1> QED BY <1>2 DEF TypeOK

LEMMA EditRowType ==
  ASSUME TypeOK, NEW u \in Users, EditRow(u)
  PROVE  pol' \in [Users -> Policies] /\ row' = row /\ ip' = ip /\ wg' = wg /\ ov' = ov
         /\ att' = att /\ status' = status
         /\ wgc' = wgc /\ ovc' = ovc /\ conn' = conn /\ ipset' = ipset /\ holder' = holder
         /\ tick' = tick /\ faults' = faults /\ sent' = sent /\ base' = base /\ cut' = cut
         /\ stale' \in SUBSET Users /\ touched' \in [Procs -> SUBSET Users]
         /\ swept' \in BOOLEAN
<1>1. pol[u] \in Policies
  BY DEF TypeOK
<1>2. pol' \in [Users -> Policies]
  <2>1. CASE EnableRow(u)
    BY <1>1, <2>1 DEF EnableRow, TypeOK, Policies
  <2>2. CASE DisableRow(u)
    BY <1>1, <2>2 DEF DisableRow, TypeOK, Policies
  <2>3. CASE RenewRow(u)
    <3>1. PICK x \in Expiries : pol' = [pol EXCEPT ![u].expires = x]
      BY <2>3 DEF RenewRow
    <3>2. [pol[u] EXCEPT !.expires = x] \in Policies
      BY <1>1 DEF Policies
    <3> QED BY <3>1, <3>2 DEF TypeOK
  <2>4. CASE QuotaRow(u)
    <3>1. PICK q \in Quotas : pol' = [pol EXCEPT ![u].quota = q]
      BY <2>4 DEF QuotaRow
    <3> QED BY <1>1, <3>1, QuotaEditType
  <2> QED BY <2>1, <2>2, <2>3, <2>4 DEF EditRow
<1> QED BY <1>2, TouchType DEF EditRow, kernel

LEMMA SharersAreUsers ==
  ASSUME NEW u \in Users
  PROVE  {u} \cup Sharers(u) \in SUBSET Users
BY DEF Sharers

LEMMA RowsType == TypeOK /\ PhaseInv /\ Rows => TypeOK' /\ PhaseInv'
<1> SUFFICES ASSUME TypeOK, PhaseInv, NEW u \in Users,
                    \/ CreatePeer(u) \/ CreateOvpnOnly(u) \/ DeletePeer(u)
                    \/ OvpnDetach(u) \/ CliEdit(u) \/ CliRecharge(u)
                    \/ \E a \in Attachers : AttachPick(a, u)
             PROVE  TypeOK' /\ PhaseInv'
  BY DEF Rows
<1> USE DEF db, kernel
<1>1. ASSUME NEW w \in WgIPs \cup {NoIP}, NEW q \in Quotas, NEW x \in {"none", "future"},
             NewRow(u, w, q, x)
      PROVE  TypeOK' /\ PhaseInv'
  <2>1. [NewPolicy EXCEPT !.quota = q, !.expires = x] \in Policies
    BY DEF NewPolicy, Policies, Expiries
  <2>2. ip' \in [Users -> Addresses]
    <3>1. ip[u] \in Addresses
      BY DEF TypeOK
    <3>2. [ip[u] EXCEPT !.wg = w] \in Addresses
      BY <3>1 DEF Addresses
    <3> QED BY <1>1, <3>2 DEF NewRow, TypeOK
  <2> QED BY <1>1, <2>1, <2>2, TouchType DEF NewRow, TypeOK, PhaseInv
<1>2. CASE CreatePeer(u)
  <2>1. Least(Free(WgIPs)) \in WgIPs
    BY <1>2, LeastInSet, EnforceAssumption, FS_Subset DEF CreatePeer, Free
  <2> QED BY <1>1, <1>2, <2>1 DEF CreatePeer
<1>3. CASE CreateOvpnOnly(u)
  BY <1>1, <1>3 DEF CreateOvpnOnly
<1>4. CASE DeletePeer(u)
  <2>1. stale' \in SUBSET Users /\ touched' \in [Procs -> SUBSET Users] /\ swept' \in BOOLEAN
    BY <1>4, SharersAreUsers, TouchType DEF DeletePeer
  <2> QED BY <1>4, <2>1, RowDefaults DEF DeletePeer, TypeOK, PhaseInv
<1>5. ASSUME NEW a \in Attachers, AttachPick(a, u) PROVE TypeOK' /\ PhaseInv'
  <2>1. Least(Free(OvpnIPs)) \in OvpnIPs
    BY <1>5, LeastInSet, EnforceAssumption, FS_Subset DEF AttachPick, Free
  <2>2. att' = [att EXCEPT ![a] = [user |-> u, ip |-> Least(Free(OvpnIPs))]]
    BY <1>5 DEF AttachPick
  <2>3. [user |-> u, ip |-> Least(Free(OvpnIPs))] \in AttachStates
    BY <2>1 DEF AttachStates
  <2>4. att' \in [Attachers -> AttachStates]
    BY <2>2, <2>3 DEF TypeOK
  <2> QED BY <1>5, <2>4 DEF AttachPick, TypeOK, PhaseInv, NoTouch
<1>6. CASE OvpnDetach(u)
  <2>1. ip' \in [Users -> Addresses]
    <3>1. ip[u] \in Addresses
      BY DEF TypeOK
    <3>2. [ip[u] EXCEPT !.ovpn = NoIP] \in Addresses
      BY <3>1 DEF Addresses
    <3>3. ip' = [ip EXCEPT ![u] = [ip[u] EXCEPT !.ovpn = NoIP]]
      BY <1>6 DEF OvpnDetach
    <3> QED BY <3>2, <3>3 DEF TypeOK
  <2>2. ov' \in [Users -> OvpnRows]
    BY <1>6, RowDefaults DEF OvpnDetach, TypeOK
  <2>3. stale' \in SUBSET Users /\ touched' \in [Procs -> SUBSET Users] /\ swept' \in BOOLEAN
    BY <1>6, SharersAreUsers, TouchType DEF OvpnDetach
  <2> QED BY <1>6, <2>1, <2>2, <2>3 DEF OvpnDetach, TypeOK, PhaseInv
<1>7. CASE CliEdit(u)
  BY <1>7, EditRowType DEF CliEdit, TypeOK, PhaseInv
<1>8. CASE CliRecharge(u)
  <2>1. wg' \in [Users -> WgRows]
    BY <1>8, RowDefaults DEF CliRecharge, TypeOK
  <2>2. base' \in [Users -> [wg : Nat, ov : Nat]]
    <3>1. base[u] \in [wg : Nat, ov : Nat] /\ sent[u].wg \in Nat
      BY DEF TypeOK
    <3>2. [base[u] EXCEPT !.wg = sent[u].wg] \in [wg : Nat, ov : Nat]
      BY <3>1
    <3>3. base' = [base EXCEPT ![u] = [base[u] EXCEPT !.wg = sent[u].wg]]
      BY <1>8 DEF CliRecharge
    <3> QED BY <3>2, <3>3 DEF TypeOK
  <2>3. stale' \in SUBSET Users /\ touched' \in [Procs -> SUBSET Users] /\ swept' \in BOOLEAN
    BY <1>8, TouchType DEF CliRecharge
  <2> QED BY <1>8, <2>1, <2>2, <2>3 DEF CliRecharge, TypeOK, PhaseInv
<1> QED BY <1>2, <1>3, <1>4, <1>5, <1>6, <1>7, <1>8

LEMMA AttachesType == TypeOK /\ PhaseInv /\ Attaches => TypeOK' /\ PhaseInv'
<1> SUFFICES ASSUME TypeOK, PhaseInv, NEW a \in Attachers, AttachWrite(a) \/ AttachFail(a)
             PROVE  TypeOK' /\ PhaseInv'
  BY DEF Attaches
<1> USE DEF kernel
<1>1. att' \in [Attachers -> AttachStates]
  BY NoAttachType DEF AttachWrite, AttachFail, TypeOK
<1>2. CASE AttachFail(a)
  BY <1>1, <1>2 DEF AttachFail, TypeOK, PhaseInv, NoTouch
<1>3. CASE AttachWrite(a)
  <2> DEFINE u == att[a].user
  <2>1. ip' \in [Users -> Addresses] /\ stale' \in SUBSET Users
        /\ touched' \in [Procs -> SUBSET Users] /\ swept' \in BOOLEAN
    <3>1. CASE u \in Live
      <4>0. att[a] \in AttachStates
        BY DEF TypeOK
      <4>1. u \in Users /\ att[a].ip \in OvpnIPs \cup {NoIP} /\ ip[u] \in Addresses
        BY <3>1, <4>0 DEF Live, TypeOK, AttachStates, NoAttach
      <4>2. [ip[u] EXCEPT !.ovpn = att[a].ip] \in Addresses
        BY <4>1 DEF Addresses
      <4>3. ip' = [ip EXCEPT ![u] = [ip[u] EXCEPT !.ovpn = att[a].ip]] /\ Touch({u} \cup Sharers(u))
        BY <1>3, <3>1 DEF AttachWrite
      <4>4. ip' \in [Users -> Addresses]
        BY <4>1, <4>2, <4>3 DEF TypeOK
      <4> HIDE DEF u
      <4> QED BY <4>1, <4>3, <4>4, SharersAreUsers, TouchType
    <3>2. CASE u \notin Live
      BY <1>3, <3>2 DEF AttachWrite, NoTouch, TypeOK
    <3> QED BY <3>1, <3>2
  <2> QED BY <1>1, <1>3, <2>1 DEF AttachWrite, TypeOK, PhaseInv
<1> QED BY <1>2, <1>3

LEMMA RequestsType == TypeOK /\ PhaseInv /\ Requests => TypeOK' /\ PhaseInv'
<1> SUFFICES ASSUME TypeOK, PhaseInv, NEW h \in Handlers,
                    \/ Sync(h) \/ RechargeCommit(h) \/ RechargeFail(h)
                    \/ \E u \in Users : ApiEdit(h, u) \/ RechargeSample(h, u) \/ RechargeQuota(h, u)
             PROVE  TypeOK' /\ PhaseInv'
  BY DEF Requests
<1> USE DEF db, kernel
<1>h. hs[h] \in HandlerStates
  BY DEF TypeOK
<1>r. [hs[h] EXCEPT !.pc = "reconcile"] \in HandlerStates
      /\ [IdleHandler EXCEPT !.pc = "reconcile"] \in HandlerStates
  BY <1>h, IdleHandlerType DEF HandlerStates
<1>1. CASE Sync(h)
  BY <1>1, <1>r, TouchType DEF Sync, TypeOK, PhaseInv
<1>2. CASE RechargeCommit(h)
  <2>1. /\ row' = row /\ ip' = ip /\ att' = att /\ status' = status /\ wgc' = wgc /\ ovc' = ovc /\ conn' = conn /\ ipset' = ipset
        /\ tick' = tick /\ faults' = faults /\ sent' = sent /\ cut' = cut /\ holder' = None
        /\ hs' \in [Handlers -> HandlerStates]
    BY <1>2, <1>r DEF RechargeCommit, TypeOK
  <2>2. /\ pol' \in [Users -> Policies] /\ wg' \in [Users -> WgRows]
        /\ ov' \in [Users -> OvpnRows] /\ base' \in [Users -> [wg : Nat, ov : Nat]]
        /\ stale' \in SUBSET Users /\ touched' \in [Procs -> SUBSET Users] /\ swept' \in BOOLEAN
    <3>1. CASE hs[h].user \in Live
      <4> DEFINE u == hs[h].user
      <4>1. u \in Users
        BY <3>1 DEF Live
      <4>2. /\ [used |-> 0, rx |-> hs[h].rx, tx |-> hs[h].tx] \in WgRows
            /\ [used |-> 0, last |-> hs[h].ovpn] \in OvpnRows
            /\ [wg |-> hs[h].wgsent, ov |-> hs[h].ovsent] \in [wg : Nat, ov : Nat]
        BY <1>h DEF HandlerStates, WgRows, OvpnRows
      <4>3. /\ wg' = [wg EXCEPT ![u] = [used |-> 0, rx |-> hs[h].rx, tx |-> hs[h].tx]]
            /\ ov' = [ov EXCEPT ![u] = [used |-> 0, last |-> hs[h].ovpn]]
            /\ \E q \in Quotas : pol' = [pol EXCEPT ![u].quota = q]
            /\ base' = [base EXCEPT ![u] = [wg |-> hs[h].wgsent, ov |-> hs[h].ovsent]]
            /\ Touch({u})
        BY <1>2, <3>1 DEF RechargeCommit
      <4>4. pol' \in [Users -> Policies]
        BY <4>1, <4>3, QuotaEditType
      <4>5. stale' \in SUBSET Users /\ touched' \in [Procs -> SUBSET Users] /\ swept' \in BOOLEAN
        BY <4>1, <4>3, TouchType
      <4> QED BY <4>1, <4>2, <4>3, <4>4, <4>5 DEF TypeOK
    <3>2. CASE hs[h].user \notin Live
      BY <1>2, <3>2, TouchType DEF RechargeCommit, TypeOK
    <3> QED BY <3>1, <3>2
  <2> QED BY <2>1, <2>2 DEF TypeOK, PhaseInv
<1>3. CASE RechargeFail(h)
  <2>1. hs' \in [Handlers -> HandlerStates] /\ faults' \in Nat
    BY <1>3, IdleHandlerType DEF RechargeFail, TypeOK
  <2>2. stale' = stale /\ touched' = touched /\ swept' = swept
    BY <1>3 DEF RechargeFail, NoTouch
  <2> QED BY <1>3, <2>1, <2>2 DEF RechargeFail, TypeOK, PhaseInv
<1>4. ASSUME NEW u \in Users, ApiEdit(h, u) PROVE TypeOK' /\ PhaseInv'
  BY <1>4, <1>r, EditRowType DEF ApiEdit, TypeOK, PhaseInv
<1>5. ASSUME NEW u \in Users, RechargeSample(h, u) PROVE TypeOK' /\ PhaseInv'
  <2>1. wg[u] \in WgRows /\ ov[u] \in OvpnRows /\ wgc[u] \in [rx : Nat, tx : Nat]
        /\ ovc[u] \in Nat /\ sent[u] \in [wg : Nat, ov : Nat]
        /\ status \in StatusFiles /\ status.bytes[u] \in Nat /\ status.sent[u] \in Nat
    BY DEF TypeOK, StatusFiles
  <2>2. PICK file \in BOOLEAN :
          /\ Attempt(file)
          /\ hs' = [hs EXCEPT ![h] =
               [pc |-> "commit", user |-> u,
                rx |-> IF ip[u].wg # NoIP THEN wgc[u].rx ELSE wg[u].rx,
                tx |-> IF ip[u].wg # NoIP THEN wgc[u].tx ELSE wg[u].tx,
                ovpn |-> IF ip[u].ovpn = NoIP THEN ov[u].last
                         ELSE IF file THEN status.bytes[u] ELSE ovc[u],
                wgsent |-> sent[u].wg,
                ovsent |-> IF file /\ ip[u].ovpn # NoIP THEN status.sent[u] ELSE sent[u].ov]]
          /\ status' = IF file THEN status ELSE [status EXCEPT !.socket = @ \cup {u}]
    BY <1>5 DEF RechargeSample
  <2>3. hs' \in [Handlers -> HandlerStates]
    BY <2>1, <2>2 DEF TypeOK, HandlerStates, WgRows, OvpnRows
  <2>4. status' \in StatusFiles
    BY <2>1, <2>2 DEF StatusFiles
  <2>5. faults' \in Nat
    BY <2>2 DEF Attempt, TypeOK
  <2> QED BY <1>5, <2>3, <2>4, <2>5 DEF RechargeSample, TypeOK, PhaseInv, Threads, NoTouch
<1>6. ASSUME NEW u \in Users, RechargeQuota(h, u) PROVE TypeOK' /\ PhaseInv'
  <2>1. pol' \in [Users -> Policies]
    BY <1>6, QuotaEditType DEF RechargeQuota
  <2>2. stale' \in SUBSET Users /\ touched' \in [Procs -> SUBSET Users] /\ swept' \in BOOLEAN
    BY <1>6, TouchType DEF RechargeQuota
  <2>3. hs' \in [Handlers -> HandlerStates]
    BY <1>6, <1>r DEF RechargeQuota, TypeOK
  <2> QED BY <1>6, <2>1, <2>2, <2>3 DEF RechargeQuota, TypeOK, PhaseInv
<1> QED BY <1>1, <1>2, <1>3, <1>4, <1>5, <1>6

(***************************************************************************)
(* The steps of a pass.  Each one names what it leaves in tick[p].         *)
(***************************************************************************)
LEMMA AttemptType ==
  ASSUME TypeOK, NEW ok \in BOOLEAN, Attempt(ok)
  PROVE  faults' \in Nat
BY DEF Attempt, TypeOK

LEMMA NoteType ==
  ASSUME TypeOK, NEW p \in Procs, Cur(p) \in Users, NEW ok \in BOOLEAN, Note(p, ok)
  PROVE  stale' \in SUBSET Users /\ touched' \in [Procs -> SUBSET Users] /\ swept' \in BOOLEAN
BY TouchType DEF Note

LEMMA ReleaseType ==
  ASSUME TypeOK, NEW p \in Procs, Release(p)
  PROVE  holder' \in Threads \cup {None} /\ hs' \in [Handlers -> HandlerStates]
<1>1. \A h \in Handlers : hs[h] \in HandlerStates
  BY DEF TypeOK
<1> QED BY <1>1, IdleHandlerType DEF Release, TypeOK

LEMMA TickUpdate ==
  ASSUME TypeOK, PhaseInv, NEW p \in Procs, NEW T \in TickStates,
         T.ph \in {"ovpnacct", "ipset", "flag"} => T.todo # {},
         tick' = [tick EXCEPT ![p] = T]
  PROVE  tick' \in [Procs -> TickStates] /\ PhaseInv'
BY DEF TypeOK, PhaseInv

LEMMA SnapshotUpdate ==
  ASSUME NEW S \in Snapshots, NEW u \in Users,
         NEW r \in [pol : Policies, ip : Addresses, wg : WgRows, ov : OvpnRows]
  PROVE  [S EXCEPT ![u] = r] \in Snapshots
BY DEF Snapshots

LEMMA BeginPassType ==
  ASSUME TypeOK, PhaseInv, NEW p \in Procs, BeginPass(p), holder' \in Threads \cup {None}
  PROVE  TypeOK' /\ PhaseInv'
<1>1. PICK ok \in BOOLEAN :
        /\ Attempt(ok)
        /\ tick' = [tick EXCEPT ![p] = [FreshTick EXCEPT !.ph = "ovpn", !.wgok = ok,
                                          !.tr = IF ok THEN wgc ELSE FreshTick.tr]]
  BY DEF BeginPass
<1> DEFINE T == [FreshTick EXCEPT !.ph = "ovpn", !.wgok = ok, !.tr = IF ok THEN wgc ELSE FreshTick.tr]
<1>2. T \in TickStates /\ T.ph = "ovpn"
  BY FreshTickType DEF TypeOK, TickStates, Phases
<1>a. tick' = [tick EXCEPT ![p] = T]
  BY <1>1
<1>3. tick' \in [Procs -> TickStates] /\ PhaseInv'
  <2> HIDE DEF T
  <2> QED BY <1>2, <1>a, TickUpdate
<1>4. faults' \in Nat
  BY <1>1, AttemptType
<1> QED BY <1>3, <1>4 DEF BeginPass, TypeOK, NoTouch, db, kernel

LEMMA ReadOvpnType ==
  ASSUME TypeOK, PhaseInv, NEW p \in Procs, NEW dom \in SUBSET Users,
         NEW bytes \in [Users -> Nat], ReadOvpn(p, dom, bytes)
  PROVE  tick' \in [Procs -> TickStates] /\ PhaseInv'
<1> DEFINE cur == [u \in Users |-> IF u \in dom THEN bytes[u] ELSE 0]
           T == [tick[p] EXCEPT !.ph = "peers", !.ovdom = dom, !.ovcur = cur]
<1>1. cur \in [Users -> Nat]
  OBVIOUS
<1>2. T \in TickStates /\ T.ph = "peers"
  <2>1. tick[p] \in TickStates
    BY DEF TypeOK
  <2> HIDE DEF cur
  <2> QED BY <1>1, <2>1 DEF TickStates, Phases
<1>3. tick' = [tick EXCEPT ![p] = T]
  BY DEF ReadOvpn
<1> HIDE DEF T
<1> QED BY <1>2, <1>3, TickUpdate

LEMMA TickOvpnType ==
  ASSUME TypeOK, PhaseInv, NEW p \in Procs, TickOvpn(p)
  PROVE  TypeOK' /\ PhaseInv'
<1> DEFINE up == {u \in Users : conn[u]}
<1>1. status \in StatusFiles /\ ovc \in [Users -> Nat]
  BY DEF TypeOK
<1>2. /\ tick' \in [Procs -> TickStates] /\ PhaseInv'
      /\ status' \in StatusFiles /\ faults' \in Nat
  <2>1. ASSUME NEW seen \in SUBSET status.up, Attempt(seen = status.up),
               ReadOvpn(p, seen, status.bytes), UNCHANGED status
        PROVE  /\ tick' \in [Procs -> TickStates] /\ PhaseInv'
               /\ status' \in StatusFiles /\ faults' \in Nat
    <3>1. seen \in SUBSET Users /\ status.bytes \in [Users -> Nat]
      BY <1>1 DEF StatusFiles
    <3> QED BY <1>1, <2>1, <3>1, ReadOvpnType, AttemptType
  <2>2. ASSUME Attempt(FALSE), ReadOvpn(p, up, ovc),
               status' = [status EXCEPT !.socket = @ \cup up]
        PROVE  /\ tick' \in [Procs -> TickStates] /\ PhaseInv'
               /\ status' \in StatusFiles /\ faults' \in Nat
    <3>1. up \in SUBSET Users
      OBVIOUS
    <3>2. status' \in StatusFiles
      BY <1>1, <2>2, <3>1 DEF StatusFiles
    <3> HIDE DEF up
    <3> QED BY <1>1, <2>2, <3>1, <3>2, ReadOvpnType, AttemptType
  <2> QED BY <2>1, <2>2 DEF TickOvpn
<1> QED BY <1>2 DEF TickOvpn, TypeOK, NoTouch, db

LEMMA TickPeersType ==
  ASSUME TypeOK, PhaseInv, NEW p \in Procs, TickPeers(p)
  PROVE  TypeOK' /\ PhaseInv'
<1>0. PICK seen \in SUBSET Live :
        /\ Attempt(seen = Live)
        /\ tick' = [tick EXCEPT ![p] = [@ EXCEPT !.ph = "wg", !.todo = seen, !.known = OwnedIPs(seen),
                      !.snap = [u \in Users |-> IF u \in seen
                        THEN [pol |-> pol[u], ip |-> ip[u], wg |-> wg[u], ov |-> ov[u]]
                        ELSE NoRow]]]
        /\ touched' = [touched EXCEPT ![p] = Live \ seen]
  BY DEF TickPeers
<1> DEFINE S == [u \in Users |-> IF u \in seen
                   THEN [pol |-> pol[u], ip |-> ip[u], wg |-> wg[u], ov |-> ov[u]]
                   ELSE NoRow]
           T == [tick[p] EXCEPT !.ph = "wg", !.todo = seen, !.known = OwnedIPs(seen), !.snap = S]
<1>1. S \in Snapshots
  BY RowDefaults DEF TypeOK, Snapshots, NoRow
<1>2. OwnedIPs(seen) \in SUBSET AllIPs /\ seen \in SUBSET Users
  <2>1. \A u \in Users : IPsOf(ip[u]) \subseteq AllIPs
    BY DEF TypeOK, Addresses, IPsOf, AllIPs
  <2> QED BY <2>1 DEF OwnedIPs, Live
<1>3. T \in TickStates /\ T.ph = "wg"
  <2>1. tick[p] \in TickStates
    BY DEF TypeOK
  <2> HIDE DEF S
  <2> QED BY <1>1, <1>2, <2>1 DEF TickStates, Phases
<1>4. tick' = [tick EXCEPT ![p] = T]
  BY <1>0
<1>5. tick' \in [Procs -> TickStates] /\ PhaseInv'
  <2> HIDE DEF T
  <2> QED BY <1>3, <1>4, TickUpdate
<1>6. faults' \in Nat
  BY <1>0 DEF Attempt, TypeOK
<1>7. touched' \in [Procs -> SUBSET Users]
  BY <1>0 DEF TypeOK, Live
<1> QED BY <1>5, <1>6, <1>7 DEF TickPeers, TypeOK, db, kernel

LEMMA TickPanicType ==
  ASSUME TypeOK, PhaseInv, NEW p \in Procs, TickPanic(p)
  PROVE  TypeOK' /\ PhaseInv'
<1>1. tick' \in [Procs -> TickStates] /\ PhaseInv'
  <2>1. FreshTick.ph = "idle"
    BY DEF FreshTick
  <2> QED BY <2>1, FreshTickType, TickUpdate DEF TickPanic
<1>2. holder' \in Threads \cup {None} /\ hs' \in [Handlers -> HandlerStates]
  BY ReleaseType DEF TickPanic
<1>3. faults' \in Nat
  BY DEF TickPanic, TypeOK
<1> QED BY <1>1, <1>2, <1>3 DEF TickPanic, TypeOK, NoTouch, db, kernel

LEMMA TickWGType ==
  ASSUME TypeOK, PhaseInv, NEW p \in Procs, TickWG(p)
  PROVE  TypeOK' /\ PhaseInv'
<1> DEFINE u == Cur(p)
           T0 == [tick[p] EXCEPT !.ph = "ovpnacct"]
           r == [tick[p].snap[u] EXCEPT !.wg = Metered(p)]
           T1 == [tick[p] EXCEPT !.ph = "ovpnacct", !.snap = [@ EXCEPT ![u] = r]]
<1>0. tick[p] \in TickStates /\ tick[p].snap \in Snapshots /\ tick[p].todo # {}
  BY DEF TypeOK, TickStates, TickWG
<1>1. u \in Users /\ Metered(p) \in WgRows
  BY <1>0, CurIsUser, MeteredType
<1>2. CASE ~(tick[p].wgok /\ Snap(p).ip.wg # NoIP)
  <2>1. tick' = [tick EXCEPT ![p] = T0] /\ NoTouch /\ UNCHANGED <<wg, faults>>
    BY <1>2 DEF TickWG
  <2>2. T0 \in TickStates /\ T0.todo # {}
    BY <1>0 DEF TickStates, Phases
  <2>3. tick' \in [Procs -> TickStates] /\ PhaseInv'
    <3> HIDE DEF T0
    <3> QED BY <2>1, <2>2, TickUpdate
  <2> QED BY <2>1, <2>3 DEF TickWG, TypeOK, NoTouch, kernel
<1>3. CASE tick[p].wgok /\ Snap(p).ip.wg # NoIP
  <2>1. PICK ok \in BOOLEAN :
          /\ Attempt(ok)
          /\ tick' = [tick EXCEPT ![p] = [@ EXCEPT !.ph = "ovpnacct", !.snap[u].wg = Metered(p)]]
          /\ wg' = IF ok /\ u \in Live THEN [wg EXCEPT ![u] = Metered(p)] ELSE wg
          /\ Note(p, ok)
    BY <1>3 DEF TickWG
  <2>2. tick' = [tick EXCEPT ![p] = T1]
    BY <2>1
  <2>3. T1 \in TickStates /\ T1.todo # {}
    <3>1. r \in [pol : Policies, ip : Addresses, wg : WgRows, ov : OvpnRows]
      BY <1>0, <1>1, SnapshotRow DEF Snapshots
    <3>2. [tick[p].snap EXCEPT ![u] = r] \in Snapshots
      BY <1>0, <1>1, <3>1, SnapshotUpdate
    <3> HIDE DEF r, u
    <3> QED BY <1>0, <3>2 DEF TickStates, Phases
  <2>4. tick' \in [Procs -> TickStates] /\ PhaseInv'
    <3> HIDE DEF T1
    <3> QED BY <2>2, <2>3, TickUpdate
  <2>5. wg' \in [Users -> WgRows]
    BY <1>1, <2>1 DEF TypeOK
  <2>6. faults' \in Nat
    BY <2>1, AttemptType
  <2>7. stale' \in SUBSET Users /\ touched' \in [Procs -> SUBSET Users] /\ swept' \in BOOLEAN
    BY <1>1, <2>1, NoteType
  <2> QED BY <2>4, <2>5, <2>6, <2>7 DEF TickWG, TypeOK, kernel
<1> QED BY <1>2, <1>3

LEMMA TickOvpnAcctType ==
  ASSUME TypeOK, PhaseInv, NEW p \in Procs, TickOvpnAcct(p)
  PROVE  TypeOK' /\ PhaseInv'
<1> DEFINE u == Cur(p)
           T0 == [tick[p] EXCEPT !.ph = "ipset"]
           r == [tick[p].snap[u] EXCEPT !.ov = MeteredOvpn(p)]
           T1 == [tick[p] EXCEPT !.ph = "ipset", !.snap = [@ EXCEPT ![u] = r]]
<1>0. tick[p] \in TickStates /\ tick[p].snap \in Snapshots /\ tick[p].todo # {}
  BY DEF TypeOK, TickStates, TickOvpnAcct, PhaseInv
<1>1. u \in Users /\ MeteredOvpn(p) \in OvpnRows
  BY <1>0, CurIsUser, MeteredType
<1>2. CASE ~(u \in tick[p].ovdom /\ Snap(p).ip.ovpn # NoIP)
  <2>1. tick' = [tick EXCEPT ![p] = T0] /\ NoTouch /\ UNCHANGED <<ov, faults>>
    BY <1>2 DEF TickOvpnAcct
  <2>2. T0 \in TickStates /\ T0.todo # {}
    BY <1>0 DEF TickStates, Phases
  <2>3. tick' \in [Procs -> TickStates] /\ PhaseInv'
    <3> HIDE DEF T0
    <3> QED BY <2>1, <2>2, TickUpdate
  <2> QED BY <2>1, <2>3 DEF TickOvpnAcct, TypeOK, NoTouch, kernel
<1>3. CASE u \in tick[p].ovdom /\ Snap(p).ip.ovpn # NoIP
  <2>1. PICK ok \in BOOLEAN :
          /\ Attempt(ok)
          /\ tick' = [tick EXCEPT ![p] = [@ EXCEPT !.ph = "ipset", !.snap[u].ov = MeteredOvpn(p)]]
          /\ ov' = IF ok /\ u \in Live THEN [ov EXCEPT ![u] = MeteredOvpn(p)] ELSE ov
          /\ Note(p, ok)
    BY <1>3 DEF TickOvpnAcct
  <2>2. tick' = [tick EXCEPT ![p] = T1]
    BY <2>1
  <2>3. T1 \in TickStates /\ T1.todo # {}
    <3>1. r \in [pol : Policies, ip : Addresses, wg : WgRows, ov : OvpnRows]
      BY <1>0, <1>1, SnapshotRow DEF Snapshots
    <3>2. [tick[p].snap EXCEPT ![u] = r] \in Snapshots
      BY <1>0, <1>1, <3>1, SnapshotUpdate
    <3> HIDE DEF r, u
    <3> QED BY <1>0, <3>2 DEF TickStates, Phases
  <2>4. tick' \in [Procs -> TickStates] /\ PhaseInv'
    <3> HIDE DEF T1
    <3> QED BY <2>2, <2>3, TickUpdate
  <2>5. ov' \in [Users -> OvpnRows]
    BY <1>1, <2>1 DEF TypeOK
  <2>6. faults' \in Nat
    BY <2>1, AttemptType
  <2>7. stale' \in SUBSET Users /\ touched' \in [Procs -> SUBSET Users] /\ swept' \in BOOLEAN
    BY <1>1, <2>1, NoteType
  <2> QED BY <2>4, <2>5, <2>6, <2>7 DEF TickOvpnAcct, TypeOK, kernel
<1> QED BY <1>2, <1>3

LEMMA BlockedIPs ==
  ASSUME TypeOK, NEW p \in Procs, Cur(p) \in Users
  PROVE  IPsOf(Snap(p).ip) \subseteq AllIPs
<1>1. Snap(p).ip \in Addresses
  <2>1. tick[p].snap \in Snapshots
    BY DEF TypeOK, TickStates
  <2> QED BY <2>1, SnapshotRow DEF Snap
<1> QED BY <1>1 DEF Addresses, IPsOf, AllIPs

LEMMA TickIpsetType ==
  ASSUME TypeOK, PhaseInv, NEW p \in Procs, TickIpset(p)
  PROVE  TypeOK' /\ PhaseInv'
<1> DEFINE T == [tick[p] EXCEPT !.ph = "flag"]
<1>1. tick[p] \in TickStates /\ tick[p].todo # {} /\ Cur(p) \in Users
  BY CurIsUser DEF TypeOK, PhaseInv, TickIpset
<1>2. T \in TickStates /\ T.todo # {}
  BY <1>1 DEF TickStates, Phases
<1>3. tick' = [tick EXCEPT ![p] = T]
  BY DEF TickIpset
<1>4. tick' \in [Procs -> TickStates] /\ PhaseInv'
  <2> HIDE DEF T
  <2> QED BY <1>2, <1>3, TickUpdate
<1>5. PICK failed \in SUBSET IPsOf(Snap(p).ip) :
        /\ Attempt(failed = {})
        /\ ipset' = IF Blocked(p) THEN ipset \cup (IPsOf(Snap(p).ip) \ failed)
                    ELSE ipset \ (IPsOf(Snap(p).ip) \ failed)
        /\ Note(p, failed = {})
  BY DEF TickIpset
<1>6. ipset' \in SUBSET AllIPs
  BY <1>1, <1>5, BlockedIPs DEF TypeOK
<1>7. faults' \in Nat
  BY <1>5, AttemptType
<1>8. stale' \in SUBSET Users /\ touched' \in [Procs -> SUBSET Users] /\ swept' \in BOOLEAN
  BY <1>1, <1>5, NoteType
<1> QED BY <1>4, <1>6, <1>7, <1>8 DEF TickIpset, TypeOK, db, kernel

LEMMA TickFlagType ==
  ASSUME TypeOK, PhaseInv, NEW p \in Procs, TickFlag(p)
  PROVE  TypeOK' /\ PhaseInv'
<1> DEFINE u == Cur(p)
           S == [tick[p].snap EXCEPT ![u] = NoRow]
           T == [tick[p] EXCEPT !.ph = "wg", !.todo = @ \ {u}, !.snap[u] = NoRow]
<1>1. tick[p] \in TickStates /\ tick[p].snap \in Snapshots /\ u \in Users
  BY CurIsUser DEF TypeOK, TickFlag, TickStates
<1>T. T = [tick[p] EXCEPT !.ph = "wg", !.todo = @ \ {u}, !.snap = S]
  <2> HIDE DEF u
  <2> QED BY <1>1 DEF TickStates, Snapshots
<1>2. S \in Snapshots
  <2>1. NoRow \in [pol : Policies, ip : Addresses, wg : WgRows, ov : OvpnRows]
    BY RowDefaults DEF NoRow
  <2> QED BY <1>1, <2>1, SnapshotUpdate
<1>3. T \in TickStates /\ T.ph = "wg"
  <2> HIDE DEF S, T, u
  <2> QED BY <1>1, <1>2, <1>T DEF TickStates, Phases
<1>4. tick' = [tick EXCEPT ![p] = T]
  BY Zenon DEF TickFlag
<1>5. tick' \in [Procs -> TickStates] /\ PhaseInv'
  <2> HIDE DEF T
  <2> QED BY <1>3, <1>4, TickUpdate
<1>6. CASE Blocked(p) # Snap(p).pol.blocked
  <2>1. PICK ok \in BOOLEAN :
          /\ Attempt(ok)
          /\ pol' = IF ok /\ u \in Live THEN [pol EXCEPT ![u].blocked = Blocked(p)] ELSE pol
          /\ Note(p, ok)
    BY <1>6 DEF TickFlag
  <2>2. pol' \in [Users -> Policies]
    <3>1. pol[u] \in Policies
      BY <1>1 DEF TypeOK
    <3>2. Blocked(p) \in BOOLEAN
      BY DEF Blocked, EffBlocked
    <3>3. [pol[u] EXCEPT !.blocked = Blocked(p)] \in Policies
      BY <3>1, <3>2 DEF Policies
    <3> QED BY <1>1, <2>1, <3>3 DEF TypeOK
  <2>3. faults' \in Nat
    BY <2>1, AttemptType
  <2>4. stale' \in SUBSET Users /\ touched' \in [Procs -> SUBSET Users] /\ swept' \in BOOLEAN
    BY <1>1, <2>1, NoteType
  <2> QED BY <1>5, <2>2, <2>3, <2>4 DEF TickFlag, TypeOK, kernel
<1>7. CASE ~(Blocked(p) # Snap(p).pol.blocked)
  BY <1>5, <1>7 DEF TickFlag, TypeOK, NoTouch, kernel
<1> QED BY <1>6, <1>7

LEMMA TickSweepType ==
  ASSUME TypeOK, PhaseInv, NEW p \in Procs, TickSweep(p)
  PROVE  TypeOK' /\ PhaseInv'
<1>1. PICK kept \in SUBSET (ipset \ tick[p].known) :
        /\ Attempt(kept = {})
        /\ ipset' = (ipset \cap tick[p].known) \cup kept
        /\ stale' = touched[p] /\ swept' = (kept = {}) /\ UNCHANGED touched
  BY DEF TickSweep
<1>2. tick' \in [Procs -> TickStates] /\ PhaseInv'
  <2>1. FreshTick.ph = "idle"
    BY DEF FreshTick
  <2> QED BY <2>1, FreshTickType, TickUpdate DEF TickSweep
<1>3. holder' \in Threads \cup {None} /\ hs' \in [Handlers -> HandlerStates]
  BY ReleaseType DEF TickSweep
<1>4. faults' \in Nat
  BY <1>1, AttemptType
<1> QED BY <1>1, <1>2, <1>3, <1>4 DEF TickSweep, TypeOK, db, kernel

LEMMA PassesType == TypeOK /\ PhaseInv /\ Passes => TypeOK' /\ PhaseInv'
<1> SUFFICES ASSUME TypeOK, PhaseInv, Passes PROVE TypeOK' /\ PhaseInv'
  OBVIOUS
<1>1. ASSUME NEW t \in Threads, TickStart(t) PROVE TypeOK' /\ PhaseInv'
  BY <1>1, BeginPassType DEF TickStart, Procs
<1>2. ASSUME NEW p \in CliTicks, CliTickStart(p) PROVE TypeOK' /\ PhaseInv'
  BY <1>2, BeginPassType DEF CliTickStart, Procs, TypeOK
<1>3. ASSUME NEW p \in Procs, TickStep(p) PROVE TypeOK' /\ PhaseInv'
  BY <1>3, TickOvpnType, TickPeersType, TickWGType, TickOvpnAcctType, TickIpsetType,
     TickFlagType, TickSweepType DEF TickStep
<1> QED BY <1>1, <1>2, <1>3, TickPanicType DEF Passes

LEMMA FaultsType == TypeOK /\ PhaseInv /\ (Crash \/ Reboot) => TypeOK' /\ PhaseInv'
<1> SUFFICES ASSUME TypeOK, PhaseInv, Crash \/ Reboot PROVE TypeOK' /\ PhaseInv'
  OBVIOUS
<1>1. FreshTick.ph = "idle"
  BY DEF FreshTick
<1>2. CASE Crash
  <2>1. tick' \in [Procs -> TickStates] /\ PhaseInv'
    BY <1>1, <1>2, FreshTickType, TickUpdate DEF Crash, Procs
  <2>2. hs' \in [Handlers -> HandlerStates] /\ faults' \in Nat
    BY <1>2, IdleHandlerType DEF Crash, TypeOK
  <2>3. stale' \in SUBSET Users /\ touched' \in [Procs -> SUBSET Users] /\ swept' \in BOOLEAN
    BY <1>2, TouchType DEF Crash
  <2>4. att' \in [Attachers -> AttachStates]
    BY <1>2, NoAttachType DEF Crash, TypeOK
  <2> QED BY <1>2, <2>1, <2>2, <2>3, <2>4 DEF Crash, TypeOK, kernel
<1>3. CASE Reboot
  <2>1. tick' \in [Procs -> TickStates] /\ PhaseInv'
    BY <1>1, <1>3, FreshTickType DEF Reboot, PhaseInv
  <2>2. hs' \in [Handlers -> HandlerStates] /\ faults' \in Nat
    BY <1>3, IdleHandlerType DEF Reboot, TypeOK
  <2>3. stale' \in SUBSET Users /\ touched' \in [Procs -> SUBSET Users] /\ swept' \in BOOLEAN
    BY <1>3, TouchType DEF Reboot
  <2>4. att' \in [Attachers -> AttachStates] /\ status' \in StatusFiles
    <3>1. [NoStatus EXCEPT !.sent = [u \in Users |-> sent[u].ov], !.socket = status.socket]
            \in StatusFiles
      BY NoStatusType DEF TypeOK, StatusFiles
    <3> QED BY <1>3, <3>1, NoAttachType DEF Reboot, TypeOK
  <2> QED BY <1>3, <2>1, <2>2, <2>3, <2>4, RowDefaults DEF Reboot, TypeOK
<1> QED BY <1>2, <1>3

\* Every step of every actor keeps the columns, the counters and the passes' local state
\* well typed; in particular no billed byte count ever becomes negative.
THEOREM TypeCorrect == Spec => [](TypeOK /\ PhaseInv)
<1>1. TypeOK /\ PhaseInv /\ [Next]_vars => TypeOK' /\ PhaseInv'
  <2> SUFFICES ASSUME TypeOK, PhaseInv, [Next]_vars PROVE TypeOK' /\ PhaseInv'
    OBVIOUS
  <2>1. CASE UNCHANGED vars
    BY <2>1 DEF vars, TypeOK, PhaseInv
  <2> QED BY <2>1, EnvironmentType, RowsType, AttachesType, RequestsType, PassesType, FaultsType DEF Next
<1> QED BY <1>1, InitType, PTL DEF Spec

(***************************************************************************)
(* The block set.  With one daemon and no `wgmgr enforce`, the set and the *)
(* blocked column are what the table says once a pass has ended, except    *)
(* for the users that changed since it read them or whose write or ipset   *)
(* call failed.                                                            *)
(***************************************************************************)
OneDaemon == CliTicks = {}

InSet(u) == \A a \in OwnIPs(u) : a \in ipset <=> Blk(u)
Settled(u) == InSet(u) /\ pol[u].blocked = Blk(u)

\* A pass that has read the table and not yet swept.
Working == tick[Daemon].ph \in {"wg", "ovpnacct", "ipset", "flag"}

\* No two users share a WireGuard address, which the table keeps unique.
AddressesApart ==
  /\ \A u, v \in Live : u # v /\ ip[u].wg # NoIP => ip[u].wg # ip[v].wg
  /\ \A u \in Users : row[u] = "new" => ip[u] = NoIPs

BetweenPasses ==
  ~Working =>
    /\ \A u \in Live \ stale : Settled(u)
    /\ stale = {} /\ swept => ipset \subseteq OwnedIPs(Live)

SnapshotIsRow(u) ==
  tick[Daemon].snap[u] = [pol |-> pol[u], ip |-> ip[u], wg |-> wg[u], ov |-> ov[u]]

\* What a pass has done and still knows of a user nobody touched since it read the table.
\* What it does for the users still to come cannot undo it: none of them has in the snapshot an
\* address that is u's own, because u is touched when somebody who shared one lets go of it.
OnTrack(u) ==
  /\ IPsOf(ip[u]) \subseteq tick[Daemon].known
  /\ u \in tick[Daemon].todo => SnapshotIsRow(u)
  /\ u \notin tick[Daemon].todo => Settled(u)
  /\ tick[Daemon].ph = "flag" /\ u = Cur(Daemon) => InSet(u)
  /\ \A v \in tick[Daemon].todo \ {u} :
       IPsOf(tick[Daemon].snap[v].ip) \cap OwnIPs(u) = {}

InPass ==
  Working =>
    /\ \A u \in Live \ touched[Daemon] : OnTrack(u)
    /\ touched[Daemon] = {} => tick[Daemon].known \subseteq OwnedIPs(Live)

\* The inductive invariant behind FreshExact, FlagMatchesSet and NoLeftover.
BlockSet ==
  /\ AddressesApart /\ BetweenPasses /\ InPass
  /\ Users = {} => ipset = {}

LEMMA PolicyKinds ==
  ASSUME TypeOK
  PROVE  /\ Daemon \in Procs /\ tick \in [Procs -> TickStates] /\ tick[Daemon] \in TickStates
         /\ tick[Daemon].todo \in SUBSET Users /\ tick[Daemon].snap \in Snapshots
         /\ touched \in [Procs -> SUBSET Users] /\ touched[Daemon] \in SUBSET Users
BY DEF TypeOK, TickStates, Procs

\* What is u's own grows only when somebody lets go of an address u has.
LEMMA OwnFrame ==
  ASSUME NEW u, ip'[u] = ip[u],
         \A v \in Live \ {u} : ip[v].ovpn \in IPsOf(ip[u]) => v \in Live' /\ ip'[v].ovpn = ip[v].ovpn
  PROVE  OwnIPs(u)' \subseteq OwnIPs(u)
BY DEF OwnIPs

\* Steps outside the passes: whoever they change is touched, and whoever shared an address with
\* them.
LEMMA TableFrame ==
  ASSUME TypeOK, BlockSet, AddressesApart', NEW us \in SUBSET Users,
         stale' = stale \cup us, touched'[Daemon] = touched[Daemon] \cup us, swept' = swept,
         ipset' = ipset, tick' = tick,
         us = {} => Live' = Live,
         \A u \in Users \ us : /\ row[u] = "live" \/ row'[u] # "live"
                               /\ pol'[u] = pol[u] /\ ip'[u] = ip[u]
                               /\ wg'[u] = wg[u] /\ ov'[u] = ov[u]
                               /\ OwnIPs(u)' \subseteq OwnIPs(u)
  PROVE  BlockSet'
<1>1. Cur(Daemon)' = Cur(Daemon) /\ Working' = Working
  BY DEF Cur, Working
<1>2. \A u \in Live' \ us : u \in Live /\ u \in Users \ us
  BY DEF Live
<1>3. us = {} => OwnedIPs(Live)' = OwnedIPs(Live)
  BY <1>2 DEF OwnedIPs
<1>4. ASSUME NEW u \in Users \ us
      PROVE  /\ InSet(u) => InSet(u)'
             /\ Settled(u) => Settled(u)'
             /\ SnapshotIsRow(u)' = SnapshotIsRow(u)
  <2>1. Blk(u)' = Blk(u)
    BY <1>4 DEF Blk
  <2>2. InSet(u) => InSet(u)'
    BY <1>4, <2>1 DEF InSet
  <2> QED BY <1>4, <2>1, <2>2 DEF Settled, SnapshotIsRow
<1>5. BetweenPasses'
  <2> SUFFICES ASSUME ~Working
               PROVE  /\ \A u \in Live' \ stale' : Settled(u)'
                      /\ stale' = {} /\ swept' => ipset' \subseteq OwnedIPs(Live)'
    BY <1>1 DEF BetweenPasses
  <2>1. \A u \in Live' \ stale' : Settled(u)'
    BY <1>2, <1>4 DEF BlockSet, BetweenPasses
  <2>2. stale' = {} /\ swept' => ipset' \subseteq OwnedIPs(Live)'
    BY <1>3 DEF BlockSet, BetweenPasses
  <2> QED BY <2>1, <2>2
<1>6. InPass'
  <2> SUFFICES ASSUME Working
               PROVE  /\ \A u \in Live' \ touched'[Daemon] : OnTrack(u)'
                      /\ touched'[Daemon] = {} => tick'[Daemon].known \subseteq OwnedIPs(Live)'
    BY <1>1 DEF InPass
  <2>1. ASSUME NEW u \in Live' \ touched'[Daemon] PROVE OnTrack(u)'
    <3>1. u \in Live \ touched[Daemon] /\ u \in Users \ us
      BY <1>2, <2>1
    <3>2. OnTrack(u) /\ ip'[u] = ip[u] /\ OwnIPs(u)' \subseteq OwnIPs(u)
      BY <3>1 DEF BlockSet, InPass
    <3>3. \A v \in tick[Daemon].todo \ {u} : IPsOf(tick[Daemon].snap[v].ip) \cap OwnIPs(u)' = {}
      BY <3>2 DEF OnTrack
    <3> QED BY <1>1, <1>4, <3>1, <3>2, <3>3 DEF OnTrack
  <2>2. touched'[Daemon] = {} => tick'[Daemon].known \subseteq OwnedIPs(Live)'
    BY <1>3 DEF BlockSet, InPass
  <2> QED BY <2>1, <2>2
<1> QED BY <1>5, <1>6 DEF BlockSet

\* The same for a step that changes one row.
LEMMA RowFrame ==
  ASSUME TypeOK, BlockSet, AddressesApart', NEW w \in Users, NEW us \in SUBSET Users,
         {w} \cup Sharers(w) \subseteq us \/ (ip'[w] = ip[w] /\ row'[w] = row[w] /\ w \in us)
           \/ (ip[w].ovpn = NoIP /\ w \in us),
         Touch(us), ipset' = ipset, tick' = tick,
         \A u \in Users \ {w} : /\ row'[u] = row[u] /\ pol'[u] = pol[u] /\ ip'[u] = ip[u]
                                /\ wg'[u] = wg[u] /\ ov'[u] = ov[u]
  PROVE  BlockSet'
<1>1. stale' = stale \cup us /\ touched'[Daemon] = touched[Daemon] \cup us /\ swept' = swept
  BY DEF Touch, Procs
<1>2. w \in us
  OBVIOUS
<1>3. ASSUME NEW u \in Users \ us PROVE OwnIPs(u)' \subseteq OwnIPs(u)
  <2>1. ip'[u] = ip[u] /\ u # w
    BY <1>2, <1>3
  <2>2. ASSUME NEW v \in Live \ {u}, ip[v].ovpn \in IPsOf(ip[u])
        PROVE  v \in Live' /\ ip'[v].ovpn = ip[v].ovpn
    <3>1. CASE v # w
      BY <2>2, <3>1 DEF Live
    <3>2. CASE v = w
      <4>1. ip[w].ovpn # NoIP
        BY <2>2, <3>2 DEF IPsOf
      <4>2. ip[u].ovpn = ip[w].ovpn
        <5>1. ip[u] \in Addresses /\ ip[w] \in Addresses
          BY <1>3 DEF TypeOK
        <5> QED BY <2>2, <3>2, <4>1, <5>1, EnforceAssumption DEF Addresses, IPsOf
      <4>3. u \in Sharers(w)
        BY <1>3, <4>1, <4>2 DEF Sharers
      <4> QED BY <1>3, <2>2, <3>2, <4>1, <4>3 DEF Live
    <3> QED BY <3>1, <3>2
  <2> QED BY <2>1, <2>2, OwnFrame
<1>4. \A u \in Users \ us : /\ row'[u] = row[u] /\ pol'[u] = pol[u] /\ ip'[u] = ip[u]
                            /\ wg'[u] = wg[u] /\ ov'[u] = ov[u]
  BY <1>2
<1> QED BY <1>1, <1>2, <1>3, <1>4, TableFrame

\* Steps that change nothing a pass reads.
LEMMA NoTouchFrame ==
  ASSUME TypeOK, BlockSet, UNCHANGED <<row, pol, ip, wg, ov, ipset, tick, stale, touched, swept>>
  PROVE  BlockSet'
<1>1. AddressesApart'
  BY DEF BlockSet, AddressesApart, Live
<1>2. Live' = Live /\ \A u \in Users : OwnIPs(u)' = OwnIPs(u)
  BY DEF Live, OwnIPs
<1> QED BY <1>1, <1>2, TableFrame, {} \in SUBSET Users

LEMMA TouchOf ==
  ASSUME TypeOK, NEW us, Touch(us)
  PROVE  stale' = stale \cup us /\ touched'[Daemon] = touched[Daemon] \cup us /\ swept' = swept
BY DEF Touch, Procs

LEMMA InitBlockSet == Init => BlockSet
<1> SUFFICES ASSUME Init PROVE BlockSet
  OBVIOUS
<1>1. Live = {} /\ ipset = {} /\ ~Working
  BY DEF Init, Live, Working, Procs, FreshTick
<1>2. \A u \in Users : ip[u] = NoIPs
  BY DEF Init
<1> QED BY <1>1, <1>2 DEF BlockSet, AddressesApart, BetweenPasses, InPass

(***************************************************************************)
(* The table.                                                              *)
(***************************************************************************)

\* Fewer rows share no more than before.
LEMMA ApartFrame ==
  ASSUME AddressesApart,
         \A u \in Users : \/ row'[u] = row[u] /\ ip'[u].wg = ip[u].wg /\ row[u] # "new"
                          \/ row'[u] = row[u] /\ ip'[u] = ip[u]
                          \/ row'[u] = "gone"
  PROVE  AddressesApart'
<1>1. \A u \in Live' : u \in Live /\ ip'[u].wg = ip[u].wg
  BY DEF Live
<1>2. \A u, v \in Live' : u # v /\ ip'[u].wg # NoIP => ip'[u].wg # ip'[v].wg
  BY <1>1 DEF AddressesApart
<1>3. \A u \in Users : row'[u] = "new" => ip'[u] = NoIPs
  BY DEF AddressesApart
<1> QED BY <1>2, <1>3 DEF AddressesApart

LEMMA NewRowBlockSet ==
  ASSUME TypeOK, BlockSet, NEW u \in Users, NEW a, NEW q, NEW x, NewRow(u, a, q, x),
         a = NoIP \/ a \in Free(WgIPs)
  PROVE  BlockSet'
<1>1. /\ row[u] = "new" /\ row'[u] = "live" /\ ip'[u].wg = a /\ Touch({u})
      /\ UNCHANGED <<wg, ov, ipset, tick>>
      /\ \A v \in Users \ {u} : row'[v] = row[v] /\ pol'[v] = pol[v] /\ ip'[v] = ip[v]
  BY DEF NewRow, TypeOK, Addresses
<1>2. ip[u].ovpn = NoIP
  BY <1>1 DEF BlockSet, AddressesApart, NoIPs
<1>3. \A v \in Live : a # NoIP => ip[v].wg # a
  BY DEF Free, OwnedIPs, IPsOf
<1>4. AddressesApart'
  <2>1. \A v \in Live' : v # u => v \in Live /\ ip'[v] = ip[v]
    BY <1>1 DEF Live
  <2>2. \A v, w \in Live' : v # w /\ ip'[v].wg # NoIP => ip'[v].wg # ip'[w].wg
    BY <1>1, <1>3, <2>1 DEF BlockSet, AddressesApart
  <2>3. \A v \in Users : row'[v] = "new" => ip'[v] = NoIPs
    BY <1>1 DEF BlockSet, AddressesApart
  <2> QED BY <2>2, <2>3 DEF AddressesApart
<1>5. {u} \in SUBSET Users
  OBVIOUS
<1> QED BY <1>1, <1>2, <1>4, <1>5, RowFrame

LEMMA RowsBlockSet ==
  ASSUME TypeOK, BlockSet, Rows
  PROVE  BlockSet'
<1> SUFFICES ASSUME NEW u \in Users,
                    \/ CreatePeer(u) \/ CreateOvpnOnly(u) \/ DeletePeer(u)
                    \/ OvpnDetach(u) \/ CliEdit(u) \/ CliRecharge(u)
                    \/ \E a \in Attachers : AttachPick(a, u)
             PROVE  BlockSet'
  BY DEF Rows
<1>0. {u} \in SUBSET Users /\ {u} \cup Sharers(u) \in SUBSET Users /\ AddressesApart
  BY SharersAreUsers DEF BlockSet
<1>1. CASE CreatePeer(u)
  <2>1. PICK q \in Quotas, x \in {"none", "future"} : NewRow(u, Least(Free(WgIPs)), q, x)
    BY <1>1 DEF CreatePeer
  <2>2. Least(Free(WgIPs)) \in Free(WgIPs)
    <3>1. WgIPs \subseteq Nat /\ IsFiniteSet(WgIPs) /\ Free(WgIPs) # {}
      BY <1>1, EnforceAssumption DEF CreatePeer
    <3>2. Free(WgIPs) \subseteq WgIPs
      BY DEF Free
    <3>3. Free(WgIPs) \subseteq Nat /\ IsFiniteSet(Free(WgIPs))
      BY <3>1, <3>2, FS_Subset
    <3> QED BY <3>1, <3>3, LeastInSet
  <2> QED BY <2>1, <2>2, NewRowBlockSet
<1>2. CASE CreateOvpnOnly(u)
  BY <1>2, NewRowBlockSet DEF CreateOvpnOnly
<1>3. CASE DeletePeer(u)
  <2>1. /\ row'[u] = "gone" /\ UNCHANGED <<ipset, tick>> /\ Touch({u} \cup Sharers(u))
        /\ \A v \in Users \ {u} : /\ row'[v] = row[v] /\ pol'[v] = pol[v] /\ ip'[v] = ip[v]
                                  /\ wg'[v] = wg[v] /\ ov'[v] = ov[v]
    BY <1>3 DEF DeletePeer, TypeOK
  <2>2. AddressesApart'
    BY <1>0, <2>1, ApartFrame
  <2> QED BY <1>0, <2>1, <2>2, RowFrame
<1>4. ASSUME NEW a \in Attachers, AttachPick(a, u) PROVE BlockSet'
  BY <1>4, NoTouchFrame DEF AttachPick, NoTouch
<1>5. CASE OvpnDetach(u)
  <2>1. /\ row[u] = "live" /\ UNCHANGED <<row, pol, wg, ipset, tick>> /\ Touch({u} \cup Sharers(u))
        /\ ip'[u].wg = ip[u].wg
        /\ \A v \in Users \ {u} : ip'[v] = ip[v] /\ ov'[v] = ov[v]
    BY <1>5 DEF OvpnDetach, Live, TypeOK, Addresses
  <2>2. AddressesApart'
    BY <1>0, <2>1, ApartFrame
  <2> QED BY <1>0, <2>1, <2>2, RowFrame
<1>6. CASE CliEdit(u) \/ CliRecharge(u)
  <2>1. /\ UNCHANGED <<row, ip, ov, ipset, tick>> /\ Touch({u})
        /\ \A v \in Users \ {u} : pol'[v] = pol[v] /\ wg'[v] = wg[v]
    BY <1>6 DEF CliEdit, EditRow, EnableRow, DisableRow, RenewRow, QuotaRow, CliRecharge, TypeOK
  <2>2. AddressesApart'
    BY <1>0, <2>1, ApartFrame
  <2> QED BY <1>0, <2>1, <2>2, RowFrame
<1> QED BY <1>1, <1>2, <1>3, <1>4, <1>5, <1>6

\* An attach that writes its address over another of the user touches those who had that one, too.
LEMMA AttachesBlockSet ==
  ASSUME TypeOK, BlockSet, Attaches
  PROVE  BlockSet'
<1> SUFFICES ASSUME NEW a \in Attachers, AttachWrite(a) \/ AttachFail(a) PROVE BlockSet'
  BY DEF Attaches
<1>1. CASE AttachFail(a)
  BY <1>1, NoTouchFrame DEF AttachFail, NoTouch
<1>2. CASE AttachWrite(a) /\ att[a].user \notin Live
  BY <1>2, NoTouchFrame DEF AttachWrite, NoTouch
<1>3. CASE AttachWrite(a) /\ att[a].user \in Live
  <2> SUFFICES ASSUME NEW u, u = att[a].user PROVE BlockSet'
    OBVIOUS
  <2>1. u \in Users /\ row[u] = "live" /\ {u} \cup Sharers(u) \in SUBSET Users
    BY <1>3, SharersAreUsers DEF Live
  <2>2. /\ ip' = [ip EXCEPT ![u].ovpn = att[a].ip] /\ Touch({u} \cup Sharers(u))
        /\ UNCHANGED <<row, pol, wg, ov, ipset, tick>>
    BY <1>3 DEF AttachWrite
  <2>3. ip'[u].wg = ip[u].wg /\ \A v \in Users \ {u} : ip'[v] = ip[v]
    BY <2>1, <2>2 DEF TypeOK, Addresses
  <2>4. AddressesApart'
    BY <2>1, <2>2, <2>3, ApartFrame DEF BlockSet
  <2> QED BY <2>1, <2>2, <2>3, <2>4, RowFrame
<1> QED BY <1>1, <1>2, <1>3

LEMMA EnvironmentBlockSet ==
  ASSUME TypeOK, BlockSet, Environment
  PROVE  BlockSet'
<1>1. ASSUME WgRestart \/ WriteStatus \/ \E u \in Users : \/ WgTraffic(u) \/ OvpnTraffic(u)
                                           \/ OvpnConnect(u) \/ OvpnDisconnect(u)
      PROVE  BlockSet'
  BY <1>1, NoTouchFrame
     DEF WgRestart, WriteStatus, WgTraffic, OvpnTraffic, OvpnConnect, OvpnDisconnect, NoTouch, db
<1>2. ASSUME NEW u \in Users, Expire(u) PROVE BlockSet'
  <2>1. /\ UNCHANGED <<row, ip, wg, ov, ipset, tick>> /\ Touch({u})
        /\ \A v \in Users \ {u} : pol'[v] = pol[v]
    BY <1>2 DEF Expire, TypeOK
  <2>2. AddressesApart'
    BY <2>1, ApartFrame DEF BlockSet
  <2> QED BY <2>1, <2>2, RowFrame, {u} \in SUBSET Users
<1> QED BY <1>1, <1>2 DEF Environment

LEMMA RequestsBlockSet ==
  ASSUME TypeOK, BlockSet, Requests
  PROVE  BlockSet'
<1> SUFFICES ASSUME NEW h \in Handlers,
                    \/ Sync(h) \/ RechargeCommit(h) \/ RechargeFail(h)
                    \/ \E u \in Users : ApiEdit(h, u) \/ RechargeSample(h, u) \/ RechargeQuota(h, u)
             PROVE  BlockSet'
  BY DEF Requests
<1>1. CASE Sync(h) \/ RechargeFail(h) \/ \E u \in Users : RechargeSample(h, u)
  BY <1>1, NoTouchFrame DEF Sync, RechargeFail, RechargeSample, NoTouch, db
<1>2. ASSUME NEW u \in Users, ApiEdit(h, u) \/ RechargeQuota(h, u) PROVE BlockSet'
  <2>1. /\ UNCHANGED <<row, ip, wg, ov, ipset, tick>> /\ Touch({u})
        /\ \A v \in Users \ {u} : pol'[v] = pol[v]
    BY <1>2 DEF ApiEdit, EditRow, EnableRow, DisableRow, RenewRow, QuotaRow, RechargeQuota, TypeOK
  <2>2. AddressesApart'
    BY <2>1, ApartFrame DEF BlockSet
  <2> QED BY <2>1, <2>2, RowFrame, {u} \in SUBSET Users
<1>3. CASE RechargeCommit(h)
  <2> DEFINE u == hs[h].user
  <2>1. CASE u \notin Live
    BY <1>3, <2>1, NoTouchFrame DEF RechargeCommit, NoTouch
  <2>2. CASE u \in Live
    <3>1. /\ UNCHANGED <<row, ip, ipset, tick>> /\ Touch({u}) /\ u \in Users
          /\ \A v \in Users \ {u} : pol'[v] = pol[v] /\ wg'[v] = wg[v] /\ ov'[v] = ov[v]
      BY <1>3, <2>2 DEF RechargeCommit, Live, TypeOK
    <3>2. AddressesApart'
      BY <3>1, ApartFrame DEF BlockSet
    <3> QED BY <3>1, <3>2, RowFrame, {u} \in SUBSET Users
  <2> QED BY <2>1, <2>2
<1> QED BY <1>1, <1>2, <1>3

(***************************************************************************)
(* The passes.                                                             *)
(***************************************************************************)

\* Steps before a pass reads the table, and those that stop it there.
LEMMA OutsideBlockSet ==
  ASSUME TypeOK, BlockSet, ~Working, ~Working',
         UNCHANGED <<row, pol, ip, wg, ov, ipset, stale, swept>>
  PROVE  BlockSet'
<1>1. AddressesApart'
  BY DEF BlockSet, AddressesApart, Live
<1>2. /\ Live' = Live /\ OwnedIPs(Live)' = OwnedIPs(Live)
      /\ \A u \in Users : Settled(u)' = Settled(u)
  BY DEF Live, OwnedIPs, OwnIPs, Settled, InSet, Blk
<1>3. BetweenPasses'
  BY <1>2 DEF BlockSet, BetweenPasses, Live
<1> QED BY <1>1, <1>3 DEF BlockSet, InPass

LEMMA StartBlockSet ==
  ASSUME TypeOK, BlockSet,
         \/ \E t \in Threads : TickStart(t)
         \/ TickOvpn(Daemon) \/ TickPanic(Daemon)
  PROVE  BlockSet'
<1>1. UNCHANGED <<row, pol, ip, wg, ov, ipset, stale, swept>> /\ ~Working
  BY DEF TickStart, BeginPass, TickOvpn, TickPanic, NoTouch, db, Working
<1>2. tick'[Daemon].ph \in {"ovpn", "peers", "idle"}
  <2>1. ASSUME NEW t \in Threads, TickStart(t) PROVE tick'[Daemon].ph = "ovpn"
    BY <2>1, PolicyKinds DEF TickStart, BeginPass, FreshTick
  <2>2. CASE TickOvpn(Daemon)
    <3>1. PICK dom, cur : tick' = [tick EXCEPT ![Daemon] = [@ EXCEPT !.ph = "peers",
                                     !.ovdom = dom, !.ovcur = cur]]
      BY <2>2 DEF TickOvpn, ReadOvpn
    <3> QED BY <3>1, PolicyKinds DEF TickStates
  <2>3. CASE TickPanic(Daemon)
    BY <2>3, PolicyKinds DEF TickPanic, FreshTick
  <2> QED BY <2>1, <2>2, <2>3
<1> QED BY <1>1, <1>2, OutsideBlockSet DEF Working

\* What the SELECT missed counts as touched; the rest is known, with its addresses.
LEMMA TickPeersBlockSet ==
  ASSUME TypeOK, BlockSet, TickPeers(Daemon)
  PROVE  BlockSet'
<1> DEFINE S(seen) == [u \in Users |-> IF u \in seen
                       THEN [pol |-> pol[u], ip |-> ip[u], wg |-> wg[u], ov |-> ov[u]]
                       ELSE NoRow]
<1>1. UNCHANGED <<row, pol, ip, wg, ov, ipset, stale, swept>> /\ Live' = Live
  BY DEF TickPeers, db, Live
<1>2. PICK seen \in SUBSET Live :
        /\ tick' = [tick EXCEPT ![Daemon] = [@ EXCEPT !.ph = "wg", !.todo = seen,
                      !.known = OwnedIPs(seen), !.snap = S(seen)]]
        /\ touched' = [touched EXCEPT ![Daemon] = Live \ seen]
  BY DEF TickPeers
<1>3. \A u \in seen : u \in Users /\ u \in Live
                      /\ S(seen)[u] = [pol |-> pol[u], ip |-> ip[u], wg |-> wg[u], ov |-> ov[u]]
  BY <1>2 DEF Live
<1> HIDE DEF S
<1>4. /\ tick'[Daemon].ph = "wg" /\ tick'[Daemon].todo = seen /\ tick'[Daemon].snap = S(seen)
      /\ tick'[Daemon].known = OwnedIPs(seen) /\ touched'[Daemon] = Live \ seen
  BY <1>2, PolicyKinds DEF TickStates
<1>5. AddressesApart'
  BY <1>1 DEF BlockSet, AddressesApart, Live
<1>6. ASSUME NEW u \in seen PROVE OnTrack(u)'
  <2>1. IPsOf(ip[u]) \subseteq OwnedIPs(seen)
    BY DEF OwnedIPs
  <2>2. \A v \in seen \ {u} : IPsOf(S(seen)[v].ip) \cap OwnIPs(u) = {}
    <3> SUFFICES ASSUME NEW v \in seen, v # u
                 PROVE  IPsOf(S(seen)[v].ip) \cap OwnIPs(u) = {}
      OBVIOUS
    <3>1. IPsOf(ip[v]) \cap OwnIPs(u) = {}
      <4>1. u \in Live /\ v \in Live /\ ip[u] \in Addresses /\ ip[v] \in Addresses
        BY <1>3 DEF TypeOK
      <4>2. ip[u].wg # NoIP => ip[u].wg # ip[v].wg
        BY <4>1 DEF BlockSet, AddressesApart
      <4>3. ip[v].ovpn \notin OwnIPs(u)
        BY <4>1 DEF OwnIPs
      <4> QED BY <4>1, <4>2, <4>3, EnforceAssumption DEF Addresses, IPsOf, OwnIPs
    <3>2. S(seen)[v] = [pol |-> pol[v], ip |-> ip[v], wg |-> wg[v], ov |-> ov[v]]
      BY <1>3
    <3> QED BY <3>1, <3>2
  <2>3. SnapshotIsRow(u)'
    BY <1>1, <1>3, <1>4 DEF SnapshotIsRow
  <2>4. OwnIPs(u)' = OwnIPs(u)
    BY <1>1 DEF OwnIPs
  <2> QED BY <1>1, <1>3, <1>4, <2>1, <2>2, <2>3, <2>4 DEF OnTrack
<1>7. OwnedIPs(Live)' = OwnedIPs(Live)
  BY <1>1 DEF OwnedIPs
<1>8. InPass'
  <2>1. \A u \in Live' \ touched'[Daemon] : OnTrack(u)'
    BY <1>1, <1>4, <1>6
  <2>2. touched'[Daemon] = {} => tick'[Daemon].known \subseteq OwnedIPs(Live)'
    BY <1>2, <1>4, <1>7
  <2> QED BY <2>1, <2>2 DEF InPass
<1>9. BetweenPasses'
  BY <1>4 DEF BetweenPasses, Working
<1> QED BY <1>1, <1>5, <1>8, <1>9 DEF BlockSet

\* A step on the current user leaves every other user on track.
LEMMA OthersOnTrack ==
  ASSUME TypeOK, BlockSet, Working, NEW u \in Live \ touched[Daemon],
         u # Cur(Daemon),
         UNCHANGED <<row, ip>>,
         pol'[u] = pol[u], wg'[u] = wg[u], ov'[u] = ov[u],
         OwnIPs(u) \cap ipset' = OwnIPs(u) \cap ipset,
         tick'[Daemon].known = tick[Daemon].known,
         tick'[Daemon].snap[u] = tick[Daemon].snap[u],
         tick'[Daemon].todo \subseteq tick[Daemon].todo,
         u \in tick[Daemon].todo => u \in tick'[Daemon].todo,
         \A v \in tick'[Daemon].todo : tick'[Daemon].snap[v].ip = tick[Daemon].snap[v].ip,
         tick'[Daemon].ph = "flag" => Cur(Daemon)' = Cur(Daemon)
  PROVE  OnTrack(u)'
<1>1. OnTrack(u)
  BY DEF BlockSet, InPass
<1>2. Blk(u)' = Blk(u) /\ OwnIPs(u)' = OwnIPs(u)
  BY DEF Blk, OwnIPs, Live
<1>3. InSet(u)' = InSet(u)
  BY <1>2 DEF InSet
<1>4. Settled(u)' = Settled(u) /\ SnapshotIsRow(u)' = SnapshotIsRow(u)
  BY <1>2, <1>3 DEF Settled, SnapshotIsRow
<1> QED BY <1>1, <1>2, <1>3, <1>4 DEF OnTrack

\* A step that goes on with the pass.
LEMMA PassGoesOn ==
  ASSUME TypeOK, BlockSet, Working, Working',
         UNCHANGED <<row, ip>>, Users = {} => ipset' = {},
         tick'[Daemon].known = tick[Daemon].known,
         touched[Daemon] \subseteq touched'[Daemon],
         \A u \in Live \ touched'[Daemon] : OnTrack(u)'
  PROVE  BlockSet'
<1>1. Live' = Live /\ OwnedIPs(Live)' = OwnedIPs(Live)
  BY DEF Live, OwnedIPs
<1>2. AddressesApart'
  BY <1>1 DEF BlockSet, AddressesApart
<1>3. InPass'
  BY <1>1 DEF BlockSet, InPass
<1> QED BY <1>2, <1>3 DEF BlockSet, BetweenPasses

LEMMA NoteOf ==
  ASSUME TypeOK, NEW ok, Note(Daemon, ok)
  PROVE  /\ touched[Daemon] \subseteq touched'[Daemon]
         /\ ok \/ Cur(Daemon) \in touched'[Daemon]
<1>1. CASE ok
  BY <1>1 DEF Note, NoTouch
<1>2. CASE ~ok
  BY <1>2, TouchOf DEF Note
<1> QED BY <1>1, <1>2

LEMMA TickWGBlockSet ==
  ASSUME TypeOK, PhaseInv, BlockSet, TickWG(Daemon)
  PROVE  BlockSet'
<1> SUFFICES ASSUME NEW c, c = Cur(Daemon), NEW m, m = Metered(Daemon)
             PROVE  BlockSet'
  OBVIOUS
<1>1. /\ tick[Daemon].ph = "wg" /\ c \in Users /\ c \in tick[Daemon].todo
      /\ UNCHANGED <<row, pol, ip, ov, ipset>> /\ Working
  <2>1. tick[Daemon].ph = "wg" /\ tick[Daemon].todo # {}
    BY DEF TickWG
  <2> QED BY <2>1, CurIsUser, PolicyKinds DEF TickWG, Working
<1>2. PICK ok \in BOOLEAN :
        \/ /\ tick' = [tick EXCEPT ![Daemon] = [@ EXCEPT !.ph = "ovpnacct", !.snap[c].wg = m]]
           /\ wg' = IF ok /\ c \in Live THEN [wg EXCEPT ![c] = m] ELSE wg
           /\ Note(Daemon, ok)
        \/ /\ tick' = [tick EXCEPT ![Daemon].ph = "ovpnacct"]
           /\ NoTouch /\ wg' = wg /\ ok
  BY DEF TickWG
<1>3. /\ tick'[Daemon].ph = "ovpnacct" /\ tick'[Daemon].todo = tick[Daemon].todo
      /\ tick'[Daemon].known = tick[Daemon].known
      /\ \A u \in Users : /\ tick'[Daemon].snap[u].ip = tick[Daemon].snap[u].ip
                          /\ u # c => tick'[Daemon].snap[u] = tick[Daemon].snap[u]
      /\ \/ /\ ok /\ c \in Live => wg'[c] = m
            /\ tick'[Daemon].snap[c] = [tick[Daemon].snap[c] EXCEPT !.wg = m]
         \/ wg' = wg /\ tick'[Daemon].snap[c] = tick[Daemon].snap[c]
  <2>1. CASE /\ tick' = [tick EXCEPT ![Daemon] = [@ EXCEPT !.ph = "ovpnacct", !.snap[c].wg = m]]
             /\ wg' = IF ok /\ c \in Live THEN [wg EXCEPT ![c] = m] ELSE wg
    <3>1. ok /\ c \in Live => wg'[c] = m
      BY <1>1, <2>1 DEF TypeOK
    <3>2. tick' = [tick EXCEPT ![Daemon] = [@ EXCEPT !.ph = "ovpnacct", !.snap[c].wg = m]]
      BY <2>1
    <3>3. /\ tick'[Daemon].ph = "ovpnacct" /\ tick'[Daemon].todo = tick[Daemon].todo
          /\ tick'[Daemon].known = tick[Daemon].known
          /\ tick'[Daemon].snap = [tick[Daemon].snap EXCEPT ![c].wg = m]
      BY <3>2, PolicyKinds DEF TickStates
    <3>4. tick'[Daemon].snap[c] = [tick[Daemon].snap[c] EXCEPT !.wg = m]
      BY <1>1, <3>3, PolicyKinds DEF Snapshots
    <3>5. \A u \in Users : /\ tick'[Daemon].snap[u].ip = tick[Daemon].snap[u].ip
                          /\ u # c => tick'[Daemon].snap[u] = tick[Daemon].snap[u]
      BY <1>1, <3>3, PolicyKinds DEF Snapshots
    <3> QED BY <3>1, <3>3, <3>4, <3>5
  <2>2. CASE tick' = [tick EXCEPT ![Daemon].ph = "ovpnacct"] /\ wg' = wg
    BY <2>2, PolicyKinds DEF TickStates
  <2> QED BY <1>2, <2>1, <2>2
<1>4. /\ touched[Daemon] \subseteq touched'[Daemon]
      /\ ok \/ c \in touched'[Daemon]
  BY <1>2, NoteOf DEF NoTouch
<1>5. \A u \in Users \ {c} : wg'[u] = wg[u]
  BY <1>2 DEF TypeOK
<1>6. ASSUME NEW u \in Live \ touched'[Daemon], u # c PROVE OnTrack(u)'
  <2>1. u \in Live \ touched[Daemon] /\ u \in Users
    BY <1>4 DEF Live
  <2> QED BY <1>1, <1>3, <1>5, <1>6, <2>1, OthersOnTrack, PolicyKinds
<1>7. ASSUME c \in Live \ touched'[Daemon] PROVE OnTrack(c)'
  <2>1. OnTrack(c) /\ ok /\ SnapshotIsRow(c)
    BY <1>1, <1>4, <1>7 DEF BlockSet, InPass, OnTrack
  <2>2. \/ wg'[c] = m /\ tick'[Daemon].snap[c] = [tick[Daemon].snap[c] EXCEPT !.wg = m]
        \/ wg'[c] = wg[c] /\ tick'[Daemon].snap[c] = tick[Daemon].snap[c]
    BY <1>3, <1>7, <2>1
  <2>3. tick'[Daemon].snap[c] = [pol |-> pol'[c], ip |-> ip'[c], wg |-> wg'[c], ov |-> ov'[c]]
    BY <1>1, <2>1, <2>2 DEF SnapshotIsRow
  <2>4. \A v \in tick[Daemon].todo \ {c} :
          IPsOf(tick'[Daemon].snap[v].ip) \cap OwnIPs(c) = {}
    BY <1>3, <2>1, PolicyKinds DEF OnTrack
  <2>5. OwnIPs(c)' = OwnIPs(c)
    BY <1>1 DEF OwnIPs, Live
  <2> QED BY <1>1, <1>3, <2>1, <2>3, <2>4, <2>5 DEF OnTrack, SnapshotIsRow
<1>8. \A u \in Live \ touched'[Daemon] : OnTrack(u)'
  BY <1>6, <1>7
<1> QED BY <1>1, <1>3, <1>4, <1>8, PassGoesOn DEF Working, BlockSet


LEMMA TickOvpnAcctBlockSet ==
  ASSUME TypeOK, PhaseInv, BlockSet, TickOvpnAcct(Daemon)
  PROVE  BlockSet'
<1> SUFFICES ASSUME NEW c, c = Cur(Daemon), NEW m, m = MeteredOvpn(Daemon)
             PROVE  BlockSet'
  OBVIOUS
<1>1. /\ tick[Daemon].ph = "ovpnacct" /\ c \in Users /\ c \in tick[Daemon].todo
      /\ UNCHANGED <<row, pol, ip, wg, ipset>> /\ Working
  BY CurIsUser, PolicyKinds DEF TickOvpnAcct, Working
<1>2. PICK ok \in BOOLEAN :
        \/ /\ tick' = [tick EXCEPT ![Daemon] = [@ EXCEPT !.ph = "ipset", !.snap[c].ov = m]]
           /\ ov' = IF ok /\ c \in Live THEN [ov EXCEPT ![c] = m] ELSE ov
           /\ Note(Daemon, ok)
        \/ /\ tick' = [tick EXCEPT ![Daemon].ph = "ipset"]
           /\ NoTouch /\ ov' = ov /\ ok
  BY DEF TickOvpnAcct
<1>3. /\ tick'[Daemon].ph = "ipset" /\ tick'[Daemon].todo = tick[Daemon].todo
      /\ tick'[Daemon].known = tick[Daemon].known
      /\ \A u \in Users : /\ tick'[Daemon].snap[u].ip = tick[Daemon].snap[u].ip
                          /\ u # c => tick'[Daemon].snap[u] = tick[Daemon].snap[u]
      /\ \/ /\ ok /\ c \in Live => ov'[c] = m
            /\ tick'[Daemon].snap[c] = [tick[Daemon].snap[c] EXCEPT !.ov = m]
         \/ ov' = ov /\ tick'[Daemon].snap[c] = tick[Daemon].snap[c]
  <2>1. CASE /\ tick' = [tick EXCEPT ![Daemon] = [@ EXCEPT !.ph = "ipset", !.snap[c].ov = m]]
             /\ ov' = IF ok /\ c \in Live THEN [ov EXCEPT ![c] = m] ELSE ov
    <3>1. ok /\ c \in Live => ov'[c] = m
      BY <1>1, <2>1 DEF TypeOK
    <3>2. tick' = [tick EXCEPT ![Daemon] = [@ EXCEPT !.ph = "ipset", !.snap[c].ov = m]]
      BY <2>1
    <3>3. /\ tick'[Daemon].ph = "ipset" /\ tick'[Daemon].todo = tick[Daemon].todo
          /\ tick'[Daemon].known = tick[Daemon].known
          /\ tick'[Daemon].snap = [tick[Daemon].snap EXCEPT ![c].ov = m]
      BY <3>2, PolicyKinds DEF TickStates
    <3>4. tick'[Daemon].snap[c] = [tick[Daemon].snap[c] EXCEPT !.ov = m]
      BY <1>1, <3>3, PolicyKinds DEF Snapshots
    <3>5. \A u \in Users : /\ tick'[Daemon].snap[u].ip = tick[Daemon].snap[u].ip
                          /\ u # c => tick'[Daemon].snap[u] = tick[Daemon].snap[u]
      BY <1>1, <3>3, PolicyKinds DEF Snapshots
    <3> QED BY <3>1, <3>3, <3>4, <3>5
  <2>2. CASE tick' = [tick EXCEPT ![Daemon].ph = "ipset"] /\ ov' = ov
    BY <2>2, PolicyKinds DEF TickStates
  <2> QED BY <1>2, <2>1, <2>2
<1>4. /\ touched[Daemon] \subseteq touched'[Daemon]
      /\ ok \/ c \in touched'[Daemon]
  BY <1>2, NoteOf DEF NoTouch
<1>5. \A u \in Users \ {c} : ov'[u] = ov[u]
  BY <1>2 DEF TypeOK
<1>6. ASSUME NEW u \in Live \ touched'[Daemon], u # c PROVE OnTrack(u)'
  <2>1. u \in Live \ touched[Daemon] /\ u \in Users
    BY <1>4, <1>6 DEF Live
  <2> QED BY <1>1, <1>3, <1>5, <1>6, <2>1, OthersOnTrack, PolicyKinds
<1>7. ASSUME c \in Live \ touched'[Daemon] PROVE OnTrack(c)'
  <2>1. OnTrack(c) /\ ok /\ SnapshotIsRow(c)
    BY <1>1, <1>4, <1>7 DEF BlockSet, InPass, OnTrack
  <2>2. \/ ov'[c] = m /\ tick'[Daemon].snap[c] = [tick[Daemon].snap[c] EXCEPT !.ov = m]
        \/ ov'[c] = ov[c] /\ tick'[Daemon].snap[c] = tick[Daemon].snap[c]
    BY <1>3, <1>7, <2>1
  <2>3. tick'[Daemon].snap[c] = [pol |-> pol'[c], ip |-> ip'[c], wg |-> wg'[c], ov |-> ov'[c]]
    BY <1>1, <2>1, <2>2 DEF SnapshotIsRow
  <2>4. \A v \in tick[Daemon].todo \ {c} :
          IPsOf(tick'[Daemon].snap[v].ip) \cap OwnIPs(c) = {}
    BY <1>3, <2>1, PolicyKinds DEF OnTrack
  <2>5. OwnIPs(c)' = OwnIPs(c)
    BY <1>1 DEF OwnIPs, Live
  <2> QED BY <1>1, <1>3, <2>1, <2>3, <2>4, <2>5 DEF OnTrack, SnapshotIsRow
<1>8. \A u \in Live \ touched'[Daemon] : OnTrack(u)'
  BY <1>6, <1>7
<1> QED BY <1>1, <1>3, <1>4, <1>8, PassGoesOn DEF Working, BlockSet

\* The decision of a pass about the row as it is.
LEMMA BlockedIsBlk ==
  ASSUME SnapshotIsRow(Cur(Daemon))
  PROVE  /\ Blocked(Daemon) = Blk(Cur(Daemon))
         /\ Snap(Daemon).ip = ip[Cur(Daemon)] /\ Snap(Daemon).pol = pol[Cur(Daemon)]
BY DEF SnapshotIsRow, Snap, Blocked, Blk

LEMMA TickIpsetBlockSet ==
  ASSUME TypeOK, PhaseInv, BlockSet, TickIpset(Daemon)
  PROVE  BlockSet'
<1> SUFFICES ASSUME NEW c, c = Cur(Daemon)
             PROVE  BlockSet'
  OBVIOUS
<1>1. /\ tick[Daemon].ph = "ipset" /\ c \in Users /\ c \in tick[Daemon].todo
      /\ UNCHANGED <<row, pol, ip, wg, ov>> /\ Working
  BY CurIsUser, PolicyKinds DEF TickIpset, Working, db
<1>2. PICK failed \in SUBSET IPsOf(Snap(Daemon).ip) :
        /\ ipset' = IF Blocked(Daemon) THEN ipset \cup (IPsOf(Snap(Daemon).ip) \ failed)
                    ELSE ipset \ (IPsOf(Snap(Daemon).ip) \ failed)
        /\ Note(Daemon, failed = {})
  BY DEF TickIpset
<1>3. /\ tick'[Daemon].ph = "flag" /\ tick'[Daemon].todo = tick[Daemon].todo
      /\ tick'[Daemon].known = tick[Daemon].known /\ tick'[Daemon].snap = tick[Daemon].snap
  <2>1. tick' = [tick EXCEPT ![Daemon].ph = "flag"]
    BY DEF TickIpset
  <2> QED BY <2>1, PolicyKinds DEF TickStates
<1>4. /\ touched[Daemon] \subseteq touched'[Daemon]
      /\ failed = {} \/ c \in touched'[Daemon]
  BY <1>2, NoteOf
<1>5. Cur(Daemon)' = c
  BY <1>3 DEF Cur
<1>6. ASSUME NEW u \in Live \ touched'[Daemon], u # c PROVE OnTrack(u)'
  <2>1. u \in Live \ touched[Daemon] /\ u \in Users
    BY <1>4, <1>6 DEF Live
  <2>2. IPsOf(tick[Daemon].snap[c].ip) \cap OwnIPs(u) = {}
    BY <1>1, <1>6, <2>1 DEF BlockSet, InPass, OnTrack
  <2>3. OwnIPs(u) \cap ipset' = OwnIPs(u) \cap ipset
    BY <1>2, <2>2 DEF Snap
  <2> QED BY <1>1, <1>3, <1>5, <1>6, <2>1, <2>3, OthersOnTrack
<1>7. ASSUME c \in Live \ touched'[Daemon] PROVE OnTrack(c)'
  <2>1. OnTrack(c) /\ failed = {} /\ SnapshotIsRow(c)
    BY <1>1, <1>4, <1>7 DEF BlockSet, InPass, OnTrack
  <2>2. Blocked(Daemon) = Blk(c) /\ Snap(Daemon).ip = ip[c]
    BY <2>1, BlockedIsBlk
  <2>3. Blk(c)' = Blk(c) /\ OwnIPs(c)' = OwnIPs(c) /\ OwnIPs(c) \subseteq IPsOf(ip[c])
    BY <1>1 DEF Blk, OwnIPs, Live
  <2>4. InSet(c)'
    BY <1>1, <1>2, <2>1, <2>2, <2>3 DEF InSet
  <2>5. SnapshotIsRow(c)'
    BY <1>1, <1>3, <2>1 DEF SnapshotIsRow
  <2> QED BY <1>1, <1>3, <2>1, <2>3, <2>4, <2>5 DEF OnTrack
<1>8. \A u \in Live \ touched'[Daemon] : OnTrack(u)'
  BY <1>6, <1>7
<1>9. Working' /\ Users # {}
  BY <1>1, <1>3 DEF Working
<1> QED BY <1>1, <1>3, <1>4, <1>8, <1>9, PassGoesOn

LEMMA TickFlagBlockSet ==
  ASSUME TypeOK, PhaseInv, BlockSet, TickFlag(Daemon)
  PROVE  BlockSet'
<1> SUFFICES ASSUME NEW c, c = Cur(Daemon)
             PROVE  BlockSet'
  OBVIOUS
<1>1. /\ tick[Daemon].ph = "flag" /\ c \in Users /\ c \in tick[Daemon].todo
      /\ UNCHANGED <<row, ip, wg, ov, ipset>> /\ Working
  BY CurIsUser, PolicyKinds DEF TickFlag, Working
<1>2. PICK ok \in BOOLEAN :
        /\ ok /\ c \in Live => \/ pol' = [pol EXCEPT ![c].blocked = Blocked(Daemon)]
                               \/ pol' = pol /\ Blocked(Daemon) = Snap(Daemon).pol.blocked
        /\ pol' = pol \/ pol' = [pol EXCEPT ![c].blocked = Blocked(Daemon)]
        /\ touched[Daemon] \subseteq touched'[Daemon]
        /\ ok \/ c \in touched'[Daemon]
  <2>1. CASE Blocked(Daemon) # Snap(Daemon).pol.blocked
    <3>1. PICK ok \in BOOLEAN :
            /\ pol' = IF ok /\ c \in Live THEN [pol EXCEPT ![c].blocked = Blocked(Daemon)] ELSE pol
            /\ Note(Daemon, ok)
      BY <2>1 DEF TickFlag
    <3> QED BY <3>1, NoteOf
  <2>2. CASE Blocked(Daemon) = Snap(Daemon).pol.blocked
    <3>1. NoTouch /\ pol' = pol
      BY <2>2 DEF TickFlag
    <3> WITNESS TRUE \in BOOLEAN
    <3> QED BY <2>2, <3>1 DEF NoTouch
  <2> QED BY <2>1, <2>2
<1>3. /\ tick'[Daemon].ph = "wg" /\ tick'[Daemon].todo = tick[Daemon].todo \ {c}
      /\ tick'[Daemon].known = tick[Daemon].known
      /\ \A u \in Users : u # c => tick'[Daemon].snap[u] = tick[Daemon].snap[u]
  <2>1. tick' = [tick EXCEPT ![Daemon] = [tick[Daemon] EXCEPT !.ph = "wg",
                                         !.todo = tick[Daemon].todo \ {c}, !.snap[c] = NoRow]]
    BY DEF TickFlag
  <2> DEFINE T == [tick[Daemon] EXCEPT !.ph = "wg", !.todo = @ \ {c}, !.snap[c] = NoRow]
  <2>2. /\ T.ph = "wg" /\ T.todo = tick[Daemon].todo \ {c} /\ T.known = tick[Daemon].known
        /\ \A u \in Users : u # c => T.snap[u] = tick[Daemon].snap[u]
    BY <1>1, PolicyKinds DEF TickStates, Snapshots
  <2>3. tick' = [tick EXCEPT ![Daemon] = T]
    BY <2>1, Zenon
  <2>4. tick'[Daemon] = T
    <3> HIDE DEF T
    <3> QED BY <2>3 DEF TypeOK, Procs
  <2> HIDE DEF T
  <2> QED BY <2>2, <2>4
<1>4. /\ \A u \in Users \ {c} : pol'[u] = pol[u]
      /\ pol'[c].enabled = pol[c].enabled /\ pol'[c].expires = pol[c].expires
      /\ pol'[c].quota = pol[c].quota
      /\ ok /\ c \in Live => \/ pol'[c].blocked = Blocked(Daemon)
                             \/ pol' = pol /\ Blocked(Daemon) = Snap(Daemon).pol.blocked
  BY <1>1, <1>2 DEF TypeOK, Policies
<1>5. ASSUME NEW u \in Live \ touched'[Daemon], u # c PROVE OnTrack(u)'
  <2>1. u \in Live \ touched[Daemon] /\ u \in Users
    BY <1>2, <1>5 DEF Live
  <2>2. \A v \in tick'[Daemon].todo : tick'[Daemon].snap[v].ip = tick[Daemon].snap[v].ip
    BY <1>3, PolicyKinds
  <2> QED BY <1>1, <1>3, <1>4, <1>5, <2>1, <2>2, OthersOnTrack
<1>6. ASSUME c \in Live \ touched'[Daemon] PROVE OnTrack(c)'
  <2>1. OnTrack(c) /\ ok /\ SnapshotIsRow(c) /\ InSet(c)
    BY <1>1, <1>2, <1>6 DEF BlockSet, InPass, OnTrack
  <2>2. Blocked(Daemon) = Blk(c) /\ Snap(Daemon).pol = pol[c]
    BY <2>1, BlockedIsBlk
  <2>3. Blk(c)' = Blk(c) /\ OwnIPs(c)' = OwnIPs(c)
    BY <1>1, <1>4 DEF Blk, EffBlocked, OwnIPs, Live
  <2>4. Settled(c)'
    <3>1. InSet(c)'
      BY <1>1, <2>1, <2>3 DEF InSet
    <3>2. pol'[c].blocked = Blk(c)
      BY <1>4, <1>6, <2>1, <2>2
    <3> QED BY <2>3, <3>1, <3>2 DEF Settled
  <2>5. \A v \in tick'[Daemon].todo \ {c} :
          IPsOf(tick'[Daemon].snap[v].ip) \cap OwnIPs(c) = {}
    BY <1>3, <2>1, PolicyKinds DEF OnTrack
  <2> QED BY <1>1, <1>3, <2>1, <2>3, <2>4, <2>5 DEF OnTrack
<1>7. \A u \in Live \ touched'[Daemon] : OnTrack(u)'
  BY <1>5, <1>6
<1>8. Working'
  BY <1>3 DEF Working
<1> QED BY <1>1, <1>2, <1>3, <1>7, <1>8, PassGoesOn DEF BlockSet

\* The sweep takes nothing from a user the pass knows and nobody touched.
LEMMA TickSweepBlockSet ==
  ASSUME TypeOK, BlockSet, TickSweep(Daemon)
  PROVE  BlockSet'
<1>1. /\ UNCHANGED <<row, pol, ip, wg, ov>> /\ Working /\ tick[Daemon].todo = {}
      /\ tick'[Daemon].ph = "idle"
  BY PolicyKinds DEF TickSweep, db, Working, FreshTick
<1>2. PICK kept \in SUBSET (ipset \ tick[Daemon].known) :
        /\ ipset' = (ipset \cap tick[Daemon].known) \cup kept
        /\ stale' = touched[Daemon] /\ swept' = (kept = {})
  BY DEF TickSweep
<1>3. Live' = Live /\ OwnedIPs(Live)' = OwnedIPs(Live) /\ ~Working'
  BY <1>1 DEF Live, OwnedIPs, Working
<1>4. ASSUME NEW u \in Live \ touched[Daemon] PROVE Settled(u)'
  <2>1. Settled(u) /\ IPsOf(ip[u]) \subseteq tick[Daemon].known
    BY <1>1 DEF BlockSet, InPass, OnTrack
  <2>2. Blk(u)' = Blk(u) /\ OwnIPs(u)' = OwnIPs(u) /\ OwnIPs(u) \subseteq IPsOf(ip[u])
    BY <1>1 DEF Blk, OwnIPs, Live
  <2>3. InSet(u)'
    BY <1>1, <1>2, <2>1, <2>2 DEF Settled, InSet
  <2> QED BY <1>1, <2>1, <2>2, <2>3 DEF Settled
<1>5. stale' = {} /\ swept' => ipset' \subseteq OwnedIPs(Live)'
  BY <1>1, <1>2, <1>3 DEF BlockSet, InPass
<1>6. BetweenPasses'
  BY <1>2, <1>3, <1>4, <1>5 DEF BetweenPasses
<1>7. AddressesApart'
  BY <1>1, <1>3 DEF BlockSet, AddressesApart
<1> QED BY <1>2, <1>3, <1>6, <1>7 DEF BlockSet, InPass

LEMMA PassesBlockSet ==
  ASSUME TypeOK, PhaseInv, BlockSet, OneDaemon, Passes
  PROVE  BlockSet'
<1>1. Procs = {Daemon} /\ CliTicks = {}
  BY DEF Procs, OneDaemon
<1> QED BY <1>1, StartBlockSet, TickPeersBlockSet, TickWGBlockSet, TickOvpnAcctBlockSet,
     TickIpsetBlockSet, TickFlagBlockSet, TickSweepBlockSet DEF Passes, TickStep

\* After a crash nothing is claimed of anybody.
LEMMA FaultsBlockSet ==
  ASSUME TypeOK, BlockSet, Crash \/ Reboot
  PROVE  BlockSet'
<1>1. /\ UNCHANGED <<row, pol, ip, wg, ov>> /\ (ipset' = ipset \/ ipset' = {})
      /\ tick'[Daemon].ph = "idle" /\ stale' = stale \cup Users
  BY PolicyKinds, TouchOf DEF Crash, Reboot, db, FreshTick
<1>2. Live' \subseteq Users /\ ~Working'
  BY <1>1 DEF Live, Working
<1>3. AddressesApart'
  BY <1>1 DEF BlockSet, AddressesApart, Live
<1>4. BetweenPasses'
  BY <1>1, <1>2 DEF BlockSet, BetweenPasses
<1> QED BY <1>1, <1>2, <1>3, <1>4 DEF BlockSet, InPass

\* The block set, between the passes and inside them.
THEOREM BlockSetInvariant == ASSUME OneDaemon PROVE Spec => []BlockSet
<1>1. ASSUME TypeOK, PhaseInv, BlockSet, [Next]_vars PROVE BlockSet'
  <2>1. CASE UNCHANGED vars
    BY <1>1, <2>1, NoTouchFrame DEF vars
  <2>2. CASE Next
    BY <1>1, <2>2, EnvironmentBlockSet, RowsBlockSet, AttachesBlockSet, RequestsBlockSet, PassesBlockSet,
       FaultsBlockSet DEF Next
  <2> QED BY <1>1, <2>1, <2>2
<1> QED BY <1>1, InitBlockSet, TypeCorrect, PTL DEF Spec

LEMMA QuietIsBetween == Quiet => ~Working
BY DEF Quiet, Working, Procs

\* enforce.go:128-139: after a pass the addresses of every user who did not change meanwhile
\* are blocked or not as the row says, whoever had them before.  Where two attaches gave one
\* OpenVPN address to two users, this is said of their other addresses only.
THEOREM BlockSetExact == ASSUME OneDaemon PROVE Spec => []FreshExact
<1>1. BlockSet => FreshExact
  BY QuietIsBetween DEF BlockSet, BetweenPasses, Settled, InSet, FreshExact
<1> QED BY <1>1, BlockSetInvariant, PTL

\* The blocked column then agrees with the block set.
THEOREM FlagsExact == ASSUME OneDaemon PROVE Spec => []FlagMatchesSet
<1>1. BlockSet => FlagMatchesSet
  BY QuietIsBetween DEF BlockSet, BetweenPasses, Settled, FlagMatchesSet
<1> QED BY <1>1, BlockSetInvariant, PTL

\* enforce.go:144-157: and a sweep that succeeded leaves no address without an owner.
THEOREM SweepLeavesNone == ASSUME OneDaemon PROVE Spec => []NoLeftover
<1>1. BlockSet => NoLeftover
  BY QuietIsBetween DEF BlockSet, BetweenPasses, NoLeftover
<1> QED BY <1>1, BlockSetInvariant, PTL
=============================================================================
