---------------------------- MODULE ConfigProofs ----------------------------
(***************************************************************************)
(* Proofs about ConfigStore, for any number of threads and commands, any   *)
(* mix of requests, and any bounds.                                        *)
(***************************************************************************)
EXTENDS ConfigStore, TLAPS

(***************************************************************************)
(* The lock.  A handler owns a.mu from the load of the file to the answer, *)
(* except while an import saves the bundle's configuration.                *)
(***************************************************************************)
Owns(p) ==
  \/ op[p].pc \in {"load", "publish"}
  \/ op[p].pc \in {"save", "write"} /\ op[p].kind # "import"

\* What requests and commands of a kind go through.
KindInv ==
  /\ \A p \in Api : /\ op[p].kind \in ApiKinds
                    /\ op[p].pc \notin {"idle", "guard"} => op[p].kind \in {"token", "login", "import"}
  /\ \A p \in Cli : /\ op[p].pc \in {"idle", "save", "write"}
                    /\ op[p].pc # "idle" => op[p].kind \in CliKinds

MutexInv == \A p \in Api : Owns(p) => holder = p

LockedOK == TypeOK /\ KindInv /\ MutexInv

OpStates == [pc : Pcs, kind : ApiKinds \cup CliKinds, new : 0 .. MaxEdits, copy : Configs]

\* A changed configuration is one.
LEMMA SetType ==
  ASSUME NEW c \in Configs, NEW k \in ApiKinds \cup CliKinds, NEW n \in 0 .. MaxEdits
  PROVE  Set(c, k, n) \in Configs
BY DEF Set, Configs, Fields

LEMMA FactoryType == Factory \in Configs /\ Idle \in OpStates
BY ConfigAssumption DEF Factory, Configs, Idle, OpStates, Pcs, ApiKinds, CliKinds

\* The local state of one process, given the others keep theirs.
LEMMA OpUpdate ==
  ASSUME TypeOK, NEW p \in Procs, NEW r \in OpStates, op' = [op EXCEPT ![p] = r]
  PROVE  /\ op' \in [Procs -> OpStates] /\ op'[p] = r
         /\ \A q \in Procs : q # p => op'[q] = op[q]
BY DEF TypeOK, OpStates

\* An idle system is safe: every process is at rest and nobody has the lock.
LEMMA InitKeeps == Init => LockedOK
<1> SUFFICES ASSUME Init PROVE LockedOK
  OBVIOUS
<1>1. op \in [Procs -> OpStates] /\ \A p \in Procs : op[p] = Idle
  BY FactoryType DEF Init
<1>2. TypeOK
  <2>1. /\ op \in [Procs -> [pc : Pcs, kind : ApiKinds \cup CliKinds, new : 0 .. MaxEdits, copy : Configs]]
        /\ file \in Configs /\ cfg \in Configs /\ done \in Configs
    BY <1>1, FactoryType DEF Init, OpStates
  <2>2. \A p \in Api : ~(At(p, "load") \/ At(p, "publish"))
    BY <1>1 DEF At, Idle, Procs
  <2>3. edits \in 0 .. MaxEdits /\ faults \in 0 .. MaxFaults /\ dead \in SUBSET (0 .. MaxEdits)
    BY ConfigAssumption DEF Init
  <2> QED BY <2>1, <2>2, <2>3 DEF Init, TypeOK
<1>3. KindInv /\ MutexInv
  BY <1>1 DEF KindInv, MutexInv, Owns, Idle, Procs, ApiKinds
<1> QED BY <1>2, <1>3 DEF LockedOK

(***************************************************************************)
(* One process moves to the local state r.                                 *)
(***************************************************************************)
Legal(p, r) ==
  /\ p \in Api => /\ r.kind \in ApiKinds
                  /\ r.pc \notin {"idle", "guard"} => r.kind \in {"token", "login", "import"}
  /\ p \in Cli => /\ r.pc \in {"idle", "save", "write"}
                  /\ r.pc # "idle" => r.kind \in CliKinds

OwnsAt(r) == r.pc \in {"load", "publish"} \/ (r.pc \in {"save", "write"} /\ r.kind # "import")

LEMMA LockedStep ==
  ASSUME LockedOK, NEW p \in Procs, NEW r \in OpStates, op' = [op EXCEPT ![p] = r],
         Legal(p, r),
         file' \in Configs, cfg' \in Configs, done' \in Configs, torn' \in BOOLEAN, up' \in BOOLEAN,
         edits' \in 0 .. MaxEdits, faults' \in 0 .. MaxFaults, dead' \in SUBSET (0 .. MaxEdits),
         clash' \in BOOLEAN, leaked' \in BOOLEAN, holder' \in Api \cup {None},
         p \in Api /\ OwnsAt(r) => holder' = p,
         \A q \in Api \ {p} : Owns(q) => holder' = q
  PROVE  LockedOK'
<1>1. /\ op' \in [Procs -> OpStates] /\ op'[p] = r
      /\ \A q \in Procs : q # p => op'[q] = op[q]
  BY OpUpdate DEF LockedOK
<1>2. KindInv'
  BY <1>1 DEF LockedOK, KindInv, Legal, Procs
<1>3. MutexInv'
  BY <1>1 DEF LockedOK, MutexInv, Owns, OwnsAt, Procs
<1>4. TypeOK'
  <2>1. \A q \in Api : At(q, "load")' \/ At(q, "publish")' => holder' = q
    BY <1>3 DEF MutexInv, Owns, At
  <2>2. op' \in [Procs -> [pc : Pcs, kind : ApiKinds \cup CliKinds, new : 0 .. MaxEdits, copy : Configs]]
    BY <1>1 DEF OpStates
  <2> QED BY <2>1, <2>2 DEF TypeOK
<1> QED BY <1>2, <1>3, <1>4 DEF LockedOK

\* What the invariant says of the variables, and of one process.
LEMMA LockedFacts ==
  ASSUME LockedOK
  PROVE  /\ file \in Configs /\ cfg \in Configs /\ done \in Configs
         /\ torn \in BOOLEAN /\ up \in BOOLEAN /\ holder \in Api \cup {None}
         /\ edits \in 0 .. MaxEdits /\ faults \in 0 .. MaxFaults /\ dead \in SUBSET (0 .. MaxEdits)
         /\ clash \in BOOLEAN /\ leaked \in BOOLEAN
         /\ \A p \in Procs : op[p] \in OpStates /\ Legal(p, op[p]) /\ (OwnsAt(op[p]) <=> Owns(p))
         /\ \A p \in Api : Owns(p) => holder = p
         /\ \A p \in Api : None # p
BY ConfigAssumption DEF LockedOK, TypeOK, OpStates, KindInv, MutexInv, Legal, Owns, OwnsAt, Procs

LEMMA ArriveKeeps ==
  ASSUME LockedOK, NEW p \in Api, NEW k \in ApiKinds, Arrive(p, k)
  PROVE  LockedOK'
<1> DEFINE r == [Idle EXCEPT !.pc = "guard", !.kind = k]
<1>1. r \in OpStates /\ Legal(p, r) /\ ~OwnsAt(r)
  BY FactoryType, ConfigAssumption DEF OpStates, Idle, Legal, OwnsAt, Pcs
<1>2. op' = [op EXCEPT ![p] = r] /\ UNCHANGED <<disk, daemon, bounds, clash>>
  BY DEF Arrive
<1> HIDE DEF r
<1> QED BY <1>1, <1>2, LockedFacts, LockedStep DEF Procs, disk, daemon, bounds

LEMMA GuardKeeps ==
  ASSUME LockedOK, NEW p \in Api, Guard(p)
  PROVE  LockedOK'
<1>0. /\ op[p].pc = "guard" /\ holder = None /\ UNCHANGED <<disk, daemon, faults>>
      /\ op[p] \in OpStates /\ Legal(p, op[p])
  BY LockedFacts DEF Guard, At, Procs
<1>1. ASSUME NEW r \in OpStates, op' = [op EXCEPT ![p] = r], Legal(p, r), ~OwnsAt(r),
             edits' \in 0 .. MaxEdits, clash' \in BOOLEAN
      PROVE  LockedOK'
  BY <1>0, <1>1, LockedFacts, LockedStep DEF Procs, disk, daemon, bounds
<1>2. edits \in 0 .. MaxEdits /\ clash \in BOOLEAN /\ cfg \in Configs
  BY LockedFacts
<1>3. CASE Finish(p) /\ UNCHANGED <<edits, clash>>
  <2>1. Idle \in OpStates /\ Legal(p, Idle) /\ ~OwnsAt(Idle)
    BY FactoryType, ConfigAssumption DEF Legal, OwnsAt, Idle, ApiKinds
  <2> QED BY <1>1, <1>2, <1>3, <2>1 DEF Finish
<1>4. CASE /\ op[p].kind = "import"
           /\ op' = [op EXCEPT ![p] = [@ EXCEPT !.pc = "save", !.copy = cfg]]
           /\ clash' = (clash \/ Contested(p) \/ cfg # file)
           /\ UNCHANGED edits
  <2> DEFINE r == [op[p] EXCEPT !.pc = "save", !.copy = cfg]
  <2>1. r \in OpStates /\ Legal(p, r) /\ ~OwnsAt(r)
    BY <1>0, <1>2, <1>4, ConfigAssumption DEF OpStates, Legal, OwnsAt, Pcs
  <2>2. op' = [op EXCEPT ![p] = r]
    BY <1>4
  <2> HIDE DEF r
  <2> QED BY <1>1, <1>2, <1>4, <2>1, <2>2
<1>5. CASE op[p].kind = "import" /\ Goto(p, "lock") /\ UNCHANGED <<edits, clash>>
  <2> DEFINE r == [op[p] EXCEPT !.pc = "lock"]
  <2>1. r \in OpStates /\ Legal(p, r) /\ ~OwnsAt(r)
    BY <1>0, <1>5, ConfigAssumption DEF OpStates, Legal, OwnsAt, Pcs
  <2>2. op' = [op EXCEPT ![p] = r]
    BY <1>5 DEF Goto
  <2> HIDE DEF r
  <2> QED BY <1>1, <1>2, <1>5, <2>1, <2>2
<1>6. CASE /\ op[p].kind \in {"token", "login"} /\ edits < MaxEdits
           /\ edits' = edits + 1
           /\ op' = [op EXCEPT ![p] = [@ EXCEPT !.pc = "lock", !.new = edits + 1]]
           /\ UNCHANGED clash
  <2> DEFINE r == [op[p] EXCEPT !.pc = "lock", !.new = edits + 1]
  <2>0. edits + 1 \in 0 .. MaxEdits
    BY <1>2, <1>6, ConfigAssumption
  <2>1. r \in OpStates /\ Legal(p, r) /\ ~OwnsAt(r)
    BY <1>0, <1>6, <2>0, ConfigAssumption DEF OpStates, Legal, OwnsAt, Pcs
  <2>2. op' = [op EXCEPT ![p] = r]
    BY <1>6
  <2> HIDE DEF r
  <2> QED BY <1>1, <1>2, <1>6, <2>0, <2>1, <2>2
<1> QED BY <1>3, <1>4, <1>5, <1>6 DEF Guard

LEMMA LockKeeps ==
  ASSUME LockedOK, NEW p \in Api, Lock(p)
  PROVE  LockedOK'
<1> DEFINE r == [op[p] EXCEPT !.pc = "load"]
<1>1. op[p] \in OpStates /\ Legal(p, op[p]) /\ op[p].pc = "lock"
  BY LockedFacts DEF Lock, At, Procs
<1>2. r \in OpStates /\ Legal(p, r)
  BY <1>1, ConfigAssumption DEF OpStates, Legal, Pcs
<1>3. op' = [op EXCEPT ![p] = r]
  BY DEF Lock, Goto
<1>4. \A q \in Api : ~Owns(q)
  BY LockedFacts DEF Lock
<1> HIDE DEF r
<1> QED BY <1>2, <1>3, <1>4, LockedFacts, LockedStep DEF Lock, Procs, disk, bounds

LEMMA LoadDiesKeeps ==
  ASSUME LockedOK, NEW p \in Api, LoadDies(p)
  PROVE  LockedOK'
<1>1. Idle \in OpStates /\ Legal(p, Idle) /\ ~OwnsAt(Idle)
  BY FactoryType, ConfigAssumption DEF Legal, OwnsAt, Idle, ApiKinds
<1> QED BY <1>1, LockedFacts, LockedStep DEF LoadDies, Finish, Procs, disk, bounds

LEMMA LoadKeeps ==
  ASSUME LockedOK, NEW p \in Api, Load(p)
  PROVE  LockedOK'
<1>0. /\ op[p] \in OpStates /\ Legal(p, op[p]) /\ op[p].pc = "load" /\ holder = p
      /\ file \in Configs
  BY LockedFacts DEF Load, At, Procs, Owns
<1> DEFINE r == IF op[p].kind = "import" THEN [op[p] EXCEPT !.pc = "publish", !.copy = file]
                ELSE [op[p] EXCEPT !.pc = "save", !.copy = With(file, p)]
<1>1. With(file, p) \in Configs
  BY <1>0, SetType DEF With, OpStates
<1>2. r \in OpStates /\ Legal(p, r)
  BY <1>0, <1>1, ConfigAssumption DEF OpStates, Legal, Pcs
<1>3. op' = [op EXCEPT ![p] = r]
  BY DEF Load
<1>4. clash' \in BOOLEAN
  BY LockedFacts DEF Load
<1> HIDE DEF r
<1> QED BY <1>0, <1>2, <1>3, <1>4, LockedFacts, LockedStep DEF Load, Procs, disk, daemon, bounds

LEMMA SaveKeeps ==
  ASSUME LockedOK, NEW p \in Procs, Save(p)
  PROVE  LockedOK'
<1>0. op[p] \in OpStates /\ Legal(p, op[p]) /\ (p \in Api => (Owns(p) => holder = p))
  BY LockedFacts
<1>1. CASE Truncate(p)
  <2> DEFINE r == [op[p] EXCEPT !.pc = "write"]
  <2>1. r \in OpStates /\ Legal(p, r)
    BY <1>0, <1>1, ConfigAssumption DEF OpStates, Legal, Pcs, Truncate, At
  <2>2. op' = [op EXCEPT ![p] = r]
    BY <1>1 DEF Truncate, Goto
  <2>3. OwnsAt(r) => Owns(p)
    BY <1>0, <1>1 DEF OwnsAt, Owns, Truncate, At, OpStates
  <2> HIDE DEF r
  <2> QED BY <1>0, <1>1, <2>1, <2>2, <2>3, LockedFacts, LockedStep DEF Truncate, daemon, bounds
<1>2. CASE Write(p)
  <2> DEFINE r == IF p \in Cli THEN Idle
                  ELSE [op[p] EXCEPT !.pc = IF op[p].kind = "import" THEN "lock" ELSE "publish"]
  <2>1. r \in OpStates /\ Legal(p, r)
    BY <1>0, <1>2, FactoryType, ConfigAssumption DEF OpStates, Legal, Pcs, Write, At, Idle
  <2>2. op' = [op EXCEPT ![p] = r]
    BY <1>2 DEF Write, Goto, Finish
  <2>3. OwnsAt(r) /\ p \in Api => Owns(p)
    BY <1>0, <1>2, ConfigAssumption DEF OwnsAt, Owns, Write, At, OpStates, Idle, Procs
  <2>4. file' \in Configs /\ done' \in Configs
    BY <1>0, <1>2, LockedFacts, SetType DEF Write, With, OpStates
  <2> HIDE DEF r
  <2> QED BY <1>0, <1>2, <2>1, <2>2, <2>3, <2>4, LockedFacts, LockedStep DEF Write, daemon, bounds
<1> QED BY <1>1, <1>2 DEF Save

LEMMA PublishKeeps ==
  ASSUME LockedOK, NEW p \in Api, Publish(p)
  PROVE  LockedOK'
<1>0. /\ op[p] \in OpStates /\ Legal(p, op[p]) /\ op[p].pc = "publish" /\ holder = p
      /\ cfg \in Configs /\ dead \in SUBSET (0 .. MaxEdits)
  BY LockedFacts DEF Publish, At, Procs, Owns
<1>1. cfg' \in Configs
  BY <1>0, SetType DEF Publish, With, OpStates
<1>2. dead' \in SUBSET (0 .. MaxEdits)
  BY <1>0 DEF Publish, Configs, Fields
<1>3. Idle \in OpStates /\ Legal(p, Idle) /\ ~OwnsAt(Idle)
  BY FactoryType, ConfigAssumption DEF Legal, OwnsAt, Idle, ApiKinds
<1>4. \A q \in Api \ {p} : ~Owns(q)
  BY <1>0, LockedFacts
<1> QED BY <1>1, <1>2, <1>3, <1>4, LockedFacts, LockedStep DEF Publish, Finish, Procs, disk, bounds

LEMMA CommandKeeps ==
  ASSUME LockedOK, NEW p \in Cli, NEW k \in CliKinds, Command(p, k)
  PROVE  LockedOK'
<1> DEFINE r == [pc |-> "save", kind |-> k, new |-> edits + 1, copy |-> Set(file, k, edits + 1)]
<1>0. p \notin Api /\ file \in Configs /\ edits \in 0 .. MaxEdits /\ edits < MaxEdits
  BY ConfigAssumption, LockedFacts DEF Command
<1>1. edits + 1 \in 0 .. MaxEdits
  BY <1>0, ConfigAssumption
<1>2. r \in OpStates /\ Legal(p, r)
  BY <1>0, <1>1, SetType DEF OpStates, Legal, Pcs
<1>3. op' = [op EXCEPT ![p] = r]
  BY DEF Command
<1>4. clash' \in BOOLEAN
  BY LockedFacts DEF Command
<1> HIDE DEF r
<1> QED BY <1>0, <1>1, <1>2, <1>3, <1>4, LockedFacts, LockedStep DEF Command, Procs, disk, daemon

LEMMA CommandDiesKeeps ==
  ASSUME LockedOK, NEW p \in Cli, CommandDies(p)
  PROVE  LockedOK'
<1>1. Idle \in OpStates /\ Legal(p, Idle) /\ ~OwnsAt(Idle)
  BY FactoryType, ConfigAssumption DEF Legal, OwnsAt, Idle, ApiKinds
<1> QED BY <1>1, LockedFacts, LockedStep DEF CommandDies, Finish, Procs, disk, daemon, bounds

LEMMA CrashKeeps ==
  ASSUME LockedOK, Crash
  PROVE  LockedOK'
<1>1. op' \in [Procs -> OpStates]
  BY FactoryType, LockedFacts DEF Crash
<1>2. /\ \A p \in Api : op'[p] = Idle
      /\ \A p \in Cli : op'[p] = op[p]
  BY ConfigAssumption DEF Crash, Procs
<1>3. KindInv' /\ MutexInv'
  BY <1>2 DEF LockedOK, KindInv, MutexInv, Owns, Idle, ApiKinds
<1>4. TypeOK'
  <2>1. \A q \in Api : ~(At(q, "load")' \/ At(q, "publish")')
    BY <1>2 DEF At, Idle
  <2>2. faults' \in 0 .. MaxFaults
    BY LockedFacts, ConfigAssumption DEF Crash
  <2> QED BY <1>1, <2>1, <2>2, LockedFacts DEF Crash, TypeOK, OpStates, disk
<1> QED BY <1>3, <1>4 DEF LockedOK

LEMMA RestartKeeps ==
  ASSUME LockedOK, Restart
  PROVE  LockedOK'
BY DEF LockedOK, TypeOK, KindInv, MutexInv, Owns, At, Restart, disk, bounds

\* Of all threads of the daemon only the holder of a.mu is between the load of the file and
\* the publication of what it saved (api.go:185-190, 552-557), and all values keep their kinds.
THEOREM MutualExclusion == Spec => [](TypeOK /\ KindInv /\ MutexInv)
<1>1. LockedOK /\ [Next]_vars => LockedOK'
  <2> SUFFICES ASSUME LockedOK, [Next]_vars PROVE LockedOK'
    OBVIOUS
  <2>1. CASE UNCHANGED vars
    BY <2>1 DEF vars, LockedOK, TypeOK, KindInv, MutexInv, Owns, At
  <2>2. ASSUME NEW p \in Api, Serve(p) PROVE LockedOK'
    BY <2>2, GuardKeeps, LockKeeps, LoadDiesKeeps, LoadKeeps, SaveKeeps, PublishKeeps
       DEF Serve, Procs
  <2>3. ASSUME NEW p \in Cli, Save(p) \/ CommandDies(p) \/ \E k \in CliKinds : Command(p, k)
        PROVE  LockedOK'
    BY <2>3, SaveKeeps, CommandDiesKeeps, CommandKeeps DEF Procs
  <2> QED BY <2>1, <2>2, <2>3, ArriveKeeps, CrashKeeps, RestartKeeps DEF Next
<1> QED BY <1>1, InitKeeps, PTL DEF Spec, LockedOK

(***************************************************************************)
(* The values.  Without a clash, whoever is about to save has the only     *)
(* copy, and it is the file with one field changed.  A value on its way    *)
(* into the token field is nobody else's, and is in the file only after    *)
(* its maker wrote it there.                                               *)
(***************************************************************************)
Writing(p) == op[p].pc \in {"save", "write"}

\* p carries a new token: a regeneration, or `init --force`.
MakesToken(p) ==
  /\ op[p].pc \in {"lock", "load", "save", "write", "publish"}
  /\ op[p].kind \in {"token", "cliInit"}

\* p is an import that read the bundle's file and has not published it.
Adopts(p) == p \in Api /\ op[p].pc = "publish" /\ op[p].kind = "import"

\* Values are handed out in order, each once.
ValuesInv ==
  /\ file["token"] <= edits /\ cfg["token"] <= edits
  /\ \A d \in dead : d <= edits
  /\ \A p \in Procs : op[p].new <= edits /\ op[p].copy["token"] <= edits
  /\ \A p, q \in Procs : p # q /\ MakesToken(p) /\ MakesToken(q) => op[p].new # op[q].new

CopyInv ==
  /\ file = done
  /\ \A p, q \in Procs : Writing(p) /\ Writing(q) => p = q
  /\ \A p \in Procs : Writing(p) =>
       op[p].copy = IF op[p].kind = "import" THEN file ELSE With(file, p)

TokenInv ==
  /\ cfg["token"] \notin dead /\ file["token"] \notin dead
  /\ \A p \in Procs : MakesToken(p) => op[p].new \notin dead \cup {cfg["token"]}
  /\ \A p \in Procs : MakesToken(p) /\ op[p].pc # "publish" => op[p].new # file["token"]
  /\ \A p \in Procs : MakesToken(p) /\ op[p].pc = "publish" => file["token"] # cfg["token"]
  /\ \A p \in Procs : Adopts(p) =>
       /\ op[p].copy["token"] \notin dead
       /\ \A q \in Procs : MakesToken(q) => op[q].new # op[p].copy["token"]

Consistent == ValuesInv /\ (~clash => CopyInv /\ TokenInv)

\* What a change does to the token field.
LEMMA SetToken ==
  ASSUME NEW c \in Configs, NEW k \in ApiKinds \cup CliKinds, NEW n
  PROVE  Set(c, k, n)["token"] = IF k \in {"token", "cliInit"} THEN n ELSE c["token"]
<1>1. CASE k = "token"
  BY <1>1 DEF Set, FieldOf, Configs, Fields, ApiKinds, CliKinds
<1>2. CASE k = "cliInit"
  BY <1>2 DEF Set, Fields
<1>3. CASE k \notin {"token", "cliInit"}
  <2>1. FieldOf[k] # "token"
    BY <1>3 DEF FieldOf, ApiKinds, CliKinds
  <2> QED BY <1>3, <2>1 DEF Set, Configs, Fields
<1> QED BY <1>1, <1>2, <1>3

\* The numbers the values are.
LEMMA ValueTypes ==
  ASSUME LockedOK
  PROVE  /\ file \in Configs /\ cfg \in Configs /\ edits \in Int
         /\ file["token"] \in Int /\ cfg["token"] \in Int /\ \A d \in dead : d \in Int
         /\ \A p \in Procs : /\ op[p] \in OpStates /\ op[p].new \in Int
                             /\ op[p].copy \in Configs /\ op[p].copy["token"] \in Int
BY LockedFacts DEF OpStates, Configs, Fields

LEMMA InitConsistent == Init => Consistent
<1> SUFFICES ASSUME Init PROVE Consistent
  OBVIOUS
<1>1. \A p \in Procs : op[p] = Idle
  BY DEF Init
<1> QED BY <1>1 DEF Init, Consistent, ValuesInv, CopyInv, TokenInv, Writing, MakesToken, Adopts,
     Idle, Factory, Fields

\* What a step of p leaves the others.
LEMMA Others ==
  ASSUME NEW p \in Procs, \A q \in Procs : q # p => op'[q] = op[q], file' = file
  PROVE  \A q \in Procs \ {p} :
           /\ op'[q] = op[q]
           /\ Writing(q)' <=> Writing(q)
           /\ Adopts(q)' <=> Adopts(q)
           /\ MakesToken(q)' <=> MakesToken(q)
           /\ With(file, q)' = With(file, q)
<1> TAKE q \in Procs \ {p}
<1>1. op'[q] = op[q]
  OBVIOUS
<1>2. Writing(q)' <=> Writing(q)
  BY <1>1 DEF Writing
<1>3. Adopts(q)' <=> Adopts(q)
  BY <1>1 DEF Adopts
<1>4. MakesToken(q)' <=> MakesToken(q)
  BY <1>1 DEF MakesToken
<1>5. With(file, q)' = With(file, q)
  BY <1>1 DEF With
<1> QED BY <1>1, <1>2, <1>3, <1>4, <1>5

\* A step after which p neither writes, makes a new token nor adopts a configuration, and
\* which leaves file, configuration and the other processes alone.
LEMMA LetGo ==
  ASSUME LockedOK, Consistent, NEW p \in Procs, \A q \in Procs : q # p => op'[q] = op[q],
         UNCHANGED <<file, done, cfg, dead, edits, clash>>,
         ~Writing(p)', ~Adopts(p)',
         MakesToken(p)' => MakesToken(p) /\ op[p].pc # "publish" /\ op'[p].pc # "publish"
                           /\ op'[p].new = op[p].new,
         op'[p].new <= edits, op'[p].copy["token"] <= edits
  PROVE  Consistent'
<1>1. \A q \in Procs \ {p} :
           /\ op'[q] = op[q]
           /\ Writing(q)' <=> Writing(q)
           /\ Adopts(q)' <=> Adopts(q)
           /\ MakesToken(q)' <=> MakesToken(q)
           /\ With(file, q)' = With(file, q)
  BY Others
<1>2. ValuesInv'
  BY <1>1 DEF Consistent, ValuesInv
<1>3. ~clash' => CopyInv'
  BY <1>1 DEF Consistent, CopyInv
<1>4. ~clash' => TokenInv'
  BY <1>1 DEF Consistent, TokenInv
<1> QED BY <1>2, <1>3, <1>4 DEF Consistent

\* An operation that is over.
LEMMA EndConsistent ==
  ASSUME LockedOK, Consistent, NEW p \in Procs, Finish(p),
         UNCHANGED <<file, done, cfg, dead, edits, clash>>
  PROVE  Consistent'
<1>1. op'[p] = Idle /\ \A q \in Procs : q # p => op'[q] = op[q]
  BY FactoryType, OpUpdate DEF LockedOK, Finish
<1>2. 0 <= edits
  BY LockedFacts, ConfigAssumption
<1> QED BY <1>1, <1>2, LetGo DEF Idle, Factory, Fields, Writing, Adopts, MakesToken

LEMMA ArriveConsistent ==
  ASSUME LockedOK, Consistent, NEW p \in Api, NEW k \in ApiKinds, Arrive(p, k)
  PROVE  Consistent'
<1> DEFINE r == [Idle EXCEPT !.pc = "guard", !.kind = k]
<1>1. r \in OpStates
  BY FactoryType DEF OpStates, Idle, Pcs
<1>2. op'[p] = r /\ \A q \in Procs : q # p => op'[q] = op[q]
  <2> HIDE DEF r
  <2> QED BY <1>1, OpUpdate DEF LockedOK, Arrive, r, Procs
<1>3. 0 <= edits
  BY LockedFacts, ConfigAssumption
<1>4. UNCHANGED <<file, done, cfg, dead, edits, clash>>
  BY DEF Arrive, disk, daemon, bounds
<1>5. /\ op'[p].pc = "guard" /\ op'[p].new = 0 /\ op'[p].copy["token"] = 0
  BY <1>2 DEF Idle, Factory, Fields
<1>6. ~Writing(p)' /\ ~Adopts(p)' /\ ~MakesToken(p)'
  BY <1>5 DEF Writing, Adopts, MakesToken
<1> QED BY <1>2, <1>3, <1>4, <1>5, <1>6, LetGo DEF Procs

\* The new value of a regeneration is everybody's last.
LEMMA NewValue ==
  ASSUME LockedOK, Consistent, NEW p \in Procs, \A q \in Procs : q # p => op'[q] = op[q],
         UNCHANGED <<file, done, cfg, dead>>, edits' = edits + 1, op'[p].new = edits + 1,
         ~clash' => ~clash,
         op'[p].copy["token"] <= edits + 1,
         ~Adopts(p)', MakesToken(p)' => op'[p].pc # "publish",
         Writing(p)' /\ ~clash' => /\ op'[p].kind # "import"
                                  /\ op'[p].copy = With(file, p)'
                                  /\ \A q \in Procs \ {p} : ~Writing(q)
  PROVE  Consistent'
<1>1. \A q \in Procs \ {p} :
           /\ op'[q] = op[q]
           /\ Writing(q)' <=> Writing(q)
           /\ Adopts(q)' <=> Adopts(q)
           /\ MakesToken(q)' <=> MakesToken(q)
           /\ With(file, q)' = With(file, q)
  BY Others
<1>2. \A q \in Procs : op[q].new < edits + 1 /\ op[q].copy["token"] < edits + 1
  BY ValueTypes DEF Consistent, ValuesInv
<1>3. cfg["token"] < edits + 1 /\ file["token"] < edits + 1 /\ \A d \in dead : d < edits + 1
  BY ValueTypes DEF Consistent, ValuesInv
<1>4. ValuesInv'
  <2>1. file'["token"] <= edits' /\ cfg'["token"] <= edits' /\ \A d \in dead' : d <= edits'
    BY <1>3, ValueTypes
  <2>2. \A q \in Procs : op'[q].new <= edits' /\ op'[q].copy["token"] <= edits'
    BY <1>1, <1>2, ValueTypes
  <2>3. \A q, o \in Procs : q # o /\ MakesToken(q)' /\ MakesToken(o)' => op'[q].new # op'[o].new
    BY <1>1, <1>2, ValueTypes DEF Consistent, ValuesInv
  <2> QED BY <2>1, <2>2, <2>3 DEF ValuesInv
<1>5. ~clash' => CopyInv'
  BY <1>1 DEF Consistent, CopyInv
<1>6. ~clash' => TokenInv'
  BY <1>1, <1>2, <1>3, ValueTypes DEF Consistent, TokenInv, Adopts
<1> QED BY <1>4, <1>5, <1>6 DEF Consistent

LEMMA GuardConsistent ==
  ASSUME LockedOK, Consistent, NEW p \in Api, Guard(p)
  PROVE  Consistent'
<1>0. /\ op[p].pc = "guard" /\ UNCHANGED <<disk, daemon, faults>> /\ p \in Procs
      /\ op[p] \in OpStates /\ op[p].kind \in ApiKinds /\ op[p].new <= edits
      /\ op[p].copy["token"] <= edits /\ cfg["token"] <= edits
  BY LockedFacts DEF Guard, At, Procs, Legal, Consistent, ValuesInv
<1>1. CASE Finish(p) /\ UNCHANGED <<edits, clash>>
  BY <1>0, <1>1, EndConsistent DEF disk, daemon
<1>2. CASE op[p].kind = "import" /\ Goto(p, "lock") /\ UNCHANGED <<edits, clash>>
  <2> DEFINE r == [op[p] EXCEPT !.pc = "lock"]
  <2>1. r \in OpStates /\ op' = [op EXCEPT ![p] = r]
    BY <1>0, <1>2 DEF OpStates, Pcs, Goto
  <2>2. op'[p] = r /\ \A q \in Procs : q # p => op'[q] = op[q]
    <3> HIDE DEF r
    <3> QED BY <1>0, <2>1, OpUpdate DEF LockedOK
  <2> QED BY <1>0, <1>2, <2>2, LetGo DEF OpStates, Writing, Adopts, MakesToken, disk, daemon
<1>3. CASE /\ op[p].kind \in {"token", "login"} /\ edits < MaxEdits
           /\ edits' = edits + 1
           /\ op' = [op EXCEPT ![p] = [@ EXCEPT !.pc = "lock", !.new = edits + 1]]
           /\ UNCHANGED clash
  <2> DEFINE r == [op[p] EXCEPT !.pc = "lock", !.new = edits + 1]
  <2>0. edits + 1 \in 0 .. MaxEdits
    BY <1>3, LockedFacts, ConfigAssumption
  <2>1. r \in OpStates /\ op' = [op EXCEPT ![p] = r]
    BY <1>0, <1>3, <2>0 DEF OpStates, Pcs
  <2>2. op'[p] = r /\ \A q \in Procs : q # p => op'[q] = op[q]
    <3> HIDE DEF r
    <3> QED BY <1>0, <2>1, OpUpdate DEF LockedOK
  <2>3. op'[p].pc = "lock" /\ op'[p].new = edits + 1 /\ op'[p].copy = op[p].copy
    BY <1>0, <2>2 DEF OpStates
  <2>4. op'[p].copy["token"] <= edits + 1
    BY <1>0, <2>3, ValueTypes
  <2>5. ~Writing(p)' /\ ~Adopts(p)'
    BY <2>3 DEF Writing, Adopts
  <2>6. UNCHANGED <<file, done, cfg, dead, clash>>
    BY <1>0, <1>3 DEF disk, daemon
  <2>7. /\ p \in Procs /\ edits' = edits + 1 /\ op'[p].new = edits + 1
        /\ (~clash' => ~clash) /\ op'[p].pc # "publish"
    BY <1>0, <1>3, <2>3
  <2> QED BY <2>2, <2>4, <2>5, <2>6, <2>7, NewValue
<1>4. CASE /\ op[p].kind = "import"
           /\ op' = [op EXCEPT ![p] = [@ EXCEPT !.pc = "save", !.copy = cfg]]
           /\ clash' = (clash \/ Contested(p) \/ cfg # file)
           /\ UNCHANGED edits
  <2> DEFINE r == [op[p] EXCEPT !.pc = "save", !.copy = cfg]
  <2>1. r \in OpStates /\ op' = [op EXCEPT ![p] = r]
    BY <1>0, <1>4, ValueTypes DEF OpStates, Pcs
  <2>2. op'[p] = r /\ \A q \in Procs : q # p => op'[q] = op[q]
    <3> HIDE DEF r
    <3> QED BY <1>0, <2>1, OpUpdate DEF LockedOK
  <2>3. /\ op'[p].pc = "save" /\ op'[p].kind = "import" /\ op'[p].new = op[p].new
        /\ op'[p].copy = cfg
    BY <1>0, <1>4, <2>2 DEF OpStates
  <2>a. Writing(p)' /\ ~Adopts(p)' /\ ~MakesToken(p)'
    BY <2>3 DEF Writing, Adopts, MakesToken
  <2>4. UNCHANGED <<file, done, cfg, dead, edits>>
    BY <1>0, <1>4 DEF disk, daemon
  <2>5. \A q \in Procs \ {p} :
           /\ op'[q] = op[q]
           /\ Writing(q)' <=> Writing(q)
           /\ Adopts(q)' <=> Adopts(q)
           /\ MakesToken(q)' <=> MakesToken(q)
           /\ With(file, q)' = With(file, q)
    BY <1>0, <2>2, <2>4, Others
  <2>6. ~clash' => ~clash /\ cfg = file /\ \A q \in Procs \ {p} : ~Writing(q)
    BY <1>4 DEF Contested, Writing
  <2>7. ValuesInv'
    BY <1>0, <2>3, <2>a, <2>4, <2>5 DEF Consistent, ValuesInv
  <2>8. ~clash' => CopyInv'
    BY <1>0, <2>3, <2>a, <2>4, <2>5, <2>6 DEF Consistent, CopyInv
  <2>9. ~clash' => TokenInv'
    BY <1>0, <2>3, <2>a, <2>4, <2>5, <2>6 DEF Consistent, TokenInv
  <2> QED BY <2>7, <2>8, <2>9 DEF Consistent
<1> QED BY <1>1, <1>2, <1>3, <1>4 DEF Guard

LEMMA LockConsistent ==
  ASSUME LockedOK, Consistent, NEW p \in Api, Lock(p)
  PROVE  Consistent'
<1> DEFINE r == [op[p] EXCEPT !.pc = "load"]
<1>1. op[p] \in OpStates /\ op[p].pc = "lock" /\ p \in Procs
      /\ op[p].new <= edits /\ op[p].copy["token"] <= edits
  BY LockedFacts DEF Lock, At, Procs, Consistent, ValuesInv
<1>2. r \in OpStates /\ op' = [op EXCEPT ![p] = r]
  BY <1>1 DEF Lock, Goto, OpStates, Pcs
<1>3. op'[p] = r /\ \A q \in Procs : q # p => op'[q] = op[q]
  <2> HIDE DEF r
  <2> QED BY <1>1, <1>2, OpUpdate DEF LockedOK
<1>4. UNCHANGED <<file, done, cfg, dead, edits, clash>>
  BY DEF Lock, disk, bounds
<1> QED BY <1>1, <1>3, <1>4, LetGo DEF OpStates, Writing, Adopts, MakesToken

LEMMA LoadConsistent ==
  ASSUME LockedOK, Consistent, NEW p \in Api, Load(p)
  PROVE  Consistent'
<1>0. /\ op[p].pc = "load" /\ p \in Procs /\ op[p] \in OpStates
      /\ op[p].kind \in {"token", "login", "import"} /\ op[p].new <= edits
      /\ file["token"] <= edits /\ holder = p
      /\ UNCHANGED <<file, done, cfg, dead, edits>>
  BY LockedFacts DEF Load, At, Procs, Legal, Owns, Consistent, ValuesInv, disk, daemon, bounds
<1>1. CASE op[p].kind = "import"
  <2> DEFINE r == [op[p] EXCEPT !.pc = "publish", !.copy = file]
  <2>1. r \in OpStates /\ op' = [op EXCEPT ![p] = r]
    BY <1>0, <1>1, ValueTypes DEF OpStates, Pcs, Load
  <2>2. op'[p] = r /\ \A q \in Procs : q # p => op'[q] = op[q]
    <3> HIDE DEF r
    <3> QED BY <1>0, <2>1, OpUpdate DEF LockedOK
  <2>3. /\ op'[p].pc = "publish" /\ op'[p].kind = "import" /\ op'[p].new = op[p].new
        /\ op'[p].copy = file
        /\ ~Writing(p)' /\ Adopts(p)' /\ ~MakesToken(p)'
    BY <1>0, <1>1, <2>2 DEF OpStates, Writing, Adopts, MakesToken
  <2>4. \A q \in Procs \ {p} :
           /\ op'[q] = op[q]
           /\ Writing(q)' <=> Writing(q)
           /\ Adopts(q)' <=> Adopts(q)
           /\ MakesToken(q)' <=> MakesToken(q)
           /\ With(file, q)' = With(file, q)
    BY <1>0, <2>2, Others
  <2>5. clash' = clash
    BY <1>1, LockedFacts DEF Load
  <2>6. \A q \in Procs \ {p} : MakesToken(q) => op[q].pc # "publish"
    BY <1>0, LockedFacts DEF Owns, Legal, Procs
  <2>7. ValuesInv'
    BY <1>0, <2>3, <2>4 DEF Consistent, ValuesInv
  <2>8. ~clash' => CopyInv'
    BY <1>0, <2>3, <2>4, <2>5 DEF Consistent, CopyInv
  <2>9. ~clash' => TokenInv'
    BY <1>0, <2>3, <2>4, <2>5, <2>6 DEF Consistent, TokenInv
  <2> QED BY <2>7, <2>8, <2>9 DEF Consistent
<1>2. CASE op[p].kind # "import"
  <2> DEFINE r == [op[p] EXCEPT !.pc = "save", !.copy = With(file, p)]
  <2>0. With(file, p) \in Configs /\ With(file, p)["token"] \in {file["token"], op[p].new}
    BY <1>0, SetType, SetToken, ValueTypes DEF With, OpStates
  <2>1. r \in OpStates /\ op' = [op EXCEPT ![p] = r]
    BY <1>0, <1>2, <2>0 DEF OpStates, Pcs, Load
  <2>2. op'[p] = r /\ \A q \in Procs : q # p => op'[q] = op[q]
    <3> HIDE DEF r
    <3> QED BY <1>0, <2>1, OpUpdate DEF LockedOK
  <2>3. /\ op'[p].pc = "save" /\ op'[p].kind = op[p].kind /\ op'[p].new = op[p].new
        /\ op'[p].copy = With(file, p)
    BY <1>0, <1>2, <2>2 DEF OpStates
  <2>4. /\ Writing(p)' /\ ~Adopts(p)' /\ (MakesToken(p)' <=> MakesToken(p))
        /\ With(file, p)' = With(file, p)
    BY <1>0, <1>2, <2>3 DEF Writing, Adopts, MakesToken, With
  <2>5. \A q \in Procs \ {p} :
           /\ op'[q] = op[q]
           /\ Writing(q)' <=> Writing(q)
           /\ Adopts(q)' <=> Adopts(q)
           /\ MakesToken(q)' <=> MakesToken(q)
           /\ With(file, q)' = With(file, q)
    BY <1>0, <2>2, Others
  <2>6. ~clash' => ~clash /\ \A q \in Procs \ {p} : ~Writing(q)
    BY <1>2 DEF Load, Contested, Writing
  <2>7. ValuesInv'
    BY <1>0, <2>0, <2>3, <2>4, <2>5 DEF Consistent, ValuesInv
  <2>8. ~clash' => CopyInv'
    BY <1>0, <1>2, <2>3, <2>4, <2>5, <2>6 DEF Consistent, CopyInv
  <2>9. ~clash' => TokenInv'
    BY <1>0, <2>3, <2>4, <2>5, <2>6 DEF Consistent, TokenInv
  <2> QED BY <2>7, <2>8, <2>9 DEF Consistent
<1> QED BY <1>1, <1>2

LEMMA TruncateConsistent ==
  ASSUME LockedOK, Consistent, NEW p \in Procs, Truncate(p)
  PROVE  Consistent'
<1> DEFINE r == [op[p] EXCEPT !.pc = "write"]
<1>0. op[p] \in OpStates /\ op[p].pc = "save"
  BY LockedFacts DEF Truncate, At
<1>1. r \in OpStates /\ op' = [op EXCEPT ![p] = r]
  BY <1>0 DEF Truncate, Goto, OpStates, Pcs
<1>2. op'[p] = r /\ \A q \in Procs : q # p => op'[q] = op[q]
  <2> HIDE DEF r
  <2> QED BY <1>1, OpUpdate DEF LockedOK
<1>3. /\ op'[p].pc = "write" /\ op'[p].kind = op[p].kind /\ op'[p].new = op[p].new
      /\ op'[p].copy = op[p].copy
  BY <1>0, <1>2 DEF OpStates
<1>4. UNCHANGED <<file, done, cfg, dead, edits, clash>>
  BY DEF Truncate, daemon, bounds
<1>5. \A q \in Procs :
        /\ op'[q].new = op[q].new /\ op'[q].copy = op[q].copy /\ op'[q].kind = op[q].kind
        /\ (op'[q].pc = "publish" <=> op[q].pc = "publish")
  BY <1>0, <1>2, <1>3
<1>6. \A q \in Procs :
        /\ Writing(q)' <=> Writing(q)
        /\ Adopts(q)' <=> Adopts(q)
        /\ MakesToken(q)' <=> MakesToken(q)
        /\ With(file, q)' = With(file, q)
  BY <1>0, <1>2, <1>3, <1>4 DEF Writing, Adopts, MakesToken, With
<1> HIDE DEF r
<1>7. ValuesInv'
  BY <1>4, <1>5, <1>6 DEF Consistent, ValuesInv
<1>8. ~clash' => CopyInv'
  BY <1>4, <1>5, <1>6 DEF Consistent, CopyInv
<1>9. ~clash' => TokenInv'
  BY <1>4, <1>5, <1>6 DEF Consistent, TokenInv
<1> QED BY <1>7, <1>8, <1>9 DEF Consistent

\* The writer's copy becomes the file: nobody else has one, so nothing is lost.
LEMMA WriteConsistent ==
  ASSUME LockedOK, Consistent, NEW p \in Procs, Write(p)
  PROVE  Consistent'
<1> DEFINE r == IF p \in Cli THEN Idle
                ELSE [op[p] EXCEPT !.pc = IF op[p].kind = "import" THEN "lock" ELSE "publish"]
<1>0. /\ op[p] \in OpStates /\ Legal(p, op[p]) /\ op[p].pc = "write" /\ Writing(p)
      /\ op[p].new <= edits /\ op[p].copy["token"] <= edits /\ 0 <= edits
  BY LockedFacts, ConfigAssumption DEF Write, At, Writing, Consistent, ValuesInv
<1>1. r \in OpStates /\ op' = [op EXCEPT ![p] = r]
  BY <1>0, FactoryType DEF Write, Goto, Finish, OpStates, Pcs
<1>2. op'[p] = r /\ \A q \in Procs : q # p => op'[q] = op[q]
  <2> HIDE DEF r
  <2> QED BY <1>1, OpUpdate DEF LockedOK
<1>4. /\ op'[p].pc \in {"idle", "lock", "publish"}
      /\ op'[p].pc = "lock" => op[p].kind = "import" /\ op'[p].kind = "import"
      /\ op'[p].pc = "publish" => /\ op[p].kind # "import" /\ op'[p].kind = op[p].kind
                                 /\ op'[p].new = op[p].new
      /\ op'[p].new <= edits /\ op'[p].copy["token"] <= edits
  <2>1. CASE p \in Cli
    BY <1>0, <1>2, <2>1 DEF Idle, Factory, Fields
  <2>2. CASE p \notin Cli
    BY <1>0, <1>2, <2>2 DEF OpStates
  <2> QED BY <2>1, <2>2
<1> HIDE DEF r
<1>5. ~Writing(p)' /\ ~Adopts(p)'
      /\ (MakesToken(p)' => MakesToken(p) /\ op'[p].pc = "publish" /\ op'[p].new = op[p].new)
  BY <1>0, <1>4 DEF Writing, Adopts, MakesToken
<1>6. \A q \in Procs \ {p} :
           /\ op'[q] = op[q]
           /\ Writing(q)' <=> Writing(q)
           /\ Adopts(q)' <=> Adopts(q)
           /\ MakesToken(q)' <=> MakesToken(q)
  BY <1>2 DEF Writing, Adopts, MakesToken
<1>7. /\ file' = op[p].copy /\ UNCHANGED <<cfg, dead, edits, clash>>
      /\ done' = IF op[p].kind = "import" THEN done ELSE With(done, p)
  BY DEF Write, daemon, bounds
<1>8. ValuesInv'
  BY <1>0, <1>4, <1>5, <1>6, <1>7 DEF Consistent, ValuesInv
<1>9. ASSUME ~clash' PROVE CopyInv' /\ TokenInv'
  <2>1. CopyInv /\ TokenInv
    BY <1>7, <1>9 DEF Consistent
  <2>2. \A q \in Procs \ {p} : ~Writing(q)
    BY <1>0, <2>1 DEF CopyInv
  <2>3. file' = IF op[p].kind = "import" THEN file ELSE With(file, p)
    BY <1>0, <1>7, <2>1 DEF CopyInv
  <2>4. CopyInv'
    BY <1>5, <1>6, <1>7, <2>1, <2>2, <2>3 DEF CopyInv
  <2>5. file'["token"] = IF MakesToken(p) THEN op[p].new ELSE file["token"]
    <3>1. With(file, p)["token"] = IF op[p].kind \in {"token", "cliInit"} THEN op[p].new ELSE file["token"]
      BY <1>0, SetToken, ValueTypes DEF With, OpStates
    <3> QED BY <1>0, <2>3, <3>1 DEF MakesToken
  <2>6. /\ cfg'["token"] \notin dead' /\ file'["token"] \notin dead'
        /\ MakesToken(p)' => op'[p].new \notin dead' \cup {cfg'["token"]}
        /\ MakesToken(p)' => file'["token"] # cfg'["token"]
    BY <1>5, <1>7, <2>1, <2>5 DEF TokenInv
  <2>7. \A q \in Procs \ {p} : MakesToken(q) =>
          /\ op[q].pc # "publish" => op[q].new # file'["token"]
          /\ op[q].pc = "publish" => file'["token"] # cfg["token"]
    BY <1>0, <2>1, <2>5 DEF TokenInv, Consistent, ValuesInv
  <2>8. TokenInv'
    BY <1>5, <1>6, <1>7, <2>1, <2>6, <2>7 DEF TokenInv
  <2> QED BY <2>4, <2>8
<1> QED BY <1>8, <1>9 DEF Consistent

LEMMA CommandConsistent ==
  ASSUME LockedOK, Consistent, NEW p \in Cli, NEW k \in CliKinds, Command(p, k)
  PROVE  Consistent'
<1> DEFINE r == [pc |-> "save", kind |-> k, new |-> edits + 1, copy |-> Set(file, k, edits + 1)]
<1>0. p \in Procs /\ p \notin Api /\ edits + 1 \in 0 .. MaxEdits /\ edits' = edits + 1
  BY LockedFacts, ConfigAssumption DEF Command, Procs
<1>1. Set(file, k, edits + 1) \in Configs
      /\ Set(file, k, edits + 1)["token"] \in {file["token"], edits + 1}
  BY <1>0, ValueTypes, SetType, SetToken
<1>2. r \in OpStates /\ op' = [op EXCEPT ![p] = r]
  BY <1>0, <1>1 DEF Command, OpStates, Pcs
<1>3. op'[p] = r /\ \A q \in Procs : q # p => op'[q] = op[q]
  <2> HIDE DEF r
  <2> QED BY <1>0, <1>2, OpUpdate DEF LockedOK
<1>4. /\ op'[p].pc = "save" /\ op'[p].kind = k /\ op'[p].new = edits + 1
      /\ op'[p].copy = Set(file, k, edits + 1)
  BY <1>3
<1> HIDE DEF r
<1>5. op'[p].copy["token"] <= edits + 1
  BY <1>1, <1>4, ValueTypes DEF Consistent, ValuesInv
<1>6. UNCHANGED <<file, done, cfg, dead>> /\ clash' = (clash \/ Contested(p))
  BY DEF Command, disk, daemon
<1>7. ~clash' => ~clash /\ \A q \in Procs \ {p} : ~Writing(q)
  BY <1>6 DEF Contested, Writing
<1>8. op'[p].copy = With(file, p)' /\ op'[p].kind # "import"
  BY <1>4, <1>6 DEF With, CliKinds
<1>9. ~Adopts(p)'
  BY <1>4 DEF Adopts
<1>10. op'[p].pc # "publish" /\ op'[p].new = edits + 1 /\ (~clash' => ~clash)
  BY <1>4, <1>7
<1>11. UNCHANGED <<file, done, cfg, dead>>
  BY <1>6
<1> QED BY <1>0, <1>3, <1>5, <1>7, <1>8, <1>9, <1>10, <1>11, NewValue

\* The new configuration is a.cfg, the token it replaces is dead.
LEMMA PublishConsistent ==
  ASSUME LockedOK, Consistent, NEW p \in Api, Publish(p)
  PROVE  Consistent'
<1>0. /\ p \in Procs /\ op[p] \in OpStates /\ op[p].pc = "publish"
      /\ op[p].new <= edits /\ op[p].copy["token"] <= edits /\ 0 <= edits
      /\ op[p].kind \in {"token", "login", "import"} /\ holder = p
  BY LockedFacts, ConfigAssumption DEF Publish, At, Procs, Legal, Owns, Consistent, ValuesInv
<1>1. op'[p] = Idle /\ \A q \in Procs : q # p => op'[q] = op[q]
  BY <1>0, FactoryType, OpUpdate DEF LockedOK, Publish, Finish
<1>2. op'[p].pc = "idle" /\ op'[p].new = 0 /\ op'[p].copy["token"] = 0
  BY <1>1 DEF Idle, Factory, Fields
<1>3. ~Writing(p)' /\ ~Adopts(p)' /\ ~MakesToken(p)'
  BY <1>2 DEF Writing, Adopts, MakesToken
<1>4. UNCHANGED <<file, done, edits, clash>>
  BY DEF Publish, disk, bounds
<1>5. \A q \in Procs \ {p} :
           /\ op'[q] = op[q]
           /\ Writing(q)' <=> Writing(q)
           /\ Adopts(q)' <=> Adopts(q)
           /\ MakesToken(q)' <=> MakesToken(q)
           /\ With(file, q)' = With(file, q)
  BY <1>0, <1>1, <1>4, Others
<1>6. dead' = IF op[p].kind = "token" THEN dead \cup {cfg["token"]} ELSE dead
  BY DEF Publish
<1>7. cfg'["token"] = CASE op[p].kind = "import" -> op[p].copy["token"]
                       [] op[p].kind = "token" -> op[p].new
                       [] op[p].kind = "login" -> cfg["token"]
  <2>1. op[p].kind # "import" =>
          With(cfg, p)["token"] = IF op[p].kind \in {"token", "cliInit"} THEN op[p].new ELSE cfg["token"]
    BY <1>0, SetToken, ValueTypes DEF With, OpStates
  <2> QED BY <1>0, <2>1 DEF Publish
<1>8. \A q \in Procs \ {p} : ~Adopts(q) /\ (MakesToken(q) => op[q].pc # "publish")
  BY <1>0, LockedFacts DEF Owns, Legal, Procs, Adopts, MakesToken
<1>9. ValuesInv'
  BY <1>0, <1>2, <1>3, <1>4, <1>5, <1>6, <1>7 DEF Consistent, ValuesInv
<1>10. ~clash' => CopyInv'
  BY <1>3, <1>4, <1>5 DEF Consistent, CopyInv
<1>11. ASSUME ~clash' PROVE TokenInv'
  <2>1. CopyInv /\ TokenInv
    BY <1>4, <1>11 DEF Consistent
  <2>2. MakesToken(p) <=> op[p].kind = "token"
    BY <1>0 DEF MakesToken
  <2>3. Adopts(p) <=> op[p].kind = "import"
    BY <1>0 DEF Adopts
  <2>4. cfg'["token"] \notin dead'
    BY <1>0, <1>6, <1>7, <2>1, <2>2, <2>3 DEF TokenInv
  <2>5. file["token"] \notin dead'
    BY <1>0, <1>6, <2>1, <2>2 DEF TokenInv
  <2>6. \A q \in Procs \ {p} : MakesToken(q) => op[q].new \notin dead' \cup {cfg'["token"]}
    <3>1. \A q \in Procs \ {p} : MakesToken(q) => op[q].new \notin dead'
      BY <1>6, <2>1 DEF TokenInv
    <3>2. \A q \in Procs \ {p} : MakesToken(q) => op[q].new # cfg'["token"]
      BY <1>0, <1>7, <2>1, <2>2, <2>3 DEF TokenInv, Consistent, ValuesInv
    <3> QED BY <3>1, <3>2
  <2> QED BY <1>3, <1>4, <1>5, <1>8, <2>1, <2>4, <2>5, <2>6 DEF TokenInv
<1> QED BY <1>9, <1>10, <1>11 DEF Consistent

\* Commands outlive the daemon; its handlers' values are gone with it.
LEMMA CrashConsistent ==
  ASSUME LockedOK, Consistent, Crash
  PROVE  Consistent'
<1>1. /\ \A p \in Api : op'[p] = Idle
      /\ \A p \in Cli : op'[p] = op[p] /\ p \notin Api
  BY ConfigAssumption DEF Crash, Procs
<1>2. \A p \in Api : op'[p].new = 0 /\ op'[p].copy["token"] = 0 /\ op'[p].pc = "idle"
  BY <1>1 DEF Idle, Factory, Fields
<1>3. UNCHANGED <<file, done, cfg, dead, edits, clash>> /\ 0 <= edits
  BY LockedFacts, ConfigAssumption DEF Crash, disk
<1>4. \A p \in Api : ~Writing(p)' /\ ~Adopts(p)' /\ ~MakesToken(p)'
  BY <1>2 DEF Writing, Adopts, MakesToken
<1>5. ASSUME NEW p \in Cli
      PROVE  /\ Writing(p)' <=> Writing(p)
             /\ ~Adopts(p)'
             /\ MakesToken(p)' <=> MakesToken(p)
             /\ With(file, p)' = With(file, p)
  <2>1. op'[p] = op[p] /\ p \notin Api
    BY <1>1
  <2>2. Writing(p)' <=> Writing(p)
    BY <2>1 DEF Writing
  <2>3. ~Adopts(p)'
    BY <2>1 DEF Adopts
  <2>4. MakesToken(p)' <=> MakesToken(p)
    BY <2>1 DEF MakesToken
  <2>5. With(file, p)' = With(file, p)
    BY <1>3, <2>1 DEF With
  <2> QED BY <2>2, <2>3, <2>4, <2>5
<1>6. ASSUME NEW p \in Procs
      PROVE  /\ Writing(p)' => Writing(p) /\ op'[p] = op[p] /\ With(file, p)' = With(file, p)
             /\ ~Adopts(p)'
             /\ MakesToken(p)' => MakesToken(p) /\ op'[p] = op[p]
             /\ op'[p].new <= edits /\ op'[p].copy["token"] <= edits
  <2>1. CASE p \in Api
    BY <1>2, <1>3, <1>4, <2>1
  <2>2. CASE p \in Cli
    BY <1>1, <1>5, <2>2 DEF Consistent, ValuesInv
  <2> QED BY <2>1, <2>2 DEF Procs
<1>7. ValuesInv'
  BY <1>3, <1>6 DEF Consistent, ValuesInv
<1>8. ~clash' => CopyInv'
  BY <1>3, <1>6 DEF Consistent, CopyInv
<1>9. ~clash' => TokenInv'
  BY <1>3, <1>6 DEF Consistent, TokenInv
<1> QED BY <1>7, <1>8, <1>9 DEF Consistent

\* A daemon that is down has no threads.
DownInv == ~up => \A p \in Api : op[p].pc = "idle"

LEMMA DownStep ==
  ASSUME LockedOK, DownInv, [Next]_vars
  PROVE  DownInv'
<1> SUFFICES ASSUME ~up', NEW q \in Api PROVE op'[q].pc = "idle"
  BY DEF DownInv
<1> USE DEF daemon
<1>1. CASE UNCHANGED vars
  BY <1>1 DEF vars, DownInv
<1>2. CASE Crash
  BY <1>2 DEF Crash, Procs, Idle
<1>3. CASE Restart
  BY <1>3 DEF Restart
<1>4. ASSUME NEW p \in Api, NEW k \in ApiKinds, Arrive(p, k) PROVE FALSE
  BY <1>4 DEF Arrive
<1>5. ASSUME NEW p \in Api, Serve(p) PROVE FALSE
  <2>1. up' = up
    BY <1>5 DEF Serve, Guard, Lock, LoadDies, Load, Save, Truncate, Write, Publish
  <2>2. op[p].pc # "idle"
    BY <1>5 DEF Serve, Guard, Lock, LoadDies, Load, Save, Truncate, Write, Publish, At
  <2> QED BY <2>1, <2>2 DEF DownInv
<1>6. ASSUME NEW p \in Cli, Save(p) \/ CommandDies(p) \/ \E k \in CliKinds : Command(p, k)
      PROVE  op'[q].pc = "idle"
  <2>1. q # p /\ q \in Procs /\ op \in [Procs -> OpStates]
    BY ConfigAssumption DEF Procs, LockedOK, TypeOK, OpStates
  <2>2. up' = up
    BY <1>6 DEF Save, Truncate, Write, CommandDies, Command
  <2>3. op'[q] = op[q]
    BY <1>6, <2>1 DEF Save, Truncate, Write, CommandDies, Command, Goto, Finish
  <2> QED BY <2>2, <2>3 DEF DownInv
<1> QED BY <1>1, <1>2, <1>3, <1>4, <1>5, <1>6 DEF Next

\* The daemon starts with the file as its configuration.
LEMMA RestartConsistent ==
  ASSUME LockedOK, DownInv, Consistent, Restart
  PROVE  Consistent'
<1>1. UNCHANGED <<file, done, dead, edits, clash, op>> /\ cfg' = file
  BY DEF Restart, disk, bounds
<1>2. ASSUME NEW p \in Procs
      PROVE  /\ Writing(p)' <=> Writing(p)
             /\ ~Adopts(p)'
             /\ MakesToken(p)' <=> MakesToken(p)
             /\ MakesToken(p) => op[p].pc # "publish"
             /\ With(file, p)' = With(file, p)
  <2>1. p \in Api => op[p].pc = "idle"
    BY DEF DownInv, Restart
  <2>2. p \in Cli => op[p].pc # "publish"
    BY DEF LockedOK, KindInv
  <2>3. Writing(p)' <=> Writing(p)
    BY <1>1 DEF Writing
  <2>4. ~Adopts(p)'
    BY <1>1, <2>1 DEF Adopts
  <2>5. MakesToken(p)' <=> MakesToken(p)
    BY <1>1 DEF MakesToken
  <2>6. MakesToken(p) => op[p].pc # "publish"
    BY <2>1, <2>2 DEF Procs
  <2>7. With(file, p)' = With(file, p)
    BY <1>1 DEF With
  <2> QED BY <2>3, <2>4, <2>5, <2>6, <2>7
<1>3. ValuesInv'
  BY <1>1, <1>2 DEF Consistent, ValuesInv
<1>4. ~clash' => CopyInv'
  BY <1>1, <1>2 DEF Consistent, CopyInv
<1>5. ~clash' => TokenInv'
  BY <1>1, <1>2 DEF Consistent, TokenInv
<1> QED BY <1>3, <1>4, <1>5 DEF Consistent

\* The inductive invariant of the configuration: as long as no two writers had a copy at once
\* and no import a stale one, the only copy is the file with one field changed, and a token
\* is in the file or the daemon only from its maker's write to its replacement.
THEOREM ConfigInvariant == Spec => [](LockedOK /\ DownInv /\ Consistent)
<1>1. Init => DownInv
  BY DEF Init, DownInv
<1>2. LockedOK /\ DownInv /\ Consistent /\ [Next]_vars => DownInv' /\ Consistent'
  <2> SUFFICES ASSUME LockedOK, DownInv, Consistent, [Next]_vars PROVE Consistent'
    BY DownStep
  <2>1. CASE UNCHANGED vars
    BY <2>1 DEF vars, Consistent, ValuesInv, CopyInv, TokenInv, Writing, MakesToken, Adopts, With
  <2>2. ASSUME NEW p \in Api, Serve(p) PROVE Consistent'
    <3>1. CASE LoadDies(p)
      BY <3>1, EndConsistent DEF LoadDies, disk, bounds, Procs
    <3> QED BY <2>2, <3>1, GuardConsistent, LockConsistent, LoadConsistent, TruncateConsistent,
         WriteConsistent, PublishConsistent DEF Serve, Save, Procs
  <2>3. ASSUME NEW p \in Cli, Save(p) \/ CommandDies(p) \/ \E k \in CliKinds : Command(p, k)
        PROVE  Consistent'
    <3>1. CASE CommandDies(p)
      BY <3>1, EndConsistent DEF CommandDies, disk, daemon, bounds, Procs
    <3> QED BY <2>3, <3>1, TruncateConsistent, WriteConsistent, CommandConsistent DEF Save, Procs
  <2> QED BY <2>1, <2>2, <2>3, ArriveConsistent, CrashConsistent, RestartConsistent DEF Next
<1> QED BY <1>1, <1>2, InitConsistent, MutualExclusion, PTL DEF Spec, LockedOK

\* api.go:185-190: whatever requests, imports, commands and crashes come in between, an old
\* token is dead for good once the caller has the new one, in the daemon and in the file.
THEOREM TokensStayDead == Spec => []OldTokenStaysDead
<1>1. Consistent => OldTokenStaysDead
  BY DEF Consistent, TokenInv, OldTokenStaysDead
<1> QED BY <1>1, ConfigInvariant, PTL

\* api.go:186, 553, main.go:1432, 1441: every field holds the last value written into it.
THEOREM NoEditLost == Spec => []EditsKept
<1>1. Consistent => EditsKept
  BY DEF Consistent, CopyInv, EditsKept
<1> QED BY <1>1, ConfigInvariant, PTL
=============================================================================
