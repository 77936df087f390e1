---------------------------- MODULE ConfigStore ----------------------------
(***************************************************************************)
(* config.json, the daemon's copy of it (a.cfg) and the lock a.mu.  Each   *)
(* change loads the whole file, changes one field and writes the whole     *)
(* file back; the daemon's handlers do it under a.mu, the commands of the  *)
(* command line and the import of a bundle under nothing.  The file is     *)
(* truncated and then written, and a reader in between dies on bad JSON: a *)
(* handler's panic is answered by guard, and keeps a.mu.                   *)
(***************************************************************************)
EXTENDS Integers, FiniteSets

CONSTANTS
  Api,      \* threads of the daemon that serve requests
  Cli,      \* processes of the command line
  None,     \* nobody
  Kinds,    \* what requests and commands do in this instance
  MaxEdits, \* bound: values ever given to a field
  MaxFaults \* bound: crashes of the daemon

Procs == Api \cup Cli
Fields == {"token", "login", "path", "ovpn"}
ApiKinds == {"show", "token", "login", "import"}
CliKinds == {"cliLogin", "cliPath", "cliOvpn", "cliInit"}
FieldOf == [k \in ApiKinds \cup CliKinds |->
              CASE k = "token" -> "token" [] k \in {"login", "cliLogin"} -> "login"
                [] k = "cliPath" -> "path" [] k = "cliOvpn" -> "ovpn" [] OTHER -> ""]

ASSUME ConfigAssumption ==
  /\ Api \cap Cli = {} /\ None \notin Procs
  /\ Kinds \subseteq ApiKinds \cup CliKinds
  /\ MaxEdits \in Nat /\ MaxFaults \in Nat

VARIABLES
  file,   \* what config.json holds, or held before it was truncated
  torn,   \* the file is truncated and not written yet
  cfg,    \* a.cfg
  holder, \* who holds a.mu for writing
  up,     \* does the daemon run?
  op,     \* each thread's or command's progress, kind, new value and copy of the configuration
  edits,  \* the number of new values so far
  faults, \* crashes so far
  dead,   \* history: tokens whose replacement was handed out
  done,   \* history: the last value written into each field
  clash,  \* history: two writers had a copy at once, or an import a stale one
  leaked  \* history: a handler of this daemon died holding a.mu

vars == <<file, torn, cfg, holder, up, op, edits, faults, dead, done, clash, leaked>>
disk == <<file, torn, done>>
daemon == <<cfg, holder, up, dead, leaked>>
bounds == <<edits, faults>>

Factory == [f \in Fields |-> 0]
Idle == [pc |-> "idle", kind |-> "show", new |-> 0, copy |-> Factory]
Goto(p, pc) == op' = [op EXCEPT ![p].pc = pc]
Finish(p) == op' = [op EXCEPT ![p] = Idle]
At(p, pc) == op[p].pc = pc
\* Somebody else has a copy that is not written yet.
Contested(p) == \E q \in Procs \ {p} : op[q].pc \in {"save", "write"}

Init ==
  /\ file = Factory /\ cfg = Factory /\ done = Factory
  /\ torn = FALSE /\ holder = None /\ up = TRUE
  /\ op = [p \in Procs |-> Idle]
  /\ edits = 0 /\ faults = 0 /\ dead = {}
  /\ clash = FALSE /\ leaked = FALSE

(***************************************************************************)
(* Requests.  guard reads a.cfg.APIToken under the read lock: a request    *)
(* waits while a.mu is held for writing.                                   *)
(***************************************************************************)
Arrive(p, k) ==
  /\ up /\ At(p, "idle") /\ k \in Kinds \cap ApiKinds
  /\ op' = [op EXCEPT ![p] = [Idle EXCEPT !.pc = "guard", !.kind = k]]
  /\ UNCHANGED <<disk, daemon, bounds, clash>>

\* A bundle's import is called with a copy of a.cfg; regenerate and change-password pick
\* the new value and go for the lock; the other requests do not touch the configuration.
Guard(p) ==
  /\ At(p, "guard") /\ holder = None
  /\ \/ op[p].kind = "show" /\ Finish(p) /\ UNCHANGED <<edits, clash>>
     \/ /\ op[p].kind = "import"
        /\ op' = [op EXCEPT ![p] = [@ EXCEPT !.pc = "save", !.copy = cfg]]
        /\ clash' = (clash \/ Contested(p) \/ cfg # file)
        /\ UNCHANGED edits
     \/ op[p].kind = "import" /\ Goto(p, "lock") /\ UNCHANGED <<edits, clash>> \* users only
     \/ /\ op[p].kind \in {"token", "login"} /\ edits < MaxEdits
        /\ edits' = edits + 1
        /\ op' = [op EXCEPT ![p] = [@ EXCEPT !.pc = "lock", !.new = edits + 1]]
        /\ UNCHANGED clash
     \/ Finish(p) /\ UNCHANGED <<edits, clash>> \* not authorised, or the password is wrong
  /\ UNCHANGED <<disk, daemon, faults>>

\* The mutant of Lock forgets that change-password and regenerate share one lock.
LockNothing(p) ==
  /\ At(p, "lock")
  /\ Goto(p, "load")
  /\ UNCHANGED <<disk, daemon, bounds, clash>>

Lock(p) ==
  /\ At(p, "lock") /\ holder = None
  /\ holder' = p
  /\ Goto(p, "load")
  /\ UNCHANGED <<disk, cfg, up, dead, bounds, clash, leaked>>

\* A torn file makes loadConfig die.  guard answers 400; nobody unlocks a.mu.
LoadDies(p) ==
  /\ At(p, "load") /\ torn
  /\ Finish(p)
  /\ leaked' = TRUE
  /\ UNCHANGED <<disk, cfg, holder, up, dead, bounds, clash>>

\* The new value goes into one field; `init --force` makes every field anew.
Set(c, kind, new) ==
  IF kind = "cliInit" THEN [f \in Fields |-> new] ELSE [c EXCEPT ![FieldOf[kind]] = new]
With(c, p) == Set(c, op[p].kind, op[p].new)

\* The mutant of Load writes back what the daemon read when it started.
LoadCached(p) ==
  /\ At(p, "load") /\ ~torn
  /\ op' = IF op[p].kind = "import"
             THEN [op EXCEPT ![p] = [@ EXCEPT !.pc = "publish", !.copy = file]]
             ELSE [op EXCEPT ![p] = [@ EXCEPT !.pc = "save", !.copy = With(cfg, p)]]
  /\ clash' = (clash \/ (op[p].kind # "import" /\ Contested(p)))
  /\ UNCHANGED <<disk, daemon, bounds>>

Load(p) ==
  /\ At(p, "load") /\ ~torn
  /\ op' = IF op[p].kind = "import"
             THEN [op EXCEPT ![p] = [@ EXCEPT !.pc = "publish", !.copy = file]]
             ELSE [op EXCEPT ![p] = [@ EXCEPT !.pc = "save", !.copy = With(file, p)]]
  /\ clash' = (clash \/ (op[p].kind # "import" /\ Contested(p)))
  /\ UNCHANGED <<disk, daemon, bounds>>

(***************************************************************************)
(* saveConfig: os.WriteFile truncates, then writes.                        *)
(***************************************************************************)
Truncate(p) ==
  /\ At(p, "save")
  /\ torn' = TRUE
  /\ Goto(p, "write")
  /\ UNCHANGED <<file, done, daemon, bounds, clash>>

Write(p) ==
  /\ At(p, "write")
  /\ file' = op[p].copy /\ torn' = FALSE
  /\ done' = IF op[p].kind = "import" THEN done ELSE With(done, p)
  /\ IF p \in Cli THEN Finish(p)
     ELSE Goto(p, IF op[p].kind = "import" THEN "lock" ELSE "publish")
  /\ UNCHANGED <<daemon, bounds, clash>>

\* The mutant of Publish answers without giving the lock back.
PublishLocked(p) ==
  /\ At(p, "publish")
  /\ cfg' = IF op[p].kind = "import" THEN op[p].copy ELSE With(cfg, p)
  /\ dead' = IF op[p].kind = "token" THEN dead \cup {cfg["token"]} ELSE dead
  /\ Finish(p)
  /\ UNCHANGED <<disk, holder, up, bounds, clash, leaked>>

\* a.cfg gets the new value, a.mu is released and the caller gets the answer.
Publish(p) ==
  /\ At(p, "publish")
  /\ cfg' = IF op[p].kind = "import" THEN op[p].copy ELSE With(cfg, p)
  /\ dead' = IF op[p].kind = "token" THEN dead \cup {cfg["token"]} ELSE dead
  /\ holder' = None
  /\ Finish(p)
  /\ UNCHANGED <<disk, up, bounds, clash, leaked>>

(***************************************************************************)
(* `wgmgr set-login`, `wgmgr set-base-path` and the menu's two entries;    *)
(* ovpn-init and expand-subnet, which load the file at their start, do     *)
(* much else (Identity, Subnet), save it late, or die before that; and     *)
(* `wgmgr init --force`, which reads nothing and writes a new file.        *)
(***************************************************************************)
Command(p, k) ==
  /\ At(p, "idle") /\ k \in Kinds \cap CliKinds
  /\ torn => k = "cliInit"
  /\ edits < MaxEdits
  /\ edits' = edits + 1
  /\ op' = [op EXCEPT ![p] = [pc |-> "save", kind |-> k, new |-> edits + 1,
                              copy |-> Set(file, k, edits + 1)]]
  /\ clash' = (clash \/ Contested(p))
  /\ UNCHANGED <<disk, daemon, faults>>

CommandDies(p) ==
  /\ At(p, "save") /\ op[p].kind = "cliOvpn"
  /\ Finish(p)
  /\ UNCHANGED <<disk, daemon, bounds, clash>>

(***************************************************************************)
(* The daemon crashes at any point and starts when it can read the file.   *)
(***************************************************************************)
Crash ==
  /\ up /\ faults < MaxFaults
  /\ faults' = faults + 1
  /\ up' = FALSE /\ holder' = None /\ leaked' = FALSE
  /\ op' = [p \in Procs |-> IF p \in Api THEN Idle ELSE op[p]]
  /\ UNCHANGED <<disk, cfg, dead, edits, clash>>

\* The mutant of Restart keeps serving the configuration of the first start.
RestartCached ==
  /\ ~up /\ ~torn
  /\ up' = TRUE /\ cfg' = Factory
  /\ UNCHANGED <<disk, holder, dead, leaked, op, bounds, clash>>

Restart ==
  /\ ~up /\ ~torn
  /\ up' = TRUE /\ cfg' = file
  /\ UNCHANGED <<disk, holder, dead, leaked, op, bounds, clash>>

Save(p) == Truncate(p) \/ Write(p)
Serve(p) == Guard(p) \/ Lock(p) \/ LoadDies(p) \/ Load(p) \/ Save(p) \/ Publish(p)

Next ==
  \/ \E p \in Api, k \in ApiKinds : Arrive(p, k)
  \/ \E p \in Api : Serve(p)
  \/ \E p \in Cli : Save(p) \/ CommandDies(p) \/ \E k \in CliKinds : Command(p, k)
  \/ Crash \/ Restart

\* Threads and commands are scheduled; RWMutex lets readers and writers in by turns, so
\* nobody waits forever while the lock is free again and again.
Fairness ==
  /\ \A p \in Api : SF_vars(Serve(p))
  /\ \A p \in Cli : WF_vars(Save(p))

Spec == Init /\ [][Next]_vars
FairSpec == Spec /\ Fairness

(***************************************************************************)
(* Properties.                                                             *)
(***************************************************************************)
Configs == [Fields -> 0 .. MaxEdits]
Pcs == {"idle", "guard", "lock", "load", "save", "write", "publish"}

\* Variables hold values of their kinds, and only the writer that got a.mu is between the
\* load of the file and the release of the lock (api.go:185-190, 552-557).
TypeOK ==
  /\ file \in Configs /\ cfg \in Configs /\ done \in Configs
  /\ torn \in BOOLEAN /\ up \in BOOLEAN
  /\ holder \in Api \cup {None}
  /\ op \in [Procs -> [pc : Pcs, kind : ApiKinds \cup CliKinds, new : 0 .. MaxEdits, copy : Configs]]
  /\ edits \in 0 .. MaxEdits /\ faults \in 0 .. MaxFaults
  /\ dead \in SUBSET (0 .. MaxEdits)
  /\ clash \in BOOLEAN /\ leaked \in BOOLEAN
  /\ \A p \in Api : At(p, "load") \/ At(p, "publish") => holder = p

\* README.md:67: regenerating invalidates the old token immediately.  Once the caller has
\* the new token, the daemon never takes an old one again.  Violated by a bundle's import.
OldTokenDies == cfg["token"] \notin dead

\* While no two writers had a copy of the file at once and no import began with a stale
\* a.cfg, an old token is dead for good: neither the daemon nor the file it will read after
\* a crash holds it, at whatever step regenAPIToken was cut off (api.go:185-190).
OldTokenStaysDead == ~clash => cfg["token"] \notin dead /\ file["token"] \notin dead

\* Under the same condition a change of one field loses no change of another: the file
\* holds the last value written into each, by whichever handler or command, because every
\* writer loads the file anew (api.go:186, 553, main.go:1432, 1441, subnet.go:463).
EditsKept == ~clash => file = done

\* guard (api.go:144-145): a bad request returns JSON, so every request that reached the
\* daemon is answered, or dies with the daemon.  Violated when a handler dies inside a.mu.
Answered == \A p \in Api : ~At(p, "idle") ~> At(p, "idle")

\* That death is the only way to lose an answer: requests, regenerations, password changes
\* and imports waiting for each other on a.mu all come to an end.
AnsweredUnlessLeaked == \A p \in Api : ~At(p, "idle") ~> At(p, "idle") \/ leaked
=============================================================================
