--------------------------- MODULE IdentityProofs ---------------------------
(***************************************************************************)
(* Proofs about Identity, for any set of usernames, any pool, any number   *)
(* of handlers and commands, and any bounds.                               *)
(***************************************************************************)
EXTENDS Identity, Minimum

(***************************************************************************)
(* The inductive invariant.                                                *)
(***************************************************************************)
\* The phases of an operation on one user.
Single == {"read", "pick", "file", "update", "undoRow", "undoFile", "drop", "clear",
           "dropAll", "delete"}

\* What an operation of process p keeps in its local variables.
OpOK(p, r) ==
  /\ r.pc \in Single => \E n \in Names : r.names = {n}
  /\ r.pc \in Single \ {"read"} => r.id # NoId
  /\ r.pc \in {"file", "update"} => r.ip \in Pool
  /\ r.pc \in {"read", "undoRow"} => Fresh(r)
  /\ r.pc = "idle" => r.names = {}
  /\ r.pc \in {"ghosts", "scan", "purge"} => p \in Cli

Safe == TypeOK /\ \A p \in Procs : OpOK(p, op[p])

\* An operation that has picked an address and not yet written it to the row.
IsLate(r) == r.pc \in {"file", "update"}

\* The address an attach has picked is no other user's, unless it raced.
Picked ==
  /\ \A p, q \in Procs : p # q /\ IsLate(op[p]) /\ IsLate(op[q]) => op[p].names \subseteq raced
  /\ \A p \in Procs : IsLate(op[p]) => \A n \in op[p].names \ raced : \A m \in Names \ {n} :
       row[m].ip # op[p].ip

\* What an operation in state r knows of the row w and the file c of a user it works on.
Fits(r, w, c) ==
  /\ r.pc = "read" => w.id # NoId /\ ~w.cn /\ c = NoIP
  /\ r.pc \in {"pick", "file", "update", "undoRow", "drop", "dropAll", "clear", "delete"} =>
       w.id = r.id
  /\ r.pc \in {"pick", "file", "update", "undoRow", "undoFile"} => ~w.cn
  /\ r.pc \in {"pick", "file", "clear", "delete", "scan"} => c = NoIP
  /\ r.pc \in {"drop", "dropAll", "ghosts", "scan"} => c = w.ip
  /\ r.pc = "update" => c = r.ip
  /\ r.pc # "purge"

\* Two operations on a name make it raced; alone with it, an operation finds it as it left it.
Alone ==
  /\ \A p, q \in Procs : p # q => op[p].names \cap op[q].names \subseteq raced
  /\ \A p \in Procs : \A n \in op[p].names \ (dirty \cup raced) : Fits(op[p], row[n], ccd[n])

\* The create that has still to give the row w of n an identity or take it back.
Undoes(r, n, w) ==
  /\ r.names = {n} /\ Fresh(r)
  /\ \/ r.pc = "read"
     \/ r.pc \in {"pick", "file", "update", "undoRow"} /\ r.id = w.id

GhostsUndone ==
  \A n \in Ghosts : n \in dirty \cup detached \/ \E p \in Procs : Undoes(op[p], n, row[n])

Dirs == confDir /\ daemonDir

Unique == Picked /\ UniqueAddresses
Files == Dirs /\ Alone /\ FileMatchesRow

(***************************************************************************)
(* Facts about one process and one name.                                   *)
(***************************************************************************)
RowOK(w) == w \in RowValues /\ (w.cn <=> w.ip # NoIP) /\ (w.id = NoId => w = NoRow)

\* The types of everything but the rows and the operations.
RestOK ==
  /\ ccd \in [Names -> Pool \cup {NoIP}] /\ confDir \in BOOLEAN /\ daemonDir \in BOOLEAN
  /\ lastId \in 0 .. MaxIds /\ faults \in 0 .. MaxFaults
  /\ dirty \in SUBSET Names /\ detached \in SUBSET Names /\ raced \in SUBSET Names

\* The invariant's types, taken apart.
LEMMA SafeFacts ==
  ASSUME Safe
  PROVE  /\ RestOK /\ row \in [Names -> RowValues] /\ op \in [Procs -> OpValues]
         /\ \A n \in Names : RowOK(row[n])
         /\ \A p \in Procs : op[p] \in OpValues /\ OpOK(p, op[p])
BY DEF Safe, TypeOK, RestOK, RowOK, Exists

\* An operation on one user has one name.
LEMMA NameOf ==
  ASSUME Safe, NEW p \in Procs, op[p].pc \in Single
  PROVE  Name(p) \in Names /\ op[p].names = {Name(p)}
BY SafeFacts DEF OpOK, Name

LEMMA IdleType == Idle \in OpValues /\ (\A p \in Procs : OpOK(p, Idle)) /\ RowOK(NoRow)
BY IdentityAssumption DEF Idle, OpValues, OpOK, Pcs, Single, RowOK, RowValues, NoRow, NoId, NoIP

\* One process moves to the local state r, the others keep theirs.
LEMMA OpUpdate ==
  ASSUME Safe, NEW p \in Procs, NEW r \in OpValues, op' = [op EXCEPT ![p] = r]
  PROVE  /\ op' \in [Procs -> OpValues] /\ op'[p] = r
         /\ \A q \in Procs : q # p => op'[q] = op[q]
BY DEF Safe, TypeOK

\* One row changes, or one file.
LEMMA RowUpdate ==
  ASSUME Safe, NEW n \in Names, NEW w, RowOK(w), row' = [row EXCEPT ![n] = w]
  PROVE  /\ row' \in [Names -> RowValues] /\ row'[n] = w
         /\ \A m \in Names : (m # n => row'[m] = row[m]) /\ RowOK(row'[m])
BY SafeFacts DEF RowOK

LEMMA FileUpdate ==
  ASSUME Safe, NEW n \in Names, NEW c \in Pool \cup {NoIP}, ccd' = [ccd EXCEPT ![n] = c]
  PROVE  /\ ccd' \in [Names -> Pool \cup {NoIP}] /\ ccd'[n] = c
         /\ \A m \in Names : m # n => ccd'[m] = ccd[m]
BY SafeFacts DEF RestOK

(***************************************************************************)
(* What a move of one process must respect, for each part of the invariant.*)
(***************************************************************************)
LEMMA SafeMove ==
  ASSUME Safe, NEW p \in Procs, NEW r \in OpValues, op' = [op EXCEPT ![p] = r], OpOK(p, r),
         row' \in [Names -> RowValues], \A n \in Names : RowOK(row'[n]), RestOK'
  PROVE  Safe'
<1>1. /\ op' \in [Procs -> OpValues] /\ op'[p] = r
      /\ \A q \in Procs : q # p => op'[q] = op[q]
  BY OpUpdate
<1>2. \A q \in Procs : OpOK(q, op'[q])
  BY <1>1, SafeFacts
<1>3. TypeOK'
  BY <1>1 DEF TypeOK, RestOK, RowOK, Exists
<1> QED BY <1>2, <1>3 DEF Safe, OpOK

\* No row gets an address, and nobody picks one.
LEMMA UniqueMove ==
  ASSUME Safe, Unique, NEW p \in Procs, NEW r \in OpValues, op' = [op EXCEPT ![p] = r],
         raced \subseteq raced',
         IsLate(r) => IsLate(op[p]) /\ r.names = op[p].names /\ r.ip = op[p].ip,
         \A n \in Names : /\ row'[n].ip \in {row[n].ip, NoIP}
                          /\ row'[n].cn => row[n].cn /\ row'[n].ip = row[n].ip
  PROVE  Unique'
<1>1. op'[p] = r /\ \A q \in Procs : q # p => op'[q] = op[q]
  BY OpUpdate
<1>2. \A q \in Procs : IsLate(op'[q]) =>
        IsLate(op[q]) /\ op'[q].names = op[q].names /\ op'[q].ip = op[q].ip
  BY <1>1
<1>3. \A q \in Procs : IsLate(op[q]) => op[q].ip # NoIP
  BY SafeFacts, IdentityAssumption DEF OpOK, IsLate
<1>4. \A a, b \in Procs : a # b /\ IsLate(op'[a]) /\ IsLate(op'[b]) => op'[a].names \subseteq raced'
  BY <1>2 DEF Unique, Picked
<1>5. ASSUME NEW a \in Procs, IsLate(op'[a]), NEW n \in op'[a].names \ raced', NEW m \in Names \ {n}
      PROVE  row'[m].ip # op'[a].ip
  <2>1. row[m].ip # op[a].ip
    BY <1>2, <1>5 DEF Unique, Picked
  <2> QED BY <1>2, <1>3, <1>5, <2>1
<1>6. Picked'
  BY <1>4, <1>5 DEF Picked, IsLate
<1>7. UniqueAddresses'
  BY DEF Unique, UniqueAddresses
<1> QED BY <1>6, <1>7 DEF Unique

\* The names p leaves are in order, those it goes on with are as r expects them, and it
\* touches no other.
LEMMA FilesMove ==
  ASSUME Safe, Files, NEW p \in Procs, NEW r \in OpValues, op' = [op EXCEPT ![p] = r],
         confDir' = confDir, daemonDir' = daemonDir, dirty \subseteq dirty', raced \subseteq raced',
         \A q \in Procs \ {p} : r.names \cap op[q].names \subseteq raced',
         \A n \in Names \ (op[p].names \cup r.names) : row'[n] = row[n] /\ ccd'[n] = ccd[n],
         \A n \in r.names \ (dirty' \cup raced') : Fits(r, row'[n], ccd'[n]),
         \A n \in op[p].names \ (r.names \cup dirty' \cup raced') : ccd'[n] = row'[n].ip
  PROVE  Files'
<1>1. op'[p] = r /\ \A q \in Procs : q # p => op'[q] = op[q]
  BY OpUpdate
<1>2. \A q \in Procs : op[q].names \subseteq Names
  BY SafeFacts DEF OpValues
<1>3. \A a, b \in Procs : a # b => op'[a].names \cap op'[b].names \subseteq raced'
  BY <1>1 DEF Files, Alone
<1>4. ASSUME NEW q \in Procs, NEW n \in op'[q].names \ (dirty' \cup raced')
      PROVE  Fits(op'[q], row'[n], ccd'[n])
  <2>1. CASE q = p
    BY <1>1, <1>4, <2>1
  <2>2. CASE q # p
    <3>1. op'[q] = op[q] /\ n \in Names /\ Fits(op[q], row[n], ccd[n])
      BY <1>1, <1>2, <1>4, <2>2 DEF Files, Alone
    <3>2. n \notin op[p].names /\ n \notin r.names
      BY <1>1, <1>4, <2>2 DEF Files, Alone
    <3> QED BY <3>1, <3>2
  <2> QED BY <2>1, <2>2
<1>5. Alone'
  BY <1>3, <1>4 DEF Alone, Fits
<1>6. ASSUME NEW n \in Names \ (dirty' \cup raced'), ~Working(n)'
      PROVE  ccd'[n] = row'[n].ip
  <2>1. CASE n \in r.names
    <3>1. r.pc = "scan"
      BY <1>1, <1>6, <2>1 DEF Working
    <3> QED BY <1>6, <2>1, <3>1 DEF Fits
  <2>2. CASE n \in op[p].names \ r.names
    BY <1>6, <2>2
  <2>3. CASE n \notin op[p].names /\ n \notin r.names
    <3>1. ~Working(n)
      BY <1>1, <1>6, <2>3 DEF Working
    <3> QED BY <1>6, <2>3, <3>1 DEF Files, FileMatchesRow
  <2> QED BY <2>1, <2>2, <2>3
<1>7. FileMatchesRow'
  BY <1>6 DEF FileMatchesRow
<1> QED BY <1>5, <1>7 DEF Files, Dirs

\* A row without an identity is new and p's to undo, or it was one before and p does not
\* give up on it.
LEMMA GhostMove ==
  ASSUME Safe, GhostsUndone, NEW p \in Procs, NEW r \in OpValues, op' = [op EXCEPT ![p] = r],
         dirty \subseteq dirty',
         \A n \in Names : row'[n].id # NoId /\ ~row'[n].wg /\ ~row'[n].cn =>
           \/ n \in dirty' \cup detached'
           \/ Undoes(r, n, row'[n])
           \/ /\ row[n].id = row'[n].id /\ n \in Ghosts
              /\ n \in detached => n \in detached'
              /\ ~Undoes(op[p], n, row[n])
  PROVE  GhostsUndone'
<1>1. op'[p] = r /\ \A q \in Procs : q # p => op'[q] = op[q]
  BY OpUpdate
<1>2. ASSUME NEW n \in Names, row'[n].id # NoId /\ ~row'[n].wg /\ ~row'[n].cn
      PROVE  n \in dirty' \cup detached' \/ \E q \in Procs : Undoes(op'[q], n, row'[n])
  <2>1. CASE Undoes(r, n, row'[n])
    BY <1>1, <2>1
  <2>2. CASE /\ row[n].id = row'[n].id /\ n \in Ghosts
             /\ n \in detached => n \in detached'
             /\ ~Undoes(op[p], n, row[n])
    <3>1. CASE n \in dirty \cup detached
      BY <2>2, <3>1
    <3>2. CASE n \notin dirty \cup detached
      <4>1. PICK q \in Procs : Undoes(op[q], n, row[n])
        BY <2>2, <3>2 DEF GhostsUndone
      <4>2. Undoes(op'[q], n, row'[n])
        BY <1>1, <2>2, <4>1 DEF Undoes
      <4> QED BY <4>2
    <3> QED BY <3>1, <3>2
  <2> QED BY <1>2, <2>1, <2>2
<1> QED BY <1>2 DEF GhostsUndone, Ghosts, Exists, Undoes

(***************************************************************************)
(* Every action keeps every part.                                          *)
(***************************************************************************)
Kept ==
  /\ Safe'
  /\ Unique => Unique'
  /\ Files => Files'
  /\ GhostsUndone => GhostsUndone'

(***************************************************************************)
(* Process p goes on as r, or ends, and changes neither a row nor a file.  *)
(***************************************************************************)
Quiet(p, r) ==
  /\ r \in OpValues /\ OpOK(p, r) /\ op' = [op EXCEPT ![p] = r]
  /\ UNCHANGED <<row, ccd, confDir, daemonDir, lastId, detached>> /\ faults' \in 0 .. MaxFaults
  /\ dirty' \in SUBSET Names /\ dirty \subseteq dirty'
  /\ raced' \in SUBSET Names /\ raced \subseteq raced'

LEMMA QuietSafe ==
  ASSUME Safe, NEW p \in Procs, NEW r, Quiet(p, r)
  PROVE  Safe'
<1>1. RestOK' /\ row' \in [Names -> RowValues] /\ \A n \in Names : RowOK(row'[n])
  BY SafeFacts DEF RestOK, Quiet
<1> QED BY <1>1, SafeMove DEF Quiet

LEMMA QuietUnique ==
  ASSUME Safe, NEW p \in Procs, NEW r, Quiet(p, r),
         IsLate(r) => IsLate(op[p]) /\ r.names = op[p].names /\ r.ip = op[p].ip
  PROVE  Unique => Unique'
<1>1. \A n \in Names : /\ row'[n].ip \in {row[n].ip, NoIP}
                       /\ row'[n].cn => row[n].cn /\ row'[n].ip = row[n].ip
  BY DEF Quiet
<1> QED BY <1>1, UniqueMove DEF Quiet

LEMMA QuietFiles ==
  ASSUME Safe, NEW p \in Procs, NEW r, Quiet(p, r), Files,
         \A q \in Procs \ {p} : r.names \cap op[q].names \subseteq raced',
         \A n \in r.names \ (dirty' \cup raced') : Fits(r, row[n], ccd[n]),
         \A n \in op[p].names \ (r.names \cup dirty' \cup raced') : ccd[n] = row[n].ip
  PROVE  Files'
<1>1. /\ r \in OpValues /\ op' = [op EXCEPT ![p] = r]
      /\ confDir' = confDir /\ daemonDir' = daemonDir
      /\ dirty \subseteq dirty' /\ raced \subseteq raced'
      /\ \A n \in Names : row'[n] = row[n] /\ ccd'[n] = ccd[n]
      /\ row' = row /\ ccd' = ccd
  BY DEF Quiet
<1>2. /\ \A n \in r.names \ (dirty' \cup raced') : Fits(r, row'[n], ccd'[n])
      /\ \A n \in op[p].names \ (r.names \cup dirty' \cup raced') : ccd'[n] = row'[n].ip
  BY <1>1
<1> QED BY <1>1, <1>2, FilesMove

LEMMA QuietGhosts ==
  ASSUME Safe, NEW p \in Procs, NEW r, Quiet(p, r),
         \A n \in Ghosts : Undoes(op[p], n, row[n]) => Undoes(r, n, row[n]) \/ n \in dirty'
  PROVE  GhostsUndone => GhostsUndone'
<1> SUFFICES ASSUME GhostsUndone PROVE GhostsUndone'
  OBVIOUS
<1>1. \A n \in Names : row'[n].id # NoId /\ ~row'[n].wg /\ ~row'[n].cn =>
        \/ n \in dirty' \cup detached'
        \/ Undoes(r, n, row'[n])
        \/ /\ row[n].id = row'[n].id /\ n \in Ghosts
           /\ n \in detached => n \in detached'
           /\ ~Undoes(op[p], n, row[n])
  BY DEF Quiet, Ghosts, Exists
<1> QED BY <1>1, GhostMove DEF Quiet

(***************************************************************************)
(* Process p gives the user n it is working on the row w and the file c,   *)
(* and goes on, or ends, as r.                                             *)
(***************************************************************************)
Change(p, r, n, w, c) ==
  /\ r \in OpValues /\ OpOK(p, r) /\ op' = [op EXCEPT ![p] = r]
  /\ n \in op[p].names /\ r.names \subseteq op[p].names /\ op[p].names \subseteq r.names \cup {n}
  /\ RowOK(w) /\ row' = [row EXCEPT ![n] = w]
  /\ c \in Pool \cup {NoIP} /\ ccd' = [ccd EXCEPT ![n] = c]
  /\ UNCHANGED <<confDir, daemonDir, lastId, faults, dirty, raced>>
  /\ detached' \in SUBSET Names /\ \A m \in Names \ {n} : m \in detached <=> m \in detached'

LEMMA ChangeFacts ==
  ASSUME Safe, NEW p \in Procs, NEW r, NEW n, NEW w, NEW c, Change(p, r, n, w, c)
  PROVE  /\ n \in Names /\ Safe'
         /\ row'[n] = w /\ ccd'[n] = c
         /\ \A m \in Names : m # n => row'[m] = row[m] /\ ccd'[m] = ccd[m]
<1>1. n \in Names
  BY SafeFacts DEF OpValues, Change
<1>2. /\ row' \in [Names -> RowValues] /\ row'[n] = w
      /\ \A m \in Names : (m # n => row'[m] = row[m]) /\ RowOK(row'[m])
  BY <1>1, RowUpdate DEF Change
<1>3. /\ ccd' \in [Names -> Pool \cup {NoIP}] /\ ccd'[n] = c
      /\ \A m \in Names : m # n => ccd'[m] = ccd[m]
  BY <1>1, FileUpdate DEF Change
<1>4. RestOK'
  BY <1>3, SafeFacts DEF RestOK, Change
<1>5. Safe'
  BY <1>2, <1>4, SafeMove DEF Change
<1> QED BY <1>1, <1>2, <1>3, <1>5

LEMMA ChangeUnique ==
  ASSUME Safe, NEW p \in Procs, NEW r, NEW n, NEW w, NEW c, Change(p, r, n, w, c),
         IsLate(r) => IsLate(op[p]) /\ r.names = op[p].names /\ r.ip = op[p].ip,
         w.ip \in {row[n].ip, NoIP}, w.cn => row[n].cn /\ w.ip = row[n].ip
  PROVE  Unique => Unique'
<1> SUFFICES ASSUME Unique PROVE Unique'
  OBVIOUS
<1>1. \A m \in Names : /\ row'[m].ip \in {row[m].ip, NoIP}
                       /\ row'[m].cn => row[m].cn /\ row'[m].ip = row[m].ip
  BY ChangeFacts
<1>2. r \in OpValues /\ op' = [op EXCEPT ![p] = r] /\ raced \subseteq raced'
  BY DEF Change
<1> QED BY <1>1, <1>2, UniqueMove

LEMMA ChangeFiles ==
  ASSUME Safe, NEW p \in Procs, NEW r, NEW n, NEW w, NEW c, Change(p, r, n, w, c),
         Fits(op[p], row[n], ccd[n]) => IF n \in r.names THEN Fits(r, w, c) ELSE c = w.ip,
         \A m \in r.names \ {n} : Fits(op[p], row[m], ccd[m]) => Fits(r, row[m], ccd[m])
  PROVE  Files => Files'
<1> SUFFICES ASSUME Files PROVE Files'
  OBVIOUS
<1>1. \A m \in op[p].names \ (dirty \cup raced) : Fits(op[p], row[m], ccd[m])
  BY DEF Files, Alone
<1>2. op[p].names \subseteq Names
  BY SafeFacts DEF OpValues
<1>3. /\ r \in OpValues /\ op' = [op EXCEPT ![p] = r]
      /\ r.names \subseteq op[p].names /\ n \in op[p].names /\ op[p].names \subseteq r.names \cup {n}
      /\ dirty' = dirty /\ raced' = raced /\ confDir' = confDir /\ daemonDir' = daemonDir
  BY DEF Change
<1>4. \A m \in r.names \ (dirty' \cup raced') : Fits(r, row'[m], ccd'[m])
  BY <1>1, <1>2, <1>3, ChangeFacts
<1>5. \A m \in op[p].names \ (r.names \cup dirty' \cup raced') : ccd'[m] = row'[m].ip
  BY <1>1, <1>3, ChangeFacts
<1>6. \A q \in Procs \ {p} : r.names \cap op[q].names \subseteq raced'
  BY <1>3 DEF Files, Alone
<1>7. \A m \in Names \ (op[p].names \cup r.names) : row'[m] = row[m] /\ ccd'[m] = ccd[m]
  BY <1>3, ChangeFacts
<1>8. dirty \subseteq dirty' /\ raced \subseteq raced'
  BY <1>3
<1> QED BY <1>3, <1>4, <1>5, <1>6, <1>7, <1>8, FilesMove

LEMMA ChangeGhosts ==
  ASSUME Safe, NEW p \in Procs, NEW r, NEW n, NEW w, NEW c, Change(p, r, n, w, c),
         w.id # NoId /\ ~w.wg /\ ~w.cn =>
           \/ n \in detached' \/ Undoes(r, n, w)
           \/ /\ row[n].id = w.id /\ n \in Ghosts /\ (n \in detached => n \in detached')
              /\ ~Undoes(op[p], n, row[n])
  PROVE  GhostsUndone => GhostsUndone'
<1> SUFFICES ASSUME GhostsUndone PROVE GhostsUndone'
  OBVIOUS
<1>1. r \in OpValues /\ op' = [op EXCEPT ![p] = r] /\ dirty \subseteq dirty' /\ n \in op[p].names
  BY DEF Change
<1>2. ASSUME NEW m \in Names, row'[m].id # NoId /\ ~row'[m].wg /\ ~row'[m].cn
      PROVE  \/ m \in dirty' \cup detached'
             \/ Undoes(r, m, row'[m])
             \/ /\ row[m].id = row'[m].id /\ m \in Ghosts
                /\ m \in detached => m \in detached'
                /\ ~Undoes(op[p], m, row[m])
  <2>1. CASE m = n
    BY <1>2, <2>1, ChangeFacts
  <2>2. CASE m # n
    <3>1. row'[m] = row[m] /\ (m \in detached <=> m \in detached')
      BY <1>2, <2>2, ChangeFacts DEF Change
    <3>2. m \in Ghosts
      BY <1>2, <3>1 DEF Ghosts, Exists
    <3>3. ~Undoes(op[p], m, row[m])
      BY <1>1, <2>2 DEF Undoes
    <3> QED BY <3>1, <3>2, <3>3
  <2> QED BY <2>1, <2>2
<1> QED BY <1>1, <1>2, GhostMove

LEMMA WriteFileKeeps ==
  ASSUME Safe, NEW p \in Procs, WriteFile(p)
  PROVE  Kept
<1> DEFINE n == Name(p)
           r == [op[p] EXCEPT !.pc = "update"]
<1>1. /\ n \in Names /\ op[p].names = {n} /\ op[p].pc = "file"
      /\ op[p] \in OpValues /\ OpOK(p, op[p]) /\ RowOK(row[n]) /\ row \in [Names -> RowValues]
  BY NameOf, SafeFacts DEF WriteFile, Single
<1>2. /\ r \in OpValues /\ OpOK(p, r) /\ op[p].ip \in Pool
      /\ r.pc = "update" /\ r.names = {n} /\ r.id = op[p].id /\ r.ip = op[p].ip
      /\ r.fresh = op[p].fresh
  BY <1>1 DEF OpValues, OpOK, Single, Pcs
<1>3. /\ op' = [op EXCEPT ![p] = r] /\ ccd' = [ccd EXCEPT ![n] = op[p].ip]
      /\ UNCHANGED <<confDir, daemonDir, lastId, faults, dirty, raced>>
      /\ row' = [row EXCEPT ![n] = row[n]] /\ detached' = detached
  BY <1>1 DEF WriteFile, Goto
<1> HIDE DEF n, r
<1>4. Change(p, r, n, row[n], op[p].ip)
  BY <1>1, <1>2, <1>3, SafeFacts DEF Change, RestOK
<1>5. IsLate(op[p])
  BY <1>1 DEF IsLate
<1>6. Unique => Unique'
  BY <1>1, <1>2, <1>4, <1>5, ChangeUnique
<1>7. Fits(op[p], row[n], ccd[n]) => Fits(r, row[n], op[p].ip)
  BY <1>1, <1>2 DEF Fits
<1>8. Files => Files'
  BY <1>2, <1>4, <1>7, ChangeFiles
<1>9. /\ Undoes(op[p], n, row[n]) => Undoes(r, n, row[n])
      /\ row[n].id # NoId /\ ~row[n].wg /\ ~row[n].cn => n \in Ghosts
      /\ n \in detached => n \in detached'
  BY <1>1, <1>2, <1>3 DEF Undoes, Fresh, Ghosts, Exists
<1>10. GhostsUndone => GhostsUndone'
  BY <1>4, <1>9, ChangeGhosts
<1> QED BY <1>4, <1>6, <1>8, <1>10, ChangeFacts DEF Kept

\* The cleanup of a create removes the row, if it is still the one.
LEMMA UndoRowKeeps ==
  ASSUME Safe, NEW p \in Procs, UndoRow(p)
  PROVE  Kept
<1> DEFINE n == Name(p)
           r == [op[p] EXCEPT !.pc = "undoFile"]
           w == IF row[n].id = op[p].id THEN NoRow ELSE row[n]
<1>1. /\ n \in Names /\ op[p].names = {n} /\ op[p].pc = "undoRow" /\ op[p].id # NoId
      /\ op[p] \in OpValues /\ OpOK(p, op[p]) /\ RowOK(row[n])
      /\ row \in [Names -> RowValues] /\ ccd \in [Names -> Pool \cup {NoIP}]
  BY NameOf, SafeFacts DEF UndoRow, Single, OpOK, RestOK
<1>2. /\ r \in OpValues /\ OpOK(p, r)
      /\ r.pc = "undoFile" /\ r.names = {n} /\ r.id = op[p].id /\ r.ip = op[p].ip
      /\ r.fresh = op[p].fresh
  BY <1>1 DEF OpValues, OpOK, Single, Pcs
<1>3. /\ RowOK(w) /\ (row[n].id = op[p].id => w = NoRow) /\ (row[n].id # op[p].id => w = row[n])
      /\ NoRow.id = NoId /\ ~NoRow.cn /\ NoRow.ip = NoIP
  <2>1. CASE row[n].id = op[p].id
    BY <1>1, IdleType, IdentityAssumption, <2>1 DEF RowOK, RowValues, NoRow, NoId, NoIP
  <2>2. CASE row[n].id # op[p].id
    BY <1>1, IdleType, IdentityAssumption, <2>2 DEF RowOK, RowValues, NoRow, NoId, NoIP
  <2> QED BY <2>1, <2>2
<1>4. /\ op' = [op EXCEPT ![p] = r]
      /\ row' = [row EXCEPT ![n] = w] /\ ccd' = [ccd EXCEPT ![n] = ccd[n]]
      /\ UNCHANGED <<confDir, daemonDir, lastId, faults, dirty, raced>>
      /\ detached' = detached
  <2>1. CASE row[n].id = op[p].id
    BY <1>1, <2>1 DEF UndoRow, Remove, Goto, files
  <2>2. CASE row[n].id # op[p].id
    BY <1>1, <2>2 DEF UndoRow, Remove, Goto, files
  <2> QED BY <2>1, <2>2
<1> HIDE DEF n, r, w
<1>5. Change(p, r, n, w, ccd[n])
  BY <1>1, <1>2, <1>3, <1>4, SafeFacts DEF Change, RestOK
<1>6. Unique => Unique'
  <2>1. ~IsLate(r)
    BY <1>2 DEF IsLate
  <2>2. w.ip \in {row[n].ip, NoIP} /\ (w.cn => row[n].cn /\ w.ip = row[n].ip)
    BY <1>3
  <2> QED BY <1>5, <2>1, <2>2, ChangeUnique
<1>7. Files => Files'
  <2>1. Fits(op[p], row[n], ccd[n]) => Fits(r, w, ccd[n])
    BY <1>1, <1>2, <1>3 DEF Fits, RowOK, NoRow
  <2> QED BY <1>2, <1>5, <2>1, ChangeFiles
<1>8. GhostsUndone => GhostsUndone'
  <2>1. w.id # NoId /\ ~w.wg /\ ~w.cn =>
          \/ n \in detached' \/ Undoes(r, n, w)
          \/ /\ row[n].id = w.id /\ n \in Ghosts /\ (n \in detached => n \in detached')
             /\ ~Undoes(op[p], n, row[n])
    BY <1>1, <1>2, <1>3, <1>4 DEF Undoes, Ghosts, Exists
  <2> QED BY <1>5, <2>1, ChangeGhosts
<1> QED BY <1>5, <1>6, <1>7, <1>8, ChangeFacts DEF Kept


\* The cleanup of a create removes the file.
LEMMA UndoFileKeeps ==
  ASSUME Safe, NEW p \in Procs, UndoFile(p)
  PROVE  Kept
<1> DEFINE n == Name(p)
<1>1. /\ n \in Names /\ op[p].names = {n} /\ op[p].pc = "undoFile" /\ op[p].id # NoId
      /\ op[p] \in OpValues /\ OpOK(p, op[p]) /\ RowOK(row[n])
      /\ row \in [Names -> RowValues] /\ ccd \in [Names -> Pool \cup {NoIP}]
  BY NameOf, SafeFacts DEF UndoFile, Single, OpOK, RestOK
<1>2. Idle \in OpValues /\ OpOK(p, Idle) /\ Idle.names = {} /\ Idle.pc = "idle"
  BY IdleType DEF Idle
<1>3. RowOK(row[n]) /\ NoIP \in Pool \cup {NoIP}
  BY <1>1, IdentityAssumption DEF RowOK, RowValues, NoRow, NoId, NoIP
<1>4. /\ op' = [op EXCEPT ![p] = Idle]
      /\ row' = [row EXCEPT ![n] = row[n]] /\ ccd' = [ccd EXCEPT ![n] = NoIP]
      /\ UNCHANGED <<confDir, daemonDir, lastId, faults, dirty, raced>>
      /\ detached' = detached
  BY <1>1 DEF UndoFile, Finish
<1> HIDE DEF n
<1>5. Change(p, Idle, n, row[n], NoIP)
  BY <1>1, <1>2, <1>3, <1>4, SafeFacts DEF Change, RestOK
<1>6. Unique => Unique'
  <2>1. ~IsLate(Idle)
    BY <1>2 DEF IsLate
  <2>2. row[n].ip \in {row[n].ip, NoIP} /\ (row[n].cn => row[n].cn /\ row[n].ip = row[n].ip)
    BY <1>3
  <2> QED BY <1>5, <2>1, <2>2, ChangeUnique
<1>7. Files => Files'
  <2>1. Fits(op[p], row[n], ccd[n]) => NoIP = row[n].ip
    BY <1>1, <1>2, <1>3 DEF Fits, RowOK, NoRow
  <2> QED BY <1>2, <1>5, <2>1, ChangeFiles
<1>8. GhostsUndone => GhostsUndone'
  <2>1. row[n].id # NoId /\ ~row[n].wg /\ ~row[n].cn =>
          \/ n \in detached' \/ Undoes(Idle, n, row[n])
          \/ /\ row[n].id = row[n].id /\ n \in Ghosts /\ (n \in detached => n \in detached')
             /\ ~Undoes(op[p], n, row[n])
    BY <1>1, <1>2, <1>3, <1>4 DEF Undoes, Ghosts, Exists
  <2> QED BY <1>5, <2>1, ChangeGhosts
<1> QED BY <1>5, <1>6, <1>7, <1>8, ChangeFacts DEF Kept


\* A detach removes the file.
LEMMA DropFileKeeps ==
  ASSUME Safe, NEW p \in Procs, DropFile(p)
  PROVE  Kept
<1> DEFINE n == Name(p)
           r == [op[p] EXCEPT !.pc = "clear"]
<1>1. /\ n \in Names /\ op[p].names = {n} /\ op[p].pc = "drop" /\ op[p].id # NoId
      /\ op[p] \in OpValues /\ OpOK(p, op[p]) /\ RowOK(row[n])
      /\ row \in [Names -> RowValues] /\ ccd \in [Names -> Pool \cup {NoIP}]
  BY NameOf, SafeFacts DEF DropFile, Single, OpOK, RestOK
<1>2. /\ r \in OpValues /\ OpOK(p, r)
      /\ r.pc = "clear" /\ r.names = {n} /\ r.id = op[p].id /\ r.ip = op[p].ip
      /\ r.fresh = op[p].fresh
  BY <1>1 DEF OpValues, OpOK, Single, Pcs
<1>3. RowOK(row[n])
  BY <1>1, IdentityAssumption DEF RowOK, RowValues, NoRow, NoId, NoIP
<1>4. /\ op' = [op EXCEPT ![p] = r]
      /\ row' = [row EXCEPT ![n] = row[n]] /\ ccd' = [ccd EXCEPT ![n] = NoIP]
      /\ UNCHANGED <<confDir, daemonDir, lastId, faults, dirty, raced>>
      /\ detached' = detached
  BY <1>1 DEF DropFile, Goto
<1> HIDE DEF n, r
<1>5. Change(p, r, n, row[n], NoIP)
  BY <1>1, <1>2, <1>3, <1>4, SafeFacts DEF Change, RestOK
<1>6. Unique => Unique'
  <2>1. ~IsLate(r)
    BY <1>2 DEF IsLate
  <2>2. row[n].ip \in {row[n].ip, NoIP} /\ (row[n].cn => row[n].cn /\ row[n].ip = row[n].ip)
    BY <1>3
  <2> QED BY <1>5, <2>1, <2>2, ChangeUnique
<1>7. Files => Files'
  <2>1. Fits(op[p], row[n], ccd[n]) => Fits(r, row[n], NoIP)
    BY <1>1, <1>2, <1>3 DEF Fits, RowOK, NoRow
  <2> QED BY <1>2, <1>5, <2>1, ChangeFiles
<1>8. GhostsUndone => GhostsUndone'
  <2>1. row[n].id # NoId /\ ~row[n].wg /\ ~row[n].cn =>
          \/ n \in detached' \/ Undoes(r, n, row[n])
          \/ /\ row[n].id = row[n].id /\ n \in Ghosts /\ (n \in detached => n \in detached')
             /\ ~Undoes(op[p], n, row[n])
    BY <1>1, <1>2, <1>3, <1>4 DEF Undoes, Ghosts, Exists
  <2> QED BY <1>5, <2>1, ChangeGhosts
<1> QED BY <1>5, <1>6, <1>7, <1>8, ChangeFacts DEF Kept


\* A detach clears the columns.
LEMMA ClearRowKeeps ==
  ASSUME Safe, NEW p \in Procs, ClearRow(p)
  PROVE  Kept
<1> DEFINE n == Name(p)
           w == IF row[n].id = op[p].id THEN [row[n] EXCEPT !.cn = FALSE, !.ip = NoIP] ELSE row[n]
<1>1. /\ n \in Names /\ op[p].names = {n} /\ op[p].pc = "clear" /\ op[p].id # NoId
      /\ op[p] \in OpValues /\ OpOK(p, op[p]) /\ RowOK(row[n])
      /\ row \in [Names -> RowValues] /\ ccd \in [Names -> Pool \cup {NoIP}]
  BY NameOf, SafeFacts DEF ClearRow, Single, OpOK, RestOK
<1>2. Idle \in OpValues /\ OpOK(p, Idle) /\ Idle.names = {} /\ Idle.pc = "idle"
  BY IdleType DEF Idle
<1>3. /\ RowOK(w) /\ w.id = row[n].id /\ (row[n].id # op[p].id => w = row[n])
      /\ row[n].id = op[p].id => ~w.cn /\ w.ip = NoIP
  <2>1. CASE row[n].id = op[p].id
    BY <1>1, IdentityAssumption, <2>1 DEF RowOK, RowValues, NoRow, NoId, NoIP
  <2>2. CASE row[n].id # op[p].id
    BY <1>1, IdentityAssumption, <2>2 DEF RowOK, RowValues, NoRow, NoId, NoIP
  <2> QED BY <2>1, <2>2
<1>4. /\ op' = [op EXCEPT ![p] = Idle]
      /\ row' = [row EXCEPT ![n] = w] /\ ccd' = [ccd EXCEPT ![n] = ccd[n]]
      /\ UNCHANGED <<confDir, daemonDir, lastId, faults, dirty, raced>>
      /\ detached' = IF row[n].id = op[p].id THEN detached \cup {n} ELSE detached
  <2>1. CASE row[n].id = op[p].id
    BY <1>1, <2>1 DEF ClearRow, Finish, files
  <2>2. CASE row[n].id # op[p].id
    BY <1>1, <2>2 DEF ClearRow, Finish, files
  <2> QED BY <2>1, <2>2
<1> HIDE DEF n, w
<1>5. Change(p, Idle, n, w, ccd[n])
  BY <1>1, <1>2, <1>3, <1>4, SafeFacts DEF Change, RestOK
<1>6. Unique => Unique'
  <2>1. ~IsLate(Idle)
    BY <1>2 DEF IsLate
  <2>2. w.ip \in {row[n].ip, NoIP} /\ (w.cn => row[n].cn /\ w.ip = row[n].ip)
    BY <1>3
  <2> QED BY <1>5, <2>1, <2>2, ChangeUnique
<1>7. Files => Files'
  <2>1. Fits(op[p], row[n], ccd[n]) => ccd[n] = w.ip
    BY <1>1, <1>2, <1>3 DEF Fits, RowOK, NoRow
  <2> QED BY <1>2, <1>5, <2>1, ChangeFiles
<1>8. GhostsUndone => GhostsUndone'
  <2>1. w.id # NoId /\ ~w.wg /\ ~w.cn =>
          \/ n \in detached' \/ Undoes(Idle, n, w)
          \/ /\ row[n].id = w.id /\ n \in Ghosts /\ (n \in detached => n \in detached')
             /\ ~Undoes(op[p], n, row[n])
    BY <1>1, <1>2, <1>3, <1>4 DEF Undoes, Ghosts, Exists
  <2> QED BY <1>5, <2>1, ChangeGhosts
<1> QED BY <1>5, <1>6, <1>7, <1>8, ChangeFacts DEF Kept


\* A deletion removes the file, when it knows where it is.
LEMMA DropAllKeeps ==
  ASSUME Safe, NEW p \in Procs, DropAll(p)
  PROVE  Kept
<1> DEFINE n == Name(p)
           r == [op[p] EXCEPT !.pc = "delete"]
           c == IF (p \in Api /\ daemonDir) \/ (p \in Cli /\ confDir) THEN NoIP ELSE ccd[n]
<1>1. /\ n \in Names /\ op[p].names = {n} /\ op[p].pc = "dropAll" /\ op[p].id # NoId
      /\ op[p] \in OpValues /\ OpOK(p, op[p]) /\ RowOK(row[n])
      /\ row \in [Names -> RowValues] /\ ccd \in [Names -> Pool \cup {NoIP}]
  BY NameOf, SafeFacts DEF DropAll, Single, OpOK, RestOK
<1>2. /\ r \in OpValues /\ OpOK(p, r)
      /\ r.pc = "delete" /\ r.names = {n} /\ r.id = op[p].id /\ r.ip = op[p].ip
      /\ r.fresh = op[p].fresh
  BY <1>1 DEF OpValues, OpOK, Single, Pcs
<1>3. RowOK(row[n]) /\ c \in Pool \cup {NoIP}
  BY <1>1, IdentityAssumption DEF RowOK, RowValues, NoRow, NoId, NoIP
<1>4. /\ op' = [op EXCEPT ![p] = r]
      /\ row' = [row EXCEPT ![n] = row[n]] /\ ccd' = [ccd EXCEPT ![n] = c]
      /\ UNCHANGED <<confDir, daemonDir, lastId, faults, dirty, raced>>
      /\ detached' = detached
  BY <1>1 DEF DropAll, Goto
<1> HIDE DEF n, r, c
<1>5. Change(p, r, n, row[n], c)
  BY <1>1, <1>2, <1>3, <1>4, SafeFacts DEF Change, RestOK
<1>6. Unique => Unique'
  <2>1. ~IsLate(r)
    BY <1>2 DEF IsLate
  <2>2. row[n].ip \in {row[n].ip, NoIP} /\ (row[n].cn => row[n].cn /\ row[n].ip = row[n].ip)
    BY <1>3
  <2> QED BY <1>5, <2>1, <2>2, ChangeUnique
<1>7. ASSUME Files PROVE Files'
  <2>1. c = NoIP
    BY <1>7 DEF Files, Dirs, Procs, c
  <2>2. Fits(op[p], row[n], ccd[n]) => Fits(r, row[n], c)
    BY <1>1, <1>2, <1>3, <2>1 DEF Fits, RowOK, NoRow
  <2> QED BY <1>2, <1>5, <1>7, <2>2, ChangeFiles
<1>8. GhostsUndone => GhostsUndone'
  <2>1. row[n].id # NoId /\ ~row[n].wg /\ ~row[n].cn =>
          \/ n \in detached' \/ Undoes(r, n, row[n])
          \/ /\ row[n].id = row[n].id /\ n \in Ghosts /\ (n \in detached => n \in detached')
             /\ ~Undoes(op[p], n, row[n])
    BY <1>1, <1>2, <1>3, <1>4 DEF Undoes, Ghosts, Exists
  <2> QED BY <1>5, <2>1, ChangeGhosts
<1> QED BY <1>5, <1>6, <1>7, <1>8, ChangeFacts DEF Kept


\* A deletion removes the row it was called for.
LEMMA DeleteRowKeeps ==
  ASSUME Safe, NEW p \in Procs, DeleteRow(p)
  PROVE  Kept
<1> DEFINE n == Name(p)
           w == IF row[n].id = op[p].id THEN NoRow ELSE row[n]
<1>1. /\ n \in Names /\ op[p].names = {n} /\ op[p].pc = "delete" /\ op[p].id # NoId
      /\ op[p] \in OpValues /\ OpOK(p, op[p]) /\ RowOK(row[n])
      /\ row \in [Names -> RowValues] /\ ccd \in [Names -> Pool \cup {NoIP}]
  BY NameOf, SafeFacts DEF DeleteRow, Single, OpOK, RestOK
<1>2. Idle \in OpValues /\ OpOK(p, Idle) /\ Idle.names = {} /\ Idle.pc = "idle"
  BY IdleType DEF Idle
<1>3. /\ RowOK(w) /\ (row[n].id = op[p].id => w = NoRow) /\ (row[n].id # op[p].id => w = row[n])
      /\ NoRow.id = NoId /\ ~NoRow.cn /\ NoRow.ip = NoIP
  <2>1. CASE row[n].id = op[p].id
    BY <1>1, IdleType, IdentityAssumption, <2>1 DEF RowOK, RowValues, NoRow, NoId, NoIP
  <2>2. CASE row[n].id # op[p].id
    BY <1>1, IdleType, IdentityAssumption, <2>2 DEF RowOK, RowValues, NoRow, NoId, NoIP
  <2> QED BY <2>1, <2>2
<1>4. /\ op' = [op EXCEPT ![p] = Idle]
      /\ row' = [row EXCEPT ![n] = w] /\ ccd' = [ccd EXCEPT ![n] = ccd[n]]
      /\ UNCHANGED <<confDir, daemonDir, lastId, faults, dirty, raced>>
      /\ detached' = IF row[n].id = op[p].id THEN detached \ {n} ELSE detached
  <2>1. CASE row[n].id = op[p].id
    BY <1>1, <2>1 DEF DeleteRow, Remove, Finish, files
  <2>2. CASE row[n].id # op[p].id
    BY <1>1, <2>2 DEF DeleteRow, Remove, Finish, files
  <2> QED BY <2>1, <2>2
<1> HIDE DEF n, w
<1>5. Change(p, Idle, n, w, ccd[n])
  BY <1>1, <1>2, <1>3, <1>4, SafeFacts DEF Change, RestOK
<1>6. Unique => Unique'
  <2>1. ~IsLate(Idle)
    BY <1>2 DEF IsLate
  <2>2. w.ip \in {row[n].ip, NoIP} /\ (w.cn => row[n].cn /\ w.ip = row[n].ip)
    BY <1>3
  <2> QED BY <1>5, <2>1, <2>2, ChangeUnique
<1>7. Files => Files'
  <2>1. Fits(op[p], row[n], ccd[n]) => ccd[n] = w.ip
    BY <1>1, <1>2, <1>3 DEF Fits, RowOK, NoRow
  <2> QED BY <1>2, <1>5, <2>1, ChangeFiles
<1>8. GhostsUndone => GhostsUndone'
  <2>1. w.id # NoId /\ ~w.wg /\ ~w.cn =>
          \/ n \in detached' \/ Undoes(Idle, n, w)
          \/ /\ row[n].id = w.id /\ n \in Ghosts /\ (n \in detached => n \in detached')
             /\ ~Undoes(op[p], n, row[n])
    BY <1>1, <1>2, <1>3, <1>4 DEF Undoes, Ghosts, Exists
  <2> QED BY <1>5, <2>1, ChangeGhosts
<1> QED BY <1>5, <1>6, <1>7, <1>8, ChangeFacts DEF Kept


\* An operation starts: idle processes have no name, and a name nobody works on is in order.
LEMMA StartFacts ==
  ASSUME Safe, NEW p \in Procs, NEW r \in OpValues, Start(p, r)
  PROVE  /\ op' = [op EXCEPT ![p] = r] /\ op[p].names = {} /\ op[p].pc = "idle"
         /\ raced \subseteq raced' /\ raced' \in SUBSET Names
         /\ \A q \in Procs \ {p} : r.names \cap op[q].names \subseteq raced'
         /\ Files => \A n \in r.names \ (dirty \cup raced') : ccd[n] = row[n].ip
<1>1. op[p].names = {} /\ r.names \subseteq Names /\ raced \subseteq Names
  BY SafeFacts DEF Start, OpOK, OpValues, RestOK
<1>2. raced' = raced \cup (r.names \cap Others(p))
  BY DEF Start
<1>3. \A q \in Procs \ {p} : r.names \cap op[q].names \subseteq raced'
  BY <1>2 DEF Others
<1>4. ASSUME Files, NEW n \in r.names \ (dirty \cup raced') PROVE ccd[n] = row[n].ip
  <2>1. ~Working(n)
    BY <1>1, <1>3, <1>4 DEF Working
  <2> QED BY <1>1, <1>2, <1>4, <2>1 DEF Files, FileMatchesRow
<1> QED BY <1>1, <1>2, <1>3, <1>4 DEF Start

LEMMA StartKeeps ==
  ASSUME Safe, NEW p \in Procs, NEW r \in OpValues, OpOK(p, r), Start(p, r), ~IsLate(r),
         UNCHANGED <<row, files, lastId, faults, dirty, detached>>,
         \A n \in r.names : ccd[n] = row[n].ip => Fits(r, row[n], ccd[n])
  PROVE  Kept
<1>1. Quiet(p, r)
  BY StartFacts, SafeFacts DEF Quiet, files, RestOK
<1>2. Unique => Unique'
  BY <1>1, QuietUnique
<1>3. ASSUME Files PROVE Files'
  <2>1. \A n \in r.names \ (dirty' \cup raced') : Fits(r, row[n], ccd[n])
    BY <1>3, StartFacts
  <2>2. \A n \in op[p].names \ (r.names \cup dirty' \cup raced') : ccd[n] = row[n].ip
    BY StartFacts
  <2>3. \A q \in Procs \ {p} : r.names \cap op[q].names \subseteq raced'
    BY StartFacts
  <2> QED BY <1>1, <1>3, <2>1, <2>2, <2>3, QuietFiles
<1>4. GhostsUndone => GhostsUndone'
  <2>1. \A n : ~Undoes(op[p], n, row[n])
    BY StartFacts DEF Undoes
  <2> QED BY <1>1, <2>1, QuietGhosts
<1> QED BY <1>1, <1>2, <1>3, <1>4, QuietSafe DEF Kept

LEMMA StartAttachKeeps ==
  ASSUME Safe, NEW p \in Procs, NEW n \in Names, StartAttach(p, n)
  PROVE  Kept
<1> DEFINE r == On(n, "pick")
<1>1. RowOK(row[n]) /\ row[n].id # NoId
  BY SafeFacts DEF StartAttach, Exists
<1>2. r \in OpValues /\ OpOK(p, r)
  BY <1>1, IdleType DEF On, Idle, OpValues, OpOK, RowOK, RowValues, Single, Pcs
<1>3. r.pc = "pick" /\ r.names = {n} /\ r.id = row[n].id
  BY DEF On, Idle
<1>4. Start(p, r) /\ UNCHANGED <<row, files, lastId, faults, dirty, detached>>
  BY DEF StartAttach
<1>5. ~IsLate(r) /\ \A m \in r.names : ccd[m] = row[m].ip => Fits(r, row[m], ccd[m])
  BY <1>1, <1>3 DEF StartAttach, IsLate, Fits, RowOK
<1> HIDE DEF r
<1> QED BY <1>2, <1>4, <1>5, StartKeeps

LEMMA StartDetachKeeps ==
  ASSUME Safe, NEW p \in Procs, NEW n \in Names, StartDetach(p, n)
  PROVE  Kept
<1> DEFINE r == On(n, "drop")
<1>1. RowOK(row[n]) /\ row[n].id # NoId
  BY SafeFacts DEF StartDetach, Exists
<1>2. r \in OpValues /\ OpOK(p, r)
  BY <1>1, IdleType DEF On, Idle, OpValues, OpOK, RowOK, RowValues, Single, Pcs
<1>3. r.pc = "drop" /\ r.names = {n} /\ r.id = row[n].id
  BY DEF On, Idle
<1>4. Start(p, r) /\ UNCHANGED <<row, files, lastId, faults, dirty, detached>>
  BY DEF StartDetach
<1>5. ~IsLate(r) /\ \A m \in r.names : ccd[m] = row[m].ip => Fits(r, row[m], ccd[m])
  BY <1>1, <1>3 DEF StartDetach, IsLate, Fits, RowOK
<1> HIDE DEF r
<1> QED BY <1>2, <1>4, <1>5, StartKeeps

LEMMA StartDeleteKeeps ==
  ASSUME Safe, NEW p \in Procs, NEW n \in Names, StartDelete(p, n)
  PROVE  Kept
<1> DEFINE r == On(n, "dropAll")
<1>1. RowOK(row[n]) /\ row[n].id # NoId
  BY SafeFacts DEF StartDelete, Exists
<1>2. r \in OpValues /\ OpOK(p, r)
  BY <1>1, IdleType DEF On, Idle, OpValues, OpOK, RowOK, RowValues, Single, Pcs
<1>3. r.pc = "dropAll" /\ r.names = {n} /\ r.id = row[n].id
  BY DEF On, Idle
<1>4. Start(p, r) /\ UNCHANGED <<row, files, lastId, faults, dirty, detached>>
  BY DEF StartDelete
<1>5. ~IsLate(r) /\ \A m \in r.names : ccd[m] = row[m].ip => Fits(r, row[m], ccd[m])
  BY <1>1, <1>3 DEF StartDelete, IsLate, Fits, RowOK
<1> HIDE DEF r
<1> QED BY <1>2, <1>4, <1>5, StartKeeps

LEMMA StartGhostsKeeps ==
  ASSUME Safe, NEW p \in Procs, StartGhosts(p)
  PROVE  Kept
<1> DEFINE r == [Idle EXCEPT !.pc = "ghosts", !.names = Ghosts]
<1>1. Ghosts \subseteq Names
  BY DEF Ghosts
<1>2. r \in OpValues /\ OpOK(p, r)
  BY <1>1, IdleType DEF StartGhosts, Idle, OpValues, OpOK, Single, Pcs
<1>3. r.pc = "ghosts"
  BY DEF Idle
<1>4. Start(p, r) /\ UNCHANGED <<row, files, lastId, faults, dirty, detached>>
  BY DEF StartGhosts
<1>5. ~IsLate(r) /\ \A m \in r.names : ccd[m] = row[m].ip => Fits(r, row[m], ccd[m])
  BY <1>3 DEF IsLate, Fits
<1> HIDE DEF r
<1> QED BY <1>2, <1>4, <1>5, StartKeeps

LEMMA StartOrphansKeeps ==
  ASSUME Safe, NEW p \in Procs, StartOrphans(p)
  PROVE  Kept
<1>1. PICK spared \in SUBSET Names :
        Start(p, [Idle EXCEPT !.pc = "scan", !.names = {n \in Names \ spared : ~Exists(n)}])
  BY DEF StartOrphans
<1> DEFINE r == [Idle EXCEPT !.pc = "scan", !.names = {n \in Names \ spared : ~Exists(n)}]
<1>2. r \in OpValues /\ OpOK(p, r)
  BY IdleType DEF StartOrphans, Idle, OpValues, OpOK, Single, Pcs
<1>3. r.pc = "scan" /\ \A n \in r.names : n \in Names /\ ~Exists(n)
  BY DEF Idle
<1>4. Start(p, r) /\ UNCHANGED <<row, files, lastId, faults, dirty, detached>>
  BY <1>1 DEF StartOrphans
<1>5. \A n \in r.names : row[n].ip = NoIP
  BY <1>3, SafeFacts DEF RowOK, Exists, NoRow
<1>6. ~IsLate(r) /\ \A m \in r.names : ccd[m] = row[m].ip => Fits(r, row[m], ccd[m])
  BY <1>3, <1>5 DEF IsLate, Fits
<1> HIDE DEF r
<1> QED BY <1>2, <1>4, <1>6, StartKeeps

\* The create inserts a row without an identity, which it will undo if the attach fails.
LEMMA StartCreateKeeps ==
  ASSUME Safe, NEW p \in Procs, NEW n \in Names, StartCreate(p, n)
  PROVE  Kept
<1> DEFINE r == [Idle EXCEPT !.pc = "read", !.names = {n}, !.fresh = TRUE]
           w == [NoRow EXCEPT !.id = lastId + 1, !.wg = FALSE]
<1>0. lastId + 1 \in 0 .. MaxIds /\ lastId + 1 # NoId
  BY SafeFacts, IdentityAssumption DEF StartCreate, Insert, RestOK, NoId
<1>1. /\ r \in OpValues /\ OpOK(p, r) /\ ~IsLate(r)
      /\ r.pc = "read" /\ r.names = {n} /\ Fresh(r)
  BY <1>0, IdleType DEF Idle, OpValues, OpOK, Single, Pcs, IsLate, Fresh
<1>2. RowOK(w) /\ w.id # NoId /\ ~w.cn /\ w.ip = NoIP /\ lastId + 1 \in 0 .. MaxIds
  <2>1. w.id = lastId + 1 /\ w.wg = FALSE /\ w.cn = FALSE /\ w.ip = NoIP
    BY DEF NoRow
  <2>2. w \in RowValues
    BY <1>0 DEF NoRow, RowValues
  <2> HIDE DEF w
  <2> QED BY <1>0, <2>1, <2>2 DEF RowOK
<1>3. /\ Start(p, r) /\ row' = [row EXCEPT ![n] = w] /\ row[n] = NoRow /\ lastId' = lastId + 1
      /\ UNCHANGED <<ccd, confDir, daemonDir, faults, dirty, detached>>
  BY SafeFacts DEF StartCreate, Insert, Exists, RowOK, files
<1> HIDE DEF r, w
<1>4. /\ row' \in [Names -> RowValues] /\ row'[n] = w
      /\ \A m \in Names : (m # n => row'[m] = row[m]) /\ RowOK(row'[m])
  BY <1>2, <1>3, RowUpdate
<1>5. /\ op' = [op EXCEPT ![p] = r] /\ op[p].names = {} /\ op[p].pc = "idle"
      /\ raced \subseteq raced' /\ raced' \in SUBSET Names
      /\ \A q \in Procs \ {p} : r.names \cap op[q].names \subseteq raced'
      /\ Files => \A m \in r.names \ (dirty \cup raced') : ccd[m] = row[m].ip
  BY <1>1, <1>3, StartFacts
<1>6. Safe'
  <2>1. RestOK'
    BY <1>2, <1>3, <1>5, SafeFacts DEF RestOK
  <2> QED BY <1>1, <1>4, <1>5, <2>1, SafeMove
<1>7. ASSUME Unique PROVE Unique'
  <2>1. \A m \in Names : /\ row'[m].ip \in {row[m].ip, NoIP}
                         /\ row'[m].cn => row[m].cn /\ row'[m].ip = row[m].ip
    BY <1>2, <1>4
  <2> QED BY <1>1, <1>5, <1>7, <2>1, UniqueMove
<1>8. ASSUME Files PROVE Files'
  <2>1. n \notin dirty \cup raced' => ccd[n] = NoIP
    BY <1>1, <1>3, <1>5, <1>8 DEF NoRow
  <2>2. \A m \in r.names \ (dirty' \cup raced') : Fits(r, row'[m], ccd'[m])
    BY <1>1, <1>2, <1>3, <1>4, <2>1 DEF Fits
  <2>3. /\ \A m \in op[p].names \ (r.names \cup dirty' \cup raced') : ccd'[m] = row'[m].ip
        /\ \A m \in Names \ (op[p].names \cup r.names) : row'[m] = row[m] /\ ccd'[m] = ccd[m]
        /\ confDir' = confDir /\ daemonDir' = daemonDir /\ dirty \subseteq dirty'
    BY <1>1, <1>3, <1>4, <1>5
  <2> QED BY <1>1, <1>5, <1>8, <2>2, <2>3, FilesMove
<1>9. ASSUME GhostsUndone PROVE GhostsUndone'
  <2>1. ASSUME NEW m \in Names, row'[m].id # NoId /\ ~row'[m].wg /\ ~row'[m].cn
        PROVE  \/ m \in dirty' \cup detached'
               \/ Undoes(r, m, row'[m])
               \/ /\ row[m].id = row'[m].id /\ m \in Ghosts
                  /\ m \in detached => m \in detached'
                  /\ ~Undoes(op[p], m, row[m])
    <3>1. CASE m = n
      BY <1>1, <1>4, <3>1 DEF Undoes
    <3>2. CASE m # n
      BY <1>3, <1>4, <1>5, <2>1, <3>2 DEF Undoes, Ghosts, Exists
    <3> QED BY <3>1, <3>2
  <2>2. dirty \subseteq dirty'
    BY <1>3
  <2> QED BY <1>1, <1>5, <1>9, <2>1, <2>2, GhostMove
<1> QED BY <1>6, <1>7, <1>8, <1>9 DEF Kept

\* The create looks its row up again.
LEMMA ReadFreshKeeps ==
  ASSUME Safe, NEW p \in Procs, ReadFresh(p)
  PROVE  Kept
<1> DEFINE n == Name(p)
           r == IF Exists(n) THEN [op[p] EXCEPT !.pc = "pick", !.id = row[n].id] ELSE Idle
<1>1. /\ n \in Names /\ op[p].names = {n} /\ op[p].pc = "read" /\ Fresh(op[p])
      /\ op[p] \in OpValues /\ OpOK(p, op[p]) /\ RowOK(row[n]) /\ op[p].ip \in Pool \cup {NoIP}
  BY NameOf, SafeFacts DEF ReadFresh, Single, OpOK, OpValues
<1>2. /\ r \in OpValues /\ OpOK(p, r) /\ ~IsLate(r)
      /\ Exists(n) => r.pc = "pick" /\ r.names = {n} /\ r.id = row[n].id /\ Fresh(r)
      /\ ~Exists(n) => r.names = {}
  <2>1. CASE Exists(n)
    BY <1>1, <2>1 DEF Fresh, OpValues, OpOK, Single, Pcs, RowOK, RowValues, Exists, IsLate
  <2>2. CASE ~Exists(n)
    BY <2>2, IdleType DEF IsLate, Idle
  <2> QED BY <2>1, <2>2
<1>3. op' = [op EXCEPT ![p] = r]
  BY DEF ReadFresh, Finish
<1> HIDE DEF n, r
<1>4. Quiet(p, r)
  BY <1>2, <1>3, SafeFacts DEF Quiet, ReadFresh, files, RestOK
<1>5. Unique => Unique'
  BY <1>2, <1>4, QuietUnique
<1>6. ASSUME Files PROVE Files'
  <2>1. n \notin dirty \cup raced => Fits(op[p], row[n], ccd[n])
    BY <1>1, <1>6 DEF Files, Alone
  <2>2. n \notin dirty \cup raced => Exists(n) /\ Fits(r, row[n], ccd[n])
    BY <1>1, <1>2, <2>1 DEF Fits, Exists
  <2>3. /\ \A m \in r.names \ (dirty' \cup raced') : Fits(r, row[m], ccd[m])
        /\ \A m \in op[p].names \ (r.names \cup dirty' \cup raced') : ccd[m] = row[m].ip
        /\ r.names \subseteq op[p].names
    BY <1>1, <1>2, <2>2 DEF ReadFresh
  <2>4. \A q \in Procs \ {p} : r.names \cap op[q].names \subseteq raced'
    BY <1>4, <1>6, <2>3 DEF Files, Alone, Quiet
  <2> QED BY <1>4, <1>6, <2>3, <2>4, QuietFiles
<1>7. GhostsUndone => GhostsUndone'
  <2>1. \A m \in Ghosts : Undoes(op[p], m, row[m]) => Undoes(r, m, row[m])
    BY <1>1, <1>2 DEF Undoes, Ghosts
  <2> QED BY <1>4, <2>1, QuietGhosts
<1> QED BY <1>4, <1>5, <1>6, <1>7, QuietSafe DEF Kept

\* An attach that gives up leaves its row as it found it, or starts to remove it.
LEMMA DieKeeps ==
  ASSUME Safe, NEW p \in Procs, Die(p), op[p].pc \in {"pick", "file", "update"},
         UNCHANGED <<row, ccd, confDir, daemonDir, lastId, detached>>, faults' \in 0 .. MaxFaults,
         raced' \in SUBSET Names, raced \subseteq raced',
         dirty' \in SUBSET Names, dirty \subseteq dirty',
         op[p].pc = "pick" \/ Fresh(op[p]) \/ op[p].names \subseteq dirty'
  PROVE  Kept
<1> DEFINE n == Name(p)
           r == IF Fresh(op[p]) THEN [op[p] EXCEPT !.pc = "undoRow"] ELSE Idle
<1>1. /\ n \in Names /\ op[p].names = {n} /\ op[p] \in OpValues /\ OpOK(p, op[p]) /\ RowOK(row[n])
  BY NameOf, SafeFacts DEF Single
<1>2. /\ r \in OpValues /\ OpOK(p, r) /\ ~IsLate(r)
      /\ Fresh(op[p]) => r.pc = "undoRow" /\ r.names = {n} /\ r.id = op[p].id /\ Fresh(r)
      /\ ~Fresh(op[p]) => r.names = {}
  <2>1. CASE Fresh(op[p])
    BY <1>1, <2>1 DEF Fresh, OpValues, OpOK, Single, Pcs, IsLate
  <2>2. CASE ~Fresh(op[p])
    BY <2>2, IdleType DEF IsLate, Idle
  <2> QED BY <2>1, <2>2
<1>3. op' = [op EXCEPT ![p] = r]
  BY DEF Die, Goto, Finish
<1> HIDE DEF n, r
<1>4. Quiet(p, r)
  BY <1>2, <1>3 DEF Quiet
<1>5. Unique => Unique'
  BY <1>2, <1>4, QuietUnique
<1>6. ASSUME Files PROVE Files'
  <2>1. n \notin dirty \cup raced => Fits(op[p], row[n], ccd[n])
    BY <1>1, <1>6 DEF Files, Alone
  <2>2. Fresh(op[p]) /\ n \notin dirty \cup raced => Fits(r, row[n], ccd[n])
    BY <1>1, <1>2, <2>1 DEF Fits
  <2>3. op[p].pc = "pick" /\ n \notin dirty \cup raced => ccd[n] = row[n].ip
    BY <1>1, <2>1 DEF Fits, RowOK
  <2>4. /\ \A m \in r.names \ (dirty' \cup raced') : Fits(r, row[m], ccd[m])
        /\ \A m \in op[p].names \ (r.names \cup dirty' \cup raced') : ccd[m] = row[m].ip
        /\ r.names \subseteq op[p].names
    BY <1>1, <1>2, <2>2, <2>3
  <2>5. \A q \in Procs \ {p} : r.names \cap op[q].names \subseteq raced'
    BY <1>6, <2>4 DEF Files, Alone
  <2> QED BY <1>4, <1>6, <2>4, <2>5, QuietFiles
<1>7. GhostsUndone => GhostsUndone'
  <2>1. \A m \in Ghosts : Undoes(op[p], m, row[m]) => Undoes(r, m, row[m])
    BY <1>1, <1>2 DEF Undoes
  <2> QED BY <1>4, <2>1, QuietGhosts
<1> QED BY <1>4, <1>5, <1>6, <1>7, QuietSafe DEF Kept

LEMMA AttachFailsKeeps ==
  ASSUME Safe, NEW p \in Procs, AttachFails(p)
  PROVE  Kept
<1>1. faults' \in 0 .. MaxFaults /\ op[p].names \subseteq Names
      /\ dirty \in SUBSET Names /\ raced \in SUBSET Names
  BY SafeFacts, IdentityAssumption DEF AttachFails, RestOK, OpValues
<1>2. UNCHANGED <<row, ccd, confDir, daemonDir, lastId, detached>> /\ raced' = raced /\ Die(p)
  BY DEF AttachFails, files
<1>3. /\ dirty' \in SUBSET Names /\ dirty \subseteq dirty'
      /\ Fresh(op[p]) \/ op[p].names \subseteq dirty'
  BY <1>1 DEF AttachFails
<1>4. op[p].pc \in {"pick", "file", "update"}
  BY DEF AttachFails
<1> QED BY <1>1, <1>2, <1>3, <1>4, DieKeeps

\* A free address is one of the pool that no row has.
LEMMA LeastFree == Free # {} => Least(Free) \in Pool /\ \A n \in Names : row[n].ip # Least(Free)
<1> SUFFICES ASSUME Free # {} PROVE Least(Free) \in Free
  BY DEF Free
<1>1. Free \subseteq Nat /\ IsFiniteSet(Free)
  BY IdentityAssumption, FS_Subset DEF Free
<1>2. \E x \in Free : \A y \in Free : x <= y
  BY <1>1, MinimumExists
<1> QED BY <1>2 DEF Least

LEMMA PickKeeps ==
  ASSUME Safe, NEW p \in Procs, Pick(p)
  PROVE  Kept
<1> DEFINE n == Name(p)
           late == {q \in Procs : op[q].pc \in {"file", "update"}}
<1>1. /\ n \in Names /\ op[p].names = {n} /\ op[p].pc = "pick"
      /\ op[p] \in OpValues /\ OpOK(p, op[p]) /\ RowOK(row[n])
  BY NameOf, SafeFacts DEF Pick, Single
<1>2. raced' = IF late = {} THEN raced ELSE raced \cup op[p].names \cup UNION {op[q].names : q \in late}
  BY DEF Pick
<1>3. /\ UNCHANGED <<row, ccd, confDir, daemonDir, lastId, detached>>
      /\ dirty' = dirty /\ faults' = faults
      /\ faults' \in 0 .. MaxFaults /\ dirty' \in SUBSET Names /\ dirty \subseteq dirty'
  BY SafeFacts DEF Pick, files, RestOK
<1>4. raced' \in SUBSET Names /\ raced \subseteq raced'
  <2>1. \A q \in Procs : op[q].names \subseteq Names
    BY SafeFacts DEF OpValues
  <2> QED BY <1>2, <2>1, SafeFacts DEF RestOK
<1>5. CASE Free = {}
  <2>1. Die(p)
    BY <1>5 DEF Pick
  <2> QED BY <1>1, <1>3, <1>4, <2>1, DieKeeps
<1>6. CASE Free # {}
  <2> DEFINE r == [op[p] EXCEPT !.pc = "file", !.ip = Least(Free)]
  <2>1. Least(Free) \in Pool /\ \A m \in Names : row[m].ip # Least(Free)
    BY <1>6, LeastFree
  <2>2. /\ r \in OpValues /\ OpOK(p, r)
        /\ r.pc = "file" /\ r.names = {n} /\ r.id = op[p].id /\ r.ip = Least(Free)
        /\ r.fresh = op[p].fresh
    BY <1>1, <2>1 DEF OpValues, OpOK, Single, Pcs
  <2>3. op' = [op EXCEPT ![p] = r]
    BY <1>6 DEF Pick
  <2> HIDE DEF r
  <2>4. Quiet(p, r)
    BY <1>3, <1>4, <2>2, <2>3 DEF Quiet
  <2>5. ASSUME Unique PROVE Unique'
    <3>1. op'[p] = r /\ \A q \in Procs : q # p => op'[q] = op[q]
      BY <2>2, <2>3, OpUpdate
    <3>2. ASSUME NEW q \in Procs, q # p, IsLate(op[q])
          PROVE  op[q].names \cup op[p].names \subseteq raced'
      <4>1. q \in late
        BY <3>2 DEF IsLate
      <4>2. op[q].names \subseteq UNION {op[a].names : a \in late}
        BY <4>1
      <4> HIDE DEF late
      <4> QED BY <1>2, <4>1, <4>2
    <3>3. \A a, b \in Procs : a # b /\ IsLate(op'[a]) /\ IsLate(op'[b]) => op'[a].names \subseteq raced'
      <4> SUFFICES ASSUME NEW a \in Procs, NEW b \in Procs, a # b, IsLate(op'[a]), IsLate(op'[b])
                   PROVE  op'[a].names \subseteq raced'
        OBVIOUS
      <4>1. CASE a = p
        BY <1>1, <2>2, <3>1, <3>2, <4>1
      <4>2. CASE a # p
        BY <3>1, <3>2, <4>2
      <4> QED BY <4>1, <4>2
    <3>4. ASSUME NEW a \in Procs, IsLate(op'[a]), NEW x \in op'[a].names \ raced', NEW m \in Names \ {x}
          PROVE  row'[m].ip # op'[a].ip
      <4>1. CASE a = p
        BY <1>3, <2>1, <2>2, <3>1, <4>1
      <4>2. CASE a # p
        BY <1>3, <1>4, <2>5, <3>1, <3>4, <4>2 DEF Unique, Picked
      <4> QED BY <4>1, <4>2
    <3>5. Picked'
      BY <3>3, <3>4 DEF Picked, IsLate
    <3>6. UniqueAddresses'
      BY <1>3, <1>4, <2>5 DEF Unique, UniqueAddresses
    <3> QED BY <3>5, <3>6 DEF Unique
  <2>6. ASSUME Files PROVE Files'
    <3>1. n \notin dirty \cup raced => Fits(op[p], row[n], ccd[n])
      BY <1>1, <2>6 DEF Files, Alone
    <3>2. n \notin dirty \cup raced => Fits(r, row[n], ccd[n])
      BY <1>1, <2>2, <3>1 DEF Fits
    <3>3. /\ \A m \in r.names \ (dirty' \cup raced') : Fits(r, row[m], ccd[m])
          /\ \A m \in op[p].names \ (r.names \cup dirty' \cup raced') : ccd[m] = row[m].ip
      BY <1>1, <1>3, <1>4, <2>2, <3>2
    <3>4. \A q \in Procs \ {p} : r.names \cap op[q].names \subseteq raced'
      BY <1>1, <1>4, <2>2, <2>6 DEF Files, Alone
    <3> QED BY <2>4, <2>6, <3>3, <3>4, QuietFiles
  <2>7. GhostsUndone => GhostsUndone'
    <3>1. \A m \in Ghosts : Undoes(op[p], m, row[m]) => Undoes(r, m, row[m])
      BY <1>1, <2>2 DEF Undoes, Fresh
    <3> QED BY <2>4, <3>1, QuietGhosts
  <2> QED BY <2>4, <2>5, <2>6, <2>7, QuietSafe DEF Kept
<1> QED BY <1>5, <1>6

\* The row gets the address the attach picked: no other row has it, and no other attach picked
\* an address meanwhile without the two of them having raced.
LEMMA UpdateRowKeeps ==
  ASSUME Safe, NEW p \in Procs, UpdateRow(p)
  PROVE  Kept
<1> DEFINE n == Name(p)
           w == IF row[n].id = op[p].id THEN [row[n] EXCEPT !.cn = TRUE, !.ip = op[p].ip] ELSE row[n]
<1>1. /\ n \in Names /\ op[p].names = {n} /\ op[p].pc = "update" /\ op[p].id # NoId
      /\ op[p] \in OpValues /\ OpOK(p, op[p]) /\ op[p].ip \in Pool /\ RowOK(row[n])
      /\ row \in [Names -> RowValues] /\ ccd \in [Names -> Pool \cup {NoIP}]
  BY NameOf, SafeFacts DEF UpdateRow, Single, OpOK, RestOK
<1>2. Idle \in OpValues /\ OpOK(p, Idle) /\ Idle.names = {} /\ Idle.pc = "idle" /\ ~IsLate(Idle)
  BY IdleType DEF Idle, IsLate
<1>3. /\ RowOK(w)
      /\ row[n].id = op[p].id => w.cn /\ w.ip = op[p].ip
      /\ row[n].id # op[p].id => w = row[n]
  <2>1. CASE row[n].id = op[p].id
    BY <1>1, <2>1, IdentityAssumption DEF RowOK, RowValues, NoId, NoIP
  <2>2. CASE row[n].id # op[p].id
    BY <1>1, <2>2
  <2> QED BY <2>1, <2>2
<1>4. /\ op' = [op EXCEPT ![p] = Idle]
      /\ row' = [row EXCEPT ![n] = w] /\ ccd' = [ccd EXCEPT ![n] = ccd[n]]
      /\ UNCHANGED <<confDir, daemonDir, lastId, faults, dirty, raced>>
      /\ detached' = detached
  <2>1. CASE row[n].id = op[p].id
    BY <1>1, <2>1 DEF UpdateRow, Finish, files
  <2>2. CASE row[n].id # op[p].id
    BY <1>1, <2>2 DEF UpdateRow, Finish, files
  <2> QED BY <2>1, <2>2
<1> HIDE DEF n, w
<1>5. Change(p, Idle, n, w, ccd[n])
  BY <1>1, <1>2, <1>3, <1>4, SafeFacts DEF Change, RestOK
<1>6. ASSUME Unique PROVE Unique'
  <2>1. op'[p] = Idle /\ \A q \in Procs : q # p => op'[q] = op[q]
    BY <1>2, <1>4, OpUpdate
  <2>2. row'[n] = w /\ \A m \in Names : m # n => row'[m] = row[m]
    BY <1>5, ChangeFacts
  <2>3. n \notin raced => \A m \in Names : m # n => row[m].ip # op[p].ip
    BY <1>1, <1>6 DEF Unique, Picked, IsLate
  <2>4. ASSUME NEW a \in Procs, IsLate(op'[a]), NEW x \in op'[a].names \ raced', NEW m \in Names \ {x}
        PROVE  row'[m].ip # op'[a].ip
    <3>1. a # p /\ op'[a] = op[a]
      BY <1>2, <2>1, <2>4
    <3>2. op[a].names \subseteq raced
      BY <1>1, <1>6, <2>4, <3>1 DEF Unique, Picked, IsLate
    <3> QED BY <1>4, <2>4, <3>1, <3>2
  <2>5. \A a, b \in Procs : a # b /\ IsLate(op'[a]) /\ IsLate(op'[b]) => op'[a].names \subseteq raced'
    BY <1>2, <1>4, <1>6, <2>1 DEF Unique, Picked
  <2>6. Picked'
    BY <2>4, <2>5 DEF Picked, IsLate
  <2>7. ASSUME NEW x \in Names \ raced, NEW y \in Names \ raced, x # y, row'[x].cn, row'[y].cn
        PROVE  row'[x].ip # row'[y].ip
    <3>1. CASE row[n].id # op[p].id
      <4>1. row'[x] = row[x] /\ row'[y] = row[y]
        BY <1>3, <2>2, <3>1
      <4> QED BY <1>6, <2>7, <4>1 DEF Unique, UniqueAddresses
    <3>2. CASE row[n].id = op[p].id
      <4>1. CASE x = n
        BY <1>3, <2>2, <2>3, <2>7, <3>2, <4>1
      <4>2. CASE y = n
        BY <1>3, <2>2, <2>3, <2>7, <3>2, <4>2
      <4>3. CASE x # n /\ y # n
        BY <1>6, <2>2, <2>7, <4>3 DEF Unique, UniqueAddresses
      <4> QED BY <4>1, <4>2, <4>3
    <3> QED BY <3>1, <3>2
  <2>8. raced' = raced
    BY <1>4
  <2>9. UniqueAddresses'
    BY <2>7, <2>8 DEF UniqueAddresses
  <2> QED BY <2>6, <2>9 DEF Unique
<1>7. Files => Files'
  <2>1. Fits(op[p], row[n], ccd[n]) => ccd[n] = w.ip
    BY <1>1, <1>3 DEF Fits
  <2> QED BY <1>2, <1>5, <2>1, ChangeFiles
<1>8. GhostsUndone => GhostsUndone'
  <2>1. w.id # NoId /\ ~w.wg /\ ~w.cn =>
          \/ n \in detached' \/ Undoes(Idle, n, w)
          \/ /\ row[n].id = w.id /\ n \in Ghosts /\ (n \in detached => n \in detached')
             /\ ~Undoes(op[p], n, row[n])
    BY <1>1, <1>2, <1>3, <1>4 DEF Undoes, Ghosts, Exists
  <2> QED BY <1>5, <2>1, ChangeGhosts
<1> QED BY <1>5, <1>6, <1>7, <1>8, ChangeFacts DEF Kept

\* A command that works through a list of names takes one off it.
LEMMA RestOfList ==
  ASSUME Safe, NEW p \in Procs, NEW n \in op[p].names, op[p].pc \in {"ghosts", "purge"}, NEW r,
         r = IF op[p].names = {n} THEN Idle ELSE [op[p] EXCEPT !.names = @ \ {n}]
  PROVE  /\ r \in OpValues /\ OpOK(p, r) /\ ~IsLate(r) /\ r.names = op[p].names \ {n}
         /\ r.names # {} => r.pc = op[p].pc
         /\ \A m, x : ~Undoes(op[p], m, x)
         /\ n \in Names
<1>1. op[p] \in OpValues /\ OpOK(p, op[p])
  BY SafeFacts
<1>2. CASE op[p].names = {n}
  BY <1>1, <1>2, IdleType DEF Idle, IsLate, Undoes, OpValues
<1>3. CASE op[p].names # {n}
  BY <1>1, <1>3 DEF OpValues, OpOK, Single, IsLate, Undoes
<1> QED BY <1>2, <1>3

LEMMA DeleteGhostKeeps ==
  ASSUME Safe, NEW p \in Procs, DeleteGhost(p)
  PROVE  Kept
<1>1. PICK n \in op[p].names :
        /\ row' = IF n \in Ghosts THEN [row EXCEPT ![n] = NoRow] ELSE row
        /\ detached' = IF n \in Ghosts THEN detached \ {n} ELSE detached
        /\ Strike(p, n)
  BY DEF DeleteGhost
<1> DEFINE r == IF op[p].names = {n} THEN Idle ELSE [op[p] EXCEPT !.names = @ \ {n}]
           w == IF n \in Ghosts THEN NoRow ELSE row[n]
<1>2. /\ r \in OpValues /\ OpOK(p, r) /\ ~IsLate(r) /\ r.names = op[p].names \ {n}
      /\ r.names # {} => r.pc = op[p].pc
      /\ \A m, x : ~Undoes(op[p], m, x)
      /\ n \in Names /\ op[p].pc = "ghosts"
  BY RestOfList DEF DeleteGhost
<1>3. /\ RowOK(w) /\ RowOK(row[n])
      /\ n \in Ghosts => w.id = NoId /\ ~w.cn /\ w.ip = NoIP /\ ~row[n].cn
      /\ n \notin Ghosts => w = row[n]
  BY <1>2, SafeFacts, IdleType DEF Ghosts, NoRow
<1>4. /\ op' = [op EXCEPT ![p] = r]
      /\ row' = [row EXCEPT ![n] = w] /\ ccd' = [ccd EXCEPT ![n] = ccd[n]]
      /\ UNCHANGED <<confDir, daemonDir, lastId, faults, dirty, raced>>
      /\ detached' = IF n \in Ghosts THEN detached \ {n} ELSE detached
  <2>1. row' = [row EXCEPT ![n] = w]
    BY <1>1, <1>2, SafeFacts
  <2>2. ccd' = [ccd EXCEPT ![n] = ccd[n]] /\ UNCHANGED <<confDir, daemonDir, lastId, faults, dirty, raced>>
    BY SafeFacts DEF DeleteGhost, files, RestOK
  <2> QED BY <1>1, <2>1, <2>2 DEF Strike
<1> HIDE DEF r, w
<1>5. Change(p, r, n, w, ccd[n])
  BY <1>2, <1>3, <1>4, SafeFacts DEF Change, RestOK
<1>6. Unique => Unique'
  <2>1. w.ip \in {row[n].ip, NoIP} /\ (w.cn => row[n].cn /\ w.ip = row[n].ip)
    BY <1>3
  <2> QED BY <1>2, <1>5, <2>1, ChangeUnique
<1>7. Files => Files'
  <2>1. Fits(op[p], row[n], ccd[n]) => ccd[n] = w.ip
    BY <1>2, <1>3 DEF Fits, RowOK
  <2>2. \A m \in r.names \ {n} : Fits(op[p], row[m], ccd[m]) => Fits(r, row[m], ccd[m])
    BY <1>2 DEF Fits
  <2> QED BY <1>2, <1>5, <2>1, <2>2, ChangeFiles
<1>8. GhostsUndone => GhostsUndone'
  <2>1. w.id # NoId /\ ~w.wg /\ ~w.cn =>
           /\ row[n].id = w.id /\ n \in Ghosts /\ (n \in detached => n \in detached')
           /\ ~Undoes(op[p], n, row[n])
    BY <1>2, <1>3, <1>4 DEF Ghosts, Exists
  <2> QED BY <1>5, <2>1, ChangeGhosts
<1> QED BY <1>5, <1>6, <1>7, <1>8, ChangeFacts DEF Kept

LEMMA PurgeFileKeeps ==
  ASSUME Safe, NEW p \in Procs, PurgeFile(p)
  PROVE  Kept
<1>1. PICK n \in op[p].names :
        /\ ccd' = [ccd EXCEPT ![n] = NoIP]
        /\ Strike(p, n)
  BY DEF PurgeFile
<1> DEFINE r == IF op[p].names = {n} THEN Idle ELSE [op[p] EXCEPT !.names = @ \ {n}]
<1>2. /\ r \in OpValues /\ OpOK(p, r) /\ ~IsLate(r) /\ r.names = op[p].names \ {n}
      /\ r.names # {} => r.pc = op[p].pc
      /\ \A m, x : ~Undoes(op[p], m, x)
      /\ n \in Names /\ op[p].pc = "purge"
  BY RestOfList DEF PurgeFile
<1>3. /\ op' = [op EXCEPT ![p] = r]
      /\ row' = [row EXCEPT ![n] = row[n]] /\ ccd' = [ccd EXCEPT ![n] = NoIP]
      /\ UNCHANGED <<confDir, daemonDir, lastId, faults, dirty, raced>> /\ detached' = detached
      /\ RowOK(row[n])
  BY <1>1, <1>2, SafeFacts DEF PurgeFile, Strike
<1> HIDE DEF r
<1>4. Change(p, r, n, row[n], NoIP)
  BY <1>2, <1>3, SafeFacts DEF Change, RestOK
<1>5. Unique => Unique'
  BY <1>2, <1>4, ChangeUnique
<1>6. Files => Files'
  <2>1. \A m : ~Fits(op[p], row[m], ccd[m])
    BY <1>2 DEF Fits
  <2> QED BY <1>4, <2>1, ChangeFiles
<1>7. GhostsUndone => GhostsUndone'
  <2>1. row[n].id # NoId /\ ~row[n].wg /\ ~row[n].cn =>
          n \in Ghosts /\ (n \in detached => n \in detached') /\ ~Undoes(op[p], n, row[n])
    BY <1>2, <1>3 DEF Ghosts, Exists
  <2> QED BY <1>4, <2>1, ChangeGhosts
<1> QED BY <1>4, <1>5, <1>6, <1>7, ChangeFacts DEF Kept

\* The files of names without a row: a name nobody else worked on has none.
LEMMA ScanFilesKeeps ==
  ASSUME Safe, NEW p \in Procs, ScanFiles(p)
  PROVE  Kept
<1> DEFINE found == {n \in op[p].names : ccd[n] # NoIP}
           r == IF found = {} THEN Idle ELSE [op[p] EXCEPT !.pc = "purge", !.names = found]
<1>1. op[p] \in OpValues /\ OpOK(p, op[p]) /\ op[p].pc = "scan"
  BY SafeFacts DEF ScanFiles
<1>2. r \in OpValues /\ OpOK(p, r) /\ ~IsLate(r) /\ r.names = found
  <2>1. CASE found = {}
    BY <2>1, IdleType DEF Idle, IsLate
  <2>2. CASE found # {}
    BY <1>1, <2>2 DEF OpValues, OpOK, Pcs, Single, IsLate
  <2> QED BY <2>1, <2>2
<1>3. op' = [op EXCEPT ![p] = r]
  BY DEF ScanFiles, Finish
<1> HIDE DEF r
<1>4. Quiet(p, r)
  BY <1>2, <1>3, SafeFacts DEF Quiet, ScanFiles, files, RestOK
<1>5. Unique => Unique'
  BY <1>2, <1>4, QuietUnique
<1>6. ASSUME Files PROVE Files'
  <2>1. \A n \in op[p].names \ (dirty \cup raced) : ccd[n] = NoIP /\ ccd[n] = row[n].ip
    BY <1>1, <1>6 DEF Files, Alone, Fits
  <2>2. /\ \A n \in r.names \ (dirty' \cup raced') : Fits(r, row[n], ccd[n])
        /\ \A n \in op[p].names \ (r.names \cup dirty' \cup raced') : ccd[n] = row[n].ip
    BY <1>2, <2>1 DEF ScanFiles
  <2>3. \A q \in Procs \ {p} : r.names \cap op[q].names \subseteq raced'
    BY <1>2, <1>6 DEF Files, Alone, ScanFiles
  <2> QED BY <1>4, <1>6, <2>2, <2>3, QuietFiles
<1>7. GhostsUndone => GhostsUndone'
  <2>1. \A n : ~Undoes(op[p], n, row[n])
    BY <1>1 DEF Undoes
  <2> QED BY <1>4, <2>1, QuietGhosts
<1> QED BY <1>4, <1>5, <1>6, <1>7, QuietSafe DEF Kept

LEMMA InterruptKeeps ==
  ASSUME Safe, NEW p \in Procs, Interrupt(p)
  PROVE  Kept
<1>1. Idle \in OpValues /\ OpOK(p, Idle) /\ ~IsLate(Idle) /\ Idle.names = {}
  BY IdleType DEF IsLate, Idle
<1>2. op[p].names \subseteq Names /\ faults' \in 0 .. MaxFaults
  BY SafeFacts, IdentityAssumption DEF OpValues, Interrupt, RestOK
<1>3. Quiet(p, Idle) /\ op[p].names \subseteq dirty'
  BY <1>1, <1>2, SafeFacts DEF Quiet, Interrupt, Finish, files, RestOK
<1>4. Unique => Unique'
  BY <1>1, <1>3, QuietUnique
<1>5. ASSUME Files PROVE Files'
  <2>1. \A q \in Procs \ {p} : Idle.names \cap op[q].names \subseteq raced'
    BY <1>1
  <2> QED BY <1>1, <1>3, <1>5, <2>1, QuietFiles
<1>6. GhostsUndone => GhostsUndone'
  <2>1. \A n \in Ghosts : Undoes(op[p], n, row[n]) => n \in dirty'
    BY <1>3 DEF Undoes
  <2> QED BY <1>3, <2>1, QuietGhosts
<1> QED BY <1>3, <1>4, <1>5, <1>6, QuietSafe DEF Kept

\* A WireGuard user is a row with a key: no operation expects anything of it but that it has
\* no identity, and it is no ghost.
LEMMA CreateWGKeeps ==
  ASSUME Safe, NEW n \in Names, CreateWG(n)
  PROVE  Kept
<1> DEFINE w == [NoRow EXCEPT !.id = lastId + 1, !.wg = TRUE]
<1>1. lastId \in 0 .. MaxIds /\ lastId < MaxIds /\ MaxIds \in Nat
  BY SafeFacts, IdentityAssumption DEF CreateWG, Insert, RestOK
<1>2. lastId + 1 \in 0 .. MaxIds /\ lastId + 1 # NoId
  BY <1>1 DEF NoId
<1>3. w.id = lastId + 1 /\ w.wg /\ ~w.cn /\ w.ip = NoIP
  BY DEF NoRow
<1>4. RowOK(w)
  <2>1. w \in RowValues
    BY <1>2 DEF NoRow, RowValues
  <2> HIDE DEF w
  <2> QED BY <1>2, <1>3, <2>1 DEF RowOK
<1>5. row' = [row EXCEPT ![n] = w] /\ lastId' = lastId + 1 /\ row[n] = NoRow
  BY SafeFacts DEF CreateWG, Insert, RowOK, Exists
<1>6. UNCHANGED <<ccd, confDir, daemonDir, op, faults, dirty, detached, raced>>
  BY DEF CreateWG, files
<1> HIDE DEF w
<1>7. /\ row' \in [Names -> RowValues] /\ row'[n] = w
      /\ \A m \in Names : (m # n => row'[m] = row[m]) /\ RowOK(row'[m])
  BY <1>4, <1>5, RowUpdate
<1>8. Safe'
  <2>1. RestOK' /\ op' \in [Procs -> OpValues] /\ \A p \in Procs : OpOK(p, op'[p])
    BY <1>2, <1>5, <1>6, SafeFacts DEF RestOK
  <2>2. TypeOK'
    BY <1>7, <2>1 DEF TypeOK, RestOK, RowOK, Exists
  <2> QED BY <2>1, <2>2 DEF Safe, OpOK
<1>9. ASSUME Unique PROVE Unique'
  <2>1. \A m \in Names : row'[m].ip \in {row[m].ip, NoIP} /\ (row'[m].cn => row[m].cn /\ row'[m].ip = row[m].ip)
    BY <1>3, <1>7
  <2>2. \A p \in Procs : IsLate(op[p]) => op[p].ip # NoIP
    BY SafeFacts, IdentityAssumption DEF OpOK, IsLate
  <2>3. Picked'
    BY <1>6, <1>9, <2>1, <2>2 DEF Unique, Picked, IsLate
  <2>4. UniqueAddresses'
    BY <1>6, <1>9, <2>1 DEF Unique, UniqueAddresses
  <2> QED BY <2>3, <2>4 DEF Unique
<1>10. ASSUME Files PROVE Files'
  <2>1. row[n].id = NoId /\ row[n].ip = NoIP
    BY <1>5 DEF NoRow
  <2>2. ASSUME NEW p \in Procs, NEW m \in op[p].names \ (dirty \cup raced)
        PROVE  Fits(op[p], row'[m], ccd[m])
    <3>1. Fits(op[p], row[m], ccd[m]) /\ m \in Names /\ OpOK(p, op[p])
      BY <1>10, <2>2, SafeFacts DEF Files, Alone, OpValues
    <3>2. CASE m # n
      BY <1>7, <3>1, <3>2
    <3>3. CASE m = n
      BY <1>3, <1>7, <2>1, <3>1, <3>3 DEF Fits, OpOK, Single
    <3> QED BY <3>2, <3>3
  <2>3. Alone'
    BY <1>6, <1>10, <2>2 DEF Files, Alone, Fits
  <2>4. \A m \in Names : row'[m].ip = row[m].ip
    BY <1>3, <1>7, <2>1
  <2>5. FileMatchesRow'
    BY <1>6, <1>10, <2>4 DEF Files, FileMatchesRow, Working
  <2> QED BY <1>6, <1>10, <2>3, <2>5 DEF Files, Dirs
<1>11. ASSUME GhostsUndone PROVE GhostsUndone'
  <2>1. \A m \in Names : row'[m].id # NoId /\ ~row'[m].wg /\ ~row'[m].cn => m # n /\ m \in Ghosts
    BY <1>3, <1>7 DEF Ghosts, Exists
  <2>2. ASSUME NEW m \in Ghosts, m # n
        PROVE  m \in dirty' \cup detached' \/ \E p \in Procs : Undoes(op'[p], m, row'[m])
    BY <1>6, <1>7, <1>11, <2>2 DEF GhostsUndone, Ghosts, Undoes
  <2> QED BY <2>1, <2>2 DEF GhostsUndone, Ghosts, Exists, Undoes
<1> QED BY <1>8, <1>9, <1>10, <1>11 DEF Kept

\* ovpn-init only makes ovpn_dir known.
LEMMA OvpnInitKeeps == Safe /\ OvpnInit => Kept
<1> SUFFICES ASSUME Safe, OvpnInit PROVE Kept
  OBVIOUS
<1>1. confDir' = TRUE /\ UNCHANGED <<row, ccd, daemonDir, op, lastId, faults, dirty, detached, raced>>
  BY DEF OvpnInit
<1>2. Safe'
  BY <1>1 DEF Safe, TypeOK, OpOK, Exists
<1>3. Unique => Unique'
  BY <1>1 DEF Unique, Picked, UniqueAddresses, IsLate
<1>4. Files => Files'
  BY <1>1 DEF Files, Dirs, Alone, Fits, FileMatchesRow, Working
<1>5. GhostsUndone => GhostsUndone'
  BY <1>1 DEF GhostsUndone, Ghosts, Exists, Undoes
<1> QED BY <1>2, <1>3, <1>4, <1>5 DEF Kept

\* A restart ends the handlers; the users they were working on count as interrupted.
LEMMA RestartKeeps == Safe /\ Restart => Kept
<1> SUFFICES ASSUME Safe, Restart PROVE Kept
  OBVIOUS
<1>1. /\ \A p \in Procs : op'[p] = Idle \/ op'[p] = op[p]
      /\ \A p \in Procs : op'[p] # op[p] => op[p].names \subseteq dirty'
      /\ op' \in [Procs -> OpValues] /\ \A p \in Procs : OpOK(p, op'[p])
  BY SafeFacts, IdleType DEF Restart
<1>2. /\ UNCHANGED <<row, ccd, confDir, lastId, detached, raced>> /\ daemonDir' = confDir
      /\ dirty \subseteq dirty' /\ dirty' \in SUBSET Names /\ faults' \in 0 .. MaxFaults
  <2>1. \A p \in Api : op[p].names \subseteq Names
    BY SafeFacts DEF OpValues, Procs
  <2> QED BY <2>1, SafeFacts, IdentityAssumption DEF Restart, RestOK
<1>3. Idle.names = {} /\ Idle.pc = "idle" /\ ~IsLate(Idle)
  BY DEF Idle, IsLate
<1>4. Safe'
  BY <1>1, <1>2 DEF Safe, TypeOK, Exists, OpOK
<1>5. ASSUME Unique PROVE Unique'
  <2>1. \A p \in Procs : IsLate(op'[p]) => op'[p] = op[p]
    BY <1>1, <1>3
  <2>2. Picked'
    BY <1>2, <1>5, <2>1 DEF Unique, Picked, IsLate
  <2>3. UniqueAddresses'
    BY <1>2, <1>5 DEF Unique, UniqueAddresses
  <2> QED BY <2>2, <2>3 DEF Unique
<1>6. ASSUME Files PROVE Files'
  <2>1. \A p \in Procs : op'[p].names # {} => op'[p] = op[p]
    BY <1>1, <1>3
  <2>2. \A p, q \in Procs : p # q => op'[p].names \cap op'[q].names \subseteq raced'
    BY <1>2, <1>6, <2>1 DEF Files, Alone
  <2>3. ASSUME NEW p \in Procs, NEW n \in op'[p].names \ (dirty' \cup raced')
        PROVE  Fits(op'[p], row'[n], ccd'[n])
    <3>1. op'[p] = op[p] /\ n \in op[p].names \ (dirty \cup raced)
      BY <1>2, <2>1, <2>3
    <3> QED BY <1>2, <1>6, <3>1 DEF Files, Alone
  <2>4. Alone'
    BY <2>2, <2>3 DEF Alone, Fits
  <2>5. ASSUME NEW n \in Names \ (dirty' \cup raced'), ~Working(n)'
        PROVE  ccd'[n] = row'[n].ip
    <3>1. ~Working(n)
      BY <1>1, <2>5 DEF Working
    <3> QED BY <1>2, <1>6, <2>5, <3>1 DEF Files, FileMatchesRow
  <2>6. FileMatchesRow'
    BY <2>5 DEF FileMatchesRow
  <2> QED BY <1>2, <1>6, <2>4, <2>6 DEF Files, Dirs
<1>7. ASSUME GhostsUndone PROVE GhostsUndone'
  <2>1. ASSUME NEW n \in Ghosts
        PROVE  n \in dirty' \cup detached' \/ \E p \in Procs : Undoes(op'[p], n, row'[n])
    <3>1. CASE n \in dirty \cup detached
      BY <1>2, <3>1
    <3>2. CASE n \notin dirty \cup detached
      <4>1. PICK p \in Procs : Undoes(op[p], n, row[n])
        BY <1>7, <3>2 DEF GhostsUndone
      <4>2. CASE op'[p] = op[p]
        BY <1>2, <4>1, <4>2
      <4>3. CASE op'[p] # op[p]
        BY <1>1, <4>1, <4>3 DEF Undoes
      <4> QED BY <4>2, <4>3
    <3> QED BY <3>1, <3>2
  <2>2. Ghosts' = Ghosts
    BY <1>2 DEF Ghosts, Exists
  <2> QED BY <2>1, <2>2 DEF GhostsUndone, Undoes
<1> QED BY <1>4, <1>5, <1>6, <1>7 DEF Kept

(***************************************************************************)
(* Every step of the specification.                                        *)
(***************************************************************************)
LEMMA InitHolds == Init => Safe /\ Unique /\ (DirKnown => Files) /\ GhostsUndone
<1> SUFFICES ASSUME Init PROVE Safe /\ Unique /\ (DirKnown => Files) /\ GhostsUndone
  OBVIOUS
<1>1. /\ op \in [Procs -> OpValues] /\ \A p \in Procs : op[p] = Idle /\ OpOK(p, op[p])
      /\ row \in [Names -> RowValues] /\ \A n \in Names : row[n] = NoRow /\ RowOK(row[n])
      /\ ccd \in [Names -> Pool \cup {NoIP}] /\ \A n \in Names : ccd[n] = NoIP
  BY IdleType DEF Init, RowOK
<1>2. /\ NoRow.id = NoId /\ ~NoRow.cn /\ NoRow.ip = NoIP
      /\ Idle.names = {} /\ ~IsLate(Idle)
  BY DEF NoRow, Idle, IsLate
<1>3. RestOK
  BY <1>1, IdentityAssumption DEF Init, RestOK
<1>4. Safe
  BY <1>1, <1>3 DEF Safe, TypeOK, RestOK, RowOK, Exists
<1>5. Unique
  BY <1>1, <1>2 DEF Unique, Picked, UniqueAddresses
<1>6. DirKnown => Files
  BY <1>1, <1>2 DEF Init, Files, Dirs, Alone, FileMatchesRow
<1>7. GhostsUndone
  BY <1>1, <1>2 DEF GhostsUndone, Ghosts, Exists
<1> QED BY <1>4, <1>5, <1>6, <1>7

LEMMA StepKeeps ==
  ASSUME Safe, NEW p \in Procs, Step(p)
  PROVE  Kept
BY ReadFreshKeeps, PickKeeps, WriteFileKeeps, UpdateRowKeeps, AttachFailsKeeps, UndoRowKeeps,
   UndoFileKeeps, DropFileKeeps, ClearRowKeeps, DropAllKeeps, DeleteRowKeeps, DeleteGhostKeeps,
   ScanFilesKeeps, PurgeFileKeeps DEF Step

LEMMA NextKeeps == Safe /\ [Next]_vars => Kept
<1> SUFFICES ASSUME Safe, [Next]_vars PROVE Kept
  OBVIOUS
<1>1. CASE OvpnInit
  BY <1>1, OvpnInitKeeps
<1>2. CASE Restart
  BY <1>2, RestartKeeps
<1>3. CASE \E n \in Names : CreateWG(n)
  BY <1>3, CreateWGKeeps
<1>4. CASE \E p \in Procs : Begin(p)
  <2>1. PICK p \in Procs : Begin(p)
    BY <1>4
  <2> QED BY <2>1, StartGhostsKeeps, StartOrphansKeeps, StartCreateKeeps, StartAttachKeeps,
             StartDetachKeeps, StartDeleteKeeps DEF Begin
<1>5. CASE \E p \in Procs : Step(p)
  BY <1>5, StepKeeps
<1>6. CASE \E p \in Procs : Interrupt(p)
  BY <1>6, InterruptKeeps
<1>7. CASE UNCHANGED vars
  <2>1. UNCHANGED <<row, ccd, confDir, daemonDir, op, lastId, faults, dirty, detached, raced>>
    BY <1>7 DEF vars
  <2>2. Safe'
    BY <2>1 DEF Safe, TypeOK, OpOK, Exists
  <2>3. Unique => Unique'
    BY <2>1 DEF Unique, Picked, UniqueAddresses, IsLate
  <2>4. Files => Files'
    BY <2>1 DEF Files, Dirs, Alone, Fits, FileMatchesRow, Working
  <2>5. GhostsUndone => GhostsUndone'
    BY <2>1 DEF GhostsUndone, Ghosts, Exists, Undoes
  <2> QED BY <2>2, <2>3, <2>4, <2>5 DEF Kept
<1> QED BY <1>1, <1>2, <1>3, <1>4, <1>5, <1>6, <1>7 DEF Next

(***************************************************************************)
(* Theorems.                                                               *)
(***************************************************************************)
IInv == Safe /\ Unique /\ GhostsUndone

LEMMA Invariance == Spec => []IInv
<1>1. Init => IInv
  BY InitHolds DEF IInv
<1>2. IInv /\ [Next]_vars => IInv'
  BY NextKeeps DEF IInv, Kept
<1> QED BY <1>1, <1>2, PTL DEF Spec

\* Rows, files and operations hold values of their kinds, and a row has an OpenVPN address
\* exactly when it has an identity (ovpn_pki.go:340, 380).
THEOREM IdentityTypes == Spec => []TypeOK
<1>1. IInv => TypeOK
  BY DEF IInv, Safe
<1> QED BY <1>1, Invariance, PTL

\* No two users share an OpenVPN address (ovpn_pki.go:192-209), crashes, deletions and detaches
\* in between included, unless two attaches picked an address before either wrote its row.
THEOREM AddressesUnique == Spec => []UniqueAddresses
<1>1. IInv => UniqueAddresses
  BY DEF IInv, Unique
<1> QED BY <1>1, Invariance, PTL

\* ovpnAttachNewUser (ovpn_pki.go:347-350) leaves no new row without an identity behind,
\* whatever other operations do to the row meanwhile and whether or not an address is left.
THEOREM NoGhostStays == Spec => []NoGhostLeft
<1>1. IInv => NoGhostLeft
  <2> SUFFICES ASSUME IInv, NEW n \in Ghosts PROVE Working(n) \/ n \in dirty \cup detached
    BY DEF NoGhostLeft
  <2>1. CASE n \in dirty \cup detached
    BY <2>1
  <2>2. CASE \E p \in Procs : Undoes(op[p], n, row[n])
    BY <2>2 DEF Undoes, Working
  <2> QED BY <2>1, <2>2 DEF IInv, GhostsUndone
<1> QED BY <1>1, Invariance, PTL

\* The file of a user lets it in exactly when its row has an identity, at the address that is
\* blocked when the user runs out, for every name that no two operations worked on at once and
\* whose operations were not interrupted.  The daemon must know ovpn_dir: a daemon older than
\* ovpn-init leaves the file of a deleted user (the run identity_stale).
THEOREM FilesMatch ==
  ASSUME DirKnown
  PROVE  Spec => []FileMatchesRow
<1>1. Init => Safe /\ Files
  BY InitHolds
<1>2. (Safe /\ Files) /\ [Next]_vars => (Safe /\ Files)'
  BY NextKeeps DEF Kept
<1>3. Safe /\ Files => FileMatchesRow
  BY DEF Files
<1> QED BY <1>1, <1>2, <1>3, PTL DEF Spec

(***************************************************************************)
(* What a step may do to a row: insert it, give it the identity of the     *)
(* attach it belongs to, take its identity away, or remove it, on behalf   *)
(* of an operation on that very row or because it has no identity.         *)
(***************************************************************************)
LeftBare(n) == ~row'[n].cn /\ row'[n].id # NoId
Attached(p, n) == op[p].names = {n} /\ op[p].pc = "update" /\ op' = [op EXCEPT ![p] = Idle]
Removed(p, n) ==
  op[p].names = {n} /\ op[p].id = row[n].id /\ op[p].pc \in {"delete", "undoRow"} /\ ~row'[n].cn

RowStep(n) ==
  \/ row'[n] = row[n]
  \/ LeftBare(n)
  \/ \E p \in Procs : row'[n].id # NoId /\ Attached(p, n)
  \/ \E p \in Procs : Removed(p, n)
  \/ ~row[n].cn /\ ~row'[n].cn

LEMMA RowSteps ==
  ASSUME Safe, [Next]_vars, NEW n \in Names
  PROVE  RowStep(n)
<1>1. row \in [Names -> RowValues] /\ RowOK(row[n])
  BY SafeFacts
<1>2. NoRow.id = NoId /\ ~NoRow.cn
  BY DEF NoRow
<1>3. ASSUME NEW m \in Names, NEW wg, Insert(m, wg)
      PROVE  RowStep(n)
  <2>1. lastId + 1 # NoId
    BY SafeFacts, IdentityAssumption DEF RestOK, NoId
  <2> DEFINE w == [NoRow EXCEPT !.id = lastId + 1, !.wg = wg]
  <2>2. w.id = lastId + 1 /\ ~w.cn
    BY DEF NoRow
  <2>3. row' = [row EXCEPT ![m] = w]
    BY <1>3 DEF Insert
  <2> HIDE DEF w
  <2> QED BY <1>1, <2>1, <2>2, <2>3 DEF RowStep, LeftBare
<1>4. ASSUME NEW p \in Procs, UpdateRow(p)
      PROVE  RowStep(n)
  <2>1. Name(p) \in Names /\ op[p].names = {Name(p)} /\ op[p].id # NoId
    BY <1>4, NameOf, SafeFacts DEF UpdateRow, Single, OpOK
  <2>2. row'[n] = row[n] \/ (row'[n].id # NoId /\ Attached(p, n))
    <3>1. CASE row[Name(p)].id = op[p].id /\ n = Name(p)
      BY <1>1, <1>4, <2>1, <3>1 DEF UpdateRow, Attached, RowValues, Finish
    <3>2. CASE ~(row[Name(p)].id = op[p].id /\ n = Name(p))
      BY <1>1, <1>4, <3>2 DEF UpdateRow
    <3> QED BY <3>1, <3>2
  <2> QED BY <2>2 DEF RowStep
<1>5. ASSUME NEW p \in Procs, UndoRow(p) \/ DeleteRow(p)
      PROVE  RowStep(n)
  <2>1. row' = Remove(Name(p), op[p].id) /\ op[p].pc \in {"delete", "undoRow"}
    BY <1>5 DEF UndoRow, DeleteRow
  <2>2. op[p].names = {Name(p)}
    BY <1>5, NameOf DEF UndoRow, DeleteRow, Single
  <2>3. row'[n] = row[n] \/ Removed(p, n)
    BY <1>1, <1>2, <2>1, <2>2 DEF Remove, Removed
  <2> QED BY <2>3 DEF RowStep
<1>6. ASSUME NEW p \in Procs, ClearRow(p)
      PROVE  RowStep(n)
  <2>1. Name(p) \in Names /\ op[p].id # NoId
    BY <1>6, NameOf, SafeFacts DEF ClearRow, Single, OpOK
  <2>2. row'[n] = row[n] \/ LeftBare(n)
    <3>1. CASE row[Name(p)].id = op[p].id /\ n = Name(p)
      BY <1>1, <1>6, <2>1, <3>1 DEF ClearRow, LeftBare, RowValues
    <3>2. CASE ~(row[Name(p)].id = op[p].id /\ n = Name(p))
      BY <1>1, <1>6, <3>2 DEF ClearRow
    <3> QED BY <3>1, <3>2
  <2> QED BY <2>2 DEF RowStep
<1>7. ASSUME NEW p \in Procs, DeleteGhost(p)
      PROVE  RowStep(n)
  <2>1. PICK m \in op[p].names : row' = IF m \in Ghosts THEN [row EXCEPT ![m] = NoRow] ELSE row
    BY <1>7 DEF DeleteGhost
  <2>2. row'[n] = row[n] \/ (~row[n].cn /\ ~row'[n].cn)
    BY <1>1, <1>2, <2>1 DEF Ghosts
  <2> QED BY <2>2 DEF RowStep
<1>8. CASE row' = row
  BY <1>8 DEF RowStep
<1>9. CASE OvpnInit \/ Restart \/ UNCHANGED vars
  BY <1>8, <1>9 DEF OvpnInit, Restart, vars
<1>10. CASE \E m \in Names : CreateWG(m)
  BY <1>3, <1>10 DEF CreateWG
<1>11. ASSUME NEW p \in Procs, Begin(p)
       PROVE  RowStep(n)
  BY <1>3, <1>8, <1>11 DEF Begin, StartGhosts, StartOrphans, StartCreate, StartAttach, StartDetach,
     StartDelete
<1>12. ASSUME NEW p \in Procs, Step(p) \/ Interrupt(p)
       PROVE  RowStep(n)
  BY <1>4, <1>5, <1>6, <1>7, <1>8, <1>12 DEF Step, Interrupt, ReadFresh, Pick, WriteFile,
     AttachFails, UndoFile, DropFile, DropAll, ScanFiles, PurgeFile
<1> QED BY <1>9, <1>10, <1>11, <1>12 DEF Next

(***************************************************************************)
(* An attach that no other operation overlapped finds its user without an  *)
(* identity until it gives it one.                                         *)
(***************************************************************************)
Attaching(r) == r.pc \in {"read", "pick", "file", "update", "undoRow"}

Bare ==
  /\ \A p, q \in Procs : p # q /\ Attaching(op[p]) /\ Attaching(op[q]) =>
       op[p].names \cap op[q].names \subseteq raced
  /\ \A p \in Procs : Attaching(op[p]) => \A n \in op[p].names \ raced : ~row[n].cn

\* Operation p starts: it attaches an identity to users without one, or attaches none.
Began(p) ==
  /\ \A q \in Procs \ {p} : op'[q] = op[q] /\ op'[p].names \cap op[q].names \subseteq raced'
  /\ Attaching(op'[p]) => \A n \in op'[p].names : ~row'[n].cn

\* An operation that attaches goes on attaching to the same user, or ends.
GoesOn(p) == Attaching(op'[p]) => Attaching(op[p]) /\ op'[p].names = op[p].names

LEMMA BeganFacts ==
  ASSUME Safe, NEW p \in Procs, NEW r \in OpValues, Start(p, r),
         Attaching(r) => \A n \in r.names : ~row'[n].cn
  PROVE  Began(p) /\ raced \subseteq raced' /\ \A q \in Procs \ {p} : GoesOn(q)
<1>1. op'[p] = r /\ \A q \in Procs : q # p => op'[q] = op[q]
  BY StartFacts, OpUpdate
<1> QED BY <1>1, StartFacts DEF Began, GoesOn

\* An operation starts or goes on.
OpSteps == raced \subseteq raced' /\ \A p \in Procs : Began(p) \/ GoesOn(p)

LEMMA OneGoesOn ==
  ASSUME Safe, NEW p \in Procs, NEW r \in OpValues, op' = [op EXCEPT ![p] = r],
         raced \subseteq raced', Attaching(r) => Attaching(op[p]) /\ r.names = op[p].names
  PROVE  OpSteps
<1>1. op'[p] = r /\ \A q \in Procs : q # p => op'[q] = op[q]
  BY OpUpdate
<1> QED BY <1>1 DEF OpSteps, GoesOn

LEMMA StartSteps ==
  ASSUME Safe, NEW p \in Procs, Begin(p)
  PROVE  OpSteps
<1>1. ASSUME NEW r \in OpValues, Start(p, r), Attaching(r) => \A n \in r.names : ~row'[n].cn
      PROVE  OpSteps
  BY <1>1, BeganFacts DEF OpSteps
<1>2. \A n \in Names : On(n, "pick") \in OpValues /\ On(n, "drop") \in OpValues /\ On(n, "dropAll") \in OpValues
  BY IdleType, SafeFacts DEF On, Idle, OpValues, Pcs, RowOK, RowValues
<1>3. \A n \in Names : /\ On(n, "pick").names = {n}
                        /\ ~Attaching(On(n, "drop")) /\ ~Attaching(On(n, "dropAll"))
  BY DEF On, Idle, Attaching
<1>4. ASSUME NEW n \in Names, StartCreate(p, n) PROVE OpSteps
  <2> DEFINE r == [Idle EXCEPT !.pc = "read", !.names = {n}, !.fresh = TRUE]
             w == [NoRow EXCEPT !.id = lastId + 1, !.wg = FALSE]
  <2>1. lastId + 1 \in 0 .. MaxIds
    BY <1>4, SafeFacts, IdentityAssumption DEF StartCreate, Insert, RestOK
  <2>2. r \in OpValues /\ r.names = {n}
    BY <2>1, IdleType DEF Idle, OpValues, Pcs
  <2>3. Start(p, r) /\ row' = [row EXCEPT ![n] = w]
    BY <1>4 DEF StartCreate, Insert
  <2>4. ~w.cn
    BY DEF NoRow
  <2> HIDE DEF r, w
  <2>5. \A m \in r.names : ~row'[m].cn
    BY <2>2, <2>3, <2>4, SafeFacts
  <2> QED BY <1>1, <2>2, <2>3, <2>5
<1>5. ASSUME NEW n \in Names, StartAttach(p, n) PROVE OpSteps
  <2>1. Start(p, On(n, "pick")) /\ ~row[n].cn /\ row' = row
    BY <1>5 DEF StartAttach
  <2> QED BY <1>1, <1>2, <1>3, <2>1
<1>6. ASSUME NEW n \in Names, StartDetach(p, n) \/ StartDelete(p, n) PROVE OpSteps
  BY <1>1, <1>2, <1>3, <1>6 DEF StartDetach, StartDelete
<1>7. CASE StartGhosts(p)
  <2> DEFINE r == [Idle EXCEPT !.pc = "ghosts", !.names = Ghosts]
  <2>1. r \in OpValues /\ ~Attaching(r)
    BY IdleType DEF Idle, OpValues, Pcs, Ghosts, Attaching
  <2>2. Start(p, r)
    BY <1>7 DEF StartGhosts
  <2> HIDE DEF r
  <2> QED BY <1>1, <2>1, <2>2
<1>8. CASE StartOrphans(p)
  <2>1. PICK spared \in SUBSET Names :
          Start(p, [Idle EXCEPT !.pc = "scan", !.names = {n \in Names \ spared : ~Exists(n)}])
    BY <1>8 DEF StartOrphans
  <2> DEFINE r == [Idle EXCEPT !.pc = "scan", !.names = {n \in Names \ spared : ~Exists(n)}]
  <2>2. r \in OpValues /\ ~Attaching(r)
    BY IdleType DEF Idle, OpValues, Pcs, Attaching
  <2>3. Start(p, r)
    BY <2>1
  <2> HIDE DEF r
  <2> QED BY <1>1, <2>2, <2>3
<1> QED BY <1>4, <1>5, <1>6, <1>7, <1>8 DEF Begin

LEMMA StepSteps ==
  ASSUME Safe, NEW p \in Procs, Step(p) \/ Interrupt(p)
  PROVE  OpSteps
<1>1. op[p] \in OpValues /\ OpOK(p, op[p]) /\ Idle \in OpValues /\ ~Attaching(Idle)
  BY SafeFacts, IdleType DEF Attaching, Idle
<1>2. ASSUME Finish(p), raced \subseteq raced' PROVE OpSteps
  BY <1>1, <1>2, OneGoesOn DEF Finish
<1>3. ASSUME NEW pc \in Pcs, Goto(p, pc), raced \subseteq raced',
             pc \in {"read", "pick", "file", "update", "undoRow"} => Attaching(op[p])
      PROVE  OpSteps
  <2> DEFINE r == [op[p] EXCEPT !.pc = pc]
  <2>1. r \in OpValues /\ r.names = op[p].names /\ r.pc = pc
    BY <1>1, <1>3 DEF OpValues
  <2>2. op' = [op EXCEPT ![p] = r]
    BY <1>3 DEF Goto
  <2> HIDE DEF r
  <2> QED BY <1>3, <2>1, <2>2, OneGoesOn DEF Attaching
<1>4. ASSUME NEW r \in OpValues, op' = [op EXCEPT ![p] = r], raced \subseteq raced',
             ~Attaching(r) \/ (Attaching(op[p]) /\ r.names = op[p].names)
      PROVE  OpSteps
  BY <1>4, OneGoesOn
<1>5. ASSUME Attaching(op[p]), Die(p), raced \subseteq raced' PROVE OpSteps
  BY <1>2, <1>3, <1>5 DEF Die, Pcs
<1>6. CASE ReadFresh(p)
  <2> DEFINE r == [op[p] EXCEPT !.pc = "pick", !.id = row[Name(p)].id]
  <2>1. row[Name(p)].id \in 0 .. MaxIds /\ Attaching(op[p])
    BY <1>6, NameOf, SafeFacts DEF ReadFresh, Single, RowOK, RowValues, Attaching
  <2>2. r \in OpValues /\ r.names = op[p].names
    BY <1>1, <2>1 DEF OpValues, Pcs
  <2>3. op' = [op EXCEPT ![p] = r] \/ Finish(p)
    BY <1>6 DEF ReadFresh
  <2>4. raced \subseteq raced'
    BY <1>6 DEF ReadFresh
  <2> HIDE DEF r
  <2> QED BY <1>2, <1>4, <2>1, <2>2, <2>3, <2>4
<1>7. CASE Pick(p)
  <2>1. raced \subseteq raced' /\ Attaching(op[p])
    BY <1>7 DEF Pick, Attaching
  <2>2. CASE Free # {}
    <3> DEFINE r == [op[p] EXCEPT !.pc = "file", !.ip = Least(Free)]
    <3>1. Least(Free) \in Pool
      BY <2>2, LeastFree
    <3>2. r \in OpValues /\ r.names = op[p].names
      BY <1>1, <3>1 DEF OpValues, Pcs
    <3>3. op' = [op EXCEPT ![p] = r]
      BY <1>7, <2>2 DEF Pick
    <3> HIDE DEF r
    <3> QED BY <1>4, <2>1, <3>2, <3>3
  <2>3. CASE Free = {}
    BY <1>5, <1>7, <2>1, <2>3 DEF Pick
  <2> QED BY <2>2, <2>3
<1>8. CASE AttachFails(p)
  BY <1>5, <1>8 DEF AttachFails, Attaching
<1>9. CASE WriteFile(p)
  BY <1>3, <1>9 DEF WriteFile, Attaching, Pcs
<1>10. CASE UndoRow(p)
  BY <1>3, <1>10 DEF UndoRow, Pcs
<1>11. CASE DropFile(p) \/ DropAll(p)
  BY <1>3, <1>11 DEF DropFile, DropAll, Pcs
<1>12. CASE UpdateRow(p) \/ UndoFile(p) \/ ClearRow(p) \/ DeleteRow(p) \/ Interrupt(p)
  BY <1>2, <1>12 DEF UpdateRow, UndoFile, ClearRow, DeleteRow, Interrupt
<1>13. ASSUME NEW n, Strike(p, n), ~Attaching(op[p]), raced \subseteq raced' PROVE OpSteps
  <2> DEFINE r == [op[p] EXCEPT !.names = op[p].names \ {n}]
  <2>1. r \in OpValues /\ ~Attaching(r)
    BY <1>1, <1>13 DEF OpValues, Attaching
  <2>2. op' = [op EXCEPT ![p] = r] \/ op' = [op EXCEPT ![p] = Idle]
    BY <1>13 DEF Strike
  <2> HIDE DEF r
  <2> QED BY <1>1, <1>4, <1>13, <2>1, <2>2
<1>14. CASE DeleteGhost(p) \/ PurgeFile(p)
  BY <1>13, <1>14 DEF DeleteGhost, PurgeFile, Attaching
<1>15. CASE ScanFiles(p)
  <2> DEFINE found == {n \in op[p].names : ccd[n] # NoIP}
             r == [op[p] EXCEPT !.pc = "purge", !.names = found]
  <2>1. r \in OpValues /\ ~Attaching(r)
    BY <1>1 DEF OpValues, Pcs, Attaching
  <2>2. (op' = [op EXCEPT ![p] = r] \/ Finish(p)) /\ raced \subseteq raced'
    BY <1>15 DEF ScanFiles
  <2> HIDE DEF r
  <2> QED BY <1>2, <1>4, <2>1, <2>2
<1> QED BY <1>6, <1>7, <1>8, <1>9, <1>10, <1>11, <1>12, <1>14, <1>15 DEF Step

LEMMA NextSteps == Safe /\ [Next]_vars => OpSteps
<1> SUFFICES ASSUME Safe, [Next]_vars PROVE OpSteps
  OBVIOUS
<1>1. ASSUME op' = op, raced' = raced PROVE OpSteps
  BY <1>1 DEF OpSteps, GoesOn
<1>2. CASE OvpnInit \/ (\E n \in Names : CreateWG(n)) \/ UNCHANGED vars
  BY <1>1, <1>2 DEF OvpnInit, CreateWG, vars
<1>3. CASE Restart
  <2>1. \A p \in Procs : op'[p] \in {Idle, op[p]}
    BY <1>3 DEF Restart
  <2>2. ~Attaching(Idle) /\ raced' = raced
    BY <1>3 DEF Restart, Attaching, Idle
  <2> QED BY <2>1, <2>2 DEF OpSteps, GoesOn
<1> QED BY <1>2, <1>3, StartSteps, StepSteps DEF Next

LEMMA BareKept == Safe /\ Bare /\ [Next]_vars => Bare'
<1> SUFFICES ASSUME Safe, Bare, [Next]_vars PROVE Bare'
  OBVIOUS
<1>1. OpSteps /\ (\A n \in Names : RowStep(n)) /\ Safe'
  BY NextSteps, RowSteps, NextKeeps DEF Kept
<1>2. ASSUME NEW p \in Procs, NEW q \in Procs, p # q, Attaching(op'[p]), Attaching(op'[q])
      PROVE  op'[p].names \cap op'[q].names \subseteq raced'
  <2>1. CASE Began(p)
    BY <1>2, <2>1 DEF Began
  <2>2. CASE Began(q)
    BY <1>2, <2>2 DEF Began
  <2>3. CASE GoesOn(p) /\ GoesOn(q)
    BY <1>1, <1>2, <2>3 DEF GoesOn, Bare, OpSteps
  <2> QED BY <1>1, <2>1, <2>2, <2>3 DEF OpSteps
<1>3. ASSUME NEW p \in Procs, Attaching(op'[p]), NEW n \in op'[p].names \ raced' PROVE ~row'[n].cn
  <2>1. n \in Names
    BY <1>1, <1>3, SafeFacts DEF Safe, TypeOK, OpValues
  <2>2. CASE GoesOn(p)
    <3>1. Attaching(op[p]) /\ n \in op[p].names /\ n \notin raced /\ ~row[n].cn
      BY <1>1, <1>3, <2>2 DEF GoesOn, Bare, OpSteps
    <3>2. ASSUME NEW q \in Procs, Attached(q, n) PROVE FALSE
      <4>1. Attaching(op[q]) /\ n \in op[q].names
        BY <3>2 DEF Attached, Attaching
      <4>2. q = p
        BY <3>1, <4>1 DEF Bare
      <4>3. op'[p] = Idle
        BY <3>2, <4>2, IdleType, OpUpdate DEF Attached
      <4> QED BY <1>3, <4>3 DEF Attaching, Idle
    <3> QED BY <1>1, <2>1, <3>1, <3>2 DEF RowStep, LeftBare, Removed
  <2>3. CASE Began(p)
    BY <1>3, <2>3 DEF Began
  <2> QED BY <1>1, <2>2, <2>3 DEF OpSteps
<1> QED BY <1>2, <1>3 DEF Bare

\* No user disappears while it has an identity except through a deletion of that user: never
\* through a list of ghosts (ghosts.go:48 looks at the identities again), and through the
\* cleanup of a create (ovpn_pki.go:354) only if two operations worked on the name at once.
THEOREM UsersStay == Spec => UsersKept
<1>1. Init => Safe /\ Bare
  BY InitHolds DEF Init, Bare, Attaching, Idle
<1>2. (Safe /\ Bare) /\ [Next]_vars => (Safe /\ Bare)'
  BY NextKeeps, BareKept DEF Kept
<1>3. Safe /\ Bare /\ [Next]_vars =>
        [\A n \in Names : row[n].cn /\ row'[n].id = NoId =>
           \E p \in Procs : /\ op[p].id = row[n].id
                            /\ op[p].pc = "delete" \/ (op[p].pc = "undoRow" /\ n \in raced)]_vars
  <2> SUFFICES ASSUME Safe, Bare, [Next]_vars, NEW n \in Names, row[n].cn, row'[n].id = NoId
               PROVE  \E p \in Procs : /\ op[p].id = row[n].id
                                       /\ op[p].pc = "delete" \/ (op[p].pc = "undoRow" /\ n \in raced)
    OBVIOUS
  <2>1. row[n].id # NoId
    BY SafeFacts DEF RowOK, NoRow
  <2>2. PICK p \in Procs : Removed(p, n)
    BY <2>1, RowSteps DEF RowStep, LeftBare
  <2>3. op[p].pc = "undoRow" => n \in raced
    BY <2>2 DEF Removed, Bare, Attaching
  <2> QED BY <2>2, <2>3 DEF Removed
<1> QED BY <1>1, <1>2, <1>3, PTL DEF Spec, UsersKept
=============================================================================
