------------------------------- MODULE Meter -------------------------------
(***************************************************************************)
(* What metering promises of one tunnel, whatever the processes, locks,    *)
(* samples and writes behind it: a byte that crosses the tunnel falls due, *)
(* a bill is made of bytes that are due and takes them off, and so no byte *)
(* is billed twice.  Bytes that are due may be lost (the counters start    *)
(* again, the user is deleted), never found again.                         *)
(***************************************************************************)
EXTENDS Naturals

CONSTANT Users

VARIABLES
  carried,  \* [Users -> Nat]: bytes that crossed the tunnel, ever
  billed,   \* [Users -> Nat]: bytes billed in the current period
  due       \* [Users -> Nat]: bytes of the period still to be billed

Accounts == [Users -> Nat]

Init ==
  /\ carried = [u \in Users |-> 0]
  /\ billed = [u \in Users |-> 0]
  /\ due = [u \in Users |-> 0]

\* A byte crosses the tunnel.
Carry(u) ==
  /\ carried'[u] = carried[u] + 1
  /\ billed'[u] = billed[u]
  /\ due'[u] <= due[u] + 1

\* Some of the bytes that are due are billed; the others stay due.
Bill(u) ==
  /\ carried'[u] = carried[u]
  /\ billed'[u] >= billed[u]
  /\ billed'[u] + due'[u] = billed[u] + due[u]

\* Bytes that were due will never be billed.
Lose(u) ==
  /\ carried'[u] = carried[u]
  /\ billed'[u] = billed[u]
  /\ due'[u] <= due[u]

\* The period ends: a new one starts with bytes that were still due, or with none.
Close(u) ==
  /\ carried'[u] = carried[u]
  /\ billed'[u] = 0
  /\ due'[u] <= due[u]

\* Users move independently, several at once when the interface restarts.
Next ==
  /\ carried' \in Accounts /\ billed' \in Accounts /\ due' \in Accounts
  /\ \A u \in Users : Carry(u) \/ Bill(u) \/ Lose(u) \/ Close(u)

Spec == Init /\ [][Next]_<<carried, billed, due>>
=============================================================================
