------------------------------ MODULE Version ------------------------------
(***************************************************************************)
(* The comparison behind "update available": the tag of the latest release *)
(* against the version compiled in.  A version text is a record: whether   *)
(* it is empty or a build from source, its first three fields, each a      *)
(* number once its suffix ("-rc1", "+meta") is cut off or else Bad, and    *)
(* the rest, so that two texts are the same if the records are.            *)
(***************************************************************************)
EXTENDS Integers, Sequences, TLAPS

CONSTANTS
  Rests, \* what else a text has: prefix, suffixes, fields that are no numbers
  Bad    \* a field that is not a number

Fields == UNION {[1 .. n -> Nat \cup {Bad}] : n \in 1 .. 3}
Texts == [empty : BOOLEAN, dev : BOOLEAN, fields : Fields, rest : Rests]

\* semParts: all fields are numbers; missing ones are 0.
Parses(t) == Bad \notin {t.fields[i] : i \in DOMAIN t.fields}
SemParts(t) == [i \in 1 .. 3 |-> IF i \in DOMAIN t.fields THEN t.fields[i] ELSE 0]

\* The first field that differs decides.
Above(a, b) == \E k \in 1 .. 3 : a[k] > b[k] /\ \A j \in 1 .. k - 1 : a[j] = b[j]

IsNewer(latest, installed) ==
  /\ ~latest.empty /\ ~installed.empty /\ latest # installed
  /\ Parses(latest) /\ Parses(installed) /\ ~installed.dev =>
       Above(SemParts(latest), SemParts(installed))

\* A release, as opposed to a build from source or a text that does not parse.
Releases == {t \in Texts : Parses(t) /\ ~t.dev /\ ~t.empty}

-----------------------------------------------------------------------------
(***************************************************************************)
(* Theorems.                                                               *)
(***************************************************************************)
\* semParts gives three numbers for every text it accepts (version.go:110-126).
LEMMA PartsAreNumbers ==
  ASSUME Bad \notin Nat, NEW t \in Releases
  PROVE  \A k \in 1 .. 3 : SemParts(t)[k] \in Nat
<1>1. PICK n \in 1 .. 3 : t.fields \in [1 .. n -> Nat \cup {Bad}]
  BY DEF Releases, Texts, Fields
<1>2. \A i \in DOMAIN t.fields : t.fields[i] \in Nat
  BY <1>1 DEF Releases, Parses
<1>3. QED
  BY <1>2 DEF SemParts

\* isNewer (version.go:88-106) never points both ways: after the update from one release to
\* another the panel does not offer the way back.
THEOREM NoWayBack ==
  ASSUME Bad \notin Nat, NEW a \in Releases, NEW b \in Releases, IsNewer(a, b)
  PROVE  ~IsNewer(b, a)
<1>1. \A k \in 1 .. 3 : SemParts(a)[k] \in Nat /\ SemParts(b)[k] \in Nat
  BY PartsAreNumbers
<1>2. Above(SemParts(a), SemParts(b))
  BY DEF IsNewer, Releases
<1>3. ~Above(SemParts(b), SemParts(a))
  <2> DEFINE x == SemParts(a)  y == SemParts(b)
  <2>1. \A k \in 1 .. 3 : x[k] \in Nat /\ y[k] \in Nat
    BY <1>1
  <2>2. Above(x, y)
    BY <1>2
  <2> HIDE DEF x, y
  <2>3. ~Above(y, x)
    BY <2>1, <2>2 DEF Above
  <2>4. QED
    BY <2>3 DEF x, y
<1>4. QED
  BY <1>3 DEF IsNewer, Releases

\* A chain of updates is itself an update: it never leads back to where it began.
THEOREM UpdatesGoUp ==
  ASSUME Bad \notin Nat, NEW a \in Releases, NEW b \in Releases, NEW c \in Releases,
         IsNewer(a, b), IsNewer(b, c)
  PROVE  IsNewer(a, c)
<1> DEFINE x == SemParts(a)  y == SemParts(b)  z == SemParts(c)
<1>1. \A k \in 1 .. 3 : x[k] \in Nat /\ y[k] \in Nat /\ z[k] \in Nat
  BY PartsAreNumbers
<1>2. Above(x, y) /\ Above(y, z)
  BY DEF IsNewer, Releases
<1>3. Above(x, z)
  <2> HIDE DEF x, y, z
  <2> QED BY <1>1, <1>2 DEF Above
<1>4. a # c
  <2>1. \A k \in 1 .. 3 : x[k] \in Nat
    BY <1>1
  <2>2. ~Above(x, x)
    BY <2>1 DEF Above
  <2>3. QED
    BY <1>3, <2>2
<1>5. QED
  BY <1>3, <1>4 DEF IsNewer, Releases
=============================================================================
