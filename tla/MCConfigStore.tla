--------------------------- MODULE MCConfigStore ---------------------------
(***************************************************************************)
(* Instances of ConfigStore for TLC.                                       *)
(***************************************************************************)
EXTENDS ConfigStore, TLC

CONSTANTS nobody, a1, a2, c1

TwoApi == {a1, a2}
OneCli == {c1}
OneApi == {a1}
NoCli == {}
KeptKinds == {"show", "token", "login", "import", "cliOvpn", "cliInit"}
PlainKinds == {"show", "token", "login", "cliLogin"}
ImportKinds == {"token", "import"}
=============================================================================
