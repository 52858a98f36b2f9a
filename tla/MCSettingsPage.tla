--------------------------- MODULE MCSettingsPage ---------------------------
(***************************************************************************)
(* Two bots: the password of A is to be hashed on read, and that of B is   *)
(* hashed already.                                                         *)
(***************************************************************************)
EXTENDS SettingsPage

CONSTANTS A, B

With(v, h, a) == [f \in Field |-> CASE f = Pw -> v [] f = Hashed -> h [] f = AutoHash -> a]

Settings == {[b \in Bot |-> IF b = A THEN With(1, 0, 1) ELSE With(2, 1, 0)]}

=============================================================================
