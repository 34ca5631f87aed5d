--------------------------- MODULE MCAuthSessions ---------------------------
(* Instances of AuthSessions for TLC: two threads, two clients, two         *)
(* passwords and one name that is not the administrator's.                  *)
EXTENDS AuthSessions

(* Nothing stored yet, or the plaintext of an older release. *)
MCTables == {None, Plain("old")}

=============================================================================
