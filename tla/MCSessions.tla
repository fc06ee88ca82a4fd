----------------------------- MODULE MCSessions -----------------------------
(* An instance of Sessions in which all e-mails give the same username.    *)
EXTENDS Sessions

CONSTANT name

SameName == [u \in Users |-> name]
=============================================================================
