---------------------------- MODULE MCCtpSession ----------------------------
(* Model-checking instance of CtpSession: two accounts.                    *)
EXTENDS CtpSession

CONSTANTS X, Y

MCAccounts == {X, Y}
=============================================================================
