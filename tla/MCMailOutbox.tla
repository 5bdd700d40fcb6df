----------------------------- MODULE MCMailOutbox -----------------------------
(* Small instances of MailOutbox for TLC.                                  *)
EXTENDS MailOutbox

CONSTANTS j1, w1, w2
=============================================================================
