------------------------------ MODULE MCNoticeDesk ------------------------------
(* Small instances of NoticeDesk for TLC.                                  *)
EXTENDS NoticeDesk

CONSTANTS n1, k1, k2, w1, w2, w3
=============================================================================
