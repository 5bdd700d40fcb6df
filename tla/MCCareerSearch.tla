---------------------------- MODULE MCCareerSearch ----------------------------
(* Small instances of CareerSearch for TLC.                                *)
EXTENDS CareerSearch

CONSTANTS s1, s2, e1, w1, w2
=============================================================================
