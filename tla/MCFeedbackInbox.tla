---------------------------- MODULE MCFeedbackInbox ----------------------------
(* Small instances of FeedbackInbox for TLC.                               *)
EXTENDS FeedbackInbox

CONSTANTS f1, f2, d1, d2, r1, r2, resolved
=============================================================================
