---------------------------- MODULE MCSingBoxQuota ----------------------------
(* SingBoxQuota with the edits TLC uses: one that changes nothing, and     *)
(* each of period, expiry and switch changed alone.                        *)
EXTENDS SingBoxQuota

Edit(d, l, b) == [base |-> 2, days |-> d, life |-> l, on |-> b]
MCEdits == {Edit(1, 0, TRUE), Edit(2, 0, TRUE), Edit(1, 1, TRUE), Edit(1, 0, FALSE)}
MCNoEdits == {}
=============================================================================
