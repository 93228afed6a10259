------------------------------ MODULE MCSession ------------------------------
(* Constant values for checking Session with TLC.                          *)
EXTENDS Session

\* A version protocol_spec knows, and one it does not.
MCVersions == {773, 47}
MCKnown == {773}
MCLines == {"cmcc", "default"}
=============================================================================
