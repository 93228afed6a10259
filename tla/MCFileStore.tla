----------------------------- MODULE MCFileStore -----------------------------
(* Constant values for checking FileStore with TLC.                        *)
EXTENDS FileStore

CONSTANTS r1, r2, bad

MCReleases == {r1, r2, bad}
MCInvalid == {bad}
=============================================================================
