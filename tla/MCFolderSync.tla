---------------------------- MODULE MCFolderSync ----------------------------
(* A folder with one file in it, and a file beside it.                     *)
EXTENDS FolderSync

MCNames == {"d", "d/x", "y"}
MCAbove == [n \in MCNames |-> IF n = "d/x" THEN {"d"} ELSE {}]
MCPlain == {"d", "d/x"}
MCPlainAbove == [n \in MCPlain |-> IF n = "d/x" THEN {"d"} ELSE {}]
MCBig == {"y"}
MCNone == {}
=============================================================================
