------------------------------ MODULE MCBackup ------------------------------
(* Two devices on one slot that keeps two generations of three bytes.      *)
EXTENDS BackupProps, TLC

CONSTANTS d1, d2

MCDevices == {d1, d2}
\* One upload always fits (MaxUploadBytes is less than MaxSlotBytes), but the
\* larger two of every three do not fit together.
MCSize(n) == IF n % 3 = 0 THEN 1 ELSE 2
MCAllFaults == {"crash", "write", "unlink", "network", "reload"}
MCNoFaults == {}
\* Four uploads are followed: the third prunes, and the fourth is one after it.
MCFewUploads == stamps <= 4
Symmetry == Permutations(MCDevices)
=============================================================================
