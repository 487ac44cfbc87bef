---------- MODULE MCLogUpload ----------
(* What earlier runs left behind, for the model checker: a full backup and  *)
(* a file that has outgrown the limit, or two full backups and a full file. *)
EXTENDS LogUpload

MCOldLogs == {<<1, 3>>, <<2, 2>>}
====================
