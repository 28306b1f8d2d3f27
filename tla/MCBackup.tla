------------------------------ MODULE MCBackup ------------------------------
(* One original with two contents; two backups; the medium fails once; the *)
(* other commands make two changes.                                        *)
EXTENDS BackupProperties

MCContents == {1, 2}
=============================================================================
