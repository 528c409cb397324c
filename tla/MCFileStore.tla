---------------------------- MODULE MCFileStore ----------------------------
\* Instances of FileStore: processes of one host that share one file.
EXTENDS FileStore, TLC

CONSTANTS host1

MCHost == [p \in Procs |-> host1]
=============================================================================
