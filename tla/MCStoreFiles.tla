----------------------------- MODULE MCStoreFiles ----------------------------
EXTENDS StoreFiles

(* The files of a store that exists already.                               *)
MCSpec == InitFiles /\ files # <<>> /\ [][FileSteps]_fileVars /\ FileFairness

=============================================================================
