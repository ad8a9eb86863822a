------------------------- MODULE MCTrialCollection -------------------------
(* TLC instances of TrialCollection: the bounds are given in the .cfg files. *)
EXTENDS TrialCollection

\* The claims of the repository's comments are checked on builds that store
\* locally and may upload, which is where they apply.
Uploading == build = [durable |-> TRUE, uploads |-> TRUE]
UploadingSpec == Init /\ Uploading /\ [][Next]_vars
=============================================================================
