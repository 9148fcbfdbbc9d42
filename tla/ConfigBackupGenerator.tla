------------------------ MODULE ConfigBackupGenerator ------------------------
(***************************************************************************)
(* src/scripts/generate_config_backup.py: for theta 0.0, 0.1, ..., 1.0 and *)
(* block 100, 300, ..., 900 it writes compute_back_config_<theta>_<block>  *)
(* .json into config_files, overwriting what is there.  The JSON body is   *)
(* opaque to every consumer (spec 4.1); only which files exist matters.    *)
(***************************************************************************)
CONSTANT
  Files   \* the (theta, block) keys of the files it writes

VARIABLES
  backVariants,  \* which compute_back_config_<theta>_<block> exist
  genPc

Begin == genPc = "start"
Restart == genPc' = "start"

(* Lines 5-46: makedirs, then one json.dump per (theta, block); nothing in *)
(* the loop can fail short of the disk, so the files appear together.     *)
Generate ==
  /\ genPc = "start" /\ genPc' = "done"
  /\ backVariants' = backVariants \cup Files

Done == genPc = "done"

=============================================================================
