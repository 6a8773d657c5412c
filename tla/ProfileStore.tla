---------------------------- MODULE ProfileStore ----------------------------
(***************************************************************************)
(* What the IPFIX profile commands promise, after spec.md section 7: a    *)
(* command either installs the profile it was given or, when it fails,   *)
(* leaves the installed profile as it was ("no partial state change").    *)
(***************************************************************************)
CONSTANTS
  Profiles,    \* the profiles a command can install
  NoProfile    \* the EMU server runs no profile

VARIABLE installed

(* The server starts with some profile loaded, or none.                    *)
StoreInit == installed \in Profiles \cup {NoProfile}

(* One command: the new profile replaces the old one as a whole.          *)
Replace(p) == installed' = p

StoreNext == \E p \in Profiles : Replace(p)

StoreSpec == StoreInit /\ [][StoreNext]_installed
=============================================================================
