----------------------------- MODULE Background ------------------------------
(***************************************************************************)
(* What the daemon does behind its requests, side by side: the jobs of the *)
(* registry, and the downloads of one model.  They share no state; what is *)
(* stated here of the downloads is for any number of them and of files.    *)
(***************************************************************************)
EXTENDS JobRegistry

CONSTANTS FileCount, None

VARIABLES pc, file, state, canCancel, flag, stop, inode, owner, content, temp, target, crowded, late

downloadVars == <<pc, file, state, canCancel, flag, stop, inode, owner, content, temp, target, crowded, late>>

Catalog == INSTANCE Downloads WITH status <- state, part <- temp, asked <- stop

ASSUME CatalogAssumption == Catalog!DownloadsAssumption

-----------------------------------------------------------------------------
(* A download's status tells what is on the disk, see Downloads.             *)
StatusTellsDisk == Catalog!StatusTellsDisk

(* Every download comes to an end and says so for good, see Downloads.       *)
EveryDownloadSettles == Catalog!EveryDownloadSettles
=============================================================================
