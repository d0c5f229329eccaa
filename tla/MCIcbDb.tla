------------------------------- MODULE MCIcbDb -------------------------------
(***************************************************************************)
(* Model-checking instance of IcbDb: two nicks, each with every nummsg    *)
(* (absent, 0, 1, not a number) and with or without a stored message, so  *)
(* every path of deldb's body is taken; one kill or power failure.        *)
(***************************************************************************)
EXTENDS IcbDb

TypeOK ==
    /\ disk \in [state: {"whole", "torn"}, data: DB, synced: BOOLEAN]
    /\ orphans \in 0..Cardinality(Procs) * MaxCrashes
    /\ pc \in [Procs -> Ended \cup {"load", "scan", "wait", "body", "close",
                                    "write", "sync", "replace"}]
    /\ mem \in [Procs -> DB] /\ dirty \in [Procs -> BOOLEAN]
    /\ tmp \in [Procs -> {"none", "open", "written", "synced"}]
    /\ raising \in [Procs -> BOOLEAN]
    /\ todo \subseteq Nicks /\ target \in Nicks /\ crashes \in 0..MaxCrashes
    /\ undo \subseteq [state: {"whole"}, data: DB, synced: BOOLEAN]

(***************************************************************************)
(* Whatever point a flush reached when the power failed, the database    *)
(* file reads back whole: IcbDb(...) never meets a truncated file.  This  *)
(* is what flush's fsync before os.replace is for.                        *)
(***************************************************************************)
FileWhole == disk.state = "whole"

(***************************************************************************)
(* A key deleted from the file comes back only through a power failure   *)
(* that undoes a rename not yet written to the directory.  nickprune      *)
(* keeps the copy it loaded before its deldb subprocesses ran; its close() *)
(* must never write that stale copy back over their deletions, which      *)
(* holds because nickprune never changes its copy and flush() skips a     *)
(* clean database.  Kills leave the file as the last rename made it.      *)
(***************************************************************************)
NoResurrection ==
    [][ (disk.state = "whole" /\ disk'.state = "whole" /\ crashes' = crashes) =>
          \A k \in Keys : disk.data[k] = Absent => disk'.data[k] = Absent ]_vars

(***************************************************************************)
NoStrayTempFiles == orphans > 0 => crashes > 0

(***************************************************************************)
(* nickprune terminates: once it is running, it and the deldb it runs     *)
(* come to an end (done, failed with a traceback, or killed).  Its loop   *)
(* visits each collected nick once, and subprocess.run returns however    *)
(* deldb exits, a traceback or a kill included.                           *)
(***************************************************************************)
PruneEnds ==
    pc["prune"] \in {"load", "scan", "wait"} ~> \A p \in Procs : pc[p] \in Ended
=============================================================================
