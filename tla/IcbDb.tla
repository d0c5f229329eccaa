-------------------------------- MODULE IcbDb --------------------------------
(***************************************************************************)
(* src/support/icbdb.py and the two scripts that use it together:         *)
(* nickprune.py loads the database, and for each nick it decides to       *)
(* delete runs deldb.py on it as a subprocess (subprocess.run waits),     *)
(* still holding its own loaded copy; both close the database on leaving  *)
(* their "with IcbDb(...)" block, which flushes it.                        *)
(*                                                                         *)
(* IcbDb.flush writes a temp file, fsyncs it and os.replace()s it over    *)
(* the database.  A process may be killed at any step, and the machine    *)
(* may lose power: data not yet fsynced is then lost, so a file renamed   *)
(* into place from unsynced data reads back empty, and a rename the file  *)
(* system has not yet written to the directory may be undone (flush never *)
(* fsyncs the directory).                                                 *)
(*                                                                         *)
(* Data is abstracted to the keys deldb touches: per nick "nick",         *)
(* "nummsg" (a count, or text int() rejects) and one stored message.      *)
(***************************************************************************)
EXTENDS Naturals, FiniteSets

CONSTANTS
    Nicks,          \* nicks in the database (lower-case)
    Absent,         \* "no such key"
    MaxCrashes,     \* bound on kills and power failures
    MayWriteFail    \* may writing the temp file raise (ENOSPC, EIO)

Fields == {"nick", "nummsg", "message1"}
Keys == Nicks \X Fields
Vals == {"v", "0", "1", "x"}
DB == [Keys -> Vals \cup {Absent}]

\* Database files as mkdb/setdb/dbimport leave them.
InitialFiles ==
    {d \in DB : \A n \in Nicks : /\ d[<<n, "nick">>] = "v"
                                 /\ d[<<n, "nummsg">>] \in {Absent, "0", "1", "x"}
                                 /\ d[<<n, "message1">>] \in {Absent, "v"}}

Procs == {"prune", "del"}
Ended == {"idle", "done", "failed", "crashed"}

VARIABLES
    disk,      \* the .db file: [state: "whole"/"torn", data, synced]
    orphans,   \* temp files left in the directory
    pc,        \* each process's position
    mem,       \* each process's IcbDb._data
    dirty,     \* each process's IcbDb._dirty
    tmp,       \* each process's temp file: "none"/"open"/"written"/"synced"
    raising,   \* an exception is leaving the with-block (re-raised after close)
    todo,      \* nickprune's nicks_to_check not yet visited
    target,    \* the nick nickprune passed to deldb
    crashes,   \* kills and power failures so far
    undo       \* files the database's name may point to again after a power
               \* failure: renames not yet written back to the directory

vars == <<disk, orphans, pc, mem, dirty, tmp, raising, todo, target, crashes, undo>>

EmptyDB == [k \in Keys |-> Absent]

Init ==
    /\ disk \in [state: {"whole"}, data: InitialFiles, synced: {TRUE}]
    /\ orphans = 0
    /\ pc = [p \in Procs |-> IF p = "prune" THEN "load" ELSE "idle"]
    /\ mem = [p \in Procs |-> EmptyDB]
    /\ dirty = [p \in Procs |-> FALSE] /\ tmp = [p \in Procs |-> "none"]
    /\ raising = [p \in Procs |-> FALSE]
    /\ todo = {} /\ crashes = 0 /\ undo = {}
    /\ target = CHOOSE n \in Nicks : TRUE

-----------------------------------------------------------------------------
(* IcbDb *)

(***************************************************************************)
(* IcbDb(path): _load reads the whole file; a file cut short raises       *)
(* ValueError out of the constructor, before the with-block is entered.   *)
(* nickprune then collects the keys ending in ".nick".                    *)
(***************************************************************************)
Load(p) ==
    /\ pc[p] = "load"
    /\ IF disk.state = "torn"
       THEN pc' = [pc EXCEPT ![p] = "failed"] /\ UNCHANGED <<mem, todo>>
       ELSE /\ mem' = [mem EXCEPT ![p] = disk.data]
            /\ pc' = [pc EXCEPT ![p] = IF p = "prune" THEN "scan" ELSE "body"]
            /\ todo' = IF p = "prune"
                       THEN {n \in Nicks : disk.data[<<n, "nick">>] # Absent}
                       ELSE todo
    /\ UNCHANGED <<disk, orphans, dirty, tmp, raising, target, crashes, undo>>

\* Next step after the with-block has been left, flushed or not.
Leave(p) == IF raising[p] THEN "failed" ELSE "done"

\* Mutant: flush() without its "if not self._dirty: return".
CloseIgnoresDirty(p) ==
    /\ pc[p] = "close"
    /\ pc' = [pc EXCEPT ![p] = "write"] /\ tmp' = [tmp EXCEPT ![p] = "open"]
    /\ UNCHANGED <<disk, orphans, mem, dirty, raising, todo, target, crashes, undo>>

(***************************************************************************)
(* close() = flush(): nothing to do unless _dirty; else mkstemp in the    *)
(* database's directory.                                                   *)
(***************************************************************************)
Close(p) ==
    /\ pc[p] = "close"
    /\ IF dirty[p]
       THEN pc' = [pc EXCEPT ![p] = "write"] /\ tmp' = [tmp EXCEPT ![p] = "open"]
       ELSE pc' = [pc EXCEPT ![p] = Leave(p)] /\ UNCHANGED tmp
    /\ UNCHANGED <<disk, orphans, mem, dirty, raising, todo, target, crashes, undo>>

\* Mutant: the except clause re-raises without os.unlink(tmp).
FlushWriteLeaky(p) ==
    /\ pc[p] = "write"
    /\ \/ tmp' = [tmp EXCEPT ![p] = "written"] /\ pc' = [pc EXCEPT ![p] = "sync"]
          /\ UNCHANGED orphans
       \/ MayWriteFail /\ tmp' = [tmp EXCEPT ![p] = "none"] /\ orphans' = orphans + 1
          /\ pc' = [pc EXCEPT ![p] = "failed"]
    /\ UNCHANGED <<disk, mem, dirty, raising, todo, target, crashes, undo>>

(***************************************************************************)
(* Header and entries are written to the temp file; a write that raises   *)
(* unlinks the temp file and re-raises, _dirty left set.                  *)
(***************************************************************************)
FlushWrite(p) ==
    /\ pc[p] = "write"
    /\ \/ tmp' = [tmp EXCEPT ![p] = "written"] /\ pc' = [pc EXCEPT ![p] = "sync"]
       \/ MayWriteFail /\ tmp' = [tmp EXCEPT ![p] = "none"]
          /\ pc' = [pc EXCEPT ![p] = "failed"]
    /\ UNCHANGED <<disk, orphans, mem, dirty, raising, todo, target, crashes, undo>>

\* Mutant: no os.fsync before the rename.
FlushSyncSkipped(p) ==
    /\ pc[p] = "sync"
    /\ pc' = [pc EXCEPT ![p] = "replace"]
    /\ UNCHANGED <<disk, orphans, mem, dirty, tmp, raising, todo, target, crashes, undo>>

\* f.flush(); os.fsync(f.fileno()).
FlushSync(p) ==
    /\ pc[p] = "sync"
    /\ tmp' = [tmp EXCEPT ![p] = "synced"] /\ pc' = [pc EXCEPT ![p] = "replace"]
    /\ UNCHANGED <<disk, orphans, mem, dirty, raising, todo, target, crashes, undo>>

(***************************************************************************)
(* os.replace(tmp, path), then _dirty = False.  The directory is never    *)
(* fsynced, so until the file system writes it back a power failure may   *)
(* leave the name on the file it replaced.                                *)
(***************************************************************************)
FlushReplace(p) ==
    /\ pc[p] = "replace"
    /\ disk' = [state |-> "whole", data |-> mem[p], synced |-> tmp[p] = "synced"]
    /\ undo' = undo \cup {disk}
    /\ tmp' = [tmp EXCEPT ![p] = "none"] /\ dirty' = [dirty EXCEPT ![p] = FALSE]
    /\ pc' = [pc EXCEPT ![p] = Leave(p)]
    /\ UNCHANGED <<orphans, mem, raising, todo, target, crashes>>

-----------------------------------------------------------------------------
(* The scripts *)

(***************************************************************************)
(* deldb.py on one nick: num = int(nummsg or "0") raises ValueError on a  *)
(* count that is not a number, before anything is deleted; else every     *)
(* SUFFIXES key of the nick that exists is deleted, and the stored        *)
(* messages 1..num.  Each del sets _dirty.                                 *)
(***************************************************************************)
DelBody ==
    LET n  == target
        nm == mem["del"][<<n, "nummsg">>]
        gone == {<<n, "nick">>, <<n, "nummsg">>}
                  \cup (IF nm = "1" THEN {<<n, "message1">>} ELSE {})
    IN  /\ pc["del"] = "body"
        /\ pc' = [pc EXCEPT !["del"] = "close"]
        /\ IF nm = "x"
           THEN raising' = [raising EXCEPT !["del"] = TRUE] /\ UNCHANGED <<mem, dirty>>
           ELSE /\ mem' = [mem EXCEPT !["del"] =
                           [k \in Keys |-> IF k \in gone THEN Absent ELSE mem["del"][k]]]
                /\ dirty' = [dirty EXCEPT !["del"] =
                           dirty["del"] \/ \E k \in gone : mem["del"][k] # Absent]
                /\ UNCHANGED raising
        /\ UNCHANGED <<disk, orphans, tmp, todo, target, crashes, undo>>

(***************************************************************************)
(* nickprune.py, one turn of its loop over nicks_to_check.  Whether a     *)
(* nick is "server"/"admin", has a parsable signoff/signon date, is old    *)
(* enough and what the operator answers are inputs: the nick is skipped,  *)
(* the loop is left (EOF or "q"), or deldb is run on it and waited for.   *)
(***************************************************************************)
PruneScan ==
    /\ pc["prune"] = "scan"
    /\ IF todo = {}
       THEN pc' = [pc EXCEPT !["prune"] = "close"] /\ UNCHANGED <<todo, target, mem, dirty, raising>>
       ELSE \E n \in todo :
              /\ todo' = todo \ {n}
              /\ \/ UNCHANGED <<pc, target, mem, dirty, raising>>
                 \/ pc' = [pc EXCEPT !["prune"] = "close"] /\ UNCHANGED <<target, mem, dirty, raising>>
                 \/ /\ pc' = [pc EXCEPT !["prune"] = "wait", !["del"] = "load"]
                    /\ target' = n
                    /\ mem' = [mem EXCEPT !["del"] = EmptyDB]
                    /\ dirty' = [dirty EXCEPT !["del"] = FALSE]
                    /\ raising' = [raising EXCEPT !["del"] = FALSE]
    /\ UNCHANGED <<disk, orphans, tmp, crashes, undo>>

\* Mutant: a wait that only sees deldb exit normally, not killed by a signal.
PruneWaitExitOnly ==
    /\ pc["prune"] = "wait" /\ pc["del"] \in {"done", "failed"}
    /\ pc' = [pc EXCEPT !["prune"] = "scan", !["del"] = "idle"]
    /\ UNCHANGED <<disk, orphans, mem, dirty, tmp, raising, todo, target, crashes, undo>>

\* subprocess.run returns when deldb exits, whatever its exit status.
PruneWait ==
    /\ pc["prune"] = "wait" /\ pc["del"] \in {"done", "failed", "crashed"}
    /\ pc' = [pc EXCEPT !["prune"] = "scan", !["del"] = "idle"]
    /\ UNCHANGED <<disk, orphans, mem, dirty, tmp, raising, todo, target, crashes, undo>>

-----------------------------------------------------------------------------
(* Failures *)

\* The process is killed; its temp file, if any, stays in the directory.
Crash(p) ==
    /\ crashes < MaxCrashes /\ pc[p] \notin Ended
    /\ pc' = [pc EXCEPT ![p] = "crashed"]
    /\ orphans' = orphans + (IF tmp[p] = "none" THEN 0 ELSE 1)
    /\ tmp' = [tmp EXCEPT ![p] = "none"] /\ crashes' = crashes + 1
    /\ UNCHANGED <<disk, mem, dirty, raising, todo, target, undo>>

(***************************************************************************)
(* Power fails: every running process stops and temp files stay.  The    *)
(* name points to the current file or, where renames were not yet written *)
(* back, to a file one of them replaced; a file whose data was never      *)
(* fsynced reads back empty.                                              *)
(***************************************************************************)
PowerFail ==
    /\ crashes < MaxCrashes /\ \E p \in Procs : pc[p] \notin Ended
    /\ pc' = [p \in Procs |-> IF pc[p] \in Ended THEN pc[p] ELSE "crashed"]
    /\ orphans' = orphans + Cardinality({p \in Procs : tmp[p] # "none"})
    /\ tmp' = [p \in Procs |-> "none"]
    /\ \E f \in {disk} \cup undo :
          disk' = IF f.synced THEN f ELSE [f EXCEPT !.state = "torn"]
    /\ undo' = {}
    /\ crashes' = crashes + 1
    /\ UNCHANGED <<mem, dirty, raising, todo, target>>

\* The file system writes the directory back (its journal commit): the
\* renames made so far survive a power failure.
DirWriteBack ==
    /\ undo # {}
    /\ undo' = {}
    /\ UNCHANGED <<disk, orphans, pc, mem, dirty, tmp, raising, todo, target, crashes>>

\* The operator runs nickprune again once nothing of the last run is left.
Rerun ==
    /\ pc["prune"] = "crashed" /\ pc["del"] \in Ended
    /\ pc' = [pc EXCEPT !["prune"] = "load", !["del"] = "idle"]
    /\ dirty' = [dirty EXCEPT !["prune"] = FALSE]
    /\ raising' = [raising EXCEPT !["prune"] = FALSE]
    /\ UNCHANGED <<disk, orphans, mem, tmp, todo, target, crashes, undo>>

-----------------------------------------------------------------------------
Step(p) == Load(p) \/ Close(p) \/ FlushWrite(p) \/ FlushSync(p) \/ FlushReplace(p)

Scripts == (\E p \in Procs : Step(p)) \/ DelBody \/ PruneScan \/ PruneWait

Next == Scripts \/ (\E p \in Procs : Crash(p)) \/ PowerFail \/ DirWriteBack \/ Rerun

(***************************************************************************)
(* Each script is a running process the OS keeps scheduling; kills,       *)
(* power failures and the operator's rerun get no fairness.               *)
(***************************************************************************)
Spec == Init /\ [][Next]_vars /\ WF_vars(Scripts)
=============================================================================
