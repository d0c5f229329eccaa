------------------------------- MODULE DbTools -------------------------------
(***************************************************************************)
(* dbm2icbdb.py: migrate a legacy dbm database at base path S into the    *)
(* new .db format at <dst>.db, dst being -o's path or S itself.           *)
(*                                                                         *)
(* The files are those a legacy database of each kind occupies: ndbm      *)
(* keeps S.dir and S.pag, an ndbm built on Berkeley DB (and gdbm as the   *)
(* script's header describes it) keeps S.db, Python's gdbm keeps S.  A   *)
(* file is absent, a part of the legacy database, or a .db file with its  *)
(* bytes.  The script runs alone; IcbDb's flush is one step here, its     *)
(* crash behaviour being IcbDb's.                                         *)
(***************************************************************************)
EXTENDS DbFile

CONSTANTS
    Layouts,     \* kinds of legacy database the operator may have
    LegacyDBs,   \* contents the legacy database may hold, as dicts
    OldDBs       \* contents of a .db file already at the destination

Names == {"S.dir", "S.pag", "S.db", "S", "O.db", "O"}

LegacyFiles(l) ==
    CASE l = "ndbm" -> {"S.dir", "S.pag"}
      [] l = "bdb"  -> {"S.db"}
      [] l = "gdbm" -> {"S"}

NoFile == [kind |-> "none", bytes |-> <<>>]
LegacyPart == [kind |-> "legacy", bytes |-> <<>>]
DbBytes(b) == [kind |-> "db", bytes |-> b]

VARIABLES
    layout,   \* the legacy database's kind
    output,   \* "default" (no -o) or "other" (-o O)
    legacy,   \* the legacy database's contents, in firstkey/nextkey order
    fs,       \* the files
    pc,       \* where main/migrate is
    newdb,    \* new_db._data
    dirty,    \* new_db._dirty
    cursor    \* index of the legacy key the copy loop is at

vars == <<layout, output, legacy, fs, pc, newdb, dirty, cursor>>

\* dst = args.output if args.output else args.source; dst_file = dst + ".db"
DstFile == IF output = "default" THEN "S.db" ELSE "O.db"

Init ==
    /\ layout \in Layouts /\ output \in {"default", "other"} /\ legacy \in LegacyDBs
    /\ \E old \in {NoFile} \cup {DbBytes(Serialize(o)) : o \in OldDBs} :
          fs = [n \in Names |-> IF n \in LegacyFiles(layout) THEN LegacyPart
                                ELSE IF n = DstFile THEN old ELSE NoFile]
    /\ pc = "check" /\ newdb = <<>> /\ dirty = FALSE /\ cursor = 1

\* os.path.exists(dst_file): ask before overwriting.
Check ==
    /\ pc = "check"
    /\ pc' = IF fs[DstFile] # NoFile THEN "prompt" ELSE "open"
    /\ UNCHANGED <<layout, output, legacy, fs, newdb, dirty, cursor>>

\* "Overwrite? [y/N]": anything but y aborts; y unlinks dst_file.
Prompt ==
    /\ pc = "prompt"
    /\ \/ pc' = "aborted" /\ UNCHANGED fs
       \/ fs' = [fs EXCEPT ![DstFile] = NoFile] /\ pc' = "open"
    /\ UNCHANGED <<layout, output, legacy, newdb, dirty, cursor>>

\* migrate: dbm.open(src_path, "r"); dbm.error exits with status 1.
OpenLegacy ==
    /\ pc = "open"
    /\ pc' = IF \A f \in LegacyFiles(layout) : fs[f] = LegacyPart THEN "load" ELSE "failed"
    /\ UNCHANGED <<layout, output, legacy, fs, newdb, dirty, cursor>>

\* IcbDb's _load of a file: nothing to load when it is missing; a file
\* that is not a .db file raises (its header is not MAGIC).
LoadFile(f) ==
    CASE f.kind = "none" -> [ok |-> TRUE, data |-> <<>>]
      [] f.kind = "db"   -> LoadBytes(f.bytes)
      [] OTHER           -> [ok |-> FALSE, data |-> <<>>]

\* with IcbDb(dst_path): _load raises out of migrate, else the copy starts.
OpenNew ==
    /\ pc = "load"
    /\ LET r == LoadFile(fs[DstFile])
       IN  IF r.ok THEN newdb' = r.data /\ pc' = "copy"
           ELSE pc' = "failed" /\ UNCHANGED newdb
    /\ UNCHANGED <<layout, output, legacy, fs, dirty, cursor>>

CopyKey ==
    /\ pc = "copy"
    /\ IF cursor <= Len(legacy)
       THEN /\ newdb' = SetItem(newdb, legacy[cursor][1], legacy[cursor][2])
            /\ dirty' = TRUE /\ cursor' = cursor + 1
            /\ UNCHANGED pc
       ELSE pc' = "close" /\ UNCHANGED <<newdb, dirty, cursor>>
    /\ UNCHANGED <<layout, output, legacy, fs>>

\* Leaving the with-block: close() flushes a dirty database to dst_file.
CloseNew ==
    /\ pc = "close"
    /\ fs' = IF dirty THEN [fs EXCEPT ![DstFile] = DbBytes(Serialize(newdb))] ELSE fs
    /\ dirty' = FALSE /\ pc' = "done"
    /\ UNCHANGED <<layout, output, legacy, newdb, cursor>>

Next == Check \/ Prompt \/ OpenLegacy \/ OpenNew \/ CopyKey \/ CloseNew

\* The script is one process that runs to its end.
Spec == Init /\ [][Next]_vars /\ WF_vars(Next)
=============================================================================
