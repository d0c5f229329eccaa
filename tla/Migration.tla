----------------------------- MODULE Migration -----------------------------
(***************************************************************************)
(* What dbm2icbdb promises about its destination (the script's header and *)
(* its overwrite question): the destination .db is left as it is, removed *)
(* once the operator agrees to overwrite it, or, where none is left,      *)
(* replaced in one step by a database holding exactly the legacy data.    *)
(* It never holds part of the copy, nor a mix of old and legacy entries.  *)
(* dst is whether the destination exists and its bytes; Encode(d) is the  *)
(* .db file of the database d.                                            *)
(***************************************************************************)
EXTENDS Sequences

CONSTANT Encode(_)

VARIABLES
    src,    \* the legacy database's contents
    dst     \* [present |-> the .db exists, bytes |-> its contents]

Absent == [present |-> FALSE, bytes |-> <<>>]

Init == dst.present \in BOOLEAN

\* The operator answers y: the old destination is unlinked.
Remove == dst.present /\ dst' = Absent /\ UNCHANGED src

\* The migration completes: the destination is the legacy database.
Migrate == ~dst.present /\ dst' = [present |-> TRUE, bytes |-> Encode(src)] /\ UNCHANGED src

Next == Remove \/ Migrate

Spec == Init /\ [][Next]_<<src, dst>>
=============================================================================
