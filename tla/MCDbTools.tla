------------------------------ MODULE MCDbTools ------------------------------
(***************************************************************************)
(* Model-checking instance of DbTools.  Legacy databases hold one user    *)
(* record, of nick "a" or "A", its stored nick as given, lower-cased,     *)
(* empty or missing, every kind of nummsg, a text field holding a "|",    *)
(* and the stored message 1 or not; or two records, of a and b.  An old  *)
(* .db at the destination may hold one entry.  deldb is run with two of  *)
(* the nicks a, A and b.  Dated databases hold users a and b with signoff *)
(* and signon dates one day either side of nickprune's age limit, or     *)
(* that parse_signoff_date rejects, and the server record of mkdb with   *)
(* an old signon set by setdb, or none; or a record whose .nick is empty  *)
(* beside an active user.                                                 *)
(***************************************************************************)
EXTENDS DbTools

NickNames == {<<97>>, <<65>>, <<98>>}
\* A field that is not stored: no string has a character of code -1, so
\* Absent differs from every value, the empty string included.
Absent == <<-1>>

\* The record of nick n: a field is left out where its value is Absent.
Record(n, stored, nm, text, msg) ==
    SelectSeq(<< <<Key(n, W_nick), stored>>, <<Key(n, W_nummsg), nm>>,
                 <<Key(n, W_text), text>>, <<Key(n, W_header1), msg>>,
                 <<Key(n, W_from1), msg>>, <<Key(n, W_message1), msg>> >>,
              LAMBDA e : e[2] # Absent)

NumMsgValues == {Absent, <<>>, <<48>>, <<49>>, <<120>>}

\* Text values a user can store: with a "|" ...
TextWithPipe == <<97, PIPE, 98>>
\* ... and with a line break.
TextWithNewline == <<97, NL, 98>>

RecordDBs(texts) ==
    {Record(n, s, nm, t, m) : n \in NickNames, s \in {<<97>>, <<65>>, <<>>, Absent},
                              nm \in NumMsgValues, t \in texts, m \in {Absent, <<118>>}}

\* Two users, a and b, each with every nummsg and with or without message 1.
PairDBs ==
    {Record(<<97>>, <<97>>, nm1, Absent, m1) \o Record(<<98>>, <<98>>, nm2, Absent, m2) :
        nm1, nm2 \in NumMsgValues, m1, m2 \in {Absent, <<118>>}}

\* nickprune runs at 01:00 on 5 Jan of year 9 with the default 365 days.
PruneNow  == Ordinal(9, 1, 5) * 86400 + 3600
PruneDays == 365

\* "6-Jan-8 " is 365 days and an hour old (year 8 is a leap year), so old;
\* "7-Jan-8 " is not.  "30-Feb-8 " matches SIGNOFF_RE but is no date;
\* "6-Jan-8" lacks the whitespace SIGNOFF_RE requires after the year.
OldDate     == <<54, 45, 74, 97, 110, 45, 56, 32>>
NewDate     == <<55, 45, 74, 97, 110, 45, 56, 32>>
NoSuchDate  == <<51, 48, 45, 70, 101, 98, 45, 56, 32>>
NoSpaceDate == <<54, 45, 74, 97, 110, 45, 56>>

DatedRecord(n, off, on) ==
    SelectSeq(<< <<Key(n, W_nick), n>>, <<Key(n, W_signoff), off>>, <<Key(n, W_signon), on>> >>,
              LAMBDA e : e[2] # Absent)

\* mkdb with the default or a given admin name, then setdb server.signon.
ServerDBs ==
    {<<>>} \cup {SetDb(MkDb(<<>>, rn, <<>>, <<>>), Key(SERVER, W_signon), OldDate) :
                    rn \in {<<>>, <<120>>}}

DatedDBs ==
    {DatedRecord(<<97>>, off1, on1) \o DatedRecord(<<98>>, off2, on2) \o sv :
        off1 \in {Absent, OldDate, NewDate, NoSuchDate}, on1 \in {Absent, OldDate, NewDate},
        off2 \in {Absent, OldDate, NoSpaceDate}, on2 \in {Absent, NewDate},
        sv \in ServerDBs}

\* A record "A" whose .nick is empty and whose signoff is old, beside an
\* active user a with a recent signon.
EmptyNickDBs ==
    {<< <<Key(<<65>>, W_nick), <<>>>>, <<Key(<<65>>, W_signoff), OldDate>> >>
        \o DatedRecord(<<97>>, off, NewDate) : off \in {Absent, NewDate}}

MCLegacyDBs == RecordDBs({Absent, TextWithPipe}) \cup PairDBs \cup DatedDBs \cup EmptyNickDBs
NewlineDBs  == RecordDBs({TextWithNewline})
MCOldDBs    == {<< <<Key(<<98>>, W_nick), <<98>> >> >>}

-----------------------------------------------------------------------------
(***************************************************************************)
(* dbm2icbdb never destroys the database it migrates: whatever the        *)
(* operator answers and whatever fails, every file of the legacy database *)
(* is still there.                                                         *)
(***************************************************************************)
LegacyIntact == \A f \in LegacyFiles(layout) : fs[f] = LegacyPart

(***************************************************************************)
(* Once dbm2icbdb is done, IcbDb loads from the file it wrote exactly the *)
(* legacy database's keys and values, in the legacy order: flush's        *)
(* encoding and _load's decoding agree, and an emptied or missing         *)
(* destination loads as the empty database a legacy one without keys is. *)
(***************************************************************************)
MigratedLoadsBack == pc = "done" => LoadFile(fs[DstFile]) = [ok |-> TRUE, data |-> legacy]

(***************************************************************************)
(* The migrated database survives dbexport | dbimport into an empty       *)
(* database on another machine, dbexport's stated purpose.                *)
(***************************************************************************)
TransferKeepsData ==
    pc = "done" =>
        LET d == LoadFile(fs[DstFile]).data IN Import(Export(d), <<>>) = d

(***************************************************************************)
(* On the migrated database, when finddb shows a nick's record, deldb on  *)
(* that nick succeeds and deletes exactly the shown keys that exist: the  *)
(* two scripts agree on what a nick's record is.                          *)
(***************************************************************************)
FindDelAgree ==
    pc = "done" =>
        \A n \in NickNames :
            LET d == LoadFile(fs[DstFile]).data
                f == FindDb(d, n)
                r == DelDb(d, n)
            IN  f.st = "shown" =>
                    /\ r.ok
                    /\ DictKeys(d) \ DictKeys(r.data) = f.keys \cap DictKeys(d)
(***************************************************************************)
(* Every nick deldb reports deleted is gone from the database file it     *)
(* leaves: finddb finds it unregistered, even when a later nick's nummsg  *)
(* makes int() raise and deldb ends in a traceback, for __exit__ still    *)
(* flushes the deletions made before it.                                  *)
(***************************************************************************)
DelArgs == {<<n, m>> : n, m \in NickNames}

DeletedNicksGone ==
    pc = "done" =>
        \A args \in DelArgs :
            LET r == DelDbNicks(LoadFile(fs[DstFile]).data, args)
            IN  \A n \in r.deleted : FindDb(r.file, n).st = "unregistered"

RecordKeys(d, u) == {k \in DictKeys(d) : Len(k) = Len(u) + 2 /\ SubSeq(k, 1, Len(u) + 1) = u \o <<DOT>>}

\* A record nickprune must spare: the server's or admin's, or one with no
\* signoff or signon date older than the limit that parse_signoff_date reads.
Protected(d, u) ==
    \/ Get(d, Key(u, W_nick), <<>>) \in {SERVER, ADMIN}
    \/ \A w \in {W_signoff, W_signon} :
          LET t == ParseSignoffDate(Get(d, Key(u, w), <<>>))
          IN  t.ok => PruneNow - t.t <= 60 * 60 * 24 * PruneDays

\* Whatever the operator answers (y, n or q at each question), nickprune
\* on d leaves every protected record with all its keys.
PruneSpares(d) ==
    LET ks == NicksToCheck(d)
    IN  \A answers \in [1..Len(ks) -> {"y", "n", "q"}] :
            LET f == NickPrune(d, answers, PruneNow, PruneDays)
            IN  \A i \in 1..Len(ks) :
                    Protected(d, Root(ks[i])) =>
                        RecordKeys(f, Root(ks[i])) = RecordKeys(d, Root(ks[i]))

\* Every ".nick" key holds a nick: none is empty.
NicksNamed(d) == \A k \in DictKeys(d) : EndsWithNick(k) => Get(d, k, <<>>) # <<>>

\* Whatever the operator answers, every record nickprune judged old on d and
\* was told "y" for, before any "q", has no key left in the file it leaves.
PruneTakes(d) ==
    LET ks   == NicksToCheck(d)
        olds == SelectSeq(ks, LAMBDA k : IsOld(d, k, PruneNow, PruneDays))
    IN  \A answers \in [1..Len(ks) -> {"y", "n", "q"}] :
            LET f == NickPrune(d, answers, PruneNow, PruneDays)
            IN  \A i \in 1..Len(olds) :
                    (/\ answers[i] = "y"
                     /\ \A j \in 1..i : answers[j] # "q")
                        => RecordKeys(f, Root(olds[i])) = {}

(***************************************************************************)
(* nickprune never costs a protected record any key.  Its decisions read  *)
(* the dict it loaded once, while the deldb processes it runs rewrite the *)
(* file under it; each deldb is given the rootkey of a record judged old. *)
(* nickprune's header promises to delete the entries of old nicks only.   *)
(***************************************************************************)
ActiveUsersKept ==
    pc = "done" => PruneSpares(LoadFile(fs[DstFile]).data)

(***************************************************************************)
(* The same promise, kept wherever no .nick value is empty: then the      *)
(* deldb run on a rootkey finds that record's .nick and deletes that      *)
(* record, never another one through its retry with the lower-cased nick.*)
(***************************************************************************)
NamedUsersKept ==
    pc = "done" =>
        LET d == LoadFile(fs[DstFile]).data IN NicksNamed(d) => PruneSpares(d)

(***************************************************************************)
(* Each deldb nickprune runs reloads the file the one before it wrote, so *)
(* the deletions add up: every old record the operator said y to before a *)
(* q is gone when nickprune ends, though its stale dict still holds them  *)
(* all (where no .nick value is empty, as above).                         *)
(***************************************************************************)
PrunedUsersGone ==
    pc = "done" =>
        LET d == LoadFile(fs[DstFile]).data IN NicksNamed(d) => PruneTakes(d)

(***************************************************************************)
(* dbm2icbdb implements Migration: at every step the destination .db is   *)
(* left alone, unlinked after the operator's y, or written once with the  *)
(* whole legacy database.  The copy loop only fills new_db in memory and  *)
(* the single flush at the end of the with-block replaces the file, so no *)
(* state shows a partly copied or merged destination.                     *)
(***************************************************************************)
Mig == INSTANCE Migration
         WITH src <- legacy,
              dst <- [present |-> fs[DstFile] # NoFile, bytes |-> fs[DstFile].bytes],
              Encode <- Serialize

=============================================================================
