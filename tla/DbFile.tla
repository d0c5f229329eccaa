------------------------------- MODULE DbFile -------------------------------
(***************************************************************************)
(* The data side of src/support: IcbDb's dict and its .db file format     *)
(* (icbdb.py), the text dbexport.py writes and dbimport.py reads, and what *)
(* finddb.py shows and deldb.py deletes for a nick.  All pure operators.  *)
(*                                                                         *)
(* A str is a sequence of character codes (ASCII, so its UTF-8 encoding   *)
(* is itself); a dict is a sequence of <<key, value>> pairs with distinct *)
(* keys, in insertion order as a Python dict keeps them.  The key         *)
(* suffixes ("nick", "nummsg", "header1", ...) are each stood for by one   *)
(* character, so a key is nick \o "." \o suffix.                           *)
(***************************************************************************)
EXTENDS Naturals, Sequences, SequencesExt

MAGIC == <<73, 68, 66, 1>>      \* b'IDB\x01'
HDR_SIZE == 8
ENTRY_HDR_SIZE == 8
PIPE == 124
NL == 10
DOT == 46

\* Stand-ins for the suffix words.
W_nick == 78
W_nummsg == 77
W_text == 84
W_header1 == 72
W_from1 == 82
W_message1 == 71
W_signoff == 70
W_signon == 83
W_realname == 73
W_home == 79
W_email == 69
W_www == 87

\* SUFFIXES of finddb.py and deldb.py (the ones the model's data uses).
SUFFIXES == {W_nick, W_nummsg, W_text, W_signoff, W_signon, W_realname, W_home,
             W_email, W_www}

Key(nick, w) == nick \o <<DOT, w>>

-----------------------------------------------------------------------------
(* IcbDb's dict interface *)

DictKeys(d) == {d[i][1] : i \in 1..Len(d)}

IndexOf(d, k) == SelectInSeq(d, LAMBDA e : e[1] = k)

\* db.get(key, default); "key in db" is k \in DictKeys(d).
Get(d, k, default) == IF k \in DictKeys(d) THEN d[IndexOf(d, k)][2] ELSE default

\* db[key] = value: an existing key keeps its place.
SetItem(d, k, v) ==
    IF k \in DictKeys(d) THEN [d EXCEPT ![IndexOf(d, k)] = <<k, v>>]
    ELSE Append(d, <<k, v>>)

\* del db[key], for every key of ks that is present.
DelItems(d, ks) == SelectSeq(d, LAMBDA e : e[1] \notin ks)

-----------------------------------------------------------------------------
(* The .db file: magic, entry count, then key_len, val_len, key, val.     *)

\* Mutant: the length fields packed big-endian (">I").
LE32BigEndian(n) ==
    <<(n \div 16777216) % 256, (n \div 65536) % 256, (n \div 256) % 256, n % 256>>

\* struct.pack("<I", n)
LE32(n) == <<n % 256, (n \div 256) % 256, (n \div 65536) % 256, (n \div 16777216) % 256>>

\* struct.unpack("<I", b)
FromLE32(b) == b[1] + 256 * b[2] + 65536 * b[3] + 16777216 * b[4]

\* What flush writes to the temp file.
Serialize(d) ==
    MAGIC \o LE32(Len(d))
          \o FlattenSeq([i \in 1..Len(d) |->
                           LET k == d[i][1]  v == d[i][2]
                           IN  LE32(Len(k)) \o LE32(Len(v)) \o k \o v])

\* f.read(n) at offset pos: at most n bytes, fewer at the end of the file.
Read(b, pos, n) == SubSeq(b, pos, IF pos + n - 1 > Len(b) THEN Len(b) ELSE pos + n - 1)

(***************************************************************************)
(* _load's entry loop: a short entry header raises ValueError; a short    *)
(* key or value is taken as read.  A repeated key keeps its first place   *)
(* and its last value.                                                     *)
(***************************************************************************)
RECURSIVE LoadEntries(_, _, _, _)
LoadEntries(b, pos, count, d) ==
    IF count = 0 THEN [ok |-> TRUE, data |-> d]
    ELSE LET hdr == Read(b, pos, ENTRY_HDR_SIZE)
         IN  IF Len(hdr) < ENTRY_HDR_SIZE THEN [ok |-> FALSE, data |-> d]
             ELSE LET key == Read(b, pos + 8, FromLE32(SubSeq(hdr, 1, 4)))
                      val == Read(b, pos + 8 + Len(key), FromLE32(SubSeq(hdr, 5, 8)))
                  IN  LoadEntries(b, pos + 8 + Len(key) + Len(val), count - 1,
                                  SetItem(d, key, val))

\* _load of an existing file: a short header or a wrong magic raises.
LoadBytes(b) ==
    LET hdr == Read(b, 1, HDR_SIZE)
    IN  IF Len(hdr) < HDR_SIZE \/ SubSeq(hdr, 1, 4) # MAGIC
        THEN [ok |-> FALSE, data |-> <<>>]
        ELSE LoadEntries(b, HDR_SIZE + 1, FromLE32(SubSeq(hdr, 5, 8)), <<>>)

-----------------------------------------------------------------------------
(* dbexport.py | dbimport.py *)

\* print(f"{key}|{val}") for every item.
Export(d) == FlattenSeq([i \in 1..Len(d) |-> d[i][1] \o <<PIPE>> \o d[i][2] \o <<NL>>])

\* Mutant: line.rfind("|").
LineSepLast(line) == SelectLastInSeq(line, LAMBDA c : c = PIPE)

\* line.find("|"), as a 1-based index, 0 when absent.
LineSep(line) == SelectInSeq(line, LAMBDA c : c = PIPE)

(***************************************************************************)
(* dbimport: for each line of stdin, rstrip("\n"), split at the separator *)
(* and set key = val; a line without one is skipped.                      *)
(***************************************************************************)
RECURSIVE Import(_, _)
Import(text, d) ==
    IF text = <<>> THEN d
    ELSE LET e    == SelectInSeq(text, LAMBDA c : c = NL)
             line == IF e = 0 THEN text ELSE SubSeq(text, 1, e - 1)
             rest == IF e = 0 THEN <<>> ELSE SubSeq(text, e + 1, Len(text))
             sep  == LineSep(line)
         IN  Import(rest, IF sep = 0 THEN d
                          ELSE SetItem(d, SubSeq(line, 1, sep - 1),
                                          SubSeq(line, sep + 1, Len(line))))

-----------------------------------------------------------------------------
(* finddb.py and deldb.py for one nick *)

\* str.lower() on ASCII.
Lower(s) == [i \in DOMAIN s |-> IF s[i] \in 65..90 THEN s[i] + 32 ELSE s[i]]

IsDigit(c) == c \in 48..57

\* int() of a string of decimal digits.
IntOf(digits) == FoldLeft(LAMBDA a, c : 10 * a + c - 48, 0, digits)

\* int(db.get(nick + ".nummsg", "0") or "0"): ok is FALSE where int() raises.
NumMsg(d, nick) ==
    LET s == Get(d, Key(nick, W_nummsg), <<48>>)
        t == IF s = <<>> THEN <<48>> ELSE s
    IN  IF \A i \in 1..Len(t) : IsDigit(t[i])
        THEN [ok |-> TRUE, n |-> IntOf(t)]
        ELSE [ok |-> FALSE, n |-> 0]

\* The stored-message keys for i in 1..num (the data holds at most one).
MsgKeys(nick, i) ==
    IF i = 1 THEN {Key(nick, W_header1), Key(nick, W_from1), Key(nick, W_message1)}
    ELSE {}

\* finddb: message i = 1..num is shown, each key read with get(k, '').
FindMsgKeys(nick, num) == UNION {MsgKeys(nick, i) : i \in 1..num}

(***************************************************************************)
(* finddb for one nick: not registered; stored nick differs (ignoring     *)
(* case): warning and skip; else every SUFFIXES key present is shown,     *)
(* then the messages 1..num (int() may raise first).                      *)
(***************************************************************************)
FindDb(d, nick) ==
    LET k == Key(nick, W_nick)
        num == NumMsg(d, nick)
    IN  CASE k \notin DictKeys(d) -> [st |-> "unregistered", keys |-> {}]
          [] Lower(Get(d, k, <<>>)) # Lower(nick) -> [st |-> "mismatch", keys |-> {}]
          [] ~num.ok -> [st |-> "error", keys |-> {}]
          [] OTHER -> [st |-> "shown",
                       keys |-> ({Key(nick, s) : s \in SUFFIXES} \cap DictKeys(d))
                                \cup FindMsgKeys(nick, num.n)]

\* Mutant: range(1, num) in deldb's message loop.
DelMsgKeysShort(nick, num) == UNION {MsgKeys(nick, i) : i \in 1..(num - 1)}

\* deldb: messages 1..num, each deleted if present.
DelMsgKeys(nick, num) == UNION {MsgKeys(nick, i) : i \in 1..num}

(***************************************************************************)
(* deldb for one nick: an empty or missing stored nick makes it retry     *)
(* with the nick lower-cased; a mismatch only warns; int() may raise      *)
(* before anything of this nick is deleted.                               *)
(***************************************************************************)
DelDb(d, nick0) ==
    LET nick == IF Get(d, Key(nick0, W_nick), <<>>) = <<>> THEN Lower(nick0) ELSE nick0
        num  == NumMsg(d, nick)
        gone == ({Key(nick, s) : s \in SUFFIXES} \cup DelMsgKeys(nick, num.n))
                  \cap DictKeys(d)
    IN  IF num.ok THEN [ok |-> TRUE, data |-> DelItems(d, gone)]
        ELSE [ok |-> FALSE, data |-> d]

(***************************************************************************)
(* deldb's loop over its nick arguments: each nick's body in turn, the    *)
(* nick it names (lower-cased or not) reported as deleted; the first      *)
(* nummsg int() rejects raises out of the loop with the deletions so far  *)
(* in memory.                                                             *)
(***************************************************************************)
RECURSIVE DelDbRun(_, _, _)
DelDbRun(d, nicks, deleted) ==
    IF nicks = <<>> THEN [ok |-> TRUE, data |-> d, deleted |-> deleted]
    ELSE LET n0   == Head(nicks)
             nick == IF Get(d, Key(n0, W_nick), <<>>) = <<>> THEN Lower(n0) ELSE n0
             r    == DelDb(d, n0)
         IN  IF r.ok THEN DelDbRun(r.data, Tail(nicks), deleted \cup {nick})
             ELSE [ok |-> FALSE, data |-> d, deleted |-> deleted]

\* Mutant: __exit__ flushing only when no exception is leaving the block.
DelDbNicksCleanExitOnly(d, nicks) ==
    LET r == DelDbRun(d, nicks, {})
    IN  [ok |-> r.ok, file |-> IF r.ok THEN r.data ELSE d, deleted |-> r.deleted]

\* deldb nicks...: __exit__ closes, so the file gets the deletions made
\* before an exception as well (flush writes only a changed dict).
DelDbNicks(d, nicks) ==
    LET r == DelDbRun(d, nicks, {})
    IN  [ok |-> r.ok, file |-> r.data, deleted |-> r.deleted]

(***************************************************************************)
(* nickprune.py.  parse_signoff_date matches SIGNOFF_RE,                  *)
(* spaces, digits, "-", letters, "-", digits, at least one space, at the *)
(* start of the string (the rest is free), looks                          *)
(* the month name up in MONTHS and builds datetime(year, month, day); a   *)
(* failed match, an unknown month or a ValueError gives None.  A time is  *)
(* local seconds from the proleptic Gregorian day 0, so that .timestamp() *)
(* differences are kept (daylight saving aside).                          *)
(***************************************************************************)
MONTHS == << <<74, 97, 110>>, <<70, 101, 98>>, <<77, 97, 114>>, <<65, 112, 114>>,
             <<77, 97, 121>>, <<74, 117, 110>>, <<74, 117, 108>>, <<65, 117, 103>>,
             <<83, 101, 112>>, <<79, 99, 116>>, <<78, 111, 118>>, <<68, 101, 99>> >>

Spaces  == {9, 10, 11, 12, 13, 32}
Letters == (65..90) \cup (97..122)
Digits  == 48..57

\* The length of the longest run of characters of the set cs from s[i] on.
Span(s, i, cs) ==
    LET k == SelectInSeq(SubSeq(s, i, Len(s)), LAMBDA c : c \notin cs)
    IN  IF k = 0 THEN Len(s) - i + 1 ELSE k - 1

IsLeap(y) == y % 4 = 0 /\ (y % 100 # 0 \/ y % 400 = 0)

DaysInMonth(y, m) ==
    CASE m = 2 -> IF IsLeap(y) THEN 29 ELSE 28
      [] m \in {4, 6, 9, 11} -> 30
      [] OTHER -> 31

\* datetime's toordinal(): days since 31 Dec of year 0.
Ordinal(y, m, d) ==
    LET y1 == y - 1
    IN  365 * y1 + y1 \div 4 - y1 \div 100 + y1 \div 400
          + FoldLeft(LAMBDA a, i : a + DaysInMonth(y, i), 0, [i \in 1..(m - 1) |-> i])
          + d

\* datetime(year, month, day) raises ValueError outside MINYEAR..MAXYEAR
\* and for a day the month does not have.
IsDate(y, m, d) == 1 <= y /\ y <= 9999 /\ 1 <= d /\ d <= DaysInMonth(y, m)

ParseSignoffDate(s) ==
    LET a  == Span(s, 1, Spaces) + 1
        nd == Span(s, a, Digits)
        b  == a + nd + 1
        nl == Span(s, b, Letters)
        c  == b + nl + 1
        ny == Span(s, c, Digits)
        matched == /\ nd > 0 /\ a + nd <= Len(s) /\ s[a + nd] = 45
                   /\ nl > 0 /\ b + nl <= Len(s) /\ s[b + nl] = 45
                   /\ ny > 0 /\ Span(s, c + ny, Spaces) > 0
        day   == IntOf(SubSeq(s, a, a + nd - 1))
        month == SelectInSeq(MONTHS, LAMBDA x : x = SubSeq(s, b, b + nl - 1))
        year  == IntOf(SubSeq(s, c, c + ny - 1))
    IN  IF matched /\ month # 0 /\ IsDate(year, month, day)
        THEN [ok |-> TRUE, t |-> Ordinal(year, month, day) * 86400]
        ELSE [ok |-> FALSE, t |-> 0]

SERVER == <<115, 101, 114, 118, 101, 114>>
ADMIN  == <<97, 100, 109, 105, 110>>

\* for key in db: if key.endswith(".nick"): collected in the dict's order.
EndsWithNick(k) == Len(k) >= 2 /\ SubSeq(k, Len(k) - 1, Len(k)) = <<DOT, W_nick>>
NicksToCheck(d) == SelectSeq([i \in 1..Len(d) |-> d[i][1]], EndsWithNick)

\* rootkey = nick_key[:-5]
Root(k) == SubSeq(k, 1, Len(k) - 2)

\* The signoff date, or the signon date where signoff is missing or empty.
DateOf(d, root) ==
    LET so == Get(d, Key(root, W_signoff), <<>>)
    IN  IF so # <<>> THEN so ELSE Get(d, Key(root, W_signon), <<>>)

\* Mutant: the server and admin records not skipped.
IsOldNoSkip(d, k, now, days) ==
    LET ds == DateOf(d, Root(k))
        t  == ParseSignoffDate(ds)
    IN  ds # <<>> /\ t.ok /\ now - t.t > 60 * 60 * 24 * days

\* One nick_key of the loop reaches the "Delete?" question: not server or
\* admin, a date present and parsed, and now - then > age_seconds.
IsOld(d, k, now, days) ==
    LET ds == DateOf(d, Root(k))
        t  == ParseSignoffDate(ds)
    IN  /\ Get(d, k, <<>>) \notin {SERVER, ADMIN}
        /\ ds # <<>> /\ t.ok /\ now - t.t > 60 * 60 * 24 * days

(***************************************************************************)
(* The loop over nicks_to_check.  Its decisions read d0, the dict         *)
(* nickprune loaded once; each "y" runs deldb -- rootkey, a process that  *)
(* loads the file, deletes and flushes, so the file evolves apart from   *)
(* d0.  answers are the operator's replies, one per question: "y", "n"   *)
(* (anything else, the empty reply included) or "q" (q, or EOF).  With -y *)
(* every reply is "y".  nickprune itself writes nothing.                  *)
(***************************************************************************)
\* Mutant: each deletion applied to the dict loaded at the start.
RECURSIVE PruneLoopStale(_, _, _, _, _, _)
PruneLoopStale(d0, keys, answers, file, now, days) ==
    IF keys = <<>> THEN file
    ELSE IF ~IsOld(d0, Head(keys), now, days)
         THEN PruneLoopStale(d0, Tail(keys), answers, file, now, days)
    ELSE IF Head(answers) = "q" THEN file
    ELSE PruneLoopStale(d0, Tail(keys), Tail(answers),
                        IF Head(answers) = "y"
                        THEN DelDbNicks(d0, <<Root(Head(keys))>>).file ELSE file,
                        now, days)

RECURSIVE PruneLoop(_, _, _, _, _, _)
PruneLoop(d0, keys, answers, file, now, days) ==
    IF keys = <<>> THEN file
    ELSE IF ~IsOld(d0, Head(keys), now, days)
         THEN PruneLoop(d0, Tail(keys), answers, file, now, days)
    ELSE IF Head(answers) = "q" THEN file
    ELSE PruneLoop(d0, Tail(keys), Tail(answers),
                   IF Head(answers) = "y"
                   THEN DelDbNicks(file, <<Root(Head(keys))>>).file ELSE file,
                   now, days)

NickPrune(d, answers, now, days) == PruneLoop(d, NicksToCheck(d), answers, d, now, days)

(***************************************************************************)
(* mkdb.py and setdb.py.  prompt_user returns the default for an empty    *)
(* reply; the defaults and the fixed values are one-character stand-ins,  *)
(* "server" being spelled out since nickprune compares it.               *)
(***************************************************************************)
PromptUser(s, default) == IF s = <<>> /\ default # <<>> THEN default ELSE s

MkDb(d, realname, home, email) ==
    FoldLeft(LAMBDA acc, e : SetItem(acc, e[1], e[2]), d,
             << <<Key(SERVER, W_realname), PromptUser(realname, <<65>>)>>,
                <<Key(SERVER, W_nick), SERVER>>,
                <<Key(SERVER, W_home), PromptUser(home, <<105>>)>>,
                <<Key(SERVER, W_email), PromptUser(email, <<106>>)>>,
                <<Key(SERVER, W_text), <<72>>>>,
                <<Key(SERVER, W_nummsg), <<48>>>>,
                <<Key(SERVER, W_www), <<104>>>> >>)

\* setdb [-d database] var val: db[var] = val.
SetDb(d, var, val) == SetItem(d, var, val)

=============================================================================
