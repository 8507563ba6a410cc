------------------------------ MODULE UrlParse ------------------------------
(***************************************************************************)
(* The two parsers of a data source's URL.  A URL is a sequence of bytes;  *)
(* the fields of a data source point into it and end at the next 0, which  *)
(* the MySQL parser writes over the separators it has used.                *)
(***************************************************************************)
EXTENDS Integers, Sequences, FiniteSetsExt

CONSTANT MaxName    \* bytes of DataSource.logfile, with its final 0 (256)

Colon == 58
At    == 64
Slash == 47

Null == <<-1>>      \* a pointer that is not set
-----------------------------------------------------------------------------
(* parseMySQLUrl.  open are the flags s_user .. s_file, at where a field   *)
(* begins, cuts where a separator was overwritten.                         *)
Start == [next |-> {Colon}, open |-> {"user", "passwd", "host", "port", "file"},
          at |-> [f \in {"user", "passwd", "host", "port", "file"} |-> 0], cuts |-> {}]

Begins(s, f, closed, at, next, cuts) ==
    [next |-> next, open |-> s.open \ closed, at |-> [s.at EXCEPT ![f] = at],
     cuts |-> s.cuts \union cuts]

HostOnly   == {"host"}
HostCloses == {"passwd", "host"}

PassedMySQL(s, i, c) ==
    IF c \notin s.next THEN s
    ELSE IF "user" \in s.open
      THEN Begins(s, "user", {"user"}, i + 3, {Colon, At}, {})
    ELSE IF "passwd" \in s.open /\ c = Colon
      THEN Begins(s, "passwd", {"passwd"}, i + 1, s.next, {i})
    ELSE IF "host" \in s.open /\ c = At
      THEN Begins(s, "host", HostCloses, i + 1, {Colon, Slash}, {i})
    ELSE IF "port" \in s.open /\ c = Colon
      THEN Begins(s, "port", {"port"}, i + 1, {Slash}, {i})
    ELSE IF "file" \in s.open /\ c = Slash
      THEN Begins(s, "file", {"port", "file"}, i + 1, s.next, {i})
    ELSE [s EXCEPT !.cuts = IF c = Slash THEN @ \union {i} ELSE @]

ScanMySQL(url) ==
    LET scan[i \in 1 .. Len(url)] ==
          IF i = 1 THEN Start ELSE PassedMySQL(scan[i - 1], i, url[i])
    IN scan[Len(url)]

Field(url, at, cuts) ==
    IF at = 0 THEN Null
    ELSE SubSeq(url, at, Min({n \in cuts : n >= at} \union {Len(url) + 1}) - 1)

\* atoi: the digits at the front.
IsDigit(c) == c \in 48 .. 57
WithDigit(v, c) == IF v.on /\ IsDigit(c) THEN [n |-> 10 * v.n + c - 48, on |-> TRUE]
                                        ELSE [v EXCEPT !.on = FALSE]
Number(digits) ==
    LET value[i \in 0 .. Len(digits)] ==
          IF i = 0 THEN [n |-> 0, on |-> TRUE] ELSE WithDigit(value[i - 1], digits[i])
    IN value[Len(digits)].n

\* strcpy to ds->logfile, unless the name is too long.
Named(logfile) == IF Len(logfile) < MaxName THEN logfile ELSE <<>>

FieldsMySQL(url, s) ==
    [user    |-> Field(url, s.at["user"], s.cuts),
     passwd  |-> Field(url, s.at["passwd"], s.cuts),
     host    |-> Field(url, s.at["host"], s.cuts),
     port    |-> IF s.at["port"] = 0 THEN 0 ELSE Number(Field(url, s.at["port"], s.cuts)),
     logfile |-> IF s.at["file"] = 0 THEN Null ELSE Named(Field(url, s.at["file"], s.cuts))]

\* A logfile that is Null was never set: the parser looks at whatever it holds.
parseMySQLUrl(url) == FieldsMySQL(url, ScanMySQL(url))
-----------------------------------------------------------------------------
(* parseFileUrl.  Behind a separator the parser skips three bytes; a        *)
(* separator among the last bytes, behind which it would leave the URL,    *)
(* counts as the end.                                                      *)
StartFile == [i |-> 1, next |-> Colon, path |-> 0, file |-> 0]

BehindColon(p) == p + 1
Behind(p) == p + 3

PassedFile(url, s, p) ==
    IF p > Len(url) \/ url[p] # s.next THEN [s EXCEPT !.i = p]
    ELSE IF s.path = 0 /\ Behind(p) <= Len(url) /\ url[Behind(p)] = Slash
      THEN [i |-> Behind(p) + 1, next |-> Slash, path |-> Behind(p) + 1, file |-> s.file]
      ELSE [s EXCEPT !.i = Behind(p), !.file = Behind(p)]

AdvancedFile(url, s) == PassedFile(url, s, s.i + 1)

ScanFile(url) ==
    LET scan[k \in 0 .. Len(url)] ==
          IF k = 0 THEN StartFile ELSE AdvancedFile(url, scan[k - 1])
    IN scan[Len(url)]

RestOf(url, at) == IF at = 0 THEN Null ELSE SubSeq(url, at, Len(url))
FieldsFile(url, s) ==
    [path    |-> RestOf(url, IF s.path # 0 THEN s.path ELSE s.file),
     logfile |-> IF s.file = 0 THEN Null ELSE Named(RestOf(url, s.file))]

parseFileUrl(url) == FieldsFile(url, ScanFile(url))
=============================================================================
