------------------------------ MODULE Connect ------------------------------
(***************************************************************************)
(* connectDataSource with a MySQL URL, from the URL to the reply to the    *)
(* dump command: the URL's fields, the socket, the greeting, the           *)
(* authentication packet and its reply, the old password when the master   *)
(* asks for it, the command and its reply, and what is closed when one of  *)
(* them fails.  The driver waits for the greeting and for two or three     *)
(* replies; in between the connection may go.  How a reply and what        *)
(* follows it are read, byte by byte, is in NetSource.                     *)
(***************************************************************************)
EXTENDS Handshake, UrlParse

CONSTANTS
    Urls,           \* what an application may mean: user, passwd, host, port, logfile
    Accounts,       \* the master's users: name -> [kind |-> "native" or "old", passwd]
    Greetings,      \* what a master may send first
    MaxNumber,      \* packet numbers seen in a header that was not read: 0 .. MaxNumber
    MaxConnects     \* bound: calls of connectDataSource

\* A packet's number is one byte.
ASSUME BoundsAssumption == MaxNumber \in 0 .. 255 /\ MaxConnects \in Nat
\* What a URL can say: a user's name and a password end with : or @, a host with
\* : or /, a logfile with the URL.
Text(separators) == Seq((1 .. 255) \ separators)
ASSUME UrlsAssumption ==
    \A u \in Urls :
        /\ u \in [user : Text({Colon, At}), passwd : Text({Colon, At}) \union {Null},
                  host : Text({Colon, Slash}), port : 0 .. 99, logfile : Text({Slash})]
        /\ u.user \in DOMAIN Accounts /\ u.passwd # <<>>

None == [kind |-> "none", num |-> 0]    \* no packet
NoUrl == [user |-> <<>>, passwd |-> Null, host |-> <<>>, port |-> 0, logfile |-> <<>>]
NoShake == [protover |-> 0, salt |-> <<>>, capacity |-> {}, pluginname |-> "unset"]

VARIABLES
    url,            \* what the URL of this call means
    ds,             \* the fields parseMySQLUrl finds in it
    pc,             \* where connectDataSource is
    fd, fds,        \* the socket of this call, the sockets open
    pnum, hs,       \* mysql.pnum, the handshake packet
    cause,          \* why it failed
    conn,           \* the connection: none, open, lost
    toClient, toMaster,         \* the packet on its way, each way
    mpc, mnum, salt, verdict,   \* the master: its place, the number it expects,
                                \* the salt it sent, what it thinks of the password
    cut, leaks, tries           \* history: a read found nothing, sockets left open, calls

client == <<url, ds, pc, fd, fds, pnum, hs, cause>>
master == <<mpc, mnum, salt, verdict>>
hist   == <<cut, leaks, tries>>
vars   == <<client, conn, toClient, toMaster, master, hist>>

Waiting == {"greeting", "reply", "reply2", "dumpreply"}
Talking == Waiting \union {"connected", "dumping"}
Working == Waiting \union {"socket", "connecting", "connected"}
Ended   == {"failed", "dumping", "abort"}
-----------------------------------------------------------------------------
\* A URL as connectDataSource's comment has it; a password and a port may be missing.
Written(u) ==
    <<109, 121, 115, 113, 108, Colon, Slash, Slash>> \o u.user
      \o (IF u.passwd = Null THEN <<>> ELSE <<Colon>> \o u.passwd)
      \o <<At>> \o u.host
      \o (IF u.port = 0 THEN <<>> ELSE <<Colon, 48 + u.port \div 10, 48 + (u.port % 10)>>)
      \o <<Slash>> \o u.logfile

\* The fate of a socket that was not read: whatever is there is taken for a packet.
MissedNever == FALSE
Missed  == toClient = None /\ conn = "lost"
Numbers == 0 .. MaxNumber
Shakes == UNION {readHandshakePkt(g) : g \in Greetings}

FreeFd == Min((0 .. MaxConnects) \ fds)

Init ==
    /\ url = NoUrl /\ ds = NoUrl /\ pc = "down" /\ fd = -1 /\ fds = {}
    /\ pnum = 0 /\ hs = NoShake /\ cause = "none"
    /\ conn = "none" /\ toClient = None /\ toMaster = None
    /\ mpc = "none" /\ mnum = 0 /\ salt = <<>> /\ verdict = "none"
    /\ cut = FALSE /\ leaks = 0 /\ tries = 0
-----------------------------------------------------------------------------
(* The client. *)

\* connectDataSource and dsInitWithMySQL.  The master's side of an earlier
\* call, whose socket may still be open, plays no part any more.
ConnectDataSource ==
    /\ pc \in {"down", "failed", "closed"} /\ tries < MaxConnects
    /\ \E u \in Urls : url' = u /\ ds' = parseMySQLUrl(Written(u))
    /\ pc' = "socket" /\ fd' = -1 /\ pnum' = 0 /\ hs' = NoShake /\ cause' = "none"
    /\ conn' = "none" /\ toClient' = None /\ toMaster' = None
    /\ mpc' = "none" /\ mnum' = 0 /\ salt' = <<>> /\ verdict' = "none"
    /\ cut' = FALSE /\ tries' = tries + 1
    /\ UNCHANGED <<fds, leaks>>

Fails(why) == pc' = "failed" /\ cause' = why
Keep == UNCHANGED <<url, ds, tries>>
Quiet == UNCHANGED <<conn, toClient, toMaster, master, cut>>

\* anetCreateSocket.  When setsockopt fails the socket stays open.
CreateSocket ==
    /\ pc = "socket"
    /\ \/ Fails("socket") /\ UNCHANGED <<fd, fds, leaks>>
       \/ Fails("setsockopt") /\ fds' = fds \union {FreeFd} /\ leaks' = leaks + 1 /\ UNCHANGED fd
       \/ pc' = "connecting" /\ fd' = FreeFd /\ fds' = fds \union {fd'} /\ UNCHANGED <<cause, leaks>>
    /\ Keep /\ Quiet /\ UNCHANGED <<pnum, hs>>

\* anetTcpGenericConnect behind it.
TcpConnect ==
    /\ pc = "connecting"
    /\ \/ /\ \E why \in {"resolve", "connect"} : Fails(why)
          /\ fds' = fds \ {fd} /\ fd' = -1
          /\ UNCHANGED <<conn, mpc>>
       \/ /\ pc' = "greeting" /\ conn' = "open" /\ mpc' = "greet"
          /\ UNCHANGED <<fd, fds, cause>>
    /\ Keep /\ UNCHANGED <<pnum, hs, toClient, toMaster, mnum, salt, verdict, cut, leaks>>

\* mclose
SocketKept == fds
SocketClosed == fds \ {fd}
McloseFdKept == fds' = fds \ {fd} /\ UNCHANGED fd
Mclose == fds' = SocketClosed /\ fd' = -1

Sent(packet) == IF conn = "open" THEN packet ELSE None

\* Writing to a connection that is gone fails, which nobody looks at, or ends
\* the process with SIGPIPE.
WritesAnd(next) == pc' \in IF conn = "open" THEN {next} ELSE {next, "abort"}

NumberAfter(n) == (n + 1) % 256
Token(shake) == IF ds.passwd = Null THEN <<>> ELSE cooksalt(shake.salt, ds.passwd)

\* mconnect on a greeting with number n.  A master that is refused keeps its
\* socket; a plugin name that was never set is freed all the same.
Greeted(shake, n) ==
    /\ hs' = shake
    /\ IF "PROTOCOL_41" \notin shake.capacity \/ shake.protover # 10
         THEN /\ Fails("protocol") /\ pnum' = n /\ leaks' = leaks + 1
              /\ UNCHANGED toMaster
         ELSE /\ pnum' = NumberAfter(n)
              /\ toMaster' = Sent([kind |-> "auth", num |-> pnum',
                                   body |-> writeAuthPkt(ds.user, Token(shake))])
              /\ IF shake.pluginname = "unset" THEN pc' \in {"reply", "abort"}
                                               ELSE WritesAnd("reply")
              /\ UNCHANGED <<cause, leaks>>

ReadGreeting ==
    /\ pc = "greeting" /\ toClient # None
    /\ \/ /\ ~Aborts(toClient.body)
          /\ \E shake \in readHandshakePkt(toClient.body) : Greeted(shake, toClient.num)
       \/ /\ Aborts(toClient.body) /\ pc' = "abort"
          /\ UNCHANGED <<pnum, hs, cause, leaks, toMaster>>
    /\ toClient' = None
    /\ Keep /\ UNCHANGED <<fd, fds, conn, master, cut>>

\* The connection has gone: the header and the packet are what the stack and
\* the heap held.
MissGreeting ==
    /\ pc = "greeting" /\ Missed
    /\ \/ \E shake \in Shakes, n \in Numbers : Greeted(shake, n)
       \/ pc' = "abort" /\ UNCHANGED <<pnum, hs, cause, leaks, toMaster>>
    /\ cut' = TRUE
    /\ Keep /\ UNCHANGED <<fd, fds, conn, toClient, master>>

OldToken == IF ds.passwd = Null THEN [k \in 1 .. Salt1Len + 1 |-> 0]
                                ELSE cooksaltOld(hs.salt, ds.passwd)

NumberKept(n) == n
NumberReset(n) == 0

\* mconnect on the reply: done, refused with the master's message, or the old
\* password.  An EOF packet in answer to that has no message, and what is copied
\* in its place may end the process.
Accepted == pc' = "connected" /\ pnum' = NumberReset(pnum) /\ UNCHANGED <<fd, fds, cause, toMaster>>
Refused(why) == Fails(why) /\ Mclose /\ pnum' = 0 /\ UNCHANGED toMaster
AsksOld(n) == /\ pnum' = NumberAfter(n)
              /\ toMaster' = Sent([kind |-> "old", num |-> pnum', body |-> OldToken])
              /\ WritesAnd("reply2")
              /\ UNCHANGED <<fd, fds, cause>>

EndsProcess == pc' = "abort" /\ UNCHANGED <<fd, fds, cause, toMaster, pnum>>

ReadReply ==
    /\ pc \in {"reply", "reply2"} /\ toClient # None
    /\ \/ toClient.kind = "ok" /\ Accepted
       \/ toClient.kind = "eof" /\ pc = "reply" /\ AsksOld(toClient.num)
       \/ toClient.kind = "err" /\ Refused("message")
       \/ toClient.kind = "eof" /\ pc = "reply2" /\ (Refused("garbage") \/ EndsProcess)
    /\ toClient' = None
    /\ Keep /\ UNCHANGED <<hs, conn, master, cut, leaks>>

\* isok and iseof are what the stack held, or the marker was.
MissReply ==
    /\ pc \in {"reply", "reply2"} /\ Missed
    /\ \/ Accepted
       \/ Refused("garbage")
       \/ pc = "reply" /\ \E n \in Numbers : AsksOld(n)
       \/ EndsProcess
    /\ cut' = TRUE
    /\ Keep /\ UNCHANGED <<hs, conn, toClient, master, leaks>>

\* connectMySQL: COM_BINLOG_DUMP.  When it fails, here or at the reply, the
\* socket is left to a data source that nobody keeps.
DumpFails(why) == Fails(why) /\ leaks' = leaks + 1

SendDump ==
    /\ pc = "connected"
    /\ \/ /\ WritesAnd("dumpreply")
          /\ toMaster' = Sent([kind |-> "dump", num |-> pnum, body |-> ds.logfile])
          /\ UNCHANGED <<cause, leaks>>
       \/ conn = "lost" /\ DumpFails("dump") /\ UNCHANGED toMaster
    /\ Keep /\ UNCHANGED <<fd, fds, pnum, hs, conn, toClient, master, cut>>

\* msendcmd on the reply: an OK packet, for which the first event is taken, an
\* EOF packet, or the master's refusal.
RefusedUnlessOk == {"err", "eof"}
RefusedDump == {"err"}
DumpStarts == pc' = "dumping" /\ UNCHANGED <<cause, leaks>>

ReadDumpReply ==
    /\ pc = "dumpreply" /\ toClient # None
    /\ IF toClient.kind \in RefusedDump THEN DumpFails("refused") ELSE DumpStarts
    /\ toClient' = None
    /\ Keep /\ UNCHANGED <<fd, fds, pnum, hs, conn, toMaster, master, cut>>

\* isok, iseof and the message are what the stack held, or the marker was.
MissDumpReply ==
    /\ pc = "dumpreply" /\ Missed
    /\ \/ DumpStarts
       \/ DumpFails("dump")
       \/ pc' = "abort" /\ UNCHANGED <<cause, leaks>>
    /\ cut' = TRUE
    /\ Keep /\ UNCHANGED <<fd, fds, pnum, hs, conn, toClient, toMaster, master>>

\* freeBinlogClient: closeMySQL.  A client that failed to connect has no data
\* source, and nothing is closed.
FreeBinlogClient ==
    /\ pc = "dumping"
    /\ Mclose /\ pc' = "closed" /\ pnum' = 0 /\ conn' = "lost"
    /\ Keep /\ UNCHANGED <<hs, cause, toClient, toMaster, master, cut, leaks>>
-----------------------------------------------------------------------------
(* The master. *)

\* A master that does not want the client sends an error, read as a greeting
\* of protocol 255.
MasterGreets ==
    /\ mpc = "greet" /\ conn = "open"
    /\ \E g \in Greetings :
         /\ toClient' = [kind |-> "greeting", num |-> 0, body |-> g]
         /\ salt' = g.salt1 \o g.salt2
         /\ mpc' = IF g.protover = 10 THEN "auth" ELSE "gone"
    /\ mnum' = 1
    /\ UNCHANGED <<client, conn, toMaster, verdict, hist>>

\* SHA-1 as its standard has it, on the whole message.
Padded(message) ==
    message \o <<128>>
      \o [i \in 1 .. (-(Len(message) + 1 + 2 * WordBytes)) % BlockLen |-> 0]
      \o Word((8 * Len(message)) \div CountMod) \o Word((8 * Len(message)) % CountMod)
Standard(padded) ==
    LET h[k \in 0 .. Len(padded) \div BlockLen] ==
          IF k = 0 THEN State0
          ELSE Transform(h[k - 1], SubSeq(padded, (k - 1) * BlockLen + 1, k * BlockLen))
    IN Digest(h[Len(padded) \div BlockLen])
Sha(message) == Standard(Padded(message))

\* The master keeps the hash of the hash, and undoes the token.
Undone(token, stored) == XorBytes(token, Sha(salt \o stored))
RightNative(token, passwd) == Sha(Undone(token, Sha(Sha(passwd)))) = Sha(Sha(passwd))

\* The master takes what is common to all bytes for the ninth number.
Expected(seeds) ==
    LET rnd[k \in 1 .. Salt1Len + 1] == my_rnd(IF k = 1 THEN seeds ELSE rnd[k - 1])
    IN [k \in 1 .. Salt1Len + 1 |-> (rnd[k][1] * 31) \div RndMax]
SameExtra(token, numbers) ==
    /\ Len(token) = Salt1Len + 1 /\ token[Salt1Len + 1] = 0
    /\ \A k \in 1 .. Salt1Len : XorOf(token[k], numbers[Salt1Len + 1]) = 64 + numbers[k]
RightOld(token, passwd) ==
    SameExtra(token, Expected(Seeded(hash_old_password(passwd),
                                     hash_old_password(SubSeq(salt, 1, Salt1Len)))))

\* The empty token is right for an account without a password.
RightFor(token, account) ==
    IF account.passwd = Null THEN token = <<>>
    ELSE IF account.kind = "native" THEN token # <<>> /\ RightNative(token, account.passwd)
    ELSE RightOld(token, account.passwd)
Right(token) == RightFor(token, Accounts[url.user])

Answer(kind) == toClient' = [kind |-> kind, num |-> toMaster.num + 1]
Judge(right) == /\ verdict' = (IF right THEN "ok" ELSE "err")
                /\ Answer(IF right THEN "ok" ELSE "err")
                /\ mpc' = (IF right THEN "command" ELSE "gone")
                /\ mnum' = 0

\* Packets out of order are refused, and so is a packet that was cut.
Whole(packet) == packet.num = mnum /\ packet.body.written <= packet.body.plen

MasterChecks ==
    /\ mpc = "auth" /\ conn = "open" /\ toMaster # None
    /\ LET auth == toMaster.body
           account == Accounts[url.user]
       IN \/ /\ account.kind = "native" \/ ~Whole(toMaster)
             /\ Judge(/\ Whole(toMaster) /\ auth.user = url.user
                      /\ Right(auth.token))
          \/ /\ account.kind = "old" /\ Whole(toMaster)
             /\ Answer("eof") /\ mpc' = "old" /\ mnum' = toMaster.num + 2
             /\ UNCHANGED verdict
    /\ toMaster' = None
    /\ UNCHANGED <<client, conn, salt, hist>>

MasterChecksOld ==
    /\ mpc = "old" /\ conn = "open" /\ toMaster # None
    /\ Judge(toMaster.num = mnum /\ Right(toMaster.body))
    /\ toMaster' = None
    /\ UNCHANGED <<client, conn, salt, hist>>

\* A command with the wrong number is refused, and so may be one with the right
\* number.  A dump may be over, with an EOF packet, as soon as it begins.
MasterDumps ==
    /\ mpc = "command" /\ conn = "open" /\ toMaster # None
    /\ \E kind \in IF toMaster.num = mnum THEN {"ok", "eof", "err"} ELSE {"err"} :
         Answer(kind) /\ mpc' = [ok |-> "dumping", eof |-> "over", err |-> "gone"][kind]
    /\ toMaster' = None
    /\ UNCHANGED <<client, conn, mnum, salt, verdict, hist>>

MasterCloses ==
    /\ mpc \in {"over", "gone"} /\ conn = "open"
    /\ conn' = "lost"
    /\ UNCHANGED <<client, toClient, toMaster, master, hist>>

\* What is on its way arrives whole or not at all.
ConnLost ==
    /\ conn = "open"
    /\ conn' = "lost" /\ toMaster' = None /\ toClient' \in {toClient, None}
    /\ UNCHANGED <<client, master, hist>>
-----------------------------------------------------------------------------
ClientStep == \/ CreateSocket \/ TcpConnect \/ ReadGreeting \/ MissGreeting
              \/ ReadReply \/ MissReply \/ SendDump \/ ReadDumpReply \/ MissDumpReply
MasterStep == \/ MasterGreets \/ MasterChecks \/ MasterChecksOld \/ MasterDumps \/ MasterCloses

Next == ConnectDataSource \/ ClientStep \/ FreeBinlogClient \/ MasterStep \/ ConnLost

Spec == Init /\ [][Next]_vars

\* connectDataSource runs on when it has something to do.  Of the master it is
\* assumed that it greets, and answers what it gets, as long as the connection
\* stands.  Every step of theirs moves pc or mpc, and no other step does then.
ClientReady == \/ pc \in {"socket", "connecting", "connected"}
               \/ pc \in Waiting /\ (toClient # None \/ Missed)
MasterReady == /\ conn = "open"
               /\ mpc = "greet" \/ (mpc \in {"auth", "old", "command"} /\ toMaster # None)
ClientMoves == ClientReady /\ pc' \in Working \union Ended
MasterMoves == MasterReady /\ mpc' \in {"auth", "old", "command", "dumping", "over", "gone"}

FairSpec == Spec /\ WF_pc(ClientMoves) /\ WF_mpc(MasterMoves) /\ WF_vars(MasterCloses)
-----------------------------------------------------------------------------
(* Properties. *)

TypeOK ==
    /\ url \in Urls \union {NoUrl}
    /\ pc \in Working \union Ended \union {"down", "closed"}
    /\ fd \in fds \union {-1} /\ fds \subseteq 0 .. MaxConnects
    /\ pnum \in 0 .. 255 /\ hs \in Shakes \union {NoShake}
    /\ conn \in {"none", "open", "lost"}
    /\ mnum \in 0 .. 255 /\ verdict \in {"none", "ok", "err"}
    /\ leaks \in 0 .. MaxConnects /\ tries \in 0 .. MaxConnects

\* parseMySQLUrl: every field is the one that was written, with or without a
\* password and a port, and with a / in the password; a name too long for
\* logfile is dropped, so that the dump starts with the master's first log.
UrlFields ==
    pc # "down" => ds = [url EXCEPT !.logfile = IF Len(@) < MaxName THEN @ ELSE <<>>]

\* mconnect and cooksalt, cooksaltOld: the master is content exactly when the
\* password of the URL is the account's, for both kinds of account.
AuthRight ==
    verdict # "none" => (verdict = "ok" <=> url.passwd = Accounts[url.user].passwd)

\* mconnect, msendcmd: each packet the master gets has the number it expects;
\* a command starts again at 0.
InSequence == toMaster # None /\ conn = "open" /\ ~cut => toMaster.num = mnum

\* mconnect, msendcmd: as long as the connection stands, the client goes on with
\* a command exactly when the master has accepted it, and connectDataSource
\* returns a connected client only when the master has answered the command
\* and not refused it.
ConnectedIsAccepted ==
    ~cut => /\ pc \in {"connected", "dumpreply", "dumping"} => verdict = "ok"
            /\ pc = "dumping" => mpc \in {"dumping", "over"}
            /\ pc = "failed" /\ cause = "message" => verdict = "err"
            /\ pc = "failed" /\ cause = "refused" => verdict = "ok" /\ mpc = "gone"

\* anetTcpConnect, mconnect, msendcmd, mclose: a socket is open while its client
\* talks, and closed once behind it, except for those that a failed setsockopt,
\* a refused greeting, and a dump that could not be sent, was refused or was
\* never answered leave open.
SocketsAccounted ==
    /\ pc \in Talking => fd \in fds
    /\ pc # "abort" => Cardinality(fds) =
         leaks + Cardinality({f \in {fd} : pc \in Talking \union {"connecting"}})

\* mconnect, msendcmd: no read has a timeout, and none is needed with a master
\* that answers what it gets or a connection that goes: the two sides never wait
\* for each other, and connectDataSource comes back.
ConnectEnds == pc \in Working ~> pc \in Ended
=============================================================================
