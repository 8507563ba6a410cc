--------------------------- MODULE ConnectProofs ---------------------------
(***************************************************************************)
(* What holds of Connect for every set of URLs, accounts and greetings,    *)
(* every hash function and any number of calls.                            *)
(*                                                                         *)
(* The packets' numbers and the verdict depend on how far the two sides    *)
(* have come.  CallInv says so for each place the client can be at; the    *)
(* parts about an exchange hold as long as no read has found a lost        *)
(* connection, which cut records.                                          *)
(*                                                                         *)
(* The fields of a URL are those that were written.  Layout and Met say    *)
(* where the parts of a written URL stand and what the scanner meets, and  *)
(* UserScanned .. AllScanned take the scanner from part to part.           *)
(***************************************************************************)
EXTENDS Connect, LeastElement, FiniteSetTheorems, SequenceTheorems

Numbered(packet) == packet = None \/ packet.num \in Nat

\* Before the socket is connected, and while the client waits for the greeting.
Unconnected ==
    pc \in {"down", "socket", "connecting"} =>
      /\ ~cut /\ conn = "none" /\ mpc = "none" /\ verdict = "none"
      /\ toClient = None /\ toMaster = None
AwaitsGreeting ==
    pc = "greeting" =>
      /\ ~cut /\ toMaster = None /\ verdict = "none"
      /\ mpc = "greet" => toClient = None
      /\ mpc \in {"greet", "auth", "gone"}
      /\ mpc # "greet" => mnum = 1
      /\ toClient # None => /\ toClient.kind = "greeting" /\ toClient.num = 0
                            /\ toClient.body \in Greetings

\* The master has judged, and its answer is on its way or was lost.
Judged == \/ toClient = None /\ conn = "lost"
          \/ toClient.kind = "ok" /\ verdict = "ok" /\ mpc = "command" /\ mnum = 0
          \/ toClient.kind = "err" /\ verdict = "err"
Asked(n, places) == /\ toClient = None /\ verdict = "none" /\ mnum = n /\ mpc \in places
                    /\ toMaster # None => toMaster.num = n
OldAsked == toClient.kind = "eof" /\ toClient.num = 2 /\ verdict = "none" /\ mpc = "old" /\ mnum = 3

AwaitsReply ==
    pc = "reply" /\ ~cut =>
      Asked(1, {"auth", "gone"}) \/ (toMaster = None /\ (Judged \/ OldAsked))
AwaitsReply2 ==
    pc = "reply2" /\ ~cut => Asked(3, {"old"}) \/ (toMaster = None /\ Judged)

\* The command is on its way, or the master has answered it.
Answered == \/ toClient = None /\ conn = "lost"
            \/ toClient.kind = "ok" /\ mpc = "dumping"
            \/ toClient.kind = "eof" /\ mpc = "over"
            \/ toClient.kind = "err" /\ mpc = "gone"
AwaitsDumpReply ==
    pc = "dumpreply" /\ ~cut =>
      /\ verdict = "ok" /\ mnum = 0
      /\ \/ toClient = None /\ mpc = "command" /\ (toMaster # None => toMaster.num = 0)
         \/ toMaster = None /\ Answered

\* Behind the replies.
IsAccepted ==
    /\ pc = "connected" => pnum = 0
    /\ pc = "connected" /\ ~cut =>
         verdict = "ok" /\ mpc = "command" /\ mnum = 0 /\ toClient = None /\ toMaster = None
    /\ pc = "dumping" /\ ~cut =>
         verdict = "ok" /\ mpc \in {"dumping", "over"} /\ toMaster = None
IsOver ==
    /\ pc = "failed" => conn = "lost" \/ toMaster = None
    /\ pc = "failed" /\ cause = "message" /\ ~cut => verdict = "err"
    /\ pc = "failed" /\ cause = "refused" /\ ~cut => verdict = "ok" /\ mpc = "gone"
    /\ pc = "closed" => conn = "lost"
    /\ pc = "abort" /\ conn = "open" /\ toMaster # None => toMaster.num = mnum

CallInv == /\ Unconnected /\ AwaitsGreeting /\ AwaitsReply /\ AwaitsReply2
           /\ AwaitsDumpReply /\ IsAccepted /\ IsOver

\* A read finds nothing only behind a lost connection; a master that has yet to
\* greet has a client that waits for it.
WireInv ==
    /\ cut \in BOOLEAN /\ (cut => conn = "lost")
    /\ Numbered(toClient) /\ Numbered(toMaster)
    /\ mpc = "greet" /\ conn = "open" => pc = "greeting"
    /\ mpc = "auth" => mnum = 1

\* A call opens one socket at most, and it is none of those still open.
SocketInv ==
    /\ leaks <= tries
    /\ pc \in Talking \union {"connecting"} => fd \in fds
    /\ pc \in Working \union {"dumping"} => leaks < tries
    /\ SocketsAccounted

CInv == TypeOK /\ WireInv /\ CallInv /\ SocketInv
-----------------------------------------------------------------------------
\* FreeFd: there is a descriptor left, since no call has opened more than one.
LEMMA FreeFdIsFree ==
    ASSUME CInv, pc = "socket"
    PROVE  FreeFd \in 0 .. MaxConnects /\ FreeFd \notin fds
<1> DEFINE Free == (0 .. MaxConnects) \ fds
<1>1. IsFiniteSet(0 .. MaxConnects) /\ Cardinality(0 .. MaxConnects) = MaxConnects + 1
  <2>1. 0 \in Int /\ MaxConnects \in Int /\ ~(0 > MaxConnects)
    BY BoundsAssumption
  <2> QED BY <2>1, FS_Interval
<1>2. IsFiniteSet(fds) /\ fds \subseteq 0 .. MaxConnects
  BY <1>1, FS_Subset DEF CInv, TypeOK
<1>3. Cardinality({f \in {fd} : pc \in Talking \union {"connecting"}}) = 0
  <2>1. {f \in {fd} : pc \in Talking \union {"connecting"}} = {}
    BY DEF CInv, Talking, Waiting
  <2> QED BY <2>1, FS_EmptySet
<1>4. Cardinality(fds) = leaks /\ leaks < tries /\ tries <= MaxConnects
  BY <1>3, BoundsAssumption DEF CInv, SocketInv, SocketsAccounted, TypeOK, Working
<1>5. fds # 0 .. MaxConnects
  <2>1. leaks \in Nat /\ tries \in Nat /\ MaxConnects \in Nat
    BY BoundsAssumption DEF CInv, TypeOK
  <2> QED BY <1>1, <1>4, <2>1
<1>6. Free # {} /\ Free \in SUBSET Nat
  <2>1. PICK free \in 0 .. MaxConnects : free \notin fds
    BY <1>2, <1>5
  <2>2. 0 .. MaxConnects \subseteq Nat
    BY BoundsAssumption
  <2> QED BY <2>1, <2>2
<1>7. Min(Free) \in Free
  <2> HIDE DEF Free
  <2> QED BY <1>6, MinIn
<1> QED BY <1>7 DEF FreeFd

\* readHandshakePkt: what is read of any greeting is among Shakes.
LEMMA ShakeRead ==
    ASSUME NEW g \in Greetings, NEW shake \in readHandshakePkt(g)
    PROVE  shake \in Shakes
BY DEF Shakes
-----------------------------------------------------------------------------
(* The packets on the wire, and how far the two sides have come.           *)

\* Every step of either side keeps CallInv and WireInv.
LEMMA CallNext ==
    ASSUME CInv, [Next]_vars
    PROVE  WireInv' /\ CallInv'
<1> USE DEF None, Numbered, WireInv, CallInv, Unconnected, AwaitsGreeting, AwaitsReply,
            AwaitsReply2, AwaitsDumpReply, Answered, IsAccepted, IsOver, Judged, Asked,
            OldAsked, Fails, Keep, master
<1>0. WireInv /\ CallInv /\ TypeOK
  BY DEF CInv
<1>1. CASE ConnectDataSource
  BY <1>1 DEF ConnectDataSource
<1>2. CASE CreateSocket
  BY <1>0, <1>2 DEF CreateSocket, Quiet
<1>3. CASE TcpConnect
  BY <1>0, <1>3 DEF TcpConnect
<1>4. CASE ReadGreeting
  <2>1. CASE Aborts(toClient.body)
    BY <1>0, <1>4, <2>1 DEF ReadGreeting
  <2>2. ASSUME ~Aborts(toClient.body), NEW shake, Greeted(shake, toClient.num)
        PROVE  WireInv' /\ CallInv'
    <3>1. toClient.num = 0 /\ toMaster = None /\ verdict = "none" /\ mnum = 1 /\ ~cut
          /\ mpc \in {"auth", "gone"} /\ pc = "greeting"
      BY <1>0, <1>4 DEF ReadGreeting
    <3>2. /\ toClient' = None
          /\ UNCHANGED <<url, ds, tries, fd, fds, conn, mpc, mnum, salt, verdict, cut>>
      BY <1>4 DEF ReadGreeting
    <3>3. toMaster' = None \/ (toMaster'.num = 1 /\ toMaster'.num \in Nat /\ conn = "open")
      BY <2>2, <3>1 DEF Greeted, NumberAfter, Sent
    <3>4. pc' \in {"reply", "abort"} \/ (pc' = "failed" /\ cause' = "protocol" /\ toMaster' = None)
      BY <2>2, <3>1 DEF Greeted, WritesAnd
    <3> QED BY <1>0, <3>1, <3>2, <3>3, <3>4
  <2> QED BY <1>4, <2>1, <2>2 DEF ReadGreeting
<1>5. CASE MissGreeting
  <2>1. conn = "lost" /\ conn' = "lost" /\ cut' /\ cut' \in BOOLEAN /\ toClient' = None /\ toMaster = None
    BY <1>0, <1>5 DEF MissGreeting, Missed
  <2>2. toMaster' = None
    BY <1>5, <2>1 DEF MissGreeting, Greeted, Sent
  <2>3. pc' \in {"reply", "abort", "failed"}
    BY <1>5 DEF MissGreeting, Greeted, WritesAnd
  <2>4. UNCHANGED <<mpc, mnum, verdict>>
    BY <1>5 DEF MissGreeting
  <2> QED BY <1>0, <2>1, <2>2, <2>3, <2>4
<1>6. CASE ReadReply
  <2>0. UNCHANGED <<conn, mpc, mnum, verdict, cut>> /\ toClient' = None /\ toClient # None
        /\ pc \in {"reply", "reply2"}
    BY <1>6 DEF ReadReply
  <2>1. CASE toClient.kind = "ok" /\ Accepted
    <3>1. pc' = "connected" /\ pnum' = 0 /\ toMaster' = toMaster
      BY <2>1 DEF Accepted, NumberReset
    <3> QED BY <1>0, <2>0, <2>1, <3>1
  <2>2. CASE toClient.kind = "eof" /\ pc = "reply" /\ AsksOld(toClient.num)
    <3>1. pc' \in {"reply2", "abort"} /\ (conn = "open" => pc' = "reply2")
      BY <2>2 DEF AsksOld, WritesAnd
    <3>2. ~cut => toClient.num = 2 /\ verdict = "none" /\ mpc = "old" /\ mnum = 3
      BY <1>0, <2>0, <2>2
    <3>3. toMaster' = None \/ (conn = "open" /\ toMaster'.num = pnum')
      BY <2>2 DEF AsksOld, Sent
    <3>4. pnum' = (toClient.num + 1) % 256
      BY <2>2 DEF AsksOld, NumberAfter
    <3>5. pnum' \in Nat /\ (~cut => pnum' = 3)
      BY <1>0, <2>0, <3>2, <3>4
    <3> QED BY <1>0, <2>0, <3>1, <3>2, <3>3, <3>5
  <2>3. CASE \/ toClient.kind = "err" /\ Refused("message")
             \/ toClient.kind = "eof" /\ pc = "reply2" /\ Refused("garbage")
    <3>1. /\ pc' = "failed" /\ toMaster' = toMaster /\ cause' # "refused"
          /\ cause' = "message" => toClient.kind = "err"
      BY <2>3 DEF Refused
    <3> QED BY <1>0, <2>0, <2>3, <3>1
  <2>4. CASE toClient.kind = "eof" /\ pc = "reply2" /\ EndsProcess
    <3>1. pc' = "abort" /\ toMaster' = toMaster
      BY <2>4 DEF EndsProcess
    <3>2. cut /\ conn = "lost"
      BY <1>0, <2>0, <2>4
    <3> QED BY <1>0, <2>0, <3>1, <3>2
  <2> QED BY <1>6, <2>1, <2>2, <2>3, <2>4 DEF ReadReply
<1>7. CASE MissReply
  <2>1. /\ conn = "lost" /\ conn' = "lost" /\ cut' /\ cut' \in BOOLEAN /\ toClient' = None
        /\ UNCHANGED <<mpc, mnum, verdict>>
    BY <1>7 DEF MissReply, Missed
  <2>2. toMaster' \in {None, toMaster}
    BY <1>7, <2>1 DEF MissReply, Accepted, Refused, AsksOld, Sent, EndsProcess
  <2>3. \/ pc' \in {"failed", "reply2", "abort"}
        \/ pc' = "connected" /\ pnum' = 0
    BY <1>7 DEF MissReply, Accepted, NumberReset, Refused, AsksOld, WritesAnd, EndsProcess
  <2> QED BY <1>0, <2>1, <2>2, <2>3
<1>8. CASE SendDump
  <2>0. UNCHANGED <<conn, mpc, mnum, verdict, cut, toClient, pnum>> /\ pc = "connected" /\ pnum = 0
    BY <1>0, <1>8 DEF SendDump
  <2>1. CASE WritesAnd("dumpreply")
             /\ toMaster' = Sent([kind |-> "dump", num |-> pnum, body |-> ds.logfile])
    <3>1. pc' \in {"dumpreply", "abort"}
      BY <2>1 DEF WritesAnd
    <3>2. toMaster' = None \/ (conn = "open" /\ toMaster'.num = 0 /\ toMaster'.num \in Nat)
      BY <2>0, <2>1 DEF Sent
    <3>3. conn = "open" => ~cut
      BY <1>0
    <3> QED BY <1>0, <2>0, <3>1, <3>2, <3>3
  <2>2. CASE conn = "lost" /\ DumpFails("dump") /\ UNCHANGED toMaster
    BY <1>0, <2>0, <2>2 DEF DumpFails
  <2> QED BY <1>8, <2>1, <2>2 DEF SendDump
<1>9. CASE FreeBinlogClient
  BY <1>0, <1>9 DEF FreeBinlogClient, Mclose
<1>10. CASE MasterGreets
  <2>1. PICK g \in Greetings : /\ toClient' = [kind |-> "greeting", num |-> 0, body |-> g]
                               /\ mpc' = IF g.protover = 10 THEN "auth" ELSE "gone"
    BY <1>10 DEF MasterGreets
  <2>2. /\ mpc = "greet" /\ conn = "open" /\ mnum' = 1 /\ UNCHANGED <<pc, pnum, cause, conn, toMaster, verdict, cut>>
        /\ pc = "greeting" /\ toMaster = None /\ ~cut
    BY <1>0, <1>10 DEF MasterGreets, client, hist
  <2>3. toClient'.kind = "greeting" /\ toClient'.num = 0 /\ toClient'.num \in Nat
        /\ toClient'.body \in Greetings /\ mpc' \in {"auth", "gone"}
    BY <2>1
  <2> QED BY <1>0, <2>2, <2>3
<1>11. CASE MasterChecks
  <2>1. /\ mpc = "auth" /\ conn = "open" /\ toMaster # None /\ toMaster' = None /\ mnum = 1
        /\ UNCHANGED <<pc, pnum, cause, conn, cut>>
        /\ toClient'.num = toMaster.num + 1
    BY <1>0, <1>11 DEF MasterChecks, Judge, Answer, client, hist
  <2>2. toMaster.num \in Nat /\ toClient'.num \in Nat
    BY <1>0, <2>1
  <2>3. \/ verdict' = "ok" /\ toClient'.kind = "ok" /\ mpc' = "command" /\ mnum' = 0
        \/ verdict' = "err" /\ toClient'.kind = "err" /\ mpc' = "gone" /\ mnum' = 0
        \/ verdict' = verdict /\ toClient'.kind = "eof" /\ mpc' = "old" /\ mnum' = 3
           /\ toMaster.num = 1 /\ toClient'.num = 2
    BY <1>11, <2>1, <2>2 DEF MasterChecks, Judge, Answer, Whole
  <2> QED BY <1>0, <2>1, <2>2, <2>3
<1>12. CASE MasterChecksOld
  <2>1. /\ mpc = "old" /\ conn = "open" /\ toMaster # None /\ toMaster' = None
        /\ UNCHANGED <<pc, pnum, cause, conn, cut>>
        /\ mnum' = 0 /\ toClient'.num = toMaster.num + 1
        /\ \/ verdict' = "ok" /\ toClient'.kind = "ok" /\ mpc' = "command"
           \/ verdict' = "err" /\ toClient'.kind = "err" /\ mpc' = "gone"
    BY <1>12 DEF MasterChecksOld, Judge, Answer, client, hist
  <2>2. toClient'.num \in Nat
    BY <1>0, <2>1
  <2> QED BY <1>0, <2>1, <2>2
<1>13. CASE MasterDumps
  <2>1. PICK kind \in {"ok", "eof", "err"} :
          /\ toClient' = [kind |-> kind, num |-> toMaster.num + 1]
          /\ mpc' = [ok |-> "dumping", eof |-> "over", err |-> "gone"][kind]
    BY <1>13 DEF MasterDumps, Answer
  <2>2. /\ mpc = "command" /\ toMaster' = None /\ conn = "open" /\ toMaster # None
        /\ UNCHANGED <<pc, pnum, cause, conn, cut, mnum, verdict>>
    BY <1>13 DEF MasterDumps, client, hist
  <2>3. /\ \/ toClient'.kind = "ok" /\ mpc' = "dumping"
           \/ toClient'.kind = "eof" /\ mpc' = "over"
           \/ toClient'.kind = "err" /\ mpc' = "gone"
        /\ toClient'.num = toMaster.num + 1
    BY <2>1
  <2>4. toClient'.num \in Nat
    BY <1>0, <2>2, <2>3
  <2> QED BY <1>0, <2>2, <2>3, <2>4
<1>14. CASE MasterCloses
  BY <1>0, <1>14 DEF MasterCloses, client, hist
<1>15. CASE ConnLost
  BY <1>0, <1>15 DEF ConnLost, client, hist
<1>16. CASE UNCHANGED vars
  BY <1>0, <1>16 DEF vars, client, hist
<1>17. CASE ReadDumpReply
  <2>0. /\ pc = "dumpreply" /\ toClient # None /\ toClient' = None
        /\ UNCHANGED <<conn, mpc, mnum, verdict, cut, toMaster>>
    BY <1>17 DEF ReadDumpReply
  <2>1. ~cut => toMaster = None /\ verdict = "ok"
                /\ (toClient.kind = "err" => mpc = "gone")
                /\ (toClient.kind # "err" => mpc \in {"dumping", "over"})
    BY <1>0, <2>0
  <2>2. \/ toClient.kind = "err" /\ pc' = "failed" /\ cause' = "refused"
        \/ toClient.kind # "err" /\ pc' = "dumping"
    BY <1>17 DEF ReadDumpReply, RefusedDump, DumpFails, DumpStarts
  <2> QED BY <1>0, <2>0, <2>1, <2>2
<1>18. CASE MissDumpReply
  <2>1. /\ conn = "lost" /\ conn' = "lost" /\ cut' /\ cut' \in BOOLEAN
        /\ UNCHANGED <<toClient, toMaster, mpc, mnum, verdict>>
    BY <1>18 DEF MissDumpReply, Missed
  <2>2. pc' \in {"dumping", "failed", "abort"}
    BY <1>18 DEF MissDumpReply, DumpStarts, DumpFails
  <2> QED BY <1>0, <2>1, <2>2
<1> QED BY <1>1, <1>2, <1>3, <1>4, <1>5, <1>6, <1>7, <1>8, <1>9, <1>10, <1>11, <1>12,
           <1>13, <1>14, <1>15, <1>16, <1>17, <1>18 DEF Next, ClientStep, MasterStep
-----------------------------------------------------------------------------
(* The sockets.                                                            *)

\* The socket of this call is counted while the client holds it.
Holds == pc \in Talking \union {"connecting"}
Held == IF Holds THEN 1 ELSE 0

\* SocketsAccounted in numbers: open sockets are those that were left and the one
\* in use.
LEMMA SocketsCounted ==
    SocketsAccounted <=> /\ pc \in Talking => fd \in fds
                         /\ pc # "abort" => Cardinality(fds) = leaks + Held
<1>1. Cardinality({f \in {fd} : pc \in Talking \union {"connecting"}}) = Held
  <2>1. CASE Holds
    <3>1. {f \in {fd} : pc \in Talking \union {"connecting"}} = {fd}
      BY <2>1 DEF Holds
    <3> QED BY <2>1, <3>1, FS_Singleton DEF Held
  <2>2. CASE ~Holds
    <3>1. {f \in {fd} : pc \in Talking \union {"connecting"}} = {}
      BY <2>2 DEF Holds
    <3> QED BY <2>2, <3>1, FS_EmptySet DEF Held
  <2> QED BY <2>1, <2>2
<1> QED BY <1>1 DEF SocketsAccounted

\* The process has finitely many descriptors.
LEMMA FdsFinite ==
    ASSUME TypeOK
    PROVE  IsFiniteSet(fds) /\ Cardinality(fds) \in Nat
<1>1. IsFiniteSet(0 .. MaxConnects)
  BY BoundsAssumption, FS_Interval
<1> QED BY <1>1, FS_Subset, FS_CardinalityType DEF TypeOK

\* A socket that was closed, by the client that held it.
LEMMA OneClosed ==
    ASSUME CInv, Holds, fds' = fds \ {fd}, pc # "abort"
    PROVE  Cardinality(fds') = leaks
<1>1. fd \in fds /\ IsFiniteSet(fds) /\ Cardinality(fds) \in Nat
  BY FdsFinite DEF CInv, SocketInv, Holds
<1>2. Cardinality(fds') = Cardinality(fds) - 1
  BY <1>1, FS_RemoveElement
<1>3. Cardinality(fds) = leaks + 1 /\ leaks \in Nat
  BY SocketsCounted DEF CInv, SocketInv, TypeOK, Held
<1> QED BY <1>2, <1>3

\* A socket that was opened.
LEMMA OneOpened ==
    ASSUME CInv, pc = "socket", fds' = fds \union {FreeFd}
    PROVE  Cardinality(fds') = leaks + 1
<1>1. FreeFd \notin fds /\ IsFiniteSet(fds) /\ Cardinality(fds) \in Nat
  BY FreeFdIsFree, FdsFinite DEF CInv
<1>2. Cardinality(fds') = Cardinality(fds) + 1
  BY <1>1, FS_AddElement
<1>3. Cardinality(fds) = leaks /\ leaks \in Nat
  BY SocketsCounted DEF CInv, SocketInv, TypeOK, Held, Holds, Talking, Waiting
<1> QED BY <1>2, <1>3

\* Every step keeps the count of the sockets.
LEMMA SocketNext ==
    ASSUME CInv, [Next]_vars
    PROVE  SocketInv'
<1> USE DEF Talking, Waiting, Working, Holds, Held, Fails, Keep
<1>0. SocketInv /\ leaks \in Nat /\ tries \in Nat
  BY DEF CInv, TypeOK
<1>a. /\ pc \in Talking => fd \in fds
      /\ pc # "abort" => Cardinality(fds) = leaks + Held
  BY <1>0, SocketsCounted DEF SocketInv
<1> SUFFICES /\ leaks' <= tries'
             /\ Holds' => fd' \in fds'
             /\ pc' \in Working \union {"dumping"} => leaks' < tries'
             /\ pc' # "abort" => Cardinality(fds)' = leaks' + Held'
  <2>1. (SocketsAccounted <=> /\ pc \in Talking => fd \in fds
                              /\ pc # "abort" => Cardinality(fds) = leaks + Held)'
    BY SocketsCounted, PTL
  <2> QED BY <2>1 DEF SocketInv
<1>1. CASE ConnectDataSource
  BY <1>0, <1>a, <1>1 DEF ConnectDataSource, SocketInv
<1>2. CASE CreateSocket
  <2>1. pc = "socket" /\ tries' = tries /\ leaks < tries /\ Cardinality(fds) = leaks
    BY <1>0, <1>a, <1>2 DEF CreateSocket, SocketInv
  <2>2. CASE Fails("socket") /\ UNCHANGED <<fd, fds, leaks>>
    BY <1>0, <2>1, <2>2
  <2>3. CASE Fails("setsockopt") /\ fds' = fds \union {FreeFd} /\ leaks' = leaks + 1
    BY <1>0, <2>1, <2>3, OneOpened
  <2>4. CASE /\ pc' = "connecting" /\ fd' = FreeFd /\ fds' = fds \union {fd'}
             /\ UNCHANGED <<cause, leaks>>
    BY <1>0, <2>1, <2>4, OneOpened
  <2> QED BY <1>2, <2>2, <2>3, <2>4 DEF CreateSocket
<1>3. CASE TcpConnect
  <2>1. pc = "connecting" /\ UNCHANGED <<tries, leaks>> /\ leaks < tries /\ Holds
    BY <1>0, <1>3 DEF TcpConnect, SocketInv
  <2>2. CASE pc' = "failed" /\ fds' = fds \ {fd}
    BY <1>0, <2>1, <2>2, OneClosed
  <2>3. CASE pc' = "greeting" /\ UNCHANGED <<fd, fds>>
    BY <1>0, <1>a, <2>1, <2>3 DEF SocketInv
  <2> QED BY <1>3, <2>2, <2>3 DEF TcpConnect
<1>4. CASE ReadGreeting \/ MissGreeting
  <2>1. /\ pc = "greeting" /\ UNCHANGED <<tries, fd, fds>> /\ leaks < tries /\ fd \in fds
        /\ Cardinality(fds) = leaks + 1
    BY <1>0, <1>a, <1>4 DEF ReadGreeting, MissGreeting, SocketInv
  <2>2. \/ pc' \in {"reply", "abort"} /\ leaks' = leaks
        \/ pc' = "failed" /\ leaks' = leaks + 1
    BY <1>4 DEF ReadGreeting, MissGreeting, Greeted, WritesAnd
  <2> QED BY <1>0, <2>1, <2>2
<1>5. CASE ReadReply \/ MissReply
  <2>1. /\ pc \in {"reply", "reply2"} /\ UNCHANGED <<tries, leaks>> /\ leaks < tries
        /\ fd \in fds /\ Cardinality(fds) = leaks + 1 /\ Holds
    BY <1>0, <1>a, <1>5 DEF ReadReply, MissReply, SocketInv
  <2>2. \/ pc' \in {"connected", "reply2", "abort"} /\ UNCHANGED <<fd, fds>>
        \/ pc' = "failed" /\ fds' = fds \ {fd}
    BY <1>5 DEF ReadReply, MissReply, Accepted, Refused, Mclose, SocketClosed, AsksOld, WritesAnd,
                EndsProcess
  <2> QED BY <1>0, <2>1, <2>2, OneClosed
<1>6. CASE SendDump \/ ReadDumpReply \/ MissDumpReply
  <2>1. /\ pc \in {"connected", "dumpreply"} /\ UNCHANGED <<tries, fd, fds>> /\ leaks < tries
        /\ fd \in fds /\ Cardinality(fds) = leaks + 1
    BY <1>0, <1>a, <1>6 DEF SendDump, ReadDumpReply, MissDumpReply, SocketInv
  <2>2. \/ pc' \in {"dumpreply", "dumping", "abort"} /\ leaks' = leaks
        \/ pc' = "failed" /\ leaks' = leaks + 1
    BY <1>6 DEF SendDump, ReadDumpReply, MissDumpReply, WritesAnd, DumpFails, DumpStarts
  <2> QED BY <1>0, <2>1, <2>2
<1>7. CASE FreeBinlogClient
  <2>1. /\ pc = "dumping" /\ pc' = "closed" /\ UNCHANGED <<tries, leaks>> /\ Holds
        /\ fds' = fds \ {fd}
    BY <1>7 DEF FreeBinlogClient, Mclose, SocketClosed
  <2> QED BY <1>0, <2>1, OneClosed DEF SocketInv
<1>8. CASE MasterStep \/ ConnLost \/ UNCHANGED vars
  <2>1. UNCHANGED <<pc, fd, fds, leaks, tries>>
    BY <1>8 DEF MasterStep, MasterGreets, MasterChecks, MasterChecksOld, MasterDumps,
                MasterCloses, ConnLost, client, hist, vars
  <2> QED BY <1>0, <1>a, <2>1 DEF SocketInv
<1> QED BY <1>1, <1>2, <1>3, <1>4, <1>5, <1>6, <1>7, <1>8 DEF Next, ClientStep
-----------------------------------------------------------------------------
(* Types.                                                                  *)

\* NumberAfter: the number of a packet is one byte.
LEMMA NumberIsByte ==
    ASSUME NEW n \in Nat
    PROVE  NumberAfter(n) \in 0 .. 255
BY DEF NumberAfter

\* Every step keeps the types; that the sockets do not run out is FreeFdIsFree.
LEMMA TypeNext ==
    ASSUME CInv, [Next]_vars
    PROVE  TypeOK'
<1> USE DEF Fails, Keep, Working, Ended, Waiting
<1>0. TypeOK /\ WireInv /\ MaxConnects \in Nat
  BY BoundsAssumption DEF CInv
<1>a. leaks' <= tries'
  BY SocketNext DEF SocketInv
<1>1. CASE ConnectDataSource
  BY <1>0, <1>1 DEF ConnectDataSource, TypeOK
<1>2. CASE CreateSocket
  <2>1. FreeFd \in 0 .. MaxConnects
    BY <1>2, FreeFdIsFree DEF CreateSocket
  <2>2. fd' \in fds' \union {-1} /\ fds' \subseteq 0 .. MaxConnects
    BY <1>0, <1>2, <2>1 DEF CreateSocket, TypeOK
  <2>3. pc' \in {"failed", "connecting"} /\ leaks' \in {leaks, leaks + 1}
    BY <1>2 DEF CreateSocket
  <2>4. UNCHANGED <<url, tries, pnum, hs, conn, mnum, verdict>>
    BY <1>2 DEF CreateSocket, Quiet, master
  <2> QED BY <1>0, <1>a, <2>2, <2>3, <2>4 DEF TypeOK
<1>3. CASE TcpConnect
  BY <1>0, <1>3 DEF TcpConnect, TypeOK
<1>4. CASE ReadGreeting \/ MissGreeting
  <2>1. UNCHANGED <<url, tries, fd, fds, conn, mnum, verdict>>
    BY <1>4 DEF ReadGreeting, MissGreeting, master
  <2>2. CASE pc' = "abort" /\ UNCHANGED <<pnum, hs, leaks>>
    BY <1>0, <2>1, <2>2 DEF TypeOK
  <2>3. ASSUME NEW shake \in Shakes, NEW n \in 0 .. 255, Greeted(shake, n)
        PROVE  TypeOK'
    <3>1. pnum' \in 0 .. 255
      BY <2>3, NumberIsByte DEF Greeted
    <3>2. hs' \in Shakes /\ pc' \in {"failed", "reply", "abort"} /\ leaks' \in {leaks, leaks + 1}
      BY <2>3 DEF Greeted, WritesAnd
    <3> QED BY <1>0, <1>a, <2>1, <3>1, <3>2 DEF TypeOK
  <2>4. CASE ReadGreeting
    <3>1. toClient.body \in Greetings /\ toClient.num = 0
      BY <2>4 DEF ReadGreeting, CInv, CallInv, AwaitsGreeting
    <3> QED BY <2>2, <2>3, <2>4, <3>1, ShakeRead DEF ReadGreeting
  <2>5. CASE MissGreeting
    <3>1. Numbers \subseteq 0 .. 255
      BY BoundsAssumption DEF Numbers
    <3> QED BY <2>2, <2>3, <2>5, <3>1 DEF MissGreeting
  <2> QED BY <1>4, <2>4, <2>5
<1>5. CASE ReadReply \/ MissReply
  <2>1. UNCHANGED <<url, tries, hs, conn, mnum, verdict, leaks>>
    BY <1>5 DEF ReadReply, MissReply, master
  <2>2. fd' \in fds' \union {-1} /\ fds' \subseteq fds
    BY <1>0, <1>5 DEF ReadReply, MissReply, Accepted, Refused, Mclose, SocketClosed, AsksOld,
                      EndsProcess, TypeOK
  <2>3. pc' \in {"connected", "reply2", "abort", "failed"}
    BY <1>5 DEF ReadReply, MissReply, Accepted, Refused, AsksOld, WritesAnd, EndsProcess
  <2>4. pnum' \in 0 .. 255
    <3>1. ASSUME NEW n \in Nat, AsksOld(n)
          PROVE  pnum' \in 0 .. 255
      BY <3>1, NumberIsByte DEF AsksOld
    <3>2. Numbers \subseteq Nat
      BY BoundsAssumption DEF Numbers
    <3>3. toClient # None => toClient.num \in Nat
      BY <1>0 DEF WireInv, Numbered
    <3> QED BY <1>0, <1>5, <3>1, <3>2, <3>3
            DEF ReadReply, MissReply, Accepted, NumberReset, Refused, EndsProcess, TypeOK
  <2> QED BY <1>0, <2>1, <2>2, <2>3, <2>4 DEF TypeOK
<1>6. CASE SendDump \/ ReadDumpReply \/ MissDumpReply
  <2>1. UNCHANGED <<url, tries, fd, fds, pnum, hs, conn, mnum, verdict>>
    BY <1>6 DEF SendDump, ReadDumpReply, MissDumpReply, master
  <2>2. pc' \in {"dumpreply", "dumping", "abort", "failed"} /\ leaks' \in {leaks, leaks + 1}
    BY <1>6 DEF SendDump, ReadDumpReply, MissDumpReply, WritesAnd, DumpFails, DumpStarts
  <2> QED BY <1>0, <1>a, <2>1, <2>2 DEF TypeOK
<1>7. CASE FreeBinlogClient
  BY <1>0, <1>7 DEF FreeBinlogClient, Mclose, SocketClosed, master, TypeOK
<1>8. CASE MasterStep
  <2>1. UNCHANGED <<client, leaks, tries>> /\ conn' \in {conn, "lost"}
    BY <1>8 DEF MasterStep, MasterGreets, MasterChecks, MasterChecksOld, MasterDumps,
                MasterCloses, hist
  <2>2. verdict' \in {verdict, "ok", "err"}
    BY <1>8 DEF MasterStep, MasterGreets, MasterChecks, MasterChecksOld, MasterDumps,
                MasterCloses, Judge, master
  <2>3. mnum' \in {0, 1, 3, mnum}
    <3>1. CASE MasterChecks
      <4>1. mnum = 1
        BY <1>0, <3>1 DEF MasterChecks, WireInv
      <4> QED BY <3>1, <4>1 DEF MasterChecks, Judge, Whole
    <3> QED BY <1>8, <3>1 DEF MasterStep, MasterGreets, MasterChecksOld, MasterDumps,
                              MasterCloses, Judge, master
  <2> QED BY <1>0, <2>1, <2>2, <2>3 DEF client, TypeOK
<1>9. CASE ConnLost \/ UNCHANGED vars
  <2>1. UNCHANGED <<client, master, hist>> /\ conn' \in {conn, "lost"}
    BY <1>9 DEF ConnLost, vars
  <2> QED BY <1>0, <2>1 DEF client, master, hist, TypeOK
<1> QED BY <1>1, <1>2, <1>3, <1>4, <1>5, <1>6, <1>7, <1>8, <1>9 DEF Next, ClientStep
-----------------------------------------------------------------------------
(* The theorems.                                                           *)

\* At the beginning nothing is open and nothing was sent.
LEMMA ConnectInit == Init => CInv
<1> SUFFICES ASSUME Init PROVE CInv
  OBVIOUS
<1>1. TypeOK
  BY BoundsAssumption DEF Init, TypeOK
<1>2. WireInv /\ CallInv
  BY DEF Init, WireInv, CallInv, Numbered, Unconnected, AwaitsGreeting, AwaitsReply,
         AwaitsReply2, AwaitsDumpReply, IsAccepted, IsOver
<1>3. SocketInv
  BY SocketsCounted, FS_EmptySet
     DEF Init, SocketInv, Held, Holds, Talking, Working, Waiting
<1> QED BY <1>1, <1>2, <1>3 DEF CInv

\* mconnect and the master's login: the inductive invariant of the connection.
THEOREM ConnectInvariant == Spec => []CInv
<1>1. CInv /\ [Next]_vars => CInv'
  BY TypeNext, CallNext, SocketNext DEF CInv
<1> QED BY <1>1, ConnectInit, PTL DEF Spec

\* connectDataSource: places, packet numbers and descriptors stay in their
\* ranges; in particular there is always a descriptor for anetCreateSocket.
THEOREM ConnectTypes == Spec => []TypeOK
<1>1. CInv => TypeOK
  BY DEF CInv
<1> QED BY <1>1, ConnectInvariant, PTL

\* mconnect, mclose, connectMySQL: whichever step fails, the sockets that stay
\* open are the one in use and those left by setsockopt, a refused greeting, and
\* a dump that could not be sent, was refused or was never answered.
THEOREM SocketsAreAccounted == Spec => []SocketsAccounted
<1>1. CInv => SocketsAccounted
  BY DEF CInv, SocketInv
<1> QED BY <1>1, ConnectInvariant, PTL

\* mconnect, msendcmd: the client's packets have the numbers the master
\* expects, in the exchange for an old password too.
THEOREM PacketsInSequence == Spec => []InSequence
<1>1. CInv => InSequence
  <2> SUFFICES ASSUME CInv, toMaster # None, conn = "open", ~cut
               PROVE  toMaster.num = mnum
    BY DEF InSequence
  <2>1. CallInv /\ TypeOK
    BY DEF CInv
  <2> QED BY <2>1 DEF TypeOK, Working, Ended, Waiting, CallInv, Unconnected, AwaitsGreeting,
                      AwaitsReply, AwaitsReply2, AwaitsDumpReply, IsAccepted, IsOver, Asked
<1> QED BY <1>1, ConnectInvariant, PTL

\* mconnect, msendcmd: as long as no read found a lost connection, a command is
\* sent exactly when the master has accepted the client, and connectDataSource
\* succeeds only behind a reply that did not refuse the dump.
THEOREM AcceptedWhenConnected == Spec => []ConnectedIsAccepted
<1>1. CInv => ConnectedIsAccepted
  BY DEF CInv, CallInv, AwaitsDumpReply, IsAccepted, IsOver, ConnectedIsAccepted
<1> QED BY <1>1, ConnectInvariant, PTL
-----------------------------------------------------------------------------
(* The URL.                                                                *)

Names  == {"user", "passwd", "host", "port", "file"}
States == [next : SUBSET Nat, open : SUBSET Names, at : [Names -> Nat], cuts : SUBSET Nat]

\* Begins: a field is noted, flags are cleared, a separator is cut.
Began(b, s, f, closed, a, next, cuts) ==
    /\ b \in States /\ b.next = next /\ b.open = s.open \ closed /\ b.cuts = s.cuts \union cuts
    /\ b.at[f] = a /\ \A g \in Names \ {f} : b.at[g] = s.at[g]

\* Begins: the scanner with one field noted, the others as they were.
LEMMA BeginsAt ==
    ASSUME NEW s \in States, NEW f \in Names, NEW closed, NEW a \in Nat,
           NEW next \in SUBSET Nat, NEW cuts \in SUBSET Nat
    PROVE  Began(Begins(s, f, closed, a, next, cuts), s, f, closed, a, next, cuts)
<1> DEFINE b == [s.at EXCEPT ![f] = a]
<1>1. s.at \in [Names -> Nat] /\ s.open \in SUBSET Names /\ s.cuts \in SUBSET Nat
  BY DEF States
<1>2. b \in [Names -> Nat] /\ b[f] = a /\ \A g \in Names \ {f} : b[g] = s.at[g]
  <2> HIDE DEF Names
  <2> QED BY <1>1
<1>3. s.open \ closed \in SUBSET Names /\ s.cuts \union cuts \in SUBSET Nat
  BY <1>1
<1>4. Begins(s, f, closed, a, next, cuts)
        = [next |-> next, open |-> s.open \ closed, at |-> b, cuts |-> s.cuts \union cuts]
  BY DEF Begins
<1> HIDE DEF b, Names
<1> QED BY <1>2, <1>3, <1>4 DEF States, Began

\* PassedMySQL stays among the states of the scanner.
LEMMA PassedStays ==
    ASSUME NEW s \in States, NEW i \in Nat, NEW c \in Nat
    PROVE  PassedMySQL(s, i, c) \in States
<1>1. /\ "user" \in Names /\ "passwd" \in Names /\ "host" \in Names /\ "port" \in Names
      /\ "file" \in Names /\ {"user"} \in SUBSET Names /\ {"passwd"} \in SUBSET Names
      /\ HostCloses \in SUBSET Names /\ {"port"} \in SUBSET Names
      /\ {"port", "file"} \in SUBSET Names
  BY DEF Names, HostCloses
<1>2. /\ i + 1 \in Nat /\ i + 3 \in Nat /\ {i} \in SUBSET Nat /\ {} \in SUBSET Nat
      /\ {Colon, At} \in SUBSET Nat /\ {Colon, Slash} \in SUBSET Nat /\ {Slash} \in SUBSET Nat
      /\ s.next \in SUBSET Nat
  BY DEF Colon, At, Slash, States
<1>3. /\ Begins(s, "user", {"user"}, i + 3, {Colon, At}, {}) \in States
      /\ Begins(s, "passwd", {"passwd"}, i + 1, s.next, {i}) \in States
      /\ Begins(s, "host", HostCloses, i + 1, {Colon, Slash}, {i}) \in States
      /\ Begins(s, "port", {"port"}, i + 1, {Slash}, {i}) \in States
      /\ Begins(s, "file", {"port", "file"}, i + 1, s.next, {i}) \in States
  <2>1. ASSUME NEW f \in Names, NEW closed, NEW a \in Nat, NEW next \in SUBSET Nat,
               NEW cuts \in SUBSET Nat
        PROVE  Begins(s, f, closed, a, next, cuts) \in States
    BY BeginsAt DEF Began
  <2>2. Begins(s, "user", {"user"}, i + 3, {Colon, At}, {}) \in States
    BY <1>1, <1>2, <2>1
  <2>3. Begins(s, "passwd", {"passwd"}, i + 1, s.next, {i}) \in States
    BY <1>1, <1>2, <2>1
  <2>4. Begins(s, "host", HostCloses, i + 1, {Colon, Slash}, {i}) \in States
    BY <1>1, <1>2, <2>1
  <2>5. Begins(s, "port", {"port"}, i + 1, {Slash}, {i}) \in States
    BY <1>1, <1>2, <2>1
  <2>6. Begins(s, "file", {"port", "file"}, i + 1, s.next, {i}) \in States
    BY <1>1, <1>2, <2>1
  <2> QED BY <2>2, <2>3, <2>4, <2>5, <2>6
<1>4. [s EXCEPT !.cuts = IF c = Slash THEN @ \union {i} ELSE @] \in States
  <2>1. (IF c = Slash THEN s.cuts \union {i} ELSE s.cuts) \in SUBSET Nat
    BY DEF States
  <2> QED BY <2>1 DEF States
<1> QED BY <1>3, <1>4, Zenon DEF PassedMySQL

\* The bytes of a URL are numbers.
LEMMA BytesOf ==
    ASSUME NEW text \in Seq(1 .. 255), NEW i \in 1 .. Len(text)
    PROVE  text[i] \in 1 .. 255 /\ text[i] \in Nat
<1>1. text[i] \in 1 .. 255
  <2> DEFINE B == 1 .. 255
  <2>1. text \in Seq(B)
    OBVIOUS
  <2> HIDE DEF B
  <2> QED BY <2>1, ElementOfSeq DEF B
<1>2. 1 .. 255 \subseteq Nat
  OBVIOUS
<1> QED BY <1>1, <1>2, Zenon

\* parseMySQLUrl's loop as a function of the bytes it has passed.
Scanned(text, f) ==
    /\ f[1] = Start
    /\ \A i \in 2 .. Len(text) : f[i] = PassedMySQL(f[i - 1], i, text[i])
    /\ \A i \in 1 .. Len(text) : f[i] \in States
    /\ ScanMySQL(text) = f[Len(text)]

\* ScanMySQL: its states, from the start to the last byte.
LEMMA MySQLScanned ==
    ASSUME NEW text \in Seq(1 .. 255), Len(text) > 0
    PROVE  \E f : Scanned(text, f)
<1> DEFINE n == Len(text)
           m == n - 1
           F(f) == [i \in 1 .. n |-> IF i = 1 THEN Start ELSE PassedMySQL(f[i - 1], i, text[i])]
           scan == CHOOSE f : f = F(f)
           G == [p \in (1 .. m) \X States |-> PassedMySQL(p[2], p[1] + 1, text[p[1] + 1])]
<1>0. \A i \in 1 .. n : text[i] \in Nat
  BY BytesOf
<1>1. n \in Nat /\ m \in Nat /\ n = m + 1
  OBVIOUS
<1>2. ScanMySQL(text) = scan[n]
  BY DEF ScanMySQL
<1>3. Start \in States
  BY DEF Start, States, Names, Colon
<1>4. ASSUME NEW k \in 1 .. m, NEW s \in States
      PROVE  G[<<k, s>>] = PassedMySQL(s, k + 1, text[k + 1]) /\ G[<<k, s>>] \in States
  <2>1. <<k, s>> \in (1 .. m) \X States
    OBVIOUS
  <2>2. k + 1 \in Nat /\ text[k + 1] \in Nat
    <3>1. k + 1 \in 1 .. n
      BY <1>1
    <3> QED BY <1>0, <3>1
  <2>3. G[<<k, s>>] = PassedMySQL(s, k + 1, text[k + 1])
    <3> HIDE DEF m
    <3> QED BY <2>1
  <2> HIDE DEF G
  <2> QED BY <2>2, <2>3, PassedStays
<1>5. StaysWithin(G, m, States)
  <2> HIDE DEF G, m
  <2> QED BY <1>4, Zenon DEF StaysWithin
<1>6. PICK g : Steps(g, m, Start, G)
  <2> HIDE DEF G, m
  <2> QED BY <1>1, StepsExist
<1>7. g[0] = Start /\ \A k \in 1 .. m : g[k] = G[<<k, g[k - 1]>>]
  <2> HIDE DEF G, m
  <2> QED BY <1>1, <1>6, StepsAre
<1>8. \A k \in 0 .. m : g[k] \in States
  <2>1. Within(g, m, States)
    <3> HIDE DEF G, m
    <3> QED BY <1>1, <1>3, <1>5, <1>6, StepsStay
  <2> QED BY <2>1 DEF Within
<1> DEFINE f == [i \in 1 .. n |-> g[i - 1]]
<1>9. ASSUME NEW i \in 1 .. n
      PROVE  f[i] = (IF i = 1 THEN Start ELSE PassedMySQL(f[i - 1], i, text[i]))
  <2>1. CASE i = 1
    BY <1>7, <2>1
  <2>2. CASE i # 1
    <3>1. i - 1 \in 1 .. m /\ i - 1 - 1 \in 0 .. m /\ i - 1 + 1 = i /\ i - 1 \in 1 .. n
      BY <1>1, <2>2
    <3>2. g[i - 1] = G[<<i - 1, g[i - 1 - 1]>>] /\ g[i - 1 - 1] \in States
      BY <1>7, <1>8, <3>1
    <3>3. g[i - 1] = PassedMySQL(g[i - 1 - 1], i, text[i])
      <4> HIDE DEF G
      <4> QED BY <1>4, <3>1, <3>2
    <3>4. f[i] = g[i - 1] /\ f[i - 1] = g[i - 1 - 1]
      BY <3>1
    <3> HIDE DEF f
    <3> QED BY <2>2, <3>3, <3>4
  <2> QED BY <2>1, <2>2
<1>10. f = F(f)
  <2>1. f = [i \in 1 .. n |-> f[i]]
    OBVIOUS
  <2> HIDE DEF f, n
  <2> QED BY <1>9, <2>1
<1>11. scan = F(scan)
  <2> HIDE DEF F
  <2> QED BY <1>10
<1> HIDE DEF scan
<1>12. \A i \in 1 .. n : scan[i] = IF i = 1 THEN Start ELSE PassedMySQL(scan[i - 1], i, text[i])
  <2> HIDE DEF n
  <2> QED BY <1>11
<1>13. scan[1] = Start
  <2>1. 1 \in 1 .. n
    BY <1>1
  <2> HIDE DEF n
  <2> QED BY <1>12, <2>1
<1>14. ASSUME NEW i \in 2 .. n PROVE scan[i] = PassedMySQL(scan[i - 1], i, text[i])
  <2>1. i \in 1 .. n /\ i # 1
    BY <1>1
  <2> QED BY <1>12, <2>1
<1>15. \A i \in 1 .. n : scan[i] \in States
  <2> DEFINE T == {k \in 0 .. m : scan[k + 1] \in States}
  <2>1. 0 \in T
    BY <1>1, <1>3, <1>13
  <2>2. ASSUME NEW k \in 1 .. m, k - 1 \in T PROVE k \in T
    <3>1. /\ k + 1 \in 2 .. n /\ k + 1 \in 1 .. n /\ k + 1 \in Nat
          /\ k - 1 + 1 = k /\ k + 1 - 1 = k
      BY <1>1
    <3>2. text[k + 1] \in Nat
      BY <1>0, <3>1
    <3>3. scan[k] \in States
      BY <2>2, <3>1
    <3> QED BY <1>14, <3>1, <3>2, <3>3, PassedStays
  <2>3. T \in SUBSET (0 .. m)
    OBVIOUS
  <2>4. T = 0 .. m
    <3> HIDE DEF T, m
    <3> QED BY <1>1, <2>1, <2>2, <2>3, Upwards
  <2>5. ASSUME NEW i \in 1 .. n PROVE scan[i] \in States
    <3>1. i - 1 \in 0 .. m /\ i - 1 + 1 = i
      BY <1>1
    <3>2. i - 1 \in T
      BY <2>4, <3>1
    <3> QED BY <3>1, <3>2
  <2> QED BY <2>5
<1> QED BY <1>2, <1>13, <1>14, <1>15 DEF Scanned

\* Bytes that do nothing to the scanner leave it as it is.
LEMMA Passes ==
    ASSUME NEW text \in Seq(1 .. 255), NEW f, Scanned(text, f),
           NEW a \in 1 .. Len(text), NEW b \in a .. Len(text),
           \A i \in a + 1 .. b : PassedMySQL(f[a], i, text[i]) = f[a]
    PROVE  f[b] = f[a]
<1> DEFINE T == {k \in 0 .. b - a : f[a + k] = f[a]}
<1>1. Len(text) \in Nat /\ a \in Nat /\ b \in Nat /\ b - a \in Nat
  OBVIOUS
<1>2. 0 \in T
  BY <1>1
<1>3. ASSUME NEW k \in 1 .. b - a, k - 1 \in T PROVE k \in T
  <2>1. a + k \in 2 .. Len(text) /\ a + k - 1 = a + (k - 1) /\ a + k \in a + 1 .. b
    BY <1>1
  <2>2. f[a + k - 1] = f[a]
    BY <1>3, <2>1
  <2>3. f[a + k] = PassedMySQL(f[a], a + k, text[a + k])
    BY <2>1, <2>2 DEF Scanned
  <2> QED BY <2>1, <2>3
<1>4. T \in SUBSET (0 .. b - a)
  OBVIOUS
<1>5. T = 0 .. b - a
  <2> HIDE DEF T
  <2> QED BY <1>1, <1>2, <1>3, <1>4, Upwards
<1>6. b - a \in T
  <2> HIDE DEF T
  <2> QED BY <1>1, <1>5
<1> QED BY <1>1, <1>6

\* Where a part of a URL stands in it.
Part(x, a, s) == \A i \in 1 .. Len(s) : a - 1 + i \in 1 .. Len(x) /\ x[a - 1 + i] = s[i]

\* A part stays where it is when more is written behind.
LEMMA PartJoined ==
    ASSUME NEW S, NEW x \in Seq(S), NEW s \in Seq(S)
    PROVE  /\ x \o s \in Seq(S) /\ Len(x \o s) = Len(x) + Len(s)
           /\ Part(x \o s, Len(x) + 1, s)
           /\ \A a, t : Part(x, a, t) => Part(x \o s, a, t)
<1>1. /\ x \o s \in Seq(S) /\ Len(x \o s) = Len(x) + Len(s) /\ Len(x) \in Nat /\ Len(s) \in Nat
      /\ \A i \in 1 .. Len(x) + Len(s) :
           (x \o s)[i] = IF i <= Len(x) THEN x[i] ELSE s[i - Len(x)]
  BY ConcatProperties
<1>2. Part(x \o s, Len(x) + 1, s)
  <2>1. ASSUME NEW i \in 1 .. Len(s)
        PROVE  /\ Len(x) + 1 - 1 + i \in 1 .. Len(x \o s)
               /\ (x \o s)[Len(x) + 1 - 1 + i] = s[i]
    <3> DEFINE k == Len(x) + 1 - 1 + i
    <3>1. k \in 1 .. Len(x) + Len(s) /\ ~(k <= Len(x)) /\ k - Len(x) = i
      BY <1>1
    <3> HIDE DEF k
    <3>2. (x \o s)[k] = s[i]
      BY <1>1, <3>1
    <3> QED BY <1>1, <3>1, <3>2 DEF k
  <2> QED BY <2>1 DEF Part
<1>3. ASSUME NEW a, NEW t, Part(x, a, t) PROVE Part(x \o s, a, t)
  <2>1. ASSUME NEW i \in 1 .. Len(t)
        PROVE  a - 1 + i \in 1 .. Len(x \o s) /\ (x \o s)[a - 1 + i] = t[i]
    <3>1. a - 1 + i \in 1 .. Len(x) /\ x[a - 1 + i] = t[i]
      BY <1>3 DEF Part
    <3> DEFINE k == a - 1 + i
    <3> HIDE DEF k
    <3>2. k \in 1 .. Len(x) /\ x[k] = t[i]
      BY <3>1 DEF k
    <3>3. k \in 1 .. Len(x) + Len(s) /\ k <= Len(x)
      BY <1>1, <3>2
    <3> QED BY <1>1, <3>2, <3>3 DEF k
  <2> QED BY <2>1 DEF Part
<1> QED BY <1>1, <1>2, <1>3

\* What a field holds: it ends at the first cut behind its beginning.
LEMMA FieldIs ==
    ASSUME NEW text \in Seq(1 .. 255), NEW cuts \in SUBSET Nat, NEW t \in Seq(1 .. 255),
           NEW a \in Nat \ {0}, Part(text, a, t),
           a + Len(t) \in cuts \union {Len(text) + 1}, a + Len(t) <= Len(text) + 1,
           \A k \in cuts : k >= a => k >= a + Len(t)
    PROVE  Field(text, a, cuts) = t
<1> DEFINE e == a + Len(t)
           Ends == {k \in cuts : k >= a} \union {Len(text) + 1}
<1>1. Len(t) \in Nat /\ Len(text) \in Nat /\ e \in Nat
  OBVIOUS
<1>2. Ends \in SUBSET Nat /\ e \in Ends /\ \A k \in Ends : k >= e
  <2>1. Ends \in SUBSET Nat
    <3>1. Len(text) + 1 \in Nat
      BY <1>1
    <3>2. {k \in cuts : k >= a} \in SUBSET Nat
      OBVIOUS
    <3> QED BY <3>1, <3>2
  <2>2. e >= a /\ (e \in cuts \/ e = Len(text) + 1)
    <3>1. e >= a
      BY <1>1
    <3>2. e \in cuts \union {Len(text) + 1}
      OBVIOUS
    <3> HIDE DEF e
    <3> QED BY <3>1, <3>2
  <2>3. ASSUME NEW k \in Ends PROVE k >= e
    <3>1. (k \in cuts /\ k >= a) \/ k = Len(text) + 1
      OBVIOUS
    <3>2. Len(text) + 1 >= e
      BY <1>1
    <3> QED BY <3>1, <3>2
  <2>4. e \in Ends
    <3> HIDE DEF e
    <3> QED BY <2>2
  <2> QED BY <2>1, <2>3, <2>4
<1>3. Min(Ends) \in Ends
  <2> HIDE DEF Ends, e
  <2> QED BY <1>2, MinIn
<1>4. Min(Ends) <= e
  <2>1. \E k \in Ends : \A y \in Ends : k <= y
    <3> HIDE DEF Ends, e
    <3> QED BY <1>2, LeastNat
  <2>2. \A y \in Ends : Min(Ends) <= y
    <3> HIDE DEF Ends, e
    <3> QED BY <2>1 DEF Min
  <2> HIDE DEF Ends, e
  <2> QED BY <1>2, <2>2
<1>5. Min(Ends) = e
  <2>1. Min(Ends) \in Nat /\ Min(Ends) >= e /\ Min(Ends) <= e /\ e \in Nat
    <3> HIDE DEF Ends, e
    <3> QED BY <1>1, <1>2, <1>3, <1>4, Zenon
  <2> DEFINE m == Min(Ends)
  <2> HIDE DEF e, m
  <2>2. m \in Nat /\ m >= e /\ m <= e /\ e \in Nat
    BY <2>1, Zenon DEF m
  <2>3. m = e
    BY <2>2
  <2> QED BY <2>3 DEF m
<1>6. Field(text, a, cuts) = SubSeq(text, a, e - 1)
  <2>1. Field(text, a, cuts) = SubSeq(text, a, Min(Ends) - 1)
    BY DEF Field
  <2> HIDE DEF Ends, e
  <2> QED BY <1>5, <2>1
<1> DEFINE s == SubSeq(text, a, e - 1)
<1>7. s \in Seq(1 .. 255) /\ Len(s) = Len(t) /\ \A i \in 1 .. Len(t) : s[i] = text[a + i - 1]
  <2>1. \A i \in a .. e - 1 : text[i] \in 1 .. 255
    <3>1. \A i \in a .. e - 1 : i \in 1 .. Len(text)
      BY <1>1
    <3> QED BY <3>1, BytesOf
  <2> DEFINE B == 1 .. 255
  <2> HIDE DEF B
  <2>2. a \in Int /\ e - 1 \in Int /\ \A i \in a .. e - 1 : text[i] \in B
    BY <1>1, <2>1 DEF B
  <2>3. /\ s \in Seq(B)
        /\ Len(s) = IF a <= e - 1 THEN (e - 1) - a + 1 ELSE 0
        /\ \A i \in 1 .. (e - 1) - a + 1 : s[i] = text[a + i - 1]
    <3> DEFINE z == e - 1
    <3> HIDE DEF e
    <3>1. z \in Int /\ \A i \in a .. z : text[i] \in B
      BY <2>2
    <3> HIDE DEF z
    <3>2. /\ SubSeq(text, a, z) \in Seq(B)
          /\ Len(SubSeq(text, a, z)) = IF a <= z THEN z - a + 1 ELSE 0
          /\ \A i \in 1 .. z - a + 1 : SubSeq(text, a, z)[i] = text[a + i - 1]
      BY <2>2, <3>1, SubSeqProperties
    <3> QED BY <3>2 DEF z
  <2>4. (e - 1) - a + 1 = Len(t) /\ (~(a <= e - 1) => Len(t) = 0)
    BY <1>1
  <2> HIDE DEF s, e
  <2> QED BY <2>3, <2>4 DEF B
<1>8. \A i \in 1 .. Len(t) : s[i] = t[i]
  <2> HIDE DEF s
  <2>1. \A i \in 1 .. Len(t) : a + i - 1 = a - 1 + i
    BY <1>1
  <2> QED BY <1>7, <2>1 DEF Part
<1>9. s = t
  <2> HIDE DEF s
  <2> QED BY <1>7, <1>8, SeqEqual
<1> HIDE DEF s
<1> QED BY <1>6, <1>9 DEF s

\* atoi of two digits.
LEMMA TwoDigits ==
    ASSUME NEW d \in 0 .. 9, NEW e \in 0 .. 9
    PROVE  Number(<<48 + d, 48 + e>>) = 10 * d + e
<1> DEFINE s == <<48 + d, 48 + e>>
           z0 == [n |-> 0, on |-> TRUE]
           z1 == [n |-> d, on |-> TRUE]
           z2 == [n |-> 10 * d + e, on |-> TRUE]
           F(v) == [i \in 0 .. 2 |-> IF i = 0 THEN z0 ELSE WithDigit(v[i - 1], s[i])]
           value == CHOOSE v : v = F(v)
           g == [i \in 0 .. 2 |-> IF i = 0 THEN z0 ELSE IF i = 1 THEN z1 ELSE z2]
<1>1. WithDigit(z0, s[1]) = z1 /\ WithDigit(z1, s[2]) = z2
  <2>1. /\ s[1] = 48 + d /\ 48 + d \in 48 .. 57 /\ 10 * 0 + (48 + d) - 48 = d
        /\ s[2] = 48 + e /\ 48 + e \in 48 .. 57 /\ 10 * d + (48 + e) - 48 = 10 * d + e
    OBVIOUS
  <2>2. ASSUME NEW v, v.on = TRUE, NEW c, c \in 48 .. 57
        PROVE  WithDigit(v, c) = [n |-> 10 * v.n + c - 48, on |-> TRUE]
    BY <2>2 DEF WithDigit, IsDigit
  <2>3. WithDigit(z0, s[1]) = [n |-> 10 * z0.n + s[1] - 48, on |-> TRUE]
    BY <2>1, <2>2
  <2>4. WithDigit(z1, s[2]) = [n |-> 10 * z1.n + s[2] - 48, on |-> TRUE]
    BY <2>1, <2>2
  <2> QED BY <2>1, <2>3, <2>4
<1>2. g = F(g)
  <2>1. g[0] = z0 /\ g[1] = z1 /\ g[2] = z2
    OBVIOUS
  <2>2. ASSUME NEW i \in 0 .. 2
        PROVE  g[i] = IF i = 0 THEN z0 ELSE WithDigit(g[i - 1], s[i])
    <3>1. i = 0 \/ (i = 1 /\ i - 1 = 0) \/ (i = 2 /\ i - 1 = 1)
      OBVIOUS
    <3> HIDE DEF g, z0, z1, z2, s
    <3> QED BY <1>1, <2>1, <3>1
  <2>3. g = [i \in 0 .. 2 |-> g[i]]
    OBVIOUS
  <2> HIDE DEF g, s
  <2> QED BY <2>2, <2>3
<1>3. value = F(value)
  <2> HIDE DEF F
  <2> QED BY <1>2
<1> HIDE DEF value
<1>4. \A i \in 0 .. 2 : value[i] = IF i = 0 THEN z0 ELSE WithDigit(value[i - 1], s[i])
  BY <1>3
<1>5. value[0] = z0
  <2>1. 0 \in 0 .. 2
    OBVIOUS
  <2> HIDE DEF z0
  <2> QED BY <1>4, <2>1
<1>6. value[1] = z1
  <2>1. 1 \in 0 .. 2 /\ 1 # 0 /\ 1 - 1 = 0
    OBVIOUS
  <2> HIDE DEF z0, z1, s
  <2> QED BY <1>1, <1>4, <1>5, <2>1
<1>7. value[2] = z2
  <2>1. 2 \in 0 .. 2 /\ 2 # 0 /\ 2 - 1 = 1
    OBVIOUS
  <2> HIDE DEF z0, z1, z2, s
  <2> QED BY <1>1, <1>4, <1>6, <2>1
<1>8. Number(s) = value[2].n
  <2>1. Len(s) = 2
    OBVIOUS
  <2> QED BY <2>1 DEF Number, value
<1> QED BY <1>7, <1>8
-----------------------------------------------------------------------------
\* The parts of a URL that may be missing, and where its separators are.
PasswdPart(u) == IF u.passwd = Null THEN <<>> ELSE <<Colon>> \o u.passwd
PortPart(u)   == IF u.port = 0 THEN <<>> ELSE <<Colon, 48 + u.port \div 10, 48 + (u.port % 10)>>
PasswdAt(u)   == 9 + Len(u.user)
HostAt(u)     == PasswdAt(u) + Len(PasswdPart(u))
PortAt(u)     == HostAt(u) + 1 + Len(u.host)
FileAt(u)     == PortAt(u) + Len(PortPart(u))
Scheme        == <<109, 121, 115, 113, 108, Colon, Slash, Slash>>

\* The fields of a URL are bytes without the separators that end them.
LEMMA UrlParts ==
    ASSUME NEW u \in Urls
    PROVE  /\ u = [user |-> u.user, passwd |-> u.passwd, host |-> u.host, port |-> u.port,
                   logfile |-> u.logfile]
           /\ u.user \in Seq(1 .. 255) /\ u.host \in Seq(1 .. 255) /\ u.logfile \in Seq(1 .. 255)
           /\ u.passwd # Null => u.passwd \in Seq(1 .. 255)
           /\ PasswdPart(u) \in Seq(1 .. 255) /\ PortPart(u) \in Seq(1 .. 255)
           /\ u.port \in 0 .. 99
           /\ \A i \in 1 .. Len(u.user) : u.user[i] \notin {Colon, At}
           /\ u.passwd # Null => \A i \in 1 .. Len(u.passwd) : u.passwd[i] \notin {Colon, At}
           /\ \A i \in 1 .. Len(u.host) : u.host[i] \notin {Colon, Slash}
           /\ \A i \in 1 .. Len(u.logfile) : u.logfile[i] # Slash
<1>1. /\ u.user \in Text({Colon, At}) /\ u.passwd \in Text({Colon, At}) \union {Null}
      /\ u.host \in Text({Colon, Slash}) /\ u.port \in 0 .. 99 /\ u.logfile \in Text({Slash})
      /\ u = [user |-> u.user, passwd |-> u.passwd, host |-> u.host, port |-> u.port,
              logfile |-> u.logfile]
  <2>1. u \in [user : Text({Colon, At}), passwd : Text({Colon, At}) \union {Null},
              host : Text({Colon, Slash}), port : 0 .. 99, logfile : Text({Slash})]
    BY UrlsAssumption
  <2> QED BY <2>1
<1>2. ASSUME NEW seps, NEW s \in Text(seps)
      PROVE  s \in Seq(1 .. 255) /\ \A i \in 1 .. Len(s) : s[i] \notin seps
  <2> DEFINE B == 1 .. 255
             C == B \ seps
  <2>1. s \in Seq(C)
    BY DEF Text
  <2> HIDE DEF B
  <2>2. \A i \in 1 .. Len(s) : s[i] \in C
    <3> HIDE DEF C
    <3> QED BY <2>1, ElementOfSeq
  <2>3. s \in Seq(B)
    BY <2>1
  <2> QED BY <2>2, <2>3 DEF B
<1>3. PasswdPart(u) \in Seq(1 .. 255)
  <2>1. <<Colon>> \in Seq(1 .. 255) /\ <<>> \in Seq(1 .. 255)
    BY DEF Colon
  <2>2. ASSUME u.passwd # Null PROVE <<Colon>> \o u.passwd \in Seq(1 .. 255)
    <3>1. u.passwd \in Seq(1 .. 255)
      BY <1>1, <1>2, <2>2
    <3> QED BY <2>1, <3>1, ConcatProperties
  <2> QED BY <2>1, <2>2 DEF PasswdPart
<1>4. PortPart(u) \in Seq(1 .. 255)
  <2>1. ASSUME NEW p \in 0 .. 99
        PROVE  48 + p \div 10 \in 1 .. 255 /\ 48 + (p % 10) \in 1 .. 255
    OBVIOUS
  <2>2. 48 + u.port \div 10 \in 1 .. 255 /\ 48 + (u.port % 10) \in 1 .. 255 /\ Colon \in 1 .. 255
    BY <1>1, <2>1 DEF Colon
  <2>3. ASSUME NEW x \in 1 .. 255, NEW y \in 1 .. 255, NEW z \in 1 .. 255
        PROVE  <<x, y, z>> \in Seq(1 .. 255) /\ <<>> \in Seq(1 .. 255)
    OBVIOUS
  <2>4. <<Colon, 48 + u.port \div 10, 48 + (u.port % 10)>> \in Seq(1 .. 255)
        /\ <<>> \in Seq(1 .. 255)
    BY <2>2, <2>3, ZenonT(60)
  <2> QED BY <2>4, Zenon DEF PortPart
<1> QED BY <1>1, <1>2, <1>3, <1>4

\* A URL, part by part.
LEMMA Layout ==
    ASSUME NEW u \in Urls
    PROVE  /\ Written(u) \in Seq(1 .. 255)
           /\ Len(Written(u)) = FileAt(u) + Len(u.logfile)
           /\ Part(Written(u), 1, Scheme)
           /\ Part(Written(u), 9, u.user)
           /\ Part(Written(u), PasswdAt(u), PasswdPart(u))
           /\ Part(Written(u), HostAt(u), <<At>>)
           /\ Part(Written(u), HostAt(u) + 1, u.host)
           /\ Part(Written(u), PortAt(u), PortPart(u))
           /\ Part(Written(u), FileAt(u), <<Slash>>)
           /\ Part(Written(u), FileAt(u) + 1, u.logfile)
<1> DEFINE B == 1 .. 255
           x1 == Scheme \o u.user
           x2 == x1 \o PasswdPart(u)
           x3 == x2 \o <<At>>
           x4 == x3 \o u.host
           x5 == x4 \o PortPart(u)
           x6 == x5 \o <<Slash>>
           x7 == x6 \o u.logfile
<1>1. /\ Scheme \in Seq(B) /\ Len(Scheme) = 8 /\ <<At>> \in Seq(B) /\ Len(<<At>>) = 1
      /\ <<Slash>> \in Seq(B) /\ Len(<<Slash>>) = 1 /\ Part(Scheme, 1, Scheme)
  <2>1. Part(Scheme, 1, Scheme)
    BY DEF Part, Scheme
  <2> QED BY <2>1 DEF Scheme, Colon, At, Slash
<1>2. /\ u.user \in Seq(B) /\ u.host \in Seq(B) /\ u.logfile \in Seq(B)
      /\ PasswdPart(u) \in Seq(B) /\ PortPart(u) \in Seq(B)
  BY UrlParts
<1>3. Written(u) = x7
  BY DEF Written, PasswdPart, PortPart, Scheme
<1> HIDE DEF B
<1>4. x1 \in Seq(B) /\ Len(x1) = Len(Scheme) + Len(u.user)
      /\ Part(x1, Len(Scheme) + 1, u.user) /\ \A a, t : Part(Scheme, a, t) => Part(x1, a, t)
  BY <1>1, <1>2, PartJoined
<1> HIDE DEF x1
<1>5. x2 \in Seq(B) /\ Len(x2) = Len(x1) + Len(PasswdPart(u))
      /\ Part(x2, Len(x1) + 1, PasswdPart(u)) /\ \A a, t : Part(x1, a, t) => Part(x2, a, t)
  BY <1>4, <1>2, PartJoined
<1> HIDE DEF x2
<1>6. x3 \in Seq(B) /\ Len(x3) = Len(x2) + Len(<<At>>)
      /\ Part(x3, Len(x2) + 1, <<At>>) /\ \A a, t : Part(x2, a, t) => Part(x3, a, t)
  BY <1>1, <1>5, PartJoined
<1> HIDE DEF x3
<1>7. x4 \in Seq(B) /\ Len(x4) = Len(x3) + Len(u.host)
      /\ Part(x4, Len(x3) + 1, u.host) /\ \A a, t : Part(x3, a, t) => Part(x4, a, t)
  BY <1>2, <1>6, PartJoined, ZenonT(60)
<1> HIDE DEF x4
<1>8. x5 \in Seq(B) /\ Len(x5) = Len(x4) + Len(PortPart(u))
      /\ Part(x5, Len(x4) + 1, PortPart(u)) /\ \A a, t : Part(x4, a, t) => Part(x5, a, t)
  BY <1>2, <1>7, PartJoined
<1> HIDE DEF x5
<1>9. x6 \in Seq(B) /\ Len(x6) = Len(x5) + Len(<<Slash>>)
      /\ Part(x6, Len(x5) + 1, <<Slash>>) /\ \A a, t : Part(x5, a, t) => Part(x6, a, t)
  BY <1>1, <1>8, PartJoined
<1> HIDE DEF x6
<1>10. x7 \in Seq(B) /\ Len(x7) = Len(x6) + Len(u.logfile)
      /\ Part(x7, Len(x6) + 1, u.logfile) /\ \A a, t : Part(x6, a, t) => Part(x7, a, t)
  BY <1>2, <1>9, PartJoined, ZenonT(60)
<1> HIDE DEF x7
<1>11. /\ Len(u.user) \in Nat /\ Len(PasswdPart(u)) \in Nat /\ Len(u.host) \in Nat
       /\ Len(PortPart(u)) \in Nat /\ Len(u.logfile) \in Nat
  BY <1>2, LenProperties
<1>12. /\ Len(Scheme) + 1 = 9 /\ Len(x1) + 1 = PasswdAt(u) /\ Len(x2) + 1 = HostAt(u)
       /\ Len(x3) + 1 = HostAt(u) + 1 /\ Len(x4) + 1 = PortAt(u) /\ Len(x5) + 1 = FileAt(u)
       /\ Len(x6) + 1 = FileAt(u) + 1 /\ Len(x7) = FileAt(u) + Len(u.logfile)
  <2>1. /\ Len(x1) = 8 + Len(u.user) /\ Len(x2) = Len(x1) + Len(PasswdPart(u))
        /\ Len(x3) = Len(x2) + 1 /\ Len(x4) = Len(x3) + Len(u.host)
        /\ Len(x5) = Len(x4) + Len(PortPart(u)) /\ Len(x6) = Len(x5) + 1
        /\ Len(x7) = Len(x6) + Len(u.logfile)
    BY <1>1, <1>4, <1>5, <1>6, <1>7, <1>8, <1>9, <1>10
  <2>2. /\ PasswdAt(u) = 9 + Len(u.user) /\ HostAt(u) = PasswdAt(u) + Len(PasswdPart(u))
        /\ PortAt(u) = HostAt(u) + 1 + Len(u.host) /\ FileAt(u) = PortAt(u) + Len(PortPart(u))
    BY DEF PasswdAt, HostAt, PortAt, FileAt
  <2>3. Len(x1) + 1 = PasswdAt(u) /\ Len(x1) \in Nat /\ PasswdAt(u) \in Nat
    BY <1>11, <2>1, <2>2
  <2>4. Len(x2) + 1 = HostAt(u) /\ Len(x2) \in Nat /\ HostAt(u) \in Nat
    BY <1>11, <2>1, <2>2, <2>3
  <2>5. Len(x3) + 1 = HostAt(u) + 1 /\ Len(x3) \in Nat
    BY <1>11, <2>1, <2>4
  <2>6. Len(x4) + 1 = PortAt(u) /\ Len(x4) \in Nat /\ PortAt(u) \in Nat
    <3>1. ASSUME NEW x \in Nat, NEW y \in Nat, NEW h \in Nat, x + 1 = y + 1
          PROVE  x + h + 1 = y + 1 + h /\ x + h \in Nat /\ y + 1 + h \in Nat
      BY <3>1
    <3>2. Len(x3) \in Nat /\ HostAt(u) \in Nat /\ Len(u.host) \in Nat /\ Len(x3) + 1 = HostAt(u) + 1
      BY <1>11, <2>4, <2>5
    <3>3. /\ Len(x3) + Len(u.host) + 1 = HostAt(u) + 1 + Len(u.host)
          /\ Len(x3) + Len(u.host) \in Nat /\ HostAt(u) + 1 + Len(u.host) \in Nat
      BY <3>1, <3>2, Zenon
    <3> QED BY <2>1, <2>2, <3>3, Zenon
  <2>7. Len(x5) + 1 = FileAt(u) /\ Len(x5) \in Nat /\ FileAt(u) \in Nat
    <3>1. ASSUME NEW x \in Nat, NEW y \in Nat, NEW q \in Nat, x + 1 = y
          PROVE  x + q + 1 = y + q /\ x + q \in Nat /\ y + q \in Nat
      BY <3>1
    <3>2. /\ Len(x4) + Len(PortPart(u)) + 1 = PortAt(u) + Len(PortPart(u))
          /\ Len(x4) + Len(PortPart(u)) \in Nat /\ PortAt(u) + Len(PortPart(u)) \in Nat
      BY <1>11, <2>6, <3>1
    <3> QED BY <2>1, <2>2, <3>2, Zenon
  <2>8. Len(x6) + 1 = FileAt(u) + 1 /\ Len(x7) = FileAt(u) + Len(u.logfile)
    BY <1>11, <2>1, <2>7
  <2> QED BY <1>1, <2>3, <2>4, <2>5, <2>6, <2>7, <2>8
<1>13. /\ Part(x7, 1, Scheme) /\ Part(x7, Len(Scheme) + 1, u.user)
       /\ Part(x7, Len(x1) + 1, PasswdPart(u)) /\ Part(x7, Len(x2) + 1, <<At>>)
       /\ Part(x7, Len(x3) + 1, u.host) /\ Part(x7, Len(x4) + 1, PortPart(u))
       /\ Part(x7, Len(x5) + 1, <<Slash>>) /\ Part(x7, Len(x6) + 1, u.logfile)
  BY <1>1, <1>4, <1>5, <1>6, <1>7, <1>8, <1>9, <1>10, Zenon
<1> QED BY <1>3, <1>10, <1>12, <1>13, Zenon DEF B

\* The bytes of a part.
LEMMA PartBytes ==
    ASSUME NEW x, NEW a \in Nat, NEW s, Len(s) \in Nat, Part(x, a, s), NEW i \in a .. a + Len(s) - 1
    PROVE  i - a + 1 \in 1 .. Len(s) /\ x[i] = s[i - a + 1] /\ i \in 1 .. Len(x)
<1>1. i - a + 1 \in 1 .. Len(s) /\ a - 1 + (i - a + 1) = i
  OBVIOUS
<1>2. a - 1 + (i - a + 1) \in 1 .. Len(x) /\ x[a - 1 + (i - a + 1)] = s[i - a + 1]
  BY <1>1, Zenon DEF Part
<1> QED BY <1>1, <1>2, Zenon

\* What the scanner meets in a URL.
Met(u, text) ==
    /\ PasswdAt(u) \in 9 .. HostAt(u) /\ HostAt(u) < PortAt(u) /\ PortAt(u) \in Nat
    /\ HostAt(u) \in Nat /\ PortAt(u) <= FileAt(u) /\ FileAt(u) \in 10 .. Len(text)
    /\ text[6] = Colon /\ \A i \in 2 .. 5 : text[i] # Colon
    /\ \A i \in 7 .. PasswdAt(u) - 1 : text[i] \notin {Colon, At}
    /\ u.passwd = Null => HostAt(u) = PasswdAt(u)
    /\ u.passwd # Null => /\ PasswdAt(u) < HostAt(u) /\ text[PasswdAt(u)] = Colon
                          /\ \A i \in PasswdAt(u) + 1 .. HostAt(u) - 1 : text[i] \notin {Colon, At}
    /\ text[HostAt(u)] = At
    /\ \A i \in HostAt(u) + 1 .. PortAt(u) - 1 : text[i] \notin {Colon, Slash}
    /\ u.port = 0 => FileAt(u) = PortAt(u)
    /\ u.port # 0 => /\ PortAt(u) < FileAt(u) /\ text[PortAt(u)] = Colon
                     /\ \A i \in PortAt(u) + 1 .. FileAt(u) - 1 : text[i] # Slash
    /\ text[FileAt(u)] = Slash
    /\ \A i \in FileAt(u) + 1 .. Len(text) : text[i] # Slash

\* Every URL that may be written is met as Met says.
LEMMA UrlBytes ==
    ASSUME NEW u \in Urls
    PROVE  Met(u, Written(u))
<1> DEFINE text == Written(u)
           n  == Len(text)
           p  == PasswdAt(u)
           h  == HostAt(u)
           t  == PortAt(u)
           g  == FileAt(u)
           Q  == PasswdPart(u)
           R  == PortPart(u)
           nu == Len(u.user)
           np == Len(Q)
           nw == Len(u.passwd)
           nh == Len(u.host)
           nq == Len(R)
           nl == Len(u.logfile)
<1>1. /\ n = g + nl
      /\ Part(text, 1, Scheme) /\ Part(text, 9, u.user)
      /\ Part(text, p, Q) /\ Part(text, h, <<At>>)
      /\ Part(text, h + 1, u.host) /\ Part(text, t, R)
      /\ Part(text, g, <<Slash>>) /\ Part(text, g + 1, u.logfile)
  BY Layout
<1>2. /\ u.port \in 0 .. 99
      /\ \A i \in 1 .. nu : u.user[i] \notin {Colon, At}
      /\ u.passwd # Null => \A i \in 1 .. nw : u.passwd[i] \notin {Colon, At}
      /\ \A i \in 1 .. nh : u.host[i] \notin {Colon, Slash}
      /\ \A i \in 1 .. nl : u.logfile[i] # Slash
  BY UrlParts
<1>3. /\ nu \in Nat /\ np \in Nat /\ nh \in Nat
      /\ nq \in Nat /\ nl \in Nat
      /\ u.passwd # Null => nw \in Nat
  BY UrlParts, LenProperties
<1>4. /\ p \in Nat /\ p >= 9 /\ p = 9 + nu
      /\ h \in Nat /\ h = p + np /\ h >= p
  BY <1>3 DEF PasswdAt, HostAt
<1>5. /\ t \in Nat /\ t = h + 1 + nh /\ t > h
      /\ g \in Nat /\ g = t + nq /\ g >= t
      /\ g >= 10 /\ n \in Nat /\ n >= g
  <2>1. t = h + 1 + nh /\ g = t + nq
    BY DEF PortAt, FileAt
  <2> HIDE DEF text, n, p, h, t, g, Q, R, nu, np, nw, nh, nq, nl
  <2>2. t \in Nat /\ t > h /\ t >= 10
    BY <1>3, <1>4, <2>1
  <2>3. g \in Nat /\ g >= t
    BY <1>3, <2>1, <2>2
  <2> QED BY <1>1, <1>3, <2>1, <2>2, <2>3
<1> HIDE DEF text, n, p, h, t, g, Q, R, nu, np, nw, nh, nq, nl
<1>6. /\ text[6] = Colon /\ (\A i \in 2 .. 5 : text[i] # Colon)
      /\ text[7] \notin {Colon, At} /\ text[8] \notin {Colon, At}
  <2>1. Len(Scheme) = 8
    BY DEF Scheme
  <2>2. \A i \in 1 .. 8 : text[i] = Scheme[i]
    <3>1. \A i \in 1 .. 8 : text[1 - 1 + i] = Scheme[i]
      BY <1>1, <2>1, Zenon DEF Part
    <3>2. \A i \in 1 .. 8 : 1 - 1 + i = i
      OBVIOUS
    <3> QED BY <3>1, <3>2
  <2> HIDE DEF Part
  <2>3. /\ text[2] = 121 /\ text[3] = 115 /\ text[4] = 113 /\ text[5] = 108
        /\ text[6] = Colon /\ text[7] = Slash /\ text[8] = Slash
    BY <2>2 DEF Scheme
  <2> QED BY <2>3 DEF Colon, Slash, At
<1>7. ASSUME NEW i \in 9 .. p - 1 PROVE text[i] \notin {Colon, At}
  <2>0. i \in 9 .. 9 + nu - 1
    BY <1>3, <1>4
  <2>1. i - 9 + 1 \in 1 .. nu /\ text[i] = u.user[i - 9 + 1]
    <3>1. Part(text, 9, u.user) /\ Len(u.user) \in Nat /\ 9 \in Nat
          /\ i \in 9 .. 9 + Len(u.user) - 1
      BY <1>1, <1>3, <2>0 DEF nu
    <3> QED BY <3>1, PartBytes DEF nu
  <2> QED BY <1>2, <2>1
<1>8. \A i \in 7 .. p - 1 : text[i] \notin {Colon, At}
  <2>1. \A i \in 7 .. p - 1 : i = 7 \/ i = 8 \/ i \in 9 .. p - 1
    BY <1>4
  <2> QED BY <1>6, <1>7, <2>1
<1>9. u.passwd = Null => h = p
  <2>1. u.passwd = Null => Q = <<>> /\ Len(<<>>) = 0
    BY DEF PasswdPart, Q
  <2> QED BY <1>4, <2>1 DEF np
<1>10. ASSUME u.passwd # Null
       PROVE  /\ p < h /\ text[p] = Colon
              /\ \A i \in p + 1 .. h - 1 : text[i] \notin {Colon, At}
  <2>1. Q = <<Colon>> \o u.passwd
    BY <1>10 DEF PasswdPart, Q
  <2>2. /\ u.passwd \in Seq(1 .. 255) /\ <<Colon>> \in Seq(1 .. 255)
        /\ Len(<<Colon>>) = 1 /\ <<Colon>>[1] = Colon
    BY <1>10, UrlParts DEF Colon
  <2>3. /\ np = 1 + nw
        /\ \A i \in 1 .. 1 + nw :
              Q[i] = IF i <= 1 THEN <<Colon>>[i] ELSE u.passwd[i - 1]
    BY <2>1, <2>2, ConcatProperties DEF np, nw
  <2>4. Q[1] = Colon
    <3>1. 1 \in 1 .. 1 + nw
      BY <1>3, <1>10
    <3> QED BY <2>2, <2>3, <3>1
  <2>5. \A i \in 2 .. 1 + nw : Q[i] \notin {Colon, At}
    <3>1. \A i \in 2 .. 1 + nw :
             i \in 1 .. 1 + nw /\ ~(i <= 1) /\ i - 1 \in 1 .. nw
      BY <1>3, <1>10
    <3> QED BY <1>2, <1>10, <2>3, <3>1
  <2>6. ASSUME NEW i \in p .. h - 1
        PROVE  i - p + 1 \in 1 .. np
               /\ text[i] = Q[i - p + 1]
    <3>1. i \in p .. p + np - 1
      BY <1>3, <1>4
    <3>2. Part(text, p, Q) /\ Len(Q) \in Nat /\ p \in Nat /\ i \in p .. p + Len(Q) - 1
      BY <1>1, <1>3, <1>4, <3>1 DEF np
    <3> QED BY <3>2, PartBytes DEF np
  <2>7. p < h
    BY <1>3, <1>4, <1>10, <2>3
  <2>8. text[p] = Colon
    <3>1. p \in p .. h - 1 /\ p - p + 1 = 1
      BY <1>4, <2>7
    <3> QED BY <2>4, <2>6, <3>1
  <2>9. ASSUME NEW i \in p + 1 .. h - 1 PROVE text[i] \notin {Colon, At}
    <3>1. i \in p .. h - 1 /\ i - p + 1 \in 2 .. 1 + nw
      BY <1>3, <1>4, <1>10, <2>3
    <3> QED BY <2>5, <2>6, <3>1
  <2> QED BY <2>7, <2>8, <2>9
<1>11. text[h] = At /\ text[g] = Slash
  <2>1. ASSUME NEW a \in Nat, NEW c, Part(text, a, <<c>>) PROVE text[a] = c
    <3>1. 1 \in 1 .. Len(<<c>>) /\ a - 1 + 1 = a /\ <<c>>[1] = c
      OBVIOUS
    <3> QED BY <2>1, <3>1 DEF Part
  <2> QED BY <1>1, <1>4, <1>5, <2>1
<1>12. ASSUME NEW i \in h + 1 .. t - 1 PROVE text[i] \notin {Colon, Slash}
  <2>1. i \in h + 1 .. h + 1 + nh - 1 /\ h + 1 \in Nat
    BY <1>3, <1>4, <1>5
  <2>2. i - (h + 1) + 1 \in 1 .. nh /\ text[i] = u.host[i - (h + 1) + 1]
    <3>1. Len(u.host) \in Nat /\ Part(text, h + 1, u.host) /\ h + 1 \in Nat
          /\ i \in h + 1 .. h + 1 + Len(u.host) - 1 /\ nh = Len(u.host)
      BY <1>1, <1>3, <2>1 DEF nh
    <3> DEFINE a == h + 1
    <3>2. Len(u.host) \in Nat /\ Part(text, a, u.host) /\ a \in Nat /\ i \in a .. a + Len(u.host) - 1
      BY <3>1
    <3> HIDE DEF a
    <3>3. i - a + 1 \in 1 .. Len(u.host) /\ text[i] = u.host[i - a + 1]
      BY <3>2, PartBytes
    <3> QED BY <3>1, <3>3 DEF a
  <2> QED BY <1>2, <2>2
<1>13. u.port = 0 => g = t
  <2>1. u.port = 0 => R = <<>> /\ Len(<<>>) = 0
    BY DEF PortPart, R
  <2> QED BY <1>5, <2>1 DEF nq
<1>14. ASSUME u.port # 0
       PROVE  /\ t < g /\ text[t] = Colon
              /\ \A i \in t + 1 .. g - 1 : text[i] # Slash
  <2>1. R = <<Colon, 48 + u.port \div 10, 48 + (u.port % 10)>>
    BY <1>14 DEF PortPart, R
  <2>2. ASSUME NEW q \in 0 .. 99 PROVE 48 + q \div 10 # 47 /\ 48 + (q % 10) # 47
    OBVIOUS
  <2>3. /\ nq = 3 /\ R[1] = Colon
        /\ R[2] # Slash /\ R[3] # Slash
    BY <1>2, <2>1, <2>2 DEF Slash, nq
  <2>4. g = t + 3
    BY <1>5, <2>3
  <2>5. text[t] = R[1] /\ text[t + 1] = R[2]
        /\ text[t + 2] = R[3]
    <3>1. /\ 1 \in 1 .. nq /\ 2 \in 1 .. nq /\ 3 \in 1 .. nq
          /\ t - 1 + 1 = t /\ t - 1 + 2 = t + 1
          /\ t - 1 + 3 = t + 2
      BY <1>5, <2>3
    <3>2. \A i \in 1 .. nq : text[t - 1 + i] = R[i]
      BY <1>1, Zenon DEF Part, nq
    <3>3. text[t - 1 + 1] = R[1] /\ text[t - 1 + 2] = R[2] /\ text[t - 1 + 3] = R[3]
      BY <3>1, <3>2, Zenon
    <3> QED BY <3>1, <3>3, Zenon
  <2>6. \A i \in t + 1 .. g - 1 : i = t + 1 \/ i = t + 2
    BY <1>5, <2>4
  <2>7. t < g
    BY <1>5, <2>4
  <2> QED BY <2>3, <2>5, <2>6, <2>7
<1>15. ASSUME NEW i \in g + 1 .. n PROVE text[i] # Slash
  <2>1. i \in g + 1 .. g + 1 + nl - 1 /\ g + 1 \in Nat
    BY <1>1, <1>3, <1>5
  <2>2. i - (g + 1) + 1 \in 1 .. nl /\ text[i] = u.logfile[i - (g + 1) + 1]
    <3> DEFINE a == g + 1
    <3>1. Len(u.logfile) \in Nat /\ Part(text, a, u.logfile) /\ a \in Nat
          /\ i \in a .. a + Len(u.logfile) - 1 /\ nl = Len(u.logfile)
      BY <1>1, <1>3, <2>1 DEF nl
    <3> HIDE DEF a
    <3>2. i - a + 1 \in 1 .. Len(u.logfile) /\ text[i] = u.logfile[i - a + 1]
      BY <3>1, PartBytes
    <3> QED BY <3>1, <3>2 DEF a
  <2> QED BY <1>2, <2>2
<1>16. /\ p \in 9 .. h /\ h < t /\ t \in Nat
       /\ h \in Nat /\ t <= g /\ g \in 10 .. n
  BY <1>4, <1>5
<1> QED BY <1>6, <1>8, <1>9, <1>10, <1>11, <1>12, <1>13, <1>14, <1>15, <1>16 DEF Met, text, n, p, h, t, g

\* The scanner in a URL: where the fields begin, and what it has cut.
Stands(s, next, open, user, passwd, host, port, file, cuts) ==
    /\ s \in States /\ s.next = next /\ s.open = open /\ s.cuts = cuts
    /\ s.at["user"] = user /\ s.at["passwd"] = passwd /\ s.at["host"] = host
    /\ s.at["port"] = port /\ s.at["file"] = file

\* A byte the scanner does not look for changes nothing.
LEMMA NotMet ==
    ASSUME NEW s, NEW i, NEW c, c \notin s.next
    PROVE  PassedMySQL(s, i, c) = s
BY DEF PassedMySQL

\* Up to the user's name.
LEMMA UserScanned ==
    ASSUME NEW text \in Seq(1 .. 255), NEW f, Scanned(text, f), NEW u, Met(u, text)
    PROVE  Stands(f[PasswdAt(u) - 1], {Colon, At}, {"passwd", "host", "port", "file"},
                  9, 0, 0, 0, 0, {})
<1> DEFINE p == PasswdAt(u)
           n == Len(text)
<1>1. /\ p \in Nat /\ p >= 9 /\ p <= n /\ n \in Nat
      /\ text[6] = Colon /\ (\A i \in 2 .. 5 : text[i] # Colon)
      /\ \A i \in 7 .. p - 1 : text[i] \notin {Colon, At}
  BY DEF Met
<1> HIDE DEF p, n
<1>2. f[1] = Start /\ Start.next = {Colon}
  BY DEF Scanned, Start
<1>3. f[5] = Start
  <2>1. ASSUME NEW i \in 1 + 1 .. 5 PROVE PassedMySQL(f[1], i, text[i]) = f[1]
    BY <1>1, <1>2, NotMet
  <2>2. 1 \in 1 .. Len(text) /\ 5 \in 1 .. Len(text)
    BY <1>1 DEF n
  <2> QED BY <1>2, <2>1, <2>2, Passes
<1>4. f[6] = PassedMySQL(Start, 6, Colon)
  <2>1. 6 \in 2 .. Len(text) /\ 6 - 1 = 5
    BY <1>1 DEF n
  <2> QED BY <1>1, <1>3, <2>1 DEF Scanned
<1>5. f[6] = Begins(Start, "user", {"user"}, 9, {Colon, At}, {})
  <2>1. Colon \in Start.next /\ "user" \in Start.open /\ 6 + 3 = 9
    BY DEF Start
  <2> QED BY <1>4, <2>1 DEF PassedMySQL
<1>6. Stands(f[6], {Colon, At}, {"passwd", "host", "port", "file"}, 9, 0, 0, 0, 0, {})
  <2>1. /\ Start \in States /\ "user" \in Names /\ {"user"} \in SUBSET Names /\ 9 \in Nat
        /\ {Colon, At} \in SUBSET Nat /\ {} \in SUBSET Nat
    BY DEF Start, States, Names, Colon, At
  <2>2. /\ f[6] \in States /\ f[6].next = {Colon, At} /\ f[6].open = Start.open \ {"user"}
        /\ f[6].at["user"] = 9 /\ (\A g \in Names \ {"user"} : f[6].at[g] = Start.at[g])
        /\ f[6].cuts = Start.cuts \union {}
    <3> DEFINE b == Begins(Start, "user", {"user"}, 9, {Colon, At}, {})
    <3>0. Began(Begins(Start, "user", {"user"}, 9, {Colon, At}, {}),
                Start, "user", {"user"}, 9, {Colon, At}, {})
      BY <2>1, BeginsAt
    <3>1. Began(f[6], Start, "user", {"user"}, 9, {Colon, At}, {})
      BY <1>5, <3>0
    <3> QED BY <3>1 DEF Began
  <2>3. /\ Start.open \ {"user"} = {"passwd", "host", "port", "file"} /\ Start.cuts \union {} = {}
        /\ \A g \in Names \ {"user"} : Start.at[g] = 0
    BY DEF Start, Names
  <2>4. "passwd" \in Names \ {"user"} /\ "host" \in Names \ {"user"}
        /\ "port" \in Names \ {"user"} /\ "file" \in Names \ {"user"}
    BY DEF Names
  <2> QED BY <2>2, <2>3, <2>4 DEF Stands
<1>7. f[p - 1] = f[6]
  <2>1. ASSUME NEW i \in 6 + 1 .. p - 1 PROVE PassedMySQL(f[6], i, text[i]) = f[6]
    <3>1. text[i] \notin f[6].next
      BY <1>1, <1>6 DEF Stands
    <3> QED BY <3>1, NotMet
  <2>2. 6 \in 1 .. Len(text) /\ p - 1 \in 6 .. Len(text)
    BY <1>1 DEF n
  <2> QED BY <2>1, <2>2, Passes
<1> QED BY <1>6, <1>7 DEF p

\* Up to the password, if there is one.
LEMMA PasswdScanned ==
    ASSUME NEW text \in Seq(1 .. 255), NEW f, Scanned(text, f), NEW u, Met(u, text)
    PROVE  Stands(f[HostAt(u) - 1], {Colon, At},
                  {"passwd", "host", "port", "file"} \ (IF u.passwd = Null THEN {} ELSE {"passwd"}),
                  9, IF u.passwd = Null THEN 0 ELSE PasswdAt(u) + 1, 0, 0, 0,
                  IF u.passwd = Null THEN {} ELSE {PasswdAt(u)})
<1> DEFINE p == PasswdAt(u)
           h == HostAt(u)
           n == Len(text)
<1>1. /\ p \in Nat /\ p >= 9 /\ p <= h /\ h \in Nat /\ h <= n /\ n \in Nat
      /\ u.passwd = Null => h = p
      /\ u.passwd # Null => /\ p < h /\ text[p] = Colon
                            /\ \A i \in p + 1 .. h - 1 : text[i] \notin {Colon, At}
  BY DEF Met
<1>2. Stands(f[p - 1], {Colon, At}, {"passwd", "host", "port", "file"}, 9, 0, 0, 0, 0, {})
  BY UserScanned
<1> HIDE DEF p, h, n
<1>3. CASE u.passwd = Null
  <2>1. {"passwd", "host", "port", "file"} \ {} = {"passwd", "host", "port", "file"}
    OBVIOUS
  <2> QED BY <1>1, <1>2, <1>3, <2>1, Zenon DEF h, p
<1>4. CASE u.passwd # Null
  <2> DEFINE s == f[p - 1]
  <2>1. p \in 2 .. Len(text)
    BY <1>1 DEF n
  <2>2. f[p] = PassedMySQL(s, p, Colon)
    BY <1>1, <1>4, <2>1 DEF Scanned
  <2>3. f[p] = Begins(s, "passwd", {"passwd"}, p + 1, {Colon, At}, {p})
    <3>1. Colon \in s.next /\ "user" \notin s.open /\ "passwd" \in s.open /\ s.next = {Colon, At}
      BY <1>2 DEF Stands
    <3> HIDE DEF s
    <3> QED BY <2>2, <3>1 DEF PassedMySQL
  <2>4. /\ s \in States /\ "passwd" \in Names /\ {"passwd"} \in SUBSET Names /\ p + 1 \in Nat
        /\ {Colon, At} \in SUBSET Nat /\ {p} \in SUBSET Nat
    BY <1>1, <1>2 DEF Stands, Names, Colon, At
  <2>5. /\ f[p] \in States /\ f[p].next = {Colon, At} /\ f[p].open = s.open \ {"passwd"}
        /\ f[p].at["passwd"] = p + 1 /\ (\A g \in Names \ {"passwd"} : f[p].at[g] = s.at[g])
        /\ f[p].cuts = s.cuts \union {p}
    <3> HIDE DEF s
    <3>0. Began(Begins(s, "passwd", {"passwd"}, p + 1, {Colon, At}, {p}),
                s, "passwd", {"passwd"}, p + 1, {Colon, At}, {p})
      BY <2>4, BeginsAt
    <3>1. Began(f[p], s, "passwd", {"passwd"}, p + 1, {Colon, At}, {p})
      BY <2>3, <3>0
    <3> QED BY <3>1 DEF Began
  <2>6. "user" \in Names \ {"passwd"} /\ "host" \in Names \ {"passwd"}
        /\ "port" \in Names \ {"passwd"} /\ "file" \in Names \ {"passwd"}
    BY DEF Names
  <2>7. Stands(f[p], {Colon, At}, {"passwd", "host", "port", "file"} \ {"passwd"},
               9, p + 1, 0, 0, 0, {p})
    <3>1. s.cuts \union {p} = {p}
      BY <1>2 DEF Stands
    <3> QED BY <1>2, <2>5, <2>6, <3>1 DEF Stands
  <2>8. f[h - 1] = f[p]
    <3>1. ASSUME NEW i \in p + 1 .. h - 1 PROVE PassedMySQL(f[p], i, text[i]) = f[p]
      <4>1. text[i] \notin f[p].next
        BY <1>1, <1>4, <2>7 DEF Stands
      <4> QED BY <4>1, NotMet
    <3>2. p \in 1 .. Len(text) /\ h - 1 \in p .. Len(text)
      BY <1>1, <1>4 DEF n
    <3> QED BY <3>1, <3>2, Passes
  <2> QED BY <1>4, <2>7, <2>8, Zenon DEF p, h
<1> QED BY <1>3, <1>4

\* The fields that may be missing, in the scanner: where they begin, and what is cut.
PasswdBegins(u) == IF u.passwd = Null THEN 0 ELSE PasswdAt(u) + 1
PasswdCuts(u)   == IF u.passwd = Null THEN {} ELSE {PasswdAt(u)}
PortBegins(u)   == IF u.port = 0 THEN 0 ELSE PortAt(u) + 1
PortCuts(u)     == IF u.port = 0 THEN {} ELSE {PortAt(u)}

\* Up to the host.
LEMMA HostScanned ==
    ASSUME NEW text \in Seq(1 .. 255), NEW f, Scanned(text, f), NEW u, Met(u, text)
    PROVE  Stands(f[PortAt(u) - 1], {Colon, Slash}, {"port", "file"},
                  9, PasswdBegins(u), HostAt(u) + 1, 0, 0, PasswdCuts(u) \union {HostAt(u)})
<1> DEFINE h == HostAt(u)
           t == PortAt(u)
           n == Len(text)
           s == f[h - 1]
           pw == PasswdBegins(u)
           cuts == PasswdCuts(u)
<1>1. /\ h \in Nat /\ h >= 9 /\ h < t /\ t \in Nat /\ t <= n /\ n \in Nat /\ text[h] = At
      /\ \A i \in h + 1 .. t - 1 : text[i] \notin {Colon, Slash}
  BY DEF Met
<1>2. /\ s \in States /\ s.next = {Colon, At} /\ "user" \notin s.open /\ "host" \in s.open
      /\ s.open \ HostCloses = {"port", "file"} /\ s.cuts = cuts
      /\ s.at["user"] = 9 /\ s.at["passwd"] = pw /\ s.at["port"] = 0 /\ s.at["file"] = 0
  <2>1. Stands(s, {Colon, At},
               {"passwd", "host", "port", "file"} \ (IF u.passwd = Null THEN {} ELSE {"passwd"}),
               9, pw, 0, 0, 0, cuts)
    BY PasswdScanned DEF PasswdBegins, PasswdCuts
  <2>2. ({"passwd", "host", "port", "file"} \ {}) \ HostCloses = {"port", "file"}
        /\ ({"passwd", "host", "port", "file"} \ {"passwd"}) \ HostCloses = {"port", "file"}
    BY DEF HostCloses
  <2> HIDE DEF s, pw, cuts
  <2> QED BY <2>1, <2>2 DEF Stands
<1> HIDE DEF h, t, n, s, pw, cuts
<1>3. f[h] = PassedMySQL(s, h, At)
  <2>1. h \in 2 .. Len(text)
    BY <1>1 DEF n
  <2> QED BY <1>1, <2>1 DEF Scanned, s
<1>4. f[h] = Begins(s, "host", HostCloses, h + 1, {Colon, Slash}, {h})
  BY <1>2, <1>3 DEF PassedMySQL, Colon, At
<1>5. /\ "host" \in Names /\ h + 1 \in Nat /\ {Colon, Slash} \in SUBSET Nat /\ {h} \in SUBSET Nat
  BY <1>1 DEF Names, Colon, Slash
<1>6. Began(f[h], s, "host", HostCloses, h + 1, {Colon, Slash}, {h})
  <2>1. Began(Begins(s, "host", HostCloses, h + 1, {Colon, Slash}, {h}),
              s, "host", HostCloses, h + 1, {Colon, Slash}, {h})
    BY <1>2, <1>5, BeginsAt
  <2> QED BY <1>4, <2>1
<1>7. Stands(f[h], {Colon, Slash}, {"port", "file"}, 9, pw, h + 1, 0, 0, cuts \union {h})
  <2>1. "user" \in Names \ {"host"} /\ "passwd" \in Names \ {"host"}
        /\ "port" \in Names \ {"host"} /\ "file" \in Names \ {"host"}
    BY DEF Names
  <2> QED BY <1>2, <1>6, <2>1 DEF Began, Stands
<1>8. f[t - 1] = f[h]
  <2>1. ASSUME NEW i \in h + 1 .. t - 1 PROVE PassedMySQL(f[h], i, text[i]) = f[h]
    <3>1. text[i] \notin f[h].next
      BY <1>1, <1>7 DEF Stands
    <3> QED BY <3>1, NotMet
  <2>2. h \in 1 .. Len(text) /\ t - 1 \in h .. Len(text)
    BY <1>1 DEF n
  <2> QED BY <2>1, <2>2, Passes
<1> QED BY <1>7, <1>8 DEF h, t, pw, cuts

\* Up to the port, if there is one.
LEMMA PortScanned ==
    ASSUME NEW text \in Seq(1 .. 255), NEW f, Scanned(text, f), NEW u, Met(u, text)
    PROVE  \E next, open :
             /\ Slash \in next /\ "file" \in open /\ open \in SUBSET {"port", "file"}
             /\ Stands(f[FileAt(u) - 1], next, open, 9, PasswdBegins(u), HostAt(u) + 1,
                       PortBegins(u), 0, PasswdCuts(u) \union {HostAt(u)} \union PortCuts(u))
<1> DEFINE t == PortAt(u)
           g == FileAt(u)
           n == Len(text)
           s == f[t - 1]
           pw == PasswdBegins(u)
           ho == HostAt(u) + 1
           cuts == PasswdCuts(u) \union {HostAt(u)}
<1>1. /\ t \in Nat /\ t >= 9 /\ t <= g /\ g \in Nat /\ g <= n /\ n \in Nat
      /\ u.port = 0 => g = t
      /\ u.port # 0 => t < g /\ text[t] = Colon /\ \A i \in t + 1 .. g - 1 : text[i] # Slash
  BY DEF Met
<1>2. Stands(s, {Colon, Slash}, {"port", "file"}, 9, pw, ho, 0, 0, cuts)
  BY HostScanned
<1>3. PortBegins(u) = (IF u.port = 0 THEN 0 ELSE t + 1) /\ PortCuts(u) = IF u.port = 0 THEN {} ELSE {t}
  BY DEF PortBegins, PortCuts
<1> HIDE DEF t, g, n, s, pw, ho, cuts
<1>4. CASE u.port = 0
  <2>1. Stands(f[g - 1], {Colon, Slash}, {"port", "file"}, 9, pw, ho, PortBegins(u), 0,
               cuts \union PortCuts(u))
    <3>1. cuts \union {} = cuts
      OBVIOUS
    <3> QED BY <1>1, <1>2, <1>3, <1>4, <3>1 DEF s
  <2> QED BY <2>1 DEF g, pw, ho, cuts
<1>5. CASE u.port # 0
  <2>1. s.next = {Colon, Slash} /\ s.open = {"port", "file"} /\ s \in States
    BY <1>2 DEF Stands
  <2>2. f[t] = PassedMySQL(s, t, Colon)
    <3>1. t \in 2 .. Len(text)
      BY <1>1 DEF n
    <3> QED BY <1>1, <1>5, <3>1 DEF Scanned, s
  <2>3. f[t] = Begins(s, "port", {"port"}, t + 1, {Slash}, {t})
    BY <2>1, <2>2 DEF PassedMySQL, Colon, At
  <2>4. /\ "port" \in Names /\ t + 1 \in Nat /\ {Slash} \in SUBSET Nat /\ {t} \in SUBSET Nat
    BY <1>1 DEF Names, Slash
  <2>5. Began(f[t], s, "port", {"port"}, t + 1, {Slash}, {t})
    <3>1. Began(Begins(s, "port", {"port"}, t + 1, {Slash}, {t}), s, "port", {"port"}, t + 1, {Slash}, {t})
      BY <2>1, <2>4, BeginsAt
    <3> QED BY <2>3, <3>1
  <2>6. Stands(f[t], {Slash}, {"file"}, 9, pw, ho, t + 1, 0, cuts \union {t})
    <3>1. "user" \in Names \ {"port"} /\ "passwd" \in Names \ {"port"}
          /\ "host" \in Names \ {"port"} /\ "file" \in Names \ {"port"}
      BY DEF Names
    <3>2. {"port", "file"} \ {"port"} = {"file"}
      OBVIOUS
    <3> QED BY <1>2, <2>5, <3>1, <3>2 DEF Began, Stands
  <2>7. f[g - 1] = f[t]
    <3>1. ASSUME NEW i \in t + 1 .. g - 1 PROVE PassedMySQL(f[t], i, text[i]) = f[t]
      <4>1. text[i] \notin f[t].next
        BY <1>1, <1>5, <2>6 DEF Stands
      <4> QED BY <4>1, NotMet
    <3>2. t \in 1 .. Len(text) /\ g - 1 \in t .. Len(text)
      BY <1>1, <1>5 DEF n
    <3> QED BY <3>1, <3>2, Passes
  <2>8. Stands(f[g - 1], {Slash}, {"file"}, 9, pw, ho, PortBegins(u), 0, cuts \union PortCuts(u))
    BY <1>3, <1>5, <2>6, <2>7
  <2>9. Slash \in {Slash} /\ "file" \in {"file"} /\ {"file"} \in SUBSET {"port", "file"}
    OBVIOUS
  <2> QED BY <2>8, <2>9 DEF g, pw, ho, cuts
<1> QED BY <1>4, <1>5

\* To the end.
LEMMA AllScanned ==
    ASSUME NEW text \in Seq(1 .. 255), NEW f, Scanned(text, f), NEW u, Met(u, text)
    PROVE  LET s == ScanMySQL(text) IN
             /\ s.at["user"] = 9 /\ s.at["passwd"] = PasswdBegins(u) /\ s.at["host"] = HostAt(u) + 1
             /\ s.at["port"] = PortBegins(u) /\ s.at["file"] = FileAt(u) + 1
             /\ s.cuts = PasswdCuts(u) \union {HostAt(u)} \union PortCuts(u) \union {FileAt(u)}
<1> DEFINE g == FileAt(u)
           n == Len(text)
           s == f[g - 1]
           pw == PasswdBegins(u)
           ho == HostAt(u) + 1
           po == PortBegins(u)
           cuts == PasswdCuts(u) \union {HostAt(u)} \union PortCuts(u)
<1>1. /\ g \in Nat /\ g >= 9 /\ g <= n /\ n \in Nat /\ text[g] = Slash
      /\ \A i \in g + 1 .. n : text[i] # Slash
  BY DEF Met
<1>2. PICK next, open : /\ Slash \in next /\ "file" \in open /\ open \in SUBSET {"port", "file"}
                        /\ Stands(s, next, open, 9, pw, ho, po, 0, cuts)
  BY PortScanned
<1>3. ScanMySQL(text) = f[n]
  BY DEF Scanned
<1> HIDE DEF g, n, s, pw, ho, po, cuts
<1>4. /\ s \in States /\ Slash \in s.next /\ "file" \in s.open /\ "user" \notin s.open
      /\ "passwd" \notin s.open /\ "host" \notin s.open /\ s.open \ {"port", "file"} = {}
      /\ s.next \in SUBSET Nat
  BY <1>2 DEF Stands, States
<1>5. f[g] = PassedMySQL(s, g, Slash)
  <2>1. g \in 2 .. Len(text)
    BY <1>1 DEF n
  <2> QED BY <1>1, <2>1 DEF Scanned, s
<1>6. f[g] = Begins(s, "file", {"port", "file"}, g + 1, s.next, {g})
  BY <1>4, <1>5 DEF PassedMySQL, Colon, At, Slash
<1>7. Began(f[g], s, "file", {"port", "file"}, g + 1, s.next, {g})
  <2>1. "file" \in Names /\ g + 1 \in Nat /\ {g} \in SUBSET Nat
    BY <1>1 DEF Names
  <2>2. Began(Begins(s, "file", {"port", "file"}, g + 1, s.next, {g}),
              s, "file", {"port", "file"}, g + 1, s.next, {g})
    BY <1>4, <2>1, BeginsAt
  <2> QED BY <1>6, <2>2
<1>8. /\ f[g].at["user"] = 9 /\ f[g].at["passwd"] = pw /\ f[g].at["host"] = ho
      /\ f[g].at["port"] = po /\ f[g].at["file"] = g + 1 /\ f[g].cuts = cuts \union {g}
      /\ f[g].open = {} /\ f[g] \in States
  <2>1. "user" \in Names \ {"file"} /\ "passwd" \in Names \ {"file"}
        /\ "host" \in Names \ {"file"} /\ "port" \in Names \ {"file"}
    BY DEF Names
  <2> QED BY <1>2, <1>4, <1>7, <2>1 DEF Began, Stands
<1>9. f[n] = f[g]
  <2>1. ASSUME NEW i \in g + 1 .. n PROVE PassedMySQL(f[g], i, text[i]) = f[g]
    <3>1. [f[g] EXCEPT !.cuts = f[g].cuts] = f[g]
      BY <1>8 DEF States
    <3>2. text[i] # Slash
      BY <1>1
    <3>3. [f[g] EXCEPT !.cuts = IF text[i] = Slash THEN @ \union {i} ELSE @] = f[g]
      BY <3>1, <3>2
    <3>4. /\ "user" \notin f[g].open /\ "passwd" \notin f[g].open /\ "host" \notin f[g].open
          /\ "port" \notin f[g].open /\ "file" \notin f[g].open
      BY <1>8
    <3> QED BY <3>3, <3>4, Zenon DEF PassedMySQL
  <2>2. g \in 1 .. Len(text) /\ n \in g .. Len(text)
    BY <1>1 DEF n
  <2> QED BY <2>1, <2>2, Passes
<1> QED BY <1>3, <1>8, <1>9, Zenon DEF pw, ho, po, cuts, g

\* parseMySQLUrl: every field of a URL is the one that was written.
LEMMA FieldsFound ==
    ASSUME NEW u \in Urls
    PROVE  parseMySQLUrl(Written(u)) = [u EXCEPT !.logfile = IF Len(@) < MaxName THEN @ ELSE <<>>]
<1> DEFINE text == Written(u)
           n == Len(text)
           p == PasswdAt(u)
           h == HostAt(u)
           t == PortAt(u)
           g == FileAt(u)
           s == ScanMySQL(text)
           cuts == PasswdCuts(u) \union {h} \union PortCuts(u) \union {g}
<1>1. /\ text \in Seq(1 .. 255) /\ n = g + Len(u.logfile) /\ Part(text, 9, u.user)
      /\ Part(text, p, PasswdPart(u)) /\ Part(text, h + 1, u.host)
      /\ Part(text, t, PortPart(u)) /\ Part(text, g + 1, u.logfile)
  BY Layout
<1>2. Met(u, text)
  BY UrlBytes
<1>3. /\ u = [user |-> u.user, passwd |-> u.passwd, host |-> u.host, port |-> u.port,
              logfile |-> u.logfile]
      /\ u.user \in Seq(1 .. 255) /\ u.host \in Seq(1 .. 255) /\ u.logfile \in Seq(1 .. 255)
      /\ u.passwd # Null => u.passwd \in Seq(1 .. 255)
      /\ u.port \in 0 .. 99
  BY UrlParts
<1>4. /\ p \in Nat /\ p >= 9 /\ p <= h /\ h \in Nat /\ h < t /\ t \in Nat /\ t <= g /\ g \in Nat
      /\ g <= n /\ n \in Nat
      /\ u.passwd = Null => h = p
      /\ u.passwd # Null => p < h
      /\ u.port = 0 => g = t
      /\ u.port # 0 => t < g
  <2> HIDE DEF p, h, t, g, text
  <2>1. n \in Nat
    BY <1>1
  <2> QED BY <1>2, <2>1 DEF Met, p, h, t, g
<1>5. /\ s.at["user"] = 9 /\ s.at["passwd"] = PasswdBegins(u) /\ s.at["host"] = h + 1
      /\ s.at["port"] = PortBegins(u) /\ s.at["file"] = g + 1 /\ s.cuts = cuts
  <2>1. n > 0
    BY <1>4
  <2>2. PICK f : Scanned(text, f)
    <3> HIDE DEF text
    <3> QED BY <1>1, <2>1, MySQLScanned
  <2> QED BY <1>1, <1>2, <2>2, AllScanned
<1>6. /\ p = 9 + Len(u.user) /\ h + 1 + Len(u.host) = t /\ g + 1 + Len(u.logfile) = n + 1
      /\ Len(u.user) \in Nat /\ Len(u.host) \in Nat /\ Len(u.logfile) \in Nat
  <2>1. p = 9 + Len(u.user) /\ t = h + 1 + Len(u.host)
    BY DEF PasswdAt, PortAt
  <2>2. Len(u.user) \in Nat /\ Len(u.host) \in Nat /\ Len(u.logfile) \in Nat
    BY <1>3
  <2> DEFINE l == Len(u.logfile)
  <2> HIDE DEF p, h, t, g, n, l
  <2>3. n = g + l /\ l \in Nat /\ g \in Nat
    BY <1>1, <1>4, <2>2 DEF l
  <2>4. g + 1 + l = n + 1
    BY <2>3
  <2>5. h + 1 + Len(u.host) = t
    BY <2>1
  <2> QED BY <2>1, <2>2, <2>4, <2>5 DEF l
<1>7. /\ PasswdBegins(u) = (IF u.passwd = Null THEN 0 ELSE p + 1)
      /\ PasswdCuts(u) = (IF u.passwd = Null THEN {} ELSE {p})
      /\ PortBegins(u) = (IF u.port = 0 THEN 0 ELSE t + 1)
      /\ PortCuts(u) = (IF u.port = 0 THEN {} ELSE {t})
  BY DEF PasswdBegins, PasswdCuts, PortBegins, PortCuts
<1> HIDE DEF text, n, p, h, t, g, s
<1>8. /\ cuts \in SUBSET Nat /\ p \in cuts /\ h \in cuts /\ t \in cuts /\ g \in cuts
      /\ \A k \in cuts : k \in {p, h, t, g}
  BY <1>4, <1>7
<1> HIDE DEF cuts
<1>9. Field(text, 9, cuts) = u.user
  <2>1. p = 9 + Len(u.user) /\ p \in cuts \union {Len(text) + 1} /\ p <= Len(text) + 1
        /\ (\A k \in cuts : k >= 9 => k >= p)
    BY <1>4, <1>6, <1>8 DEF n
  <2>2. 9 \in Nat \ {0}
    OBVIOUS
  <2>3. 9 + Len(u.user) \in cuts \union {Len(text) + 1} /\ 9 + Len(u.user) <= Len(text) + 1
        /\ (\A k \in cuts : k >= 9 => k >= 9 + Len(u.user))
    BY <2>1, Zenon
  <2>4. text \in Seq(1 .. 255) /\ Part(text, 9, u.user) /\ u.user \in Seq(1 .. 255) /\ cuts \in SUBSET Nat
    BY <1>1, <1>3, <1>8
  <2> QED BY <2>2, <2>3, <2>4, FieldIs
<1>10. Field(text, h + 1, cuts) = u.host
  <2>1. t \in cuts \union {Len(text) + 1} /\ t <= Len(text) + 1
        /\ (\A k \in cuts : k >= h + 1 => k >= t)
    BY <1>4, <1>8 DEF n
  <2>2. h + 1 + Len(u.host) = t
    BY <1>6
  <2>3. h + 1 \in Nat \ {0}
    BY <1>4
  <2>4. h + 1 + Len(u.host) \in cuts \union {Len(text) + 1} /\ h + 1 + Len(u.host) <= Len(text) + 1
        /\ (\A k \in cuts : k >= h + 1 => k >= h + 1 + Len(u.host))
    BY <2>1, <2>2, Zenon
  <2>5. text \in Seq(1 .. 255) /\ Part(text, h + 1, u.host) /\ u.host \in Seq(1 .. 255) /\ cuts \in SUBSET Nat
    BY <1>1, <1>3, <1>8
  <2> QED BY <2>3, <2>4, <2>5, FieldIs
<1>11. Field(text, g + 1, cuts) = u.logfile
  <2>1. n + 1 \in cuts \union {n + 1} /\ n + 1 <= n + 1 /\ g + 1 \in Nat \ {0}
        /\ (\A k \in cuts : k >= g + 1 => k >= n + 1)
    BY <1>4, <1>8
  <2>2. g + 1 + Len(u.logfile) = n + 1 /\ n + 1 = Len(text) + 1
    BY <1>6 DEF n
  <2>3. g + 1 + Len(u.logfile) \in cuts \union {Len(text) + 1}
        /\ g + 1 + Len(u.logfile) <= Len(text) + 1
        /\ (\A k \in cuts : k >= g + 1 => k >= g + 1 + Len(u.logfile))
    BY <2>1, <2>2, Zenon
  <2>4. text \in Seq(1 .. 255) /\ Part(text, g + 1, u.logfile) /\ u.logfile \in Seq(1 .. 255)
        /\ cuts \in SUBSET Nat
    BY <1>1, <1>3, <1>8
  <2> QED BY <2>1, <2>3, <2>4, FieldIs
<1>12. Field(text, PasswdBegins(u), cuts) = u.passwd
  <2>1. CASE u.passwd = Null
    BY <1>7, <2>1 DEF Field
  <2>2. CASE u.passwd # Null
    <3> DEFINE w == u.passwd
    <3>1. w \in Seq(1 .. 255) /\ <<Colon>> \in Seq(1 .. 255)
      BY <1>3, <2>2 DEF Colon
    <3> HIDE DEF w
    <3>2. /\ Len(w) \in Nat /\ Len(<<Colon>> \o w) = 1 + Len(w)
          /\ \A i \in 1 .. 1 + Len(w) : (<<Colon>> \o w)[i] = IF i <= 1 THEN Colon ELSE w[i - 1]
      BY <3>1, ConcatProperties
    <3>3. PasswdPart(u) = <<Colon>> \o w
      BY <2>2 DEF PasswdPart, w
    <3>4. h = p + 1 + Len(w)
      <4>1. h = p + Len(PasswdPart(u))
        BY DEF h, p, HostAt
      <4> QED BY <1>4, <3>2, <3>3, <4>1
    <3>5. Part(text, p + 1, w)
      <4>1. ASSUME NEW i \in 1 .. Len(w)
            PROVE  (p + 1) - 1 + i \in 1 .. Len(text) /\ text[(p + 1) - 1 + i] = w[i]
        <5>1. i + 1 \in 1 .. 1 + Len(w) /\ ~(i + 1 <= 1) /\ i + 1 - 1 = i
              /\ p - 1 + (i + 1) = (p + 1) - 1 + i
          BY <1>4, <3>2
        <5>2. p - 1 + (i + 1) \in 1 .. Len(text) /\ text[p - 1 + (i + 1)] = (<<Colon>> \o w)[i + 1]
          BY <1>1, <3>2, <3>3, <5>1, Zenon DEF Part
        <5>3. (<<Colon>> \o w)[i + 1] = w[i + 1 - 1]
          BY <3>2, <5>1
        <5> QED BY <5>1, <5>2, <5>3
      <4> QED BY <4>1, Zenon DEF Part
    <3>6. p + 1 + Len(w) \in cuts \union {Len(text) + 1} /\ p + 1 + Len(w) <= Len(text) + 1
      BY <1>4, <1>8, <3>4 DEF n
    <3>7. \A k \in cuts : k >= p + 1 => k >= p + 1 + Len(w)
      BY <1>4, <1>8, <3>4
    <3>8. p + 1 \in Nat \ {0}
      BY <1>4
    <3>9. Field(text, p + 1, cuts) = w
      BY <1>1, <1>8, <3>1, <3>5, <3>6, <3>7, <3>8, FieldIs
    <3> QED BY <1>7, <2>2, <3>9 DEF w
  <2> QED BY <2>1, <2>2
<1>13. (IF PortBegins(u) = 0 THEN 0 ELSE Number(Field(text, PortBegins(u), cuts))) = u.port
  <2>1. CASE u.port = 0
    BY <1>7, <2>1
  <2>2. CASE u.port # 0
    <3> DEFINE d == u.port \div 10
               e == u.port % 10
               c == 48 + d
               v == 48 + e
               two == <<c, v>>
    <3>1. d \in 0 .. 9 /\ e \in 0 .. 9 /\ 10 * d + e = u.port
      <4>1. ASSUME NEW x \in 0 .. 99
            PROVE  x \div 10 \in 0 .. 9 /\ x % 10 \in 0 .. 9 /\ 10 * (x \div 10) + (x % 10) = x
        OBVIOUS
      <4> QED BY <1>3, <4>1
    <3>2. PortPart(u) = <<Colon, c, v>>
      BY <2>2 DEF PortPart
    <3>3. Number(two) = u.port
      <4> HIDE DEF d, e
      <4> QED BY <3>1, TwoDigits
    <3>4. c \in 1 .. 255 /\ v \in 1 .. 255
      <4> HIDE DEF d, e
      <4> QED BY <3>1
    <3> HIDE DEF c, v
    <3>5. two \in Seq(1 .. 255) /\ Len(two) = 2 /\ two[1] = c /\ two[2] = v
          /\ Len(PortPart(u)) = 3 /\ PortPart(u)[2] = c /\ PortPart(u)[3] = v
      BY <3>2, <3>4
    <3>6. g = t + 3
      <4>1. g = t + Len(PortPart(u))
        BY DEF g, t, FileAt
      <4> QED BY <3>5, <4>1
    <3>7. Part(text, t + 1, two)
      <4>1. /\ t - 1 + 2 \in 1 .. Len(text) /\ text[t - 1 + 2] = c
            /\ t - 1 + 3 \in 1 .. Len(text) /\ text[t - 1 + 3] = v
        <5>1. 2 \in 1 .. Len(PortPart(u)) /\ 3 \in 1 .. Len(PortPart(u))
          BY <3>5
        <5> QED BY <1>1, <3>5, <5>1, Zenon DEF Part
      <4>2. t - 1 + 2 = (t + 1) - 1 + 1 /\ t - 1 + 3 = (t + 1) - 1 + 2
        BY <1>4
      <4>3. ASSUME NEW i \in 1 .. Len(two)
            PROVE  (t + 1) - 1 + i \in 1 .. Len(text) /\ text[(t + 1) - 1 + i] = two[i]
        <5>1. i = 1 \/ i = 2
          BY <3>5
        <5> HIDE DEF two
        <5> QED BY <3>5, <4>1, <4>2, <5>1
      <4> HIDE DEF two
      <4> QED BY <4>3, Zenon DEF Part
    <3> HIDE DEF two
    <3>8. t + 1 + Len(two) \in cuts \union {Len(text) + 1} /\ t + 1 + Len(two) <= Len(text) + 1
      BY <1>4, <1>8, <3>5, <3>6 DEF n
    <3>9. \A k \in cuts : k >= t + 1 => k >= t + 1 + Len(two)
      BY <1>4, <1>8, <3>5, <3>6
    <3>10. t + 1 \in Nat \ {0}
      BY <1>4
    <3>11. Field(text, t + 1, cuts) = two
      <4>1. text \in Seq(1 .. 255) /\ two \in Seq(1 .. 255) /\ cuts \in SUBSET Nat
        BY <1>1, <1>8, <3>5
      <4> QED BY <3>7, <3>8, <3>9, <3>10, <4>1, FieldIs
    <3>12. PortBegins(u) = t + 1 /\ t + 1 # 0
      BY <1>4, <1>7, <2>2
    <3> QED BY <3>3, <3>11, <3>12
  <2> QED BY <2>1, <2>2
<1>14. parseMySQLUrl(text) =
         [user |-> u.user, passwd |-> u.passwd, host |-> u.host, port |-> u.port,
          logfile |-> Named(u.logfile)]
  <2>1. g + 1 # 0
    BY <1>4
  <2> QED BY <1>5, <1>9, <1>10, <1>11, <1>12, <1>13, <2>1 DEF parseMySQLUrl, FieldsMySQL, s
<1>15. [u EXCEPT !.logfile = Named(u.logfile)] =
         [user |-> u.user, passwd |-> u.passwd, host |-> u.host, port |-> u.port,
          logfile |-> Named(u.logfile)]
  <2> DEFINE new == Named(u.logfile)
  <2> HIDE DEF new
  <2> QED BY <1>3
<1> QED BY <1>14, <1>15 DEF Named, text
-----------------------------------------------------------------------------
\* UrlFields: connectDataSource sets the URL and its fields together, and
\* nothing else does.
THEOREM UrlIsUnderstood == Spec => []UrlFields
<1>1. Init => UrlFields
  BY DEF Init, UrlFields
<1>2. UrlFields /\ [Next]_vars => UrlFields'
  <2> SUFFICES ASSUME UrlFields, [Next]_vars PROVE UrlFields'
    OBVIOUS
  <2>1. CASE ConnectDataSource
    <3>1. PICK u \in Urls : url' = u /\ ds' = parseMySQLUrl(Written(u))
      BY <2>1 DEF ConnectDataSource
    <3> QED BY <3>1, FieldsFound DEF UrlFields
  <2>2. ASSUME UNCHANGED <<url, ds>>, pc = "down" => pc' = "down" PROVE UrlFields'
    BY <2>2 DEF UrlFields
  <2>3. CASE ClientStep \/ FreeBinlogClient
    <3>1. UNCHANGED <<url, ds>> /\ pc # "down"
      BY <2>3 DEF ClientStep, CreateSocket, TcpConnect, ReadGreeting, MissGreeting, ReadReply,
                  MissReply, SendDump, ReadDumpReply, MissDumpReply, FreeBinlogClient, Keep
    <3> QED BY <2>2, <3>1
  <2>4. CASE MasterStep \/ ConnLost
    <3>1. UNCHANGED client
      BY <2>4 DEF MasterStep, MasterGreets, MasterChecks, MasterChecksOld, MasterDumps,
                  MasterCloses, ConnLost
    <3> QED BY <2>2, <3>1 DEF client
  <2>5. CASE UNCHANGED vars
    BY <2>2, <2>5 DEF vars, client
  <2> QED BY <2>1, <2>3, <2>4, <2>5 DEF Next
<1> QED BY <1>1, <1>2, PTL DEF Spec
=============================================================================
