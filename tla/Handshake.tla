----------------------------- MODULE Handshake -----------------------------
(***************************************************************************)
(* The packets with which mconnect logs in: what readHandshakePkt takes    *)
(* from a greeting, the authentication packet, and the two answers to the  *)
(* master's salt.  A greeting says how many bytes follow its version       *)
(* string (tail), which is all the parser's branches depend on.            *)
(***************************************************************************)
EXTENDS Sha1

CONSTANTS
    XorOf(_, _),      \* ^, on bytes and on longs
    Salt1Len,       \* bytes of the first part of the salt (8)
    WordMod,        \* 2^64: unsigned long
    HashMod,        \* 2^31
    RndMax,         \* 0x3FFFFFFF
    Nr0, Nr20       \* 1345345333 and 0x12345671

Flags == {"CONNECT_WITH_DB", "PROTOCOL_41", "SECURE_CONNECTION", "PLUGIN_AUTH"}
LowFlags == Flags \ {"PLUGIN_AUTH"}     \* the lower 16 bits
-----------------------------------------------------------------------------
(* readHandshakePkt.                                                       *)
SaltEnd      == 13      \* threadid, salt1 with its 0
CapacityEnd  == 15
CharsetEnd   == 31      \* charset, status, capacity, saltlen, ten bytes 0
Salt2End     == 44

\* A field that is cut off fails readBinary's assertion.
Aborts(g) == \/ g.tail < SaltEnd
             \/ g.tail \in SaltEnd + 1 .. CapacityEnd - 1
             \/ g.tail \in CharsetEnd .. Salt2End - 1

Capacities(g) == IF g.tail = SaltEnd THEN SUBSET Flags
                 ELSE IF g.tail < CharsetEnd THEN {g.capacity \intersect LowFlags}
                 ELSE {g.capacity}
PluginName(g) == IF g.tail < CharsetEnd THEN "unset"
                 ELSE IF g.tail > Salt2End THEN "name" ELSE "null"
SaltRead(g) == IF g.tail < CharsetEnd THEN g.salt1 ELSE g.salt1 \o g.salt2

readHandshakePkt(g) ==
    {[protover |-> g.protover, salt |-> SaltRead(g), capacity |-> c,
      pluginname |-> PluginName(g)] : c \in Capacities(g)}
-----------------------------------------------------------------------------
(* cooksalt.                                                               *)
Sha1Of(message) == SHA1Final(SHA1Update(SHA1Init, message))
Sha1Of2(first, second) == SHA1Final(SHA1Update(SHA1Update(SHA1Init, first), second))
XorBytes(x, y) == [i \in 1 .. Len(x) |-> XorOf(x[i], y[i])]

SaltBehind(salt, hash) == Sha1Of2(hash, salt)
Salted(salt, hash) == Sha1Of2(salt, hash)
Cooked(salt, hash1) == XorBytes(hash1, Salted(salt, Sha1Of(hash1)))
cooksalt(salt, passwd) == Cooked(salt, Sha1Of(passwd))
-----------------------------------------------------------------------------
(* cooksaltOld.                                                            *)
IsSpace(c) == c \in {32, 9}

NextNr(h, c) == XorOf(h.nr, ((((h.nr % 64) + h.add) * c) + h.nr * 256) % WordMod)
NextNr2(nr2, nr) == (nr2 + XorOf((nr2 * 256) % WordMod, nr)) % WordMod
Mixed(h, c, nr) == [nr |-> nr, nr2 |-> NextNr2(h.nr2, nr), add |-> (h.add + c) % WordMod]
HashedWith(h, c) == IF IsSpace(c) THEN h ELSE Mixed(h, c, NextNr(h, c))
Result(h) == <<h.nr % HashMod, h.nr2 % HashMod>>

hash_old_password(password) ==
    LET h[i \in 0 .. Len(password)] ==
          IF i = 0 THEN [nr |-> Nr0, nr2 |-> Nr20, add |-> 7]
                   ELSE HashedWith(h[i - 1], password[i])
    IN Result(h[Len(password)])

randominit(seed1, seed2) == <<seed1 % RndMax, seed2 % RndMax>>
Reseeded(seed1, seed2) == <<seed1, (seed1 + seed2 + 33) % RndMax>>
my_rnd(rnd) == Reseeded((rnd[1] * 3 + rnd[2]) % RndMax, rnd[2])
Scaled(rnd) == (rnd[1] * 31) \div RndMax    \* floor(my_rnd * 31)

Scrambled(rnd0) ==
    LET rnd[k \in 0 .. Salt1Len + 1] == IF k = 0 THEN rnd0 ELSE my_rnd(rnd[k - 1])
        extra == Scaled(rnd[Salt1Len + 1])
    IN [k \in 1 .. Salt1Len |-> XorOf(Scaled(rnd[k]) + 64, extra)]

Seeded(hashpass, hashsalt) ==
    randominit(XorOf(hashpass[1], hashsalt[1]), XorOf(hashpass[2], hashsalt[2]))

OldSalt(salt) == SubSeq(salt, 1, Salt1Len)

\* saltold, which mconnect sets to 0, after cooksaltOld.
cooksaltOld(salt, passwd) ==
    (IF passwd = <<>> THEN [k \in 1 .. Salt1Len |-> 0]
     ELSE Scrambled(Seeded(hash_old_password(passwd), hash_old_password(OldSalt(salt))))) \o <<0>>
-----------------------------------------------------------------------------
(* writeAuthPkt, into a buffer of calcAuthPktLen bytes.  There is no       *)
(* database: connectMySQL passes none.                                     *)
FixedBytes == 4 + 4 + 1 + 23
PluginSize == 22        \* sizeof("mysql_native_password"), which is not written
ClientFlags == {"PROTOCOL_41", "SECURE_CONNECTION", "LONG_PASSWORD", "LONG_FLAG"}

calcAuthPktLen(user, token) == FixedBytes + Len(user) + 1 + 1 + PluginSize + Len(token)
AuthBytes(user, token) == FixedBytes + Len(user) + 1 + 1 + Len(token)

writeAuthPkt(user, token) ==
    [clientflags |-> ClientFlags, user |-> user, token |-> token,
     written |-> AuthBytes(user, token), plen |-> calcAuthPktLen(user, token)]
=============================================================================
