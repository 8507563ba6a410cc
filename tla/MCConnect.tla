----------------------------- MODULE MCConnect -----------------------------
(***************************************************************************)
(* URLs, accounts and greetings for Connect, and a small mixing function   *)
(* in the place of SHA-1's.  Blocks have 8 bytes and hashes 12, so that    *)
(* the padding of Alice's password takes a block of its own, and the salt  *)
(* with a hash behind it ends with a block and carries into the counter's  *)
(* upper half.                                                             *)
(***************************************************************************)
EXTENDS Connect, Bitwise

MCXor(x, y) == x ^^ y

MCTransform(state, block) ==
    LET mix[i \in 0 .. Len(block)] ==
          IF i = 0 THEN state ELSE (mix[i - 1] * 31 + block[i] + 7) % 65521
    IN mix[Len(block)]
MCDigest(state) == [i \in 1 .. 12 |-> ((state + i) * (2 * i + 5) + state \div 256) % 256]

Alice == <<97>>
Bob   == <<98, 111>>
Guest == <<103>>
Pw1   == <<112, 49, Slash, 120, 121, 122>>
Pw2   == <<112, 50, 32, 35, 9, 120, 33>>

MCAccounts == Alice :> [kind |-> "native", passwd |-> Pw1]
           @@ Bob   :> [kind |-> "old", passwd |-> Pw2]
           @@ Guest :> [kind |-> "native", passwd |-> Null]

Url(user, passwd, port, logfile) ==
    [user |-> user, passwd |-> passwd, host |-> <<104, 46, 49>>, port |-> port, logfile |-> logfile]

MCUrls == {Url(Alice, Pw1, 33, <<98, 46, 49>>), Url(Alice, Pw2, 0, <<98, 46, 49>>),
           Url(Alice, Null, 33, <<98>>),
           Url(Bob, Pw2, 33, <<>>), Url(Bob, Pw1, 7, <<98>>), Url(Bob, Null, 33, <<98>>),
           Url(Guest, Null, 0, <<98, 46, 50>>), Url(Guest, Pw1, 33, <<98>>)}

Greeting(protover, tail, capacity) ==
    [protover |-> protover, tail |-> tail, capacity |-> capacity,
     salt1 |-> <<33, 64, 9, 101, 7, 8, 77, 102>>,
     salt2 |-> <<5, 58, 59, 60, 61, 62, 63, 64, 65, 66, 67, 68>>]

\* 5.5 with plugins, 5.0, 4.0 and 3.20, and an error in the place of a greeting
MCGreetings == {Greeting(10, 66, Flags), Greeting(10, 44, LowFlags),
                Greeting(10, 31, {"CONNECT_WITH_DB"}), Greeting(9, 13, {}),
                Greeting(255, 13, {})}
=============================================================================
