---------------------------- MODULE MCFileSource ----------------------------
(***************************************************************************)
(* Events of 2 to 6 bytes, headers of 2, a buffer of 4.                    *)
(***************************************************************************)
EXTENDS FileSource

MCLens  == {2, 3, 6}
MCPaths == {<<98>>, <<100, Slash, 98, 46, 49>>, <<Slash, 100, Slash, 98>>,
            <<100, Colon, 98, 46, 49>>}

MCSettings == {[sticky |-> TRUE, parts |-> TRUE], [sticky |-> TRUE, parts |-> FALSE],
               [sticky |-> FALSE, parts |-> FALSE]}
=============================================================================
