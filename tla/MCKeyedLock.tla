---------------------------- MODULE MCKeyedLock ----------------------------
(***************************************************************************)
(* KeyedLock on four calls over two keys, three of them contending for the *)
(* same one, with the line of callers it stands for.                       *)
(***************************************************************************)
EXTENDS KeyedLock, TLC

CONSTANTS c1, c2, c3, c4, k1, k2

MCCalls == {c1, c2, c3, c4}
MCKeys == {k1, k2}
MCKeyOf == (c1 :> k1) @@ (c2 :> k1) @@ (c3 :> k1) @@ (c4 :> k2)

=============================================================================
