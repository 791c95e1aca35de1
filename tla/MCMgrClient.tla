------------------------------ MODULE MCMgrClient ------------------------------
(* Small instance of MgrClient for TLC: of the pieces p and q the first    *)
(* makes a pattern of a url, and the second, alone, is no regular          *)
(* expression.                                                             *)
EXTENDS MgrClient, TLC

CONSTANTS p, q, u1

MCMatch == {<<u1, <<p>>>>, <<u1, <<p, q>>>>}
MCBadRegex == {<<q>>}
MCDefault == <<p>>
MCLists == {{}, {<<>>}, {<<p>>}, {<<p, q>>}, {<<p>>, <<q>>, <<p, q>>}}

Symmetry == Permutations(Thread)
=============================================================================
