-------------------------- MODULE MCCodingHistory --------------------------
(***************************************************************************)
(* CodingHistory on two coders, two targets and a set of two values.  A    *)
(* coder begins with one value on one target and none on the other.        *)
(***************************************************************************)
EXTENDS CodingHistory

CONSTANTS ada, ben, t1, t2, pos, neg

MCCoder == {ada, ben}
MCTarget == {t1, t2}
MCSelection == {{t1}, {t1, t2}}
MCCode == {pos, neg}
MCBegins == {{<<t1, neg>>}}
=============================================================================
