------------------------------ MODULE MCPgConn ------------------------------
(* Small instances of PgConn for TLC. *)
EXTENDS PgConn, TLC

CONSTANTS t1, t2, t3, s1, s2

MCThreads == {t1, t2, t3}

MCSources == {s1, s2}

Symmetry == Permutations(MCThreads) \cup Permutations(MCSources)
=============================================================================
