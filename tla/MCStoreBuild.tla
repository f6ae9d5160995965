---------------------------- MODULE MCStoreBuild ----------------------------
(* StoreBuild with one or two servers, a bundle of two reads, and two feed  *)
(* files, the first into a table with a primary key, the second without.    *)
EXTENDS StoreBuild

CONSTANTS p1, p2, a1, a2, a3, a4, d1, d2, d3, d4, d5, d6

OneProcess   == {p1}
TwoProcesses == {p1, p2}
MCArchives   == {a1, a2, a3, a4}
MCDatabases  == {d1, d2, d3, d4, d5, d6}
MCKeyed      == {1}
=============================================================================
