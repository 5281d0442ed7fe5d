---------------------------- MODULE MCSqlPaging ----------------------------
(* SqlPaging for TLC: a table of up to four rows, pages of up to two.       *)
EXTENDS SqlPaging

MCRows == 1..4
MCPageSizes == 0..2
=============================================================================
