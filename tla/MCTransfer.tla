----------------------------- MODULE MCTransfer -----------------------------
(* Instances of Transfer for TLC: MAXSIZE is 2 or 3 and the source file    *)
(* has up to two blocks and a rest.                                        *)
EXTENDS Transfer

\* No file, the empty file, and every length up to two blocks of 3 and a rest.
AllSizes == {NoFile} \cup 0..7
\* Files of whole blocks of 2.
WholeSizes == {2, 4}
\* Rewritten to less than a block, to one or two whole blocks of 3, to a
\* block and a rest; removed.
EditSizes == {1, 3, 5, 6, NoFile}
=============================================================================
