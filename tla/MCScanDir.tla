----------------------------- MODULE MCScanDir ------------------------------
(* An instance of ScanDir for TLC: a directory in a directory, a file in   *)
(* each, and in the inner one a link back to the outer.                    *)
EXTENDS ScanDir

Entry(d, x, n) == [dir |-> d, name |-> x, node |-> n, link |-> FALSE]
SmallTree == {Entry("top", "f", "file"), Entry("top", "d", "sub"),
              Entry("sub", "g", "other"),
              [dir |-> "sub", name |-> "up", node |-> "top", link |-> TRUE]}
=============================================================================
