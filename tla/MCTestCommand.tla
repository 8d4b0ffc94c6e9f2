--------------------------- MODULE MCTestCommand ---------------------------
(***************************************************************************)
(* TestCommand with two packages that share the names of a test and of its *)
(* subtest, one of which has another test that stands alone.               *)
(***************************************************************************)
EXTENDS TestCommand

CONSTANTS k1, k2

Packages == {k1, k2}
Tests == {"Parent", "Parent/child", "Other"}
Parents == [t \in Tests |-> IF t = "Parent/child" THEN "Parent" ELSE t]
InPackage == [k \in Packages |-> IF k = k1 THEN Tests ELSE Tests \ {"Other"}]

=============================================================================
