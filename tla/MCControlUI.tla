----------------------------- MODULE MCControlUI -----------------------------
(* Instances of ControlUI for TLC: pages of each mode, with the clicks of  *)
(* their user and the faults on their way.                                 *)
EXTENDS ControlUI

Page(mode_, clicks_, faults_) == [mode |-> mode_, clicks |-> clicks_, faults |-> faults_]

Pages == {Page("redirect", 2, 0), Page("redirect", 1, 1),
          Page("password", 2, 0), Page("password", 1, 1), Page("fixture", 2, 1)}

Redirected == {Page("redirect", 0, 1)}
=============================================================================
