------------------------------- MODULE MCNode --------------------------------
(***************************************************************************)
(* Small instances, for TLC, of every part of Node.                        *)
(***************************************************************************)
EXTENDS Node

CONSTANTS db, repair        \* a condition and its procedure

\* None, one that cannot be read, and the radius of a node that writes to its cluster.
PinnedRadii == {Undeclared, {}, ListedGrants \cup KubeGrants}
\* None, a role alone and beside a file that names no key, and the cluster's with keys.
SomeMounts == {{}, {"role"}, {"profile", "role"}, {"kubeconfig", "keys"}}

Field(key, value) == [key |-> key, value |-> value]
Plain == [title |-> "disk", prefix |-> "", marker |-> "", flag |-> "none", level |-> "warning",
          words |-> "plain", fields |-> <<Field("status", "firing"), Field("zone", "eu")>>]
\* Two instances of one rule, one of them a drill that denies its end, and the
\* other one's recovery, which names the rule otherwise.
ThreeAlerts == {[Plain EXCEPT !.words = "drill", !.flag = "no"],
                [Plain EXCEPT !.fields = <<Field("zone", "us")>>],
                [Plain EXCEPT !.marker = "bracketed", !.fields = <<Field("zone", "us")>>]}
=============================================================================
