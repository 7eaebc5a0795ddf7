---------------------------- MODULE MCNodeRoles ----------------------------
(***************************************************************************)
(* Nodes that may join and leave, and requests that change one flag.       *)
(***************************************************************************)
EXTENDS NodeRoles, TLC

Keep == [f \in Flags \cup {"capable"} |-> "keep"]

OneFlag == {[Keep EXCEPT ![f] = c] : f \in Flags \cup {"capable"},
                                     c \in {"yes", "no"}}

Symmetry == Permutations(Jobs) \cup Permutations(Founders \ {Master})
=============================================================================
