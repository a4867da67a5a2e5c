----------------------------- MODULE BlockTree ------------------------------
(***************************************************************************)
(* What the chains of the nodes promise, without blocks, accounts,         *)
(* messages or consensus: there is one tree of hashes, and each node walks *)
(* down a path of it, from the root, one or more hashes at a time, and     *)
(* never back up.                                                          *)
(***************************************************************************)
EXTENDS Integers, SequencesExt

CONSTANTS
  Node,
  Hash,
  Root,     \* Root[n]: the hash at which node n starts
  Parent,   \* Parent[h]: the hash above h, or NoHash
  NoHash

VARIABLE path   \* path[n]: the hashes node n has passed

IsPath(n, p) ==
  /\ p \in Seq(Hash) \ {<<>>}
  /\ p[1] = Root[n]
  /\ \A i \in 2..Len(p) : Parent[p[i]] = p[i - 1]

Init == path = [n \in Node |-> <<Root[n]>>]

Descend(n) ==
  /\ IsPath(n, path'[n])
  /\ IsStrictPrefix(path[n], path'[n])
  /\ path' = [path EXCEPT ![n] = path'[n]]

Next == \E n \in Node : Descend(n)

Spec == Init /\ [][Next]_path
=============================================================================
