--------------------------- MODULE MCNodeNetwork ----------------------------
(***************************************************************************)
(* Two nodes that start from one genesis block, and blocks that compete:   *)
(* a1 pays alice by a script that mints, a2 follows it and passes a coin   *)
(* on, b1 passes a coin on that alice does not have.  r1 is a1 signed      *)
(* anew, so it has the hash of a1; gap has the height of a2 on top of the  *)
(* genesis block.                                                          *)
(***************************************************************************)
EXTENDS NodeNetwork

CONSTANTS alice, bob, minter, id1, empty, u1, n1, n2, hg, ha1, ha2, hb1, hgap

MCText == {alice, bob, minter, id1, empty}
MCParseStr == [t \in MCText |-> IF t = id1 THEN u1 ELSE None]
MCToText == [u \in {u1} |-> id1]

\* minter mints 1 for the sender; any other text is not a script.
MCRunScript(script, sender, payload) ==
  IF script = minter
  THEN [raised |-> FALSE, status |-> "ok", state_changes |-> <<
          [action |-> "mint", to_address |-> sender, amount |-> [kind |-> "int", val |-> 1]]>>]
  ELSE [raised |-> TRUE, status |-> "failed", state_changes |-> <<>>]

mint == NewProgramExtrinsic(alice, u1, minter, 0, "ExecuteProgram", None)
pay  == NewProgramExtrinsic(alice, u1, bob, 1, "TransferAssets", None)

MCTx == {mint, pay}

g   == NewGenesis(alice)
a1  == NewBlock(alice, <<mint>>, hg, 1)
r1  == [a1 EXCEPT !.signature = None]
a2  == NewBlock(alice, <<pay>>, ha1, 2)
b1  == NewBlock(bob, <<pay>>, hg, 1)
gap == NewBlock(bob, <<mint>>, hg, 2)

MCBlock == {g, a1, r1, a2, b1, gap}

MCHashData ==
  [b \in MCBlock |-> CASE b = g -> hg [] b \in {a1, r1} -> ha1 [] b = a2 -> ha2
                       [] b = b1 -> hb1 [] b = gap -> hgap]

MCGenesis == [n \in Node |-> g]

MCSubmitted == [n \in Node |-> IF n = n1 THEN {pay} ELSE {}]
NoneSubmitted == [n \in Node |-> {}]

\* Two blocks for one place, by two nodes; and by one node, one of them
\* also in the other's signature.
RivalsOffered == [n \in Node |-> IF n = n1 THEN {a1, a2} ELSE {b1, gap}]
TwiceOffered  == [n \in Node |-> IF n = n1 THEN {a1, b1} ELSE {r1, a2}]

\* n1 may nominate the block of n2 in the place of its own, or besides it.
RivalNominated == [n \in Node |-> IF n = n1 THEN {<<1, hb1>>} ELSE {}]
NoneNominated  == [n \in Node |-> {}]
=============================================================================
