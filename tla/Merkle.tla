------------------------------- MODULE Merkle -------------------------------
(***************************************************************************)
(* blockchain.transaction.get_merkle: GetTransactionMerkleProof and the    *)
(* loop of buildMerkleBranch, one action per turn, checked against the     *)
(* Merkle tree of the block and against what a client makes of the answer. *)
(*                                                                         *)
(* A 32-byte string is [of |-> its content, order |-> its byte order]: the *)
(* content is <<i>> for the i-th txid of the block, and the pair of its    *)
(* arguments for a double SHA-256.                                         *)
(***************************************************************************)
EXTENDS Integers, Sequences

CONSTANT MaxTxs   \* bound: transactions of a block

ASSUME MerkleAssumption == MaxTxs \in Nat

VARIABLES
  txids,          \* the stored txids of the block asked for, none if there is none
  at,             \* "idle", "branch", "proof", "error"
  pos, level,     \* of the loop
  branch, index   \* of the answer: Merkle and Pos

vars == <<txids, at, pos, level, branch, index>>

Internal(x) == [of |-> x, order |-> "internal"]

Reverse(b) == [b EXCEPT !.order = IF @ = "internal" THEN "display" ELSE "internal"]

DoubleHash(left, right) == Internal(<<left, right>>)

\* Txids as the block indexer stores them.
StoredTxids(n) == [i \in 1 .. n |-> Internal(<<i>>)]

\* hex.DecodeString and the reversal of TxidFromHex.
TxidFromHex(s) == Reverse(s)

\* hex.EncodeToString: the bytes in the order they have.
Encode(b) == b

TypeOK ==
  /\ at \in {"idle", "branch", "proof", "error"}
  /\ Len(txids) \in 0 .. MaxTxs /\ Len(level) \in 0 .. MaxTxs
  /\ pos \in Nat /\ index \in Nat
  /\ at = "branch" => pos < Len(level)

Init ==
  /\ \E n \in 0 .. MaxTxs : txids = StoredTxids(n)
  /\ at = "idle" /\ pos = 0 /\ level = <<>> /\ branch = <<>> /\ index = 0

-----------------------------------------------------------------------------
\* The request names a txid in display order, of this block or of another.
GetTransactionMerkleProof ==
  /\ at = "idle"
  /\ \E asked \in {Reverse(Internal(<<i>>)) : i \in 1 .. MaxTxs + 1} :
       LET found == {i \in DOMAIN txids : txids[i] = TxidFromHex(asked)}
       IN  \/ /\ found = {}
              /\ at' = "error"
              /\ UNCHANGED <<pos, level, index>>
           \/ \E i \in found :
                /\ \A j \in found : i <= j
                /\ at' = "branch"
                /\ pos' = i - 1 /\ index' = i - 1 /\ level' = txids
  /\ UNCHANGED <<txids, branch>>

\* A variant that takes the neighbour on the right.
SiblingRight(p) == p + 1

\* pos ^ 1
Sibling(p) == IF p % 2 = 0 THEN p + 1 ELSE p - 1

\* A variant that passes an unpaired hash up as it is.
NextLevelUnhashed(row) ==
  [i \in 1 .. (Len(row) + 1) \div 2 |->
     IF 2 * i <= Len(row) THEN DoubleHash(row[2 * i - 1], row[2 * i])
     ELSE row[2 * i - 1]]

\* The last hash of an odd row is paired with itself.
NextLevel(row) ==
  [i \in 1 .. (Len(row) + 1) \div 2 |->
     DoubleHash(row[2 * i - 1], IF 2 * i <= Len(row) THEN row[2 * i] ELSE row[2 * i - 1])]

\* A variant that stays at its position.
BranchStepInPlace ==
  /\ at = "branch" /\ Len(level) > 1
  /\ branch' = IF Sibling(pos) < Len(level)
               THEN Append(branch, Encode(level[Sibling(pos) + 1])) ELSE branch
  /\ level' = NextLevel(level)
  /\ UNCHANGED <<txids, at, index, pos>>

\* One turn of buildMerkleBranch; a sibling beyond the row is left out.
BranchStep ==
  /\ at = "branch" /\ Len(level) > 1
  /\ branch' = IF Sibling(pos) < Len(level)
               THEN Append(branch, Encode(level[Sibling(pos) + 1])) ELSE branch
  /\ level' = NextLevel(level)
  /\ pos' = pos \div 2
  /\ UNCHANGED <<txids, at, index>>

BranchDone ==
  /\ at = "branch" /\ Len(level) <= 1
  /\ at' = "proof"
  /\ UNCHANGED <<txids, pos, level, branch, index>>

Next == GetTransactionMerkleProof \/ BranchStep \/ BranchDone

Spec == Init /\ [][Next]_vars

-----------------------------------------------------------------------------
(***************************************************************************)
(* The reference: Bitcoin's tree, from its definition, and the client's    *)
(* computation of the root.                                                *)
(***************************************************************************)
Pow2[k \in 0 .. MaxTxs] == IF k = 0 THEN 1 ELSE 2 * Pow2[k - 1]

\* Hashes on the k-th row above n txids.
RowLength(n, k) == (n + Pow2[k] - 1) \div Pow2[k]

Smaller(a, b) == IF a < b THEN a ELSE b

\* The hashes, from 0, of the k-th row, over those of the row below.
Above(row, k) ==
  [i \in Int |->
     DoubleHash(row[2 * i], row[Smaller(2 * i + 1, RowLength(Len(txids), k - 1) - 1)])]

Row[k \in 0 .. MaxTxs] ==
  IF k = 0 THEN [i \in Int |-> txids[i + 1]] ELSE Above(Row[k - 1], k)

Height == CHOOSE k \in 0 .. MaxTxs :
            RowLength(Len(txids), k) = 1 /\ \A j \in 0 .. k - 1 : RowLength(Len(txids), j) > 1

\* The client folds the hashes b over its transaction, left or right by the bits
\* of Pos.
Parent(h, k, b) ==
  IF (index \div Pow2[k - 1]) % 2 = 0 THEN DoubleHash(h, b[k]) ELSE DoubleHash(b[k], h)

Folded(b) ==
  LET f[k \in 0 .. Len(b)] == IF k = 0 THEN txids[index + 1] ELSE Parent(f[k - 1], k, b)
  IN  f[Len(b)]

\* On the way to the root the transaction always has a neighbour.
AlwaysPaired ==
  \A k \in 0 .. Height - 1 :
    (index \div Pow2[k]) % 2 = 1 \/ index \div Pow2[k] < RowLength(Len(txids), k) - 1

\* RowsExact: every turn of buildMerkleBranch has the next row of the tree, and
\* pos is the transaction's ancestor in it.
RowsExact ==
  at \in {"branch", "proof"} =>
    \E k \in 0 .. Height :
      /\ Len(level) = RowLength(Len(txids), k) /\ pos = index \div Pow2[k]
      /\ \A i \in DOMAIN level : level[i] = Row[k][i - 1]

\* The hashes of a branch, their byte order apart.
Contents(b) == [k \in DOMAIN b |-> Internal(b[k].of)]

\* BranchLeads: the hashes of the answer, in this order and with this Pos, lead
\* from the transaction to the root of the block, if it has a neighbour on every
\* row and the client knows the byte order.
BranchLeads ==
  at = "proof" /\ AlwaysPaired => Folded(Contents(branch)) = Row[Height][0]

-----------------------------------------------------------------------------
(***************************************************************************)
(* What the documents say and the code does not do: the server announces   *)
(* protocol 1.4, whose clients verify any transaction of a block, with     *)
(* hashes in the order in which txids are displayed.                       *)
(***************************************************************************)

\* ProofVerifies: a client that decodes the hashes as TxidFromHex does txids
\* arrives at the root, for a transaction that is alone on some row, too.
ProofVerifies ==
  at = "proof" => Folded([k \in DOMAIN branch |-> TxidFromHex(branch[k])]) = Row[Height][0]
=============================================================================
