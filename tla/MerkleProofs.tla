---------------------------- MODULE MerkleProofs ----------------------------
(***************************************************************************)
(* Proofs about Merkle, for blocks of any size.  The reference is defined  *)
(* by recursion: that a function as defined exists is shown for a lowest   *)
(* row without one.                                                        *)
(***************************************************************************)
EXTENDS Merkle, SequenceTheorems, WellFoundedInduction, TLAPS

\* LeastOf: a set of numbers has a least one.
LEMMA LeastOf ==
  ASSUME NEW S \in SUBSET Nat, S # {}
  PROVE  \E n \in S : \A m \in S : n <= m
  <1> DEFINE R == {ss \in Nat \X Nat : ss[1] < ss[2]}
  <1>1. IsWellFoundedOn(R, Nat)
    BY NatLessThanWellFounded DEF OpToRel
  <1>2. \A m, n \in Nat : ~(<<m, n>> \in R) => n <= m
    OBVIOUS
  <1> HIDE DEF R
  <1>3. PICK n \in S : \A m \in S : ~(<<m, n>> \in R)
    BY <1>1, WFMin
  <1>4. QED
    BY <1>2, <1>3

\* Climb: what the first row has, and each row has if the one below has it, all
\* rows have; bad is the set of the rows that do not.
LEMMA Climb ==
  ASSUME NEW bad \in SUBSET (0 .. MaxTxs), 0 \notin bad,
         \A k \in 1 .. MaxTxs : k \in bad => k - 1 \in bad
  PROVE  bad = {}
  <1> SUFFICES ASSUME bad # {} PROVE FALSE
    OBVIOUS
  <1>1. bad \in SUBSET Nat
    BY MerkleAssumption
  <1>2. PICK n \in bad : \A m \in bad : n <= m
    BY <1>1, LeastOf
  <1>3. n \in 1 .. MaxTxs
    BY <1>2, MerkleAssumption
  <1>4. QED
    BY <1>2, <1>3

\* PowersExist: the function that Pow2 names.
LEMMA PowersExist ==
  \E f : f = [k \in 0 .. MaxTxs |-> IF k = 0 THEN 1 ELSE 2 * f[k - 1]]
  <1> DEFINE Upto(n, f) == /\ f \in [0 .. n -> Nat]
                           /\ f[0] = 1 /\ \A k \in 1 .. n : f[k] = 2 * f[k - 1]
             bad == {n \in 0 .. MaxTxs : ~\E f : Upto(n, f)}
  <1>1. 0 \notin bad
    <2> DEFINE g == [k \in 0 .. 0 |-> 1]
    <2>1. Upto(0, g)
      OBVIOUS
    <2>2. QED
      BY <2>1
  <1>2. ASSUME NEW n \in 1 .. MaxTxs, n - 1 \notin bad PROVE n \notin bad
    <2>1. n - 1 \in 0 .. MaxTxs /\ n \in Nat
      BY MerkleAssumption
    <2>2. PICK f : Upto(n - 1, f)
      BY <1>2, <2>1
    <2> DEFINE g == [k \in 0 .. n |-> IF k = n THEN 2 * f[n - 1] ELSE f[k]]
    <2>3. f[n - 1] \in Nat /\ \A k \in 0 .. n - 1 : f[k] \in Nat
      BY <2>1, <2>2
    <2>4. g \in [0 .. n -> Nat]
      <3>1. \A k \in 0 .. n : k = n \/ k \in 0 .. n - 1
        BY <2>1
      <3>2. \A k \in 0 .. n : (IF k = n THEN 2 * f[n - 1] ELSE f[k]) \in Nat
        BY <2>3, <3>1
      <3>3. QED
        BY <3>2
    <2>5. g[0] = 1
      BY <2>1, <2>2
    <2>6. ASSUME NEW k \in 1 .. n PROVE g[k] = 2 * g[k - 1]
      <3>1. k \in 0 .. n /\ k - 1 \in 0 .. n /\ k - 1 # n
        BY <2>1
      <3>2. g[k - 1] = f[k - 1]
        BY <3>1
      <3>3. CASE k = n
        BY <3>1, <3>2, <3>3
      <3>4. CASE k # n
        <4>1. k \in 1 .. n - 1
          BY <2>1, <3>4
        <4>2. QED
          BY <2>2, <3>1, <3>2, <3>4, <4>1
      <3>5. QED
        BY <3>3, <3>4
    <2>7. Upto(n, g)
      BY <2>4, <2>5, <2>6
    <2>8. QED
      BY <2>7
  <1>3. bad = {}
    <2>1. bad \in SUBSET (0 .. MaxTxs)
      OBVIOUS
    <2> HIDE DEF bad
    <2>2. QED
      BY <1>1, <1>2, <2>1, Climb
  <1>4. MaxTxs \in 0 .. MaxTxs
    BY MerkleAssumption
  <1>5. PICK f : Upto(MaxTxs, f)
    BY <1>3, <1>4
  <1>6. f = [k \in 0 .. MaxTxs |-> f[k]]
    BY <1>5
  <1>7. \A k \in 0 .. MaxTxs : f[k] = IF k = 0 THEN 1 ELSE 2 * f[k - 1]
    BY <1>5, MerkleAssumption
  <1>8. QED
    BY <1>6, <1>7

\* Powers: Pow2 is as defined.
LEMMA Powers ==
  /\ Pow2[0] = 1
  /\ \A k \in 0 .. MaxTxs : Pow2[k] \in Nat /\ Pow2[k] > k
  /\ \A k \in 1 .. MaxTxs : Pow2[k] = 2 * Pow2[k - 1]
  <1>1. Pow2 = [k \in 0 .. MaxTxs |-> IF k = 0 THEN 1 ELSE 2 * Pow2[k - 1]]
    BY PowersExist DEF Pow2
  <1>2. Pow2[0] = 1 /\ \A k \in 1 .. MaxTxs : Pow2[k] = 2 * Pow2[k - 1]
    <2> DEFINE G(k) == IF k = 0 THEN 1 ELSE 2 * Pow2[k - 1]
    <2>1. Pow2 = [k \in 0 .. MaxTxs |-> G(k)]
      BY <1>1
    <2> HIDE DEF G
    <2>2. \A k \in 0 .. MaxTxs : Pow2[k] = G(k)
      BY <2>1
    <2>3. 0 \in 0 .. MaxTxs /\ \A k \in 1 .. MaxTxs : k \in 0 .. MaxTxs /\ k # 0
      BY MerkleAssumption
    <2>4. QED
      BY <2>2, <2>3 DEF G
  <1> DEFINE bad == {k \in 0 .. MaxTxs : ~(Pow2[k] \in Nat /\ Pow2[k] > k)}
  <1>3. 0 \notin bad
    BY <1>2
  <1>4. ASSUME NEW k \in 1 .. MaxTxs, k - 1 \notin bad PROVE k \notin bad
    <2>1. k - 1 \in 0 .. MaxTxs /\ k \in Nat
      BY MerkleAssumption
    <2>2. Pow2[k - 1] \in Nat /\ Pow2[k - 1] > k - 1
      BY <1>4, <2>1
    <2>3. Pow2[k] \in Nat /\ Pow2[k] > k
      BY <1>2, <2>1, <2>2
    <2>4. QED
      BY <2>3
  <1>5. bad = {}
    <2>1. bad \in SUBSET (0 .. MaxTxs)
      OBVIOUS
    <2> HIDE DEF bad
    <2>2. QED
      BY <1>3, <1>4, <2>1, Climb
  <1>6. QED
    BY <1>2, <1>5

\* RowsExist: the function that Row names.
LEMMA RowsExist ==
  \E f : f = [k \in 0 .. MaxTxs |-> IF k = 0 THEN [i \in Int |-> txids[i + 1]]
                                    ELSE Above(f[k - 1], k)]
  <1> DEFINE L == [i \in Int |-> txids[i + 1]]
             Upto(n, f) == f[0] = L /\ \A k \in 1 .. n : f[k] = Above(f[k - 1], k)
             bad == {n \in 0 .. MaxTxs : ~\E f : Upto(n, f)}
  <1> HIDE DEF L
  <1>1. 0 \notin bad
    <2> DEFINE g == [k \in 0 .. 0 |-> L]
    <2>1. Upto(0, g)
      OBVIOUS
    <2>2. QED
      BY <2>1
  <1>2. ASSUME NEW n \in 1 .. MaxTxs, n - 1 \notin bad PROVE n \notin bad
    <2>1. n - 1 \in 0 .. MaxTxs /\ n \in Nat
      BY MerkleAssumption
    <2>2. PICK f : Upto(n - 1, f)
      BY <1>2, <2>1
    <2> DEFINE top == Above(f[n - 1], n)
               g == [k \in 0 .. n |-> IF k = n THEN top ELSE f[k]]
    <2> HIDE DEF top
    <2>3. g[0] = L
      BY <2>1, <2>2
    <2>4. ASSUME NEW k \in 1 .. n PROVE g[k] = Above(g[k - 1], k)
      <3>1. k \in 0 .. n /\ k - 1 \in 0 .. n /\ k - 1 # n
        BY <2>1
      <3>2. g[k - 1] = f[k - 1]
        BY <3>1
      <3>3. CASE k = n
        <4>1. g[k] = top
          BY <3>1, <3>3
        <4> HIDE DEF g
        <4>2. QED
          BY <3>2, <3>3, <4>1 DEF top
      <3>4. CASE k # n
        <4>1. k \in 1 .. n - 1
          BY <2>1, <3>4
        <4>2. g[k] = f[k]
          BY <3>1, <3>4
        <4> HIDE DEF g
        <4>3. QED
          BY <2>2, <3>2, <4>1, <4>2
      <3>5. QED
        BY <3>3, <3>4
    <2>5. Upto(n, g)
      BY <2>3, <2>4
    <2>6. QED
      BY <2>5
  <1>3. bad = {}
    <2>1. bad \in SUBSET (0 .. MaxTxs)
      OBVIOUS
    <2> HIDE DEF bad
    <2>2. QED
      BY <1>1, <1>2, <2>1, Climb
  <1>4. MaxTxs \in 0 .. MaxTxs
    BY MerkleAssumption
  <1>5. PICK f : Upto(MaxTxs, f)
    BY <1>3, <1>4
  <1> DEFINE g == [k \in 0 .. MaxTxs |-> f[k]]
  <1>6. \A k \in 0 .. MaxTxs : k = 0 \/ (k \in 1 .. MaxTxs /\ k - 1 \in 0 .. MaxTxs)
    BY MerkleAssumption
  <1>7. \A k \in 0 .. MaxTxs : f[k] = IF k = 0 THEN L ELSE Above(g[k - 1], k)
    BY <1>5, <1>6
  <1>8. g = [k \in 0 .. MaxTxs |-> IF k = 0 THEN L ELSE Above(g[k - 1], k)]
    BY <1>7
  <1>9. QED
    BY <1>8 DEF L

\* Rows: Row is as defined.
LEMMA Rows ==
  /\ \A i \in Int : Row[0][i] = txids[i + 1]
  /\ \A k \in 1 .. MaxTxs, i \in Int :
        Row[k][i] = DoubleHash(Row[k - 1][2 * i],
                               Row[k - 1][Smaller(2 * i + 1, RowLength(Len(txids), k - 1) - 1)])
  <1> DEFINE L == [i \in Int |-> txids[i + 1]]
             G(k) == IF k = 0 THEN L ELSE Above(Row[k - 1], k)
  <1>1. Row = [k \in 0 .. MaxTxs |-> G(k)]
    BY RowsExist DEF Row
  <1> HIDE DEF G
  <1>2. \A k \in 0 .. MaxTxs : Row[k] = G(k)
    BY <1>1
  <1>3. 0 \in 0 .. MaxTxs /\ \A k \in 1 .. MaxTxs : k \in 0 .. MaxTxs /\ k # 0
    BY MerkleAssumption
  <1>4. Row[0] = L
    BY <1>2, <1>3 DEF G
  <1>5. \A k \in 1 .. MaxTxs : Row[k] = Above(Row[k - 1], k)
    BY <1>2, <1>3 DEF G
  <1>6. \A i \in Int : Row[0][i] = txids[i + 1]
    BY <1>4
  <1>7. ASSUME NEW k \in 1 .. MaxTxs, NEW i \in Int
        PROVE  Row[k][i] = DoubleHash(Row[k - 1][2 * i],
                               Row[k - 1][Smaller(2 * i + 1, RowLength(Len(txids), k - 1) - 1)])
    BY <1>5 DEF Above
  <1>8. QED
    BY <1>6, <1>7

-----------------------------------------------------------------------------
(***************************************************************************)
(* Halving.                                                                *)
(***************************************************************************)
\* Quotient: what division is.
LEMMA Quotient ==
  ASSUME NEW a \in Nat, NEW p \in Nat, p > 0
  PROVE  a \div p \in Nat /\ (a \div p) * p <= a /\ a < ((a \div p) + 1) * p
  OBVIOUS

\* QuotientIs: and there is only one.
LEMMA QuotientIs ==
  ASSUME NEW a \in Nat, NEW p \in Nat, p > 0, NEW q \in Nat, q * p <= a, a < (q + 1) * p
  PROVE  a \div p = q
  OBVIOUS

\* HalfAgain: dividing by twice as much.
LEMMA HalfAgain ==
  ASSUME NEW a \in Nat, NEW p \in Nat, p > 0
  PROVE  a \div (2 * p) = (a \div p) \div 2
  OBVIOUS

\* Rounded: dividing with the remainder rounded up.
LEMMA Rounded ==
  ASSUME NEW n \in Nat, n > 0, NEW p \in Nat, p > 0
  PROVE  /\ (n + p - 1) \div p \in 1 .. n
         /\ (n + 2 * p - 1) \div (2 * p) = ((n + p - 1) \div p + 1) \div 2
         /\ n <= p => (n + p - 1) \div p = 1
         /\ \A a \in 0 .. n - 1 : a \div p < (n + p - 1) \div p
  <1> DEFINE m == n + p - 1
             q == m \div p
  <1>1. m \in Nat /\ m + p \in Nat /\ m + p = n + 2 * p - 1
    OBVIOUS
  <1>2. q \in Nat /\ q * p <= m /\ m < (q + 1) * p
    BY <1>1, Quotient
  <1> HIDE DEF q
  <1>3. q \in 1 .. n
    <2>1. q # 0
      BY <1>2
    <2>2. q <= n
      <3> SUFFICES ASSUME q >= n + 1 PROVE FALSE
        BY <1>2
      <3>1. q * p >= (n + 1) * p
        BY <1>2
      <3>2. (n + 1) * p = n * p + p /\ n * p >= n
        OBVIOUS
      <3>3. QED
        BY <1>2, <3>1, <3>2
    <2>3. QED
      BY <1>2, <2>1, <2>2
  <1>4. (m + p) \div p = q + 1
    <2>1. (q + 1) * p <= m + p /\ m + p < (q + 1 + 1) * p
      BY <1>2
    <2>2. QED
      BY <1>1, <1>2, <2>1, QuotientIs
  <1>5. (m + p) \div (2 * p) = (q + 1) \div 2
    BY <1>1, <1>4, HalfAgain
  <1>6. n <= p => q = 1
    <2> SUFFICES ASSUME n <= p PROVE q = 1
      OBVIOUS
    <2>1. 1 * p <= m /\ m < (1 + 1) * p
      OBVIOUS
    <2>2. QED
      BY <1>1, <2>1, QuotientIs DEF q
  <1>7. ASSUME NEW a \in 0 .. n - 1 PROVE a \div p < q
    <2>1. a \in Nat /\ a + p <= m
      OBVIOUS
    <2>2. a \div p \in Nat /\ (a \div p) * p <= a
      BY <2>1, Quotient
    <2> DEFINE b == a \div p
    <2> HIDE DEF b
    <2>3. b \in Nat /\ (b + 1) * p <= m
      BY <2>1, <2>2 DEF b
    <2>4. b + 1 < q + 1
      <3> SUFFICES ASSUME b >= q PROVE FALSE
        BY <1>2, <2>3
      <3>1. (b + 1) * p >= (q + 1) * p
        BY <1>2, <2>3
      <3>2. QED
        BY <1>2, <2>3, <3>1
    <2>5. QED
      BY <1>2, <2>3, <2>4 DEF b
  <1>8. QED
    BY <1>1, <1>3, <1>5, <1>6, <1>7 DEF q

\* Lengths: the rows of a block with transactions, from all its txids to one hash.
LEMMA Lengths ==
  ASSUME NEW n \in 1 .. MaxTxs
  PROVE  /\ RowLength(n, 0) = n
         /\ \A k \in 0 .. MaxTxs : RowLength(n, k) \in 1 .. n
         /\ \A k \in 1 .. MaxTxs : RowLength(n, k) = (RowLength(n, k - 1) + 1) \div 2
         /\ RowLength(n, n) = 1
         /\ \A k \in 0 .. MaxTxs, a \in 0 .. n - 1 : a \div Pow2[k] < RowLength(n, k)
  <1>1. n \in Nat /\ n > 0 /\ n \in 0 .. MaxTxs
    BY MerkleAssumption
  <1>2. ASSUME NEW k \in 0 .. MaxTxs PROVE Pow2[k] \in Nat /\ Pow2[k] > 0
    <2>1. k \in Nat /\ Pow2[k] \in Nat /\ Pow2[k] > k
      BY Powers, MerkleAssumption
    <2>2. QED
      BY <2>1
  <1>3. RowLength(n, 0) = n
    <2>1. RowLength(n, 0) = (n + 1 - 1) \div 1
      BY Powers DEF RowLength
    <2>2. QED
      BY <1>1, <2>1
  <1>4. \A k \in 0 .. MaxTxs : RowLength(n, k) \in 1 .. n
    BY <1>1, <1>2, Rounded DEF RowLength
  <1>5. ASSUME NEW k \in 1 .. MaxTxs
        PROVE  RowLength(n, k) = (RowLength(n, k - 1) + 1) \div 2
    <2>1. k - 1 \in 0 .. MaxTxs
      BY MerkleAssumption
    <2> DEFINE p == Pow2[k - 1]
    <2>2. p \in Nat /\ p > 0 /\ Pow2[k] = 2 * p
      BY <1>2, <2>1, Powers
    <2> HIDE DEF p
    <2>3. (n + 2 * p - 1) \div (2 * p) = ((n + p - 1) \div p + 1) \div 2
      BY <1>1, <2>2, Rounded
    <2>4. QED
      BY <2>2, <2>3 DEF RowLength, p
  <1>6. RowLength(n, n) = 1
    <2>1. n <= Pow2[n] /\ Pow2[n] \in Nat
      BY <1>1, Powers
    <2>2. QED
      BY <1>1, <1>2, <2>1, Rounded DEF RowLength
  <1>7. \A k \in 0 .. MaxTxs, a \in 0 .. n - 1 : a \div Pow2[k] < RowLength(n, k)
    BY <1>1, <1>2, Rounded DEF RowLength
  <1>8. QED
    BY <1>3, <1>4, <1>5, <1>6, <1>7

\* TopRow: there is a row of one hash, and Height is the lowest.
LEMMA TopRow ==
  ASSUME Len(txids) \in 1 .. MaxTxs
  PROVE  /\ Height \in 0 .. MaxTxs /\ RowLength(Len(txids), Height) = 1
         /\ \A j \in 0 .. Height - 1 : RowLength(Len(txids), j) > 1
  <1> DEFINE n == Len(txids)
             S == {k \in 0 .. MaxTxs : RowLength(n, k) = 1}
  <1>1. S \in SUBSET Nat /\ n \in S
    <2>1. n \in 0 .. MaxTxs /\ 0 .. MaxTxs \subseteq Nat
      BY MerkleAssumption
    <2>2. RowLength(n, n) = 1
      BY Lengths
    <2>3. QED
      BY <2>1, <2>2
  <1>2. PICK k \in S : \A m \in S : k <= m
    <2> HIDE DEF S
    <2>1. QED
      BY <1>1, LeastOf
  <1>3. ASSUME NEW j \in 0 .. k - 1 PROVE RowLength(n, j) > 1
    <2>1. j \in 0 .. MaxTxs /\ j \notin S
      BY <1>2, MerkleAssumption
    <2>2. RowLength(n, j) # 1 /\ RowLength(n, j) \in 1 .. n
      BY <2>1, Lengths
    <2>3. QED
      BY <2>2
  <1>4. QED
    BY <1>2, <1>3 DEF Height

-----------------------------------------------------------------------------
(***************************************************************************)
(* The invariant: level is the k-th row, for some k up to the top, and     *)
(* branch has the neighbours of the transaction's ancestors below it, if   *)
(* each of them has one.                                                   *)
(***************************************************************************)
InRow(k) ==
  /\ pos = index \div Pow2[k]
  /\ level = [i \in 1 .. RowLength(Len(txids), k) |-> Row[k][i - 1]]

\* The ancestor on the k-th row has a neighbour; those on all rows below have.
Neighbour(k) ==
  (index \div Pow2[k]) % 2 = 1 \/ index \div Pow2[k] < RowLength(Len(txids), k) - 1

Paired(k) == \A j \in 0 .. k - 1 : Neighbour(j)

\* The neighbours on all rows below.
Neighbours(k) ==
  /\ Len(branch) = k
  /\ \A j \in 1 .. k : branch[j] = Row[j - 1][Sibling(index \div Pow2[j - 1])]

Listed(b) == b \in Seq({b[i] : i \in DOMAIN b})

Trail(k) ==
  /\ Listed(branch)
  /\ Paired(k) => Neighbours(k)

Inductive ==
  /\ \E n \in 0 .. MaxTxs : txids = StoredTxids(n)
  /\ at \in {"idle", "branch", "proof", "error"}
  /\ at \in {"idle", "error"} => pos = 0 /\ index = 0 /\ level = <<>>
  /\ at = "idle" => branch = <<>>
  /\ at \in {"branch", "proof"} =>
       index \in 0 .. Len(txids) - 1 /\ \E k \in 0 .. Height : InRow(k) /\ Trail(k)
  /\ at = "proof" => Len(level) <= 1

\* LenOf: a function of 1 .. n is a sequence of n elements.
LEMMA LenOf ==
  ASSUME NEW n \in Nat, NEW f, f \in [1 .. n -> {f[i] : i \in 1 .. n}]
  PROVE  Len(f) = n /\ DOMAIN f = 1 .. n
  <1> DEFINE S == {f[i] : i \in 1 .. n}
  <1> HIDE DEF S
  <1>1. f \in Seq(S)
    BY SeqDef DEF S
  <1>2. 1 .. Len(f) = 1 .. n /\ Len(f) \in Nat
    BY <1>1, LenProperties
  <1>3. QED
    BY <1>2

\* Stored: the txids of the block.
LEMMA Stored ==
  ASSUME Inductive
  PROVE  /\ Len(txids) \in 0 .. MaxTxs /\ DOMAIN txids = 1 .. Len(txids)
         /\ txids = [i \in 1 .. Len(txids) |-> txids[i]]
  <1>1. PICK n \in 0 .. MaxTxs : txids = StoredTxids(n)
    BY DEF Inductive
  <1>2. n \in Nat /\ DOMAIN txids = 1 .. n /\ txids = [i \in 1 .. n |-> txids[i]]
    BY <1>1, MerkleAssumption DEF StoredTxids
  <1>3. txids \in [1 .. n -> {txids[i] : i \in 1 .. n}]
    BY <1>2
  <1>4. Len(txids) = n
    BY <1>2, <1>3, LenOf
  <1>5. QED
    BY <1>2, <1>4

\* RowLen: and of a row.
LEMMA RowLen ==
  ASSUME Len(txids) \in 1 .. MaxTxs, NEW k \in 0 .. MaxTxs, InRow(k)
  PROVE  /\ Len(level) = RowLength(Len(txids), k) /\ DOMAIN level = 1 .. Len(level)
         /\ \A i \in 1 .. Len(level) : level[i] = Row[k][i - 1]
  <1> DEFINE m == RowLength(Len(txids), k)
  <1>1. m \in Nat /\ level = [i \in 1 .. m |-> Row[k][i - 1]]
    BY Lengths DEF InRow
  <1> HIDE DEF m
  <1>2. level \in [1 .. m -> {level[i] : i \in 1 .. m}]
    BY <1>1
  <1>3. Len(level) = m
    BY <1>1, <1>2, LenOf
  <1>4. QED
    BY <1>1, <1>3 DEF m

\* SameTree: the tree is that of the stored txids, which nothing changes.
LEMMA SameTree == UNCHANGED txids => Row' = Row /\ Height' = Height
  BY DEF Row, Height, Above

-----------------------------------------------------------------------------
\* FoundKeeps: the search ends at a txid of the block, on the lowest row.
LEMMA FoundKeeps == ASSUME Inductive, GetTransactionMerkleProof PROVE Inductive'
  <1>1. UNCHANGED txids /\ at = "idle" /\ Row' = Row /\ Height' = Height
    BY SameTree DEF GetTransactionMerkleProof
  <1>2. CASE at' = "error" /\ UNCHANGED <<pos, level, index>>
    BY <1>1, <1>2 DEF Inductive
  <1>3. CASE \E i \in DOMAIN txids : /\ at' = "branch" /\ level' = txids
                                     /\ pos' = i - 1 /\ index' = i - 1
    <2>1. PICK i \in DOMAIN txids : /\ at' = "branch" /\ level' = txids
                                    /\ pos' = i - 1 /\ index' = i - 1
      BY <1>3
    <2> DEFINE n == Len(txids)
    <2>2. /\ n \in 1 .. MaxTxs /\ i \in 1 .. n
          /\ txids = [j \in 1 .. n |-> txids[j]]
      BY Stored, MerkleAssumption
    <2> HIDE DEF n
    <2>3. i - 1 \in 0 .. n - 1 /\ (i - 1) \div 1 = i - 1
      BY <2>2, MerkleAssumption
    <2>4. RowLength(n, 0) = n /\ Pow2[0] = 1 /\ \A j \in 1 .. n : Row[0][j - 1] = txids[j]
      <3>1. \A j \in 1 .. n : j - 1 \in Int /\ (j - 1) + 1 = j
        BY <2>2, MerkleAssumption
      <3>2. QED
        BY <2>2, <3>1, Lengths, Powers, Rows
    <2>5. txids = [j \in 1 .. n |-> Row[0][j - 1]]
      BY <2>2, <2>4
    <2>6. n' = n
      BY <1>1 DEF n
    <2>7. InRow(0)'
      BY <1>1, <2>1, <2>3, <2>4, <2>5, <2>6 DEF InRow, n
    <2>8. 0 \in 0 .. Height
      BY <2>2, TopRow DEF n
    <2>9. Trail(0)'
      BY <1>1 DEF GetTransactionMerkleProof, Inductive, Trail, Paired, Neighbours, Listed
    <2>10. QED
      BY <1>1, <2>1, <2>3, <2>6, <2>7, <2>8, <2>9 DEF Inductive, n
  <1>4. QED
    BY <1>2, <1>3 DEF GetTransactionMerkleProof

\* NextRow: a turn of the loop makes the row above out of a row.
LEMMA NextRow ==
  ASSUME Len(txids) \in 1 .. MaxTxs, NEW k \in 1 .. MaxTxs, InRow(k - 1), Len(level) > 1
  PROVE  NextLevel(level) = [i \in 1 .. RowLength(Len(txids), k) |-> Row[k][i - 1]]
  <1> DEFINE m == Len(level)
             Top(i) == DoubleHash(level[2 * i - 1],
                                  IF 2 * i <= m THEN level[2 * i] ELSE level[2 * i - 1])
  <1>1. k - 1 \in 0 .. MaxTxs
    BY MerkleAssumption
  <1>2. /\ m = RowLength(Len(txids), k - 1)
        /\ \A i \in 1 .. m : level[i] = Row[k - 1][i - 1]
    BY <1>1, RowLen
  <1>3. m \in Nat /\ m > 1 /\ RowLength(Len(txids), k) = (m + 1) \div 2
    BY <1>1, <1>2, Lengths
  <1>4. NextLevel(level) = [i \in 1 .. (m + 1) \div 2 |-> Top(i)]
    BY DEF NextLevel
  <1> HIDE DEF m
  <1>5. ASSUME NEW i \in 1 .. (m + 1) \div 2 PROVE Top(i) = Row[k][i - 1]
    <2>1. /\ 2 * i - 1 \in 1 .. m /\ i - 1 \in Int /\ 2 * (i - 1) = 2 * i - 2
          /\ (2 * i - 1) - 1 = 2 * i - 2 /\ 2 * (i - 1) + 1 = 2 * i - 1
      BY <1>3
    <2>2. Row[k][i - 1] = DoubleHash(Row[k - 1][2 * i - 2],
                                     Row[k - 1][Smaller(2 * i - 1, m - 1)])
      BY <1>2, <2>1, Rows
    <2>3. level[2 * i - 1] = Row[k - 1][2 * i - 2]
      BY <1>2, <2>1
    <2>4. CASE 2 * i <= m
      <3>1. 2 * i \in 1 .. m /\ Smaller(2 * i - 1, m - 1) = 2 * i - 1
        BY <1>3, <2>1, <2>4 DEF Smaller
      <3>2. level[2 * i] = Row[k - 1][2 * i - 1]
        BY <1>2, <3>1
      <3>3. QED
        BY <2>2, <2>3, <2>4, <3>1, <3>2
    <2>5. CASE ~(2 * i <= m)
      <3>1. m - 1 = 2 * i - 2 /\ Smaller(2 * i - 1, m - 1) = 2 * i - 2
        BY <1>3, <2>1, <2>5 DEF Smaller
      <3>2. QED
        BY <2>2, <2>3, <2>5, <3>1
    <2>6. QED
      BY <2>4, <2>5
  <1> HIDE DEF Top
  <1>6. QED
    BY <1>3, <1>4, <1>5

\* Listing: an append to a sequence of whatever elements.
LEMMA Listing ==
  ASSUME NEW b, Listed(b), NEW x, NEW c, c = Append(b, x)
  PROVE  /\ Listed(c) /\ Len(b) \in Nat /\ Len(c) = Len(b) + 1
         /\ c[Len(b) + 1] = x /\ \A i \in 1 .. Len(b) : c[i] = b[i]
  <1> DEFINE S == {b[i] : i \in DOMAIN b}
             T == S \cup {x}
  <1>1. b \in Seq(S)
    BY DEF Listed
  <1> HIDE DEF S
  <1>2. b \in Seq(T) /\ x \in T
    BY <1>1, SeqMonotonic
  <1> HIDE DEF T
  <1>3. /\ c \in Seq(T) /\ Len(b) \in Nat /\ Len(c) = Len(b) + 1
        /\ c[Len(b) + 1] = x /\ \A i \in 1 .. Len(b) : c[i] = b[i]
    BY <1>2, AppendProperties, LenProperties
  <1>4. Listed(c)
    <2>1. c \in [1 .. Len(c) -> T] /\ DOMAIN c = 1 .. Len(c) /\ Len(c) \in Nat
      BY <1>3, LenProperties
    <2> DEFINE U == {c[i] : i \in 1 .. Len(c)}
    <2>2. c \in [1 .. Len(c) -> U]
      BY <2>1
    <2> HIDE DEF U
    <2>3. c \in Seq(U)
      BY <2>1, <2>2, SeqDef
    <2>4. QED
      BY <2>1, <2>3 DEF Listed, U
  <1>5. QED
    BY <1>3, <1>4

\* HasNeighbour: pos ^ 1 is in the row just when the ancestor has a neighbour.
LEMMA HasNeighbour ==
  ASSUME NEW p \in Nat, NEW m \in Nat, p < m
  PROVE  /\ Sibling(p) \in Nat
         /\ Sibling(p) < m <=> (p % 2 = 1 \/ p < m - 1)
  BY DEF Sibling

\* TrailKeeps: a turn of the loop adds the neighbour, if there is one.
LEMMA TrailKeeps ==
  ASSUME BranchStep, Row' = Row, Len(txids) \in 1 .. MaxTxs, index \in 0 .. Len(txids) - 1,
         NEW j \in 0 .. MaxTxs, InRow(j), Trail(j)
  PROVE  Trail(j + 1)'
  <1> DEFINE p == index \div Pow2[j]
             m == RowLength(Len(txids), j)
             x == level[Sibling(p) + 1]
  <1>1. /\ UNCHANGED <<txids, index>>
        /\ branch' = IF Sibling(p) < m THEN Append(branch, x) ELSE branch
    <2>1. pos = p /\ Len(level) = m
      BY RowLen DEF InRow
    <2>2. branch' = IF Sibling(pos) < Len(level) THEN Append(branch, level[Sibling(pos) + 1])
                    ELSE branch
      BY DEF BranchStep, Encode
    <2> HIDE DEF p, m
    <2>3. QED
      BY <2>1, <2>2 DEF BranchStep
  <1>2. p \in Nat /\ m \in Nat /\ p < m
    <2>1. index \in Nat /\ j \in Nat /\ Pow2[j] \in Nat /\ Pow2[j] > j
      BY Powers, MerkleAssumption
    <2>2. p \in Nat
      BY <2>1, Quotient
    <2>3. m \in 1 .. Len(txids) /\ p < m
      BY Lengths
    <2>4. QED
      BY <2>2, <2>3
  <1>3. Neighbour(j) <=> Sibling(p) < m
    BY <1>2, HasNeighbour DEF Neighbour
  <1>4. Sibling(p) \in Nat
    BY <1>2, HasNeighbour
  <1>5. \A i \in 0 .. j : Neighbour(i)' <=> Neighbour(i)
    BY <1>1 DEF Neighbour, RowLength
  <1>6. Paired(j + 1)' <=> Paired(j) /\ Neighbour(j)
    <2>1. Paired(j + 1)' <=> \A i \in 0 .. (j + 1) - 1 : Neighbour(i)'
      BY DEF Paired
    <2>2. j \in Nat /\ 0 .. (j + 1) - 1 = (0 .. j - 1) \cup {j} /\ 0 .. (j + 1) - 1 = 0 .. j
      BY MerkleAssumption
    <2>3. Paired(j + 1)' <=> \A i \in 0 .. j : Neighbour(i)
      BY <1>5, <2>1, <2>2
    <2>4. QED
      BY <2>2, <2>3 DEF Paired
  <1>7. Listed(branch) /\ (Paired(j) => Neighbours(j))
    BY DEF Trail
  <1>8. CASE Sibling(p) < m
    <2>1. /\ Listed(branch') /\ Len(branch) \in Nat /\ Len(branch') = Len(branch) + 1
          /\ branch'[Len(branch) + 1] = x /\ \A i \in 1 .. Len(branch) : branch'[i] = branch[i]
      <3>1. branch' = Append(branch, x)
        BY <1>1, <1>8
      <3>2. PICK b, c, y : b = branch /\ c = branch' /\ y = x
        OBVIOUS
      <3>3. Listed(b) /\ c = Append(b, y)
        BY <1>7, <3>1, <3>2
      <3>4. /\ Listed(c) /\ Len(b) \in Nat /\ Len(c) = Len(b) + 1
            /\ c[Len(b) + 1] = y /\ \A i \in 1 .. Len(b) : c[i] = b[i]
        <4>1. Listed(c)
          BY <3>3, Listing
        <4>2. Len(b) \in Nat
          BY <3>3, Listing
        <4>3. Len(c) = Len(b) + 1
          BY <3>3, Listing
        <4>4. c[Len(b) + 1] = y
          BY <3>3, Listing
        <4>5. \A i \in 1 .. Len(b) : c[i] = b[i]
          BY <3>3, Listing
        <4>6. QED
          BY <4>1, <4>2, <4>3, <4>4, <4>5
      <3> HIDE DEF x
      <3>5. QED
        BY <3>2, <3>4
    <2>2. x = Row[j][Sibling(p)]
      <3>1. Sibling(p) + 1 \in 1 .. m /\ (Sibling(p) + 1) - 1 = Sibling(p)
        BY <1>2, <1>4, <1>8
      <3>2. QED
        BY <3>1, RowLen
    <2>3. CASE Paired(j)
      <3>1. /\ Len(branch) = j /\ j \in Nat
            /\ \A i \in 1 .. j : branch[i] = Row[i - 1][Sibling(index \div Pow2[i - 1])]
        BY <1>7, <2>3, MerkleAssumption DEF Neighbours
      <3>2. Len(branch') = j + 1
        BY <2>1, <3>1
      <3>3. ASSUME NEW i \in 1 .. j + 1
            PROVE  branch'[i] = Row[i - 1][Sibling(index \div Pow2[i - 1])]
        <4>1. CASE i = j + 1
          <5>1. i - 1 = j
            BY <3>1, <4>1
          <5>2. QED
            BY <2>1, <2>2, <3>1, <4>1, <5>1
        <4>2. CASE i \in 1 .. j
          BY <2>1, <3>1, <4>2
        <4>3. QED
          BY <3>1, <4>1, <4>2
      <3>4. Neighbours(j + 1)'
        <4>1. \A i \in 1 .. j + 1 : branch'[i] = Row'[i - 1][Sibling(index' \div Pow2[i - 1])]
          BY <1>1, <3>3
        <4>2. QED
          BY <3>2, <4>1 DEF Neighbours
      <3>5. QED
        BY <1>3, <1>6, <1>8, <2>1, <2>3, <3>4 DEF Trail, Listed
    <2>4. CASE ~Paired(j)
      BY <1>6, <2>1, <2>4 DEF Trail, Listed
    <2>5. QED
      BY <2>3, <2>4
  <1>9. CASE ~(Sibling(p) < m)
    <2>1. branch' = branch
      BY <1>1, <1>9
    <2>2. QED
      BY <1>3, <1>6, <1>7, <1>9, <2>1 DEF Trail, Listed
  <1>10. QED
    BY <1>8, <1>9

\* StepKeeps: the row above, and half the position.
LEMMA StepKeeps == ASSUME Inductive, BranchStep PROVE Inductive'
  <1>1. /\ UNCHANGED <<txids, at, index>> /\ at = "branch" /\ Row' = Row /\ Height' = Height
        /\ level' = NextLevel(level) /\ pos' = pos \div 2 /\ Len(level) > 1
    BY SameTree DEF BranchStep
  <1>2. /\ index \in 0 .. Len(txids) - 1 /\ Len(txids) \in 1 .. MaxTxs
    BY <1>1, Stored, MerkleAssumption DEF Inductive
  <1>3. PICK j \in 0 .. Height : InRow(j) /\ Trail(j)
    BY <1>1 DEF Inductive
  <1>4. Height \in 0 .. MaxTxs /\ RowLength(Len(txids), Height) = 1
    BY <1>2, TopRow
  <1>5. j \in 0 .. MaxTxs /\ j # Height
    <2>1. j \in 0 .. MaxTxs
      BY <1>4, MerkleAssumption
    <2>2. Len(level) = RowLength(Len(txids), j)
      BY <1>2, <1>3, <2>1, RowLen
    <2>3. QED
      BY <1>1, <1>4, <2>1, <2>2
  <1> DEFINE k == j + 1
  <1>6. k \in 0 .. Height /\ k \in 1 .. MaxTxs /\ k - 1 = j
    BY <1>4, <1>5, MerkleAssumption
  <1> HIDE DEF k
  <1>7. level' = [i \in 1 .. RowLength(Len(txids), k) |-> Row[k][i - 1]]
    BY <1>1, <1>2, <1>3, <1>6, NextRow
  <1>8. pos' = index \div Pow2[k]
    <2> DEFINE p == Pow2[j]
    <2>1. pos = index \div p /\ p \in Nat /\ p > 0 /\ Pow2[k] = 2 * p
      <3>1. j \in Nat /\ p \in Nat /\ p > j
        BY <1>5, Powers, MerkleAssumption
      <3>2. QED
        BY <1>3, <1>6, <3>1, Powers DEF InRow
    <2> HIDE DEF p
    <2>2. index \in Nat
      BY <1>2
    <2>3. QED
      BY <1>1, <2>1, <2>2, HalfAgain
  <1>9. RowLength(Len(txids), k)' = RowLength(Len(txids), k) /\ k' = k
    BY <1>1 DEF RowLength, k
  <1>10. InRow(k)'
    BY <1>1, <1>7, <1>8, <1>9 DEF InRow
  <1>11. Trail(k)'
    BY <1>1, <1>2, <1>3, <1>5, TrailKeeps DEF k
  <1>12. QED
    BY <1>1, <1>2, <1>6, <1>9, <1>10, <1>11 DEF Inductive

\* InductiveHolds: buildMerkleBranch has a row of the block's tree in every turn.
THEOREM InductiveHolds == Spec => []Inductive
  <1>1. Init => Inductive
    BY DEF Init, Inductive
  <1>2. Inductive /\ [Next]_vars => Inductive'
    <2> SUFFICES ASSUME Inductive, [Next]_vars PROVE Inductive'
      OBVIOUS
    <2>1. CASE BranchDone \/ UNCHANGED vars
      <3>1. /\ UNCHANGED <<txids, pos, level, index, branch>> /\ Row' = Row
            /\ Height' = Height
            /\ (at' = at \/ (at = "branch" /\ at' = "proof" /\ Len(level) <= 1))
        BY <2>1, SameTree DEF BranchDone, vars
      <3>2. \A k \in 0 .. Height : (InRow(k) /\ Trail(k))' <=> InRow(k) /\ Trail(k)
        BY <3>1 DEF InRow, RowLength, Trail, Listed, Paired, Neighbour, Neighbours, Sibling
      <3>3. QED
        BY <3>1, <3>2 DEF Inductive
    <2>2. QED
      BY <2>1, FoundKeeps, StepKeeps DEF Next
  <1>3. QED
    BY <1>1, <1>2, PTL DEF Spec

\* TypeCorrect: the position is always one of the row's, so that the loop never
\* looks outside it, whatever the size of the block.
THEOREM TypeCorrect == Spec => []TypeOK
  <1>1. Inductive => TypeOK
    <2> SUFFICES ASSUME Inductive PROVE TypeOK
      OBVIOUS
    <2>1. Len(txids) \in 0 .. MaxTxs
      BY Stored
    <2>2. CASE at \in {"idle", "error"}
      BY <2>1, <2>2, MerkleAssumption DEF Inductive, TypeOK
    <2>3. CASE at \in {"branch", "proof"}
      <3>1. index \in 0 .. Len(txids) - 1 /\ Len(txids) \in 1 .. MaxTxs
        BY <2>1, <2>3, MerkleAssumption DEF Inductive
      <3>2. PICK k \in 0 .. Height : InRow(k) /\ Trail(k)
        BY <2>3 DEF Inductive
      <3>3. k \in 0 .. MaxTxs
        BY <3>1, TopRow, MerkleAssumption
      <3>4. /\ Len(level) = RowLength(Len(txids), k) /\ Len(level) \in 1 .. Len(txids)
            /\ pos < Len(level)
        BY <3>1, <3>2, <3>3, RowLen, Lengths DEF InRow
      <3>5. pos \in Nat
        <4>1. index \in Nat /\ k \in Nat /\ Pow2[k] \in Nat /\ Pow2[k] > k
          BY <3>1, <3>3, Powers, MerkleAssumption
        <4>2. QED
          BY <3>2, <4>1, Quotient DEF InRow
      <3>6. QED
        BY <2>1, <2>3, <3>1, <3>4, <3>5, MerkleAssumption DEF TypeOK
    <2>4. QED
      BY <2>2, <2>3 DEF Inductive
  <1>2. QED
    BY <1>1, InductiveHolds, PTL

\* RowsExactHolds: every turn of buildMerkleBranch has the next row of the tree
\* of Bitcoin's definition and the transaction's ancestor in it.
THEOREM RowsExactHolds == Spec => []RowsExact
  <1>1. Inductive => RowsExact
    <2> SUFFICES ASSUME Inductive PROVE RowsExact
      OBVIOUS
    <2> SUFFICES ASSUME at \in {"branch", "proof"} PROVE RowsExact
      BY DEF RowsExact
    <2>1. index \in 0 .. Len(txids) - 1 /\ Len(txids) \in 1 .. MaxTxs
      BY Stored, MerkleAssumption DEF Inductive
    <2>2. PICK k \in 0 .. Height : InRow(k) /\ Trail(k)
      BY DEF Inductive
    <2>3. k \in 0 .. MaxTxs
      BY <2>1, TopRow, MerkleAssumption
    <2>4. /\ Len(level) = RowLength(Len(txids), k)
          /\ \A i \in DOMAIN level : level[i] = Row[k][i - 1]
      BY <2>1, <2>2, <2>3, RowLen
    <2>5. QED
      BY <2>2, <2>4 DEF RowsExact, InRow
  <1>2. QED
    BY <1>1, InductiveHolds, PTL

-----------------------------------------------------------------------------
(***************************************************************************)
(* The client's computation.                                               *)
(***************************************************************************)
\* FoldExists: the function that Folded names.
LEMMA FoldExists ==
  ASSUME NEW b, Len(b) \in 0 .. MaxTxs
  PROVE  \E f : f = [k \in 0 .. Len(b) |-> IF k = 0 THEN txids[index + 1]
                                           ELSE Parent(f[k - 1], k, b)]
  <1> DEFINE L == txids[index + 1]
             Upto(n, f) == f[0] = L /\ \A k \in 1 .. n : f[k] = Parent(f[k - 1], k, b)
             bad == {n \in 0 .. MaxTxs : ~\E f : Upto(n, f)}
  <1> HIDE DEF L
  <1>1. 0 \notin bad
    <2> DEFINE g == [k \in 0 .. 0 |-> L]
    <2>1. Upto(0, g)
      OBVIOUS
    <2>2. QED
      BY <2>1
  <1>2. ASSUME NEW n \in 1 .. MaxTxs, n - 1 \notin bad PROVE n \notin bad
    <2>1. n - 1 \in 0 .. MaxTxs /\ n \in Nat
      BY MerkleAssumption
    <2>2. PICK f : Upto(n - 1, f)
      BY <1>2, <2>1
    <2> DEFINE top == Parent(f[n - 1], n, b)
               g == [k \in 0 .. n |-> IF k = n THEN top ELSE f[k]]
    <2> HIDE DEF top
    <2>3. g[0] = L
      BY <2>1, <2>2
    <2>4. ASSUME NEW k \in 1 .. n PROVE g[k] = Parent(g[k - 1], k, b)
      <3>1. k \in 0 .. n /\ k - 1 \in 0 .. n /\ k - 1 # n
        BY <2>1
      <3>2. g[k - 1] = f[k - 1]
        BY <3>1
      <3>3. CASE k = n
        <4>1. g[k] = top
          BY <3>1, <3>3
        <4> HIDE DEF g
        <4>2. QED
          BY <3>2, <3>3, <4>1 DEF top
      <3>4. CASE k # n
        <4>1. k \in 1 .. n - 1
          BY <2>1, <3>4
        <4>2. g[k] = f[k]
          BY <3>1, <3>4
        <4> HIDE DEF g
        <4>3. QED
          BY <2>2, <3>2, <4>1, <4>2
      <3>5. QED
        BY <3>3, <3>4
    <2>5. Upto(n, g)
      BY <2>3, <2>4
    <2>6. QED
      BY <2>5
  <1>3. bad = {}
    <2>1. bad \in SUBSET (0 .. MaxTxs)
      OBVIOUS
    <2> HIDE DEF bad
    <2>2. QED
      BY <1>1, <1>2, <2>1, Climb
  <1>4. PICK f : Upto(Len(b), f)
    BY <1>3
  <1> DEFINE m == Len(b)
             g == [k \in 0 .. m |-> f[k]]
  <1>5. \A k \in 0 .. m : k = 0 \/ (k \in 1 .. m /\ k - 1 \in 0 .. m)
    BY MerkleAssumption
  <1>6. \A k \in 1 .. m : f[k] = Parent(f[k - 1], k, b)
    BY <1>4
  <1>7. f[0] = L
    BY <1>4
  <1> HIDE DEF m
  <1>8. \A k \in 0 .. m : f[k] = IF k = 0 THEN L ELSE Parent(g[k - 1], k, b)
    BY <1>5, <1>6, <1>7
  <1>9. g = [k \in 0 .. m |-> IF k = 0 THEN L ELSE Parent(g[k - 1], k, b)]
    BY <1>8
  <1>10. QED
    BY <1>9 DEF L, m

\* Folds: what Folded is.
LEMMA Folds ==
  ASSUME NEW b, Len(b) \in 0 .. MaxTxs
  PROVE  \E f : /\ Folded(b) = f[Len(b)] /\ f[0] = txids[index + 1]
                /\ \A k \in 1 .. Len(b) : f[k] = Parent(f[k - 1], k, b)
  <1> DEFINE m == Len(b)
             f == CHOOSE f : f = [k \in 0 .. Len(b) |-> IF k = 0 THEN txids[index + 1]
                                                        ELSE Parent(f[k - 1], k, b)]
             G(k) == IF k = 0 THEN txids[index + 1] ELSE Parent(f[k - 1], k, b)
  <1>1. f = [k \in 0 .. m |-> G(k)]
    BY FoldExists
  <1>2. Folded(b) = f[m]
    BY DEF Folded
  <1> HIDE DEF f
  <1>3. 0 \in 0 .. m /\ \A k \in 1 .. m : k \in 0 .. m /\ k # 0
    BY MerkleAssumption
  <1> HIDE DEF G
  <1>4. \A k \in 0 .. m : f[k] = G(k)
    BY <1>1
  <1>5. f[0] = txids[index + 1] /\ \A k \in 1 .. m : f[k] = Parent(f[k - 1], k, b)
    BY <1>3, <1>4 DEF G
  <1>6. QED
    BY <1>2, <1>5

\* RowInternal: every hash of the tree is in internal byte order.
LEMMA RowInternal ==
  ASSUME Inductive, Len(txids) \in 1 .. MaxTxs, NEW k \in 0 .. MaxTxs,
         NEW i \in 0 .. RowLength(Len(txids), k) - 1
  PROVE  Internal(Row[k][i].of) = Row[k][i]
  <1>1. \A x : Internal(Internal(x).of) = Internal(x)
    BY DEF Internal
  <1>2. CASE k = 0
    <2>1. i \in Int /\ i + 1 \in DOMAIN txids
      <3>1. RowLength(Len(txids), 0) = Len(txids)
        BY Lengths
      <3>2. QED
        BY <1>2, <3>1, Stored
    <2>2. PICK n \in 0 .. MaxTxs : txids = StoredTxids(n)
      BY DEF Inductive
    <2>3. txids[i + 1] = Internal(<<i + 1>>)
      BY <2>1, <2>2 DEF StoredTxids
    <2>4. Row[k][i] = txids[i + 1]
      BY <1>2, <2>1, Rows
    <2>5. QED
      BY <1>1, <2>3, <2>4
  <1>3. CASE k # 0
    <2> DEFINE l == Row[k - 1][2 * i]
               r == Row[k - 1][Smaller(2 * i + 1, RowLength(Len(txids), k - 1) - 1)]
    <2>1. k \in 1 .. MaxTxs /\ i \in Int
      BY <1>3, MerkleAssumption
    <2>2. Row[k][i] = DoubleHash(l, r)
      BY <2>1, Rows
    <2> HIDE DEF l, r
    <2>3. QED
      BY <1>1, <2>2 DEF DoubleHash
  <1>4. QED
    BY <1>2, <1>3

\* Ancestors: with the neighbours of every row the fold is the ancestor in it.
LEMMA Ancestors ==
  ASSUME Len(txids) \in 1 .. MaxTxs, index \in 0 .. Len(txids) - 1,
         Paired(Height), Neighbours(Height)
  PROVE  Folded(branch) = Row[Height][0]
  <1> DEFINE H == Height
             n == Len(txids)
             A(j) == index \div Pow2[j]
  <1>1. H \in 0 .. MaxTxs /\ RowLength(n, H) = 1 /\ H \in Nat /\ index \in Nat
    BY TopRow, MerkleAssumption
  <1>2. Len(branch) = H /\ \A j \in 1 .. H : branch[j] = Row[j - 1][Sibling(A(j - 1))]
    BY DEF Neighbours
  <1>3. PICK f : /\ Folded(branch) = f[H] /\ f[0] = txids[index + 1]
                 /\ \A k \in 1 .. H : f[k] = Parent(f[k - 1], k, branch)
    BY <1>1, <1>2, Folds
  <1>4. \A j \in 0 .. MaxTxs : A(j) \in Nat /\ A(j) < RowLength(n, j) /\ RowLength(n, j) \in Nat
    <2> TAKE j \in 0 .. MaxTxs
    <2>1. j \in Nat /\ Pow2[j] \in Nat /\ Pow2[j] > j
      BY Powers, MerkleAssumption
    <2>2. A(j) \in Nat
      BY <1>1, <2>1, Quotient
    <2>3. RowLength(n, j) \in 1 .. n /\ A(j) < RowLength(n, j)
      BY Lengths
    <2>4. QED
      BY <2>2, <2>3
  <1>5. \A j \in 1 .. MaxTxs : A(j) = A(j - 1) \div 2
    <2> TAKE j \in 1 .. MaxTxs
    <2> DEFINE p == Pow2[j - 1]
    <2>1. j - 1 \in 0 .. MaxTxs /\ j - 1 \in Nat
      BY MerkleAssumption
    <2>2. Pow2[j] = 2 * p /\ p \in Nat /\ p > 0
      BY <2>1, Powers
    <2> HIDE DEF p
    <2>3. index \div (2 * p) = (index \div p) \div 2
      BY <1>1, <2>2, HalfAgain
    <2>4. QED
      BY <2>2, <2>3 DEF p
  <1>6. \A j \in 0 .. H - 1 : A(j) % 2 = 1 \/ A(j) < RowLength(n, j) - 1
    BY DEF Paired, Neighbour
  <1>7. A(0) = index
    <2>1. A(0) = index \div 1
      BY Powers
    <2>2. QED
      BY <1>1, <2>1
  <1>8. \A k \in 1 .. H : Parent(f[k - 1], k, branch) =
          IF A(k - 1) % 2 = 0 THEN DoubleHash(f[k - 1], branch[k])
          ELSE DoubleHash(branch[k], f[k - 1])
    BY DEF Parent
  <1> HIDE DEF A, H, n
  <1> DEFINE bad == {j \in 0 .. MaxTxs : j <= H /\ f[j] # Row[j][A(j)]}
  <1>9. 0 \notin bad
    <2>1. Row[0][index] = txids[index + 1]
      <3>1. index \in Int
        BY <1>1
      <3>2. \A i \in Int : Row[0][i] = txids[i + 1]
        BY Rows
      <3>3. QED
        BY <3>1, <3>2
    <2>2. QED
      BY <1>3, <1>7, <2>1
  <1>10. ASSUME NEW k \in 1 .. MaxTxs, k - 1 \notin bad PROVE k \notin bad
    <2> SUFFICES ASSUME k <= H PROVE f[k] = Row[k][A(k)]
      OBVIOUS
    <2>1. k \in 1 .. H /\ k - 1 \in 0 .. MaxTxs /\ k - 1 \in 0 .. H - 1 /\ k - 1 <= H
      BY <1>1, MerkleAssumption
    <2> DEFINE a == A(k - 1)
               m == RowLength(n, k - 1)
    <2>2. f[k - 1] = Row[k - 1][a]
      BY <1>10, <2>1
    <2>3. /\ a \in Nat /\ m \in Nat /\ a < m /\ A(k) = a \div 2
          /\ (a % 2 = 1 \/ a < m - 1)
      BY <1>4, <1>5, <1>6, <2>1
    <2>4. branch[k] = Row[k - 1][Sibling(a)]
      BY <1>2, <2>1
    <2>5. f[k] = IF a % 2 = 0 THEN DoubleHash(f[k - 1], branch[k])
                 ELSE DoubleHash(branch[k], f[k - 1])
      BY <1>3, <1>8, <2>1
    <2>6. a \div 2 \in Int
      BY <2>3
    <2>7. Row[k][a \div 2] = DoubleHash(Row[k - 1][2 * (a \div 2)],
                                        Row[k - 1][Smaller(2 * (a \div 2) + 1, m - 1)])
      BY <2>6, Rows DEF n
    <2> HIDE DEF a, m
    <2>8. CASE a % 2 = 0
      <3>1. 2 * (a \div 2) = a /\ Sibling(a) = a + 1 /\ Smaller(a + 1, m - 1) = a + 1
        BY <2>3, <2>8 DEF Sibling, Smaller
      <3>2. QED
        BY <2>2, <2>3, <2>4, <2>5, <2>7, <2>8, <3>1
    <2>9. CASE a % 2 # 0
      <3>1. /\ 2 * (a \div 2) = a - 1 /\ Sibling(a) = a - 1 /\ (a - 1) + 1 = a
            /\ Smaller(a, m - 1) = a
        BY <2>3, <2>9 DEF Sibling, Smaller
      <3>2. QED
        BY <2>2, <2>3, <2>4, <2>5, <2>7, <2>9, <3>1
    <2>10. QED
      BY <2>8, <2>9
  <1>11. bad = {}
    <2>1. bad \in SUBSET (0 .. MaxTxs)
      OBVIOUS
    <2> HIDE DEF bad
    <2>2. QED
      BY <1>9, <1>10, <2>1, Climb
  <1>12. f[H] = Row[H][A(H)]
    BY <1>1, <1>11
  <1>13. A(H) = 0
    BY <1>1, <1>4
  <1>14. QED
    BY <1>3, <1>12, <1>13 DEF H

\* AtTheTop: an answer is given at the top of the tree.
LEMMA AtTheTop ==
  ASSUME Inductive, at = "proof"
  PROVE  /\ index \in 0 .. Len(txids) - 1 /\ Len(txids) \in 1 .. MaxTxs
         /\ Height \in 0 .. MaxTxs /\ Trail(Height)
  <1>1. index \in 0 .. Len(txids) - 1 /\ Len(txids) \in 1 .. MaxTxs
    BY Stored, MerkleAssumption DEF Inductive
  <1>2. PICK k \in 0 .. Height : InRow(k) /\ Trail(k)
    BY DEF Inductive
  <1>3. Height \in 0 .. MaxTxs /\ \A j \in 0 .. Height - 1 : RowLength(Len(txids), j) > 1
    BY <1>1, TopRow
  <1>4. k \in 0 .. MaxTxs
    BY <1>3, MerkleAssumption
  <1>5. RowLength(Len(txids), k) <= 1
    BY <1>1, <1>2, <1>4, RowLen DEF Inductive
  <1>6. ~(RowLength(Len(txids), k) > 1)
    <2>1. RowLength(Len(txids), k) \in 1 .. Len(txids)
      BY <1>1, <1>4, Lengths
    <2>2. QED
      BY <1>5, <2>1
  <1>7. k = Height
    BY <1>3, <1>4, <1>6, MerkleAssumption
  <1>8. QED
    BY <1>1, <1>2, <1>3, <1>7

\* SameContents: the branch is sent in the order of the tree.
LEMMA SameContents ==
  ASSUME Inductive, at = "proof", Paired(Height)
  PROVE  Contents(branch) = branch
  <1> DEFINE H == Height
             n == Len(txids)
             A(j) == index \div Pow2[j]
  <1>1. /\ index \in 0 .. n - 1 /\ n \in 1 .. MaxTxs /\ H \in 0 .. MaxTxs
        /\ Listed(branch) /\ Neighbours(H)
    BY AtTheTop DEF Trail
  <1>2. Len(branch) = H /\ \A j \in 1 .. H : branch[j] = Row[j - 1][Sibling(A(j - 1))]
    BY <1>1 DEF Neighbours
  <1>3. DOMAIN branch = 1 .. H /\ branch = [j \in DOMAIN branch |-> branch[j]]
    BY <1>1, <1>2, LenProperties DEF Listed
  <1>4. \A j \in 0 .. H - 1 : Neighbour(j)
    BY DEF Paired
  <1> HIDE DEF H
  <1>5. ASSUME NEW k \in 1 .. H PROVE Internal(branch[k].of) = branch[k]
    <2> DEFINE a == A(k - 1)
               m == RowLength(n, k - 1)
    <2>1. k - 1 \in 0 .. MaxTxs /\ k - 1 \in 0 .. H - 1
      BY <1>1, MerkleAssumption
    <2>2. m \in Nat /\ a \in Nat /\ a < m
      <3>1. index \in Nat /\ k - 1 \in Nat /\ Pow2[k - 1] \in Nat /\ Pow2[k - 1] > k - 1
        BY <1>1, <2>1, Powers, MerkleAssumption
      <3>2. a \in Nat
        BY <3>1, Quotient
      <3>3. m \in 1 .. n /\ a < m
        BY <1>1, <2>1, Lengths
      <3>4. QED
        BY <3>2, <3>3
    <2>3. a % 2 = 1 \/ a < m - 1
      BY <1>4, <2>1 DEF Neighbour
    <2>4. branch[k] = Row[k - 1][Sibling(a)]
      BY <1>2
    <2>5. Sibling(a) \in 0 .. m - 1
      <3> HIDE DEF a, m
      <3>1. QED
        BY <2>2, <2>3, HasNeighbour
    <2>6. QED
      BY <1>1, <2>1, <2>4, <2>5, RowInternal
  <1>6. QED
    BY <1>3, <1>5 DEF Contents

\* BranchLeadsHolds: for blocks of any size, the branch of a transaction whose
\* ancestors all have a neighbour leads a client to the block's Merkle root.
THEOREM BranchLeadsHolds == Spec => []BranchLeads
  <1>1. Inductive => BranchLeads
    <2> SUFFICES ASSUME Inductive, at = "proof", AlwaysPaired
                 PROVE  Folded(Contents(branch)) = Row[Height][0]
      BY DEF BranchLeads
    <2>1. Paired(Height)
      BY DEF AlwaysPaired, Paired, Neighbour
    <2>2. /\ index \in 0 .. Len(txids) - 1 /\ Len(txids) \in 1 .. MaxTxs
          /\ Neighbours(Height)
      BY <2>1, AtTheTop DEF Trail
    <2>3. Folded(branch) = Row[Height][0]
      BY <2>1, <2>2, Ancestors
    <2>4. QED
      BY <2>1, <2>3, SameContents
  <1>2. QED
    BY <1>1, InductiveHolds, PTL
=============================================================================
