----------------------------- MODULE BenchProofs -----------------------------
(***************************************************************************)
(* The benchmarks, for all of their bounds: the databases of the trie      *)
(* benchmarks, how they are filled and what is sampled of them, and the    *)
(* runs of a benchmark with their averages.                                *)
(*                                                                         *)
(* Some of what is proved is about data of any length, and the models fold *)
(* it with FoldLeft.  The first lemmas are the induction this takes, in a  *)
(* form without operators for parameters: a set of naturals with 0 and the *)
(* successors of its members is all of them, and what a fold does in a     *)
(* step is a function, so that the lemmas can be instantiated.             *)
(***************************************************************************)
EXTENDS BenchRunner, TrieSetup, TrieStore, FiniteSetTheorems, FunctionTheorems,
        SequenceTheorems, WellFoundedInduction, TLAPS

-----------------------------------------------------------------------------
(* A set of naturals with 0, and with the successor of each of its members.  *)
LEMMA NatSet ==
    ASSUME NEW S \in SUBSET Nat, 0 \in S, \A n \in S : n + 1 \in S
    PROVE  S = Nat
<1> SUFFICES ASSUME S # Nat PROVE FALSE
  OBVIOUS
<1> DEFINE T == Nat \ S
<1>1. IsWellFoundedOn(OpToRel(<, Nat), Nat)
  BY NatLessThanWellFounded
<1>2. T \subseteq Nat /\ T # {}
  OBVIOUS
<1>3. PICK x \in T : \A y \in T : <<y, x>> \notin OpToRel(<, Nat)
  <2> HIDE DEF T
  <2> QED
    BY <1>1, <1>2, WFMin
<1>4. x \in Nat /\ x # 0 /\ x - 1 \in Nat
  OBVIOUS
<1>5. x - 1 \in T
  BY <1>4
<1>6. <<x - 1, x>> \in OpToRel(<, Nat)
  BY <1>4 DEF OpToRel
<1> QED
  BY <1>3, <1>5, <1>6

(* The last of a set of indices. *)
LastOf(x) == CHOOSE m \in x : \A y \in x : m >= y

(* If n is one of some indices up to n, it is the last of them. *)
LEMMA LastIs ==
    ASSUME NEW n \in Nat, NEW x \in SUBSET (1 .. n), n \in x
    PROVE  LastOf(x) = n
<1>1. \A y \in x : n >= y
  OBVIOUS
<1>2. ASSUME NEW m \in x, \A y \in x : m >= y PROVE m = n
  BY <1>2
<1> QED
  BY <1>1, <1>2, Zenon DEF LastOf

(* g folds what is left of a set of indices of s after its last one. *)
FoldedBy(g, step, base, s) ==
  \A x \in SUBSET (1 .. Len(s)) :
     g[x] = IF x = {} THEN base ELSE step[<<g[x \ {LastOf(x)}], s[LastOf(x)]>>]

(* Every list can be folded: by induction over how far its indices go. *)
LEMMA FoldExists ==
    ASSUME NEW T, NEW E, NEW step \in [T \X E -> T], NEW base \in T, NEW s \in Seq(E)
    PROVE  \E g \in [SUBSET (1 .. Len(s)) -> T] : FoldedBy(g, step, base, s)
<1> DEFINE Folds(k, g) ==
      \A x \in SUBSET (1 .. k) :
         g[x] = IF x = {} THEN base ELSE step[<<g[x \ {LastOf(x)}], s[LastOf(x)]>>]
    Folded(k) == \E g \in [SUBSET (1 .. k) -> T] : Folds(k, g)
    S == {k \in Nat : k <= Len(s) => Folded(k)}
<1>1. 0 \in S
  <2> DEFINE g == [x \in SUBSET (1 .. 0) |-> base]
  <2>1. g \in [SUBSET (1 .. 0) -> T]
    OBVIOUS
  <2>2. SUBSET (1 .. 0) = {{}}
    OBVIOUS
  <2>3. Folds(0, g)
    BY <2>2
  <2> QED
    BY <2>1, <2>3
<1>2. ASSUME NEW k \in S PROVE k + 1 \in S
  <2>a. k \in Nat /\ k + 1 \in Nat /\ (k + 1 <= Len(s) => k <= Len(s))
    OBVIOUS
  <2>b. k + 1 <= Len(s) => Folded(k)
    <3> HIDE DEF Folded
    <3> QED
      BY <2>a
  <2> SUFFICES ASSUME k + 1 <= Len(s) PROVE Folded(k + 1)
    <3> HIDE DEF Folded
    <3> QED
      BY <2>a
  <2>1. PICK g \in [SUBSET (1 .. k) -> T] : Folds(k, g)
    BY <2>b
  <2> DEFINE h == [x \in SUBSET (1 .. k + 1) |->
                     IF k + 1 \in x THEN step[<<g[x \ {k + 1}], s[k + 1]>>] ELSE g[x]]
  <2>2. \A x \in SUBSET (1 .. k + 1) : x \ {k + 1} \in SUBSET (1 .. k)
    OBVIOUS
  <2>3. s[k + 1] \in E
    OBVIOUS
  <2>4. h \in [SUBSET (1 .. k + 1) -> T]
    <3> SUFFICES ASSUME NEW x \in SUBSET (1 .. k + 1)
                 PROVE  (IF k + 1 \in x THEN step[<<g[x \ {k + 1}], s[k + 1]>>] ELSE g[x]) \in T
      OBVIOUS
    <3>1. g[x \ {k + 1}] \in T
      BY <2>2
    <3>2. CASE k + 1 \notin x
      <4>1. x \ {k + 1} = x
        BY <3>2
      <4> QED
        BY <4>1, <3>1, <3>2
    <3> QED
      BY <3>1, <3>2, <2>3
  <2>5. ASSUME NEW x \in SUBSET (1 .. k + 1)
        PROVE  h[x] = IF x = {} THEN base ELSE step[<<h[x \ {LastOf(x)}], s[LastOf(x)]>>]
    <3>1. CASE k + 1 \in x
      <4>1. LastOf(x) = k + 1
        BY <3>1, LastIs
      <4>2. h[x \ {k + 1}] = g[x \ {k + 1}]
        OBVIOUS
      <4> QED
        BY <3>1, <4>1, <4>2
    <3>2. CASE k + 1 \notin x
      <4>1. x \in SUBSET (1 .. k)
        BY <3>2
      <4>3. \A l : x \ {l} \in SUBSET (1 .. k + 1) /\ k + 1 \notin x \ {l}
        BY <3>2
      <4>2. h[x] = g[x] /\ h[x \ {LastOf(x)}] = g[x \ {LastOf(x)}]
        BY <4>1, <4>3, <3>2
      <4> QED
        BY <2>1, <4>1, <4>2
    <3> QED
      BY <3>1, <3>2
  <2> QED
    BY <2>4, <2>5
<1>3. S = Nat
  <2> HIDE DEF S
  <2>1. S \in SUBSET Nat
    BY DEF S
  <2> QED
    BY <2>1, <1>1, <1>2, NatSet
<1>4. Len(s) \in S
  <2> HIDE DEF S
  <2> QED
    BY <1>3
<1>5. Folded(Len(s))
  <2> HIDE DEF Folded
  <2> QED
    BY <1>4
<1> QED
  BY <1>5 DEF FoldedBy

(* A set of naturals that is not empty has a least member. *)
LEMMA LeastOf ==
    ASSUME NEW T \in SUBSET Nat, T # {}
    PROVE  \E x \in T : \A y \in T : x <= y
<1>1. IsWellFoundedOn(OpToRel(<, Nat), Nat)
  BY NatLessThanWellFounded
<1>2. PICK x \in T : \A y \in T : <<y, x>> \notin OpToRel(<, Nat)
  BY <1>1, WFMin
<1>3. ASSUME NEW y \in T PROVE x <= y
  <2>1. <<y, x>> \notin OpToRel(<, Nat)
    BY <1>2
  <2>2. x \in Nat /\ y \in Nat
    OBVIOUS
  <2>3. ~(y < x)
    BY <2>1, <2>2 DEF OpToRel
  <2> QED
    BY <2>2, <2>3
<1> QED
  BY <1>3

(* A set of indices that is not empty has a last one, and LastOf chooses it. *)
LEMMA LastIn ==
    ASSUME NEW n \in Nat, NEW x \in SUBSET (1 .. n), x # {}
    PROVE  LastOf(x) \in x
<1> DEFINE Bounds == {m \in Nat : \A y \in x : m >= y}
<1>1. n \in Bounds
  OBVIOUS
<1>2. PICK m \in Bounds : \A b \in Bounds : m <= b
  <2> HIDE DEF Bounds
  <2>1. Bounds \in SUBSET Nat
    BY DEF Bounds
  <2> QED
    BY <2>1, <1>1, LeastOf
<1>3. m \in x
  <2> SUFFICES ASSUME m \notin x PROVE FALSE
    OBVIOUS
  <2>1. PICK y \in x : TRUE
    OBVIOUS
  <2>2. m - 1 \in Bounds
    BY <2>1
  <2> QED
    BY <2>2, <1>2
<1>4. \A y \in x : m >= y
  OBVIOUS
<1> QED
  BY <1>3, <1>4, Zenon DEF LastOf

(* What holds of the first value of a function on 0 .. n, and of the next    *)
(* with each, holds of all.                                                 *)
LEMMA AllOf ==
    ASSUME NEW n \in Nat, NEW S \in SUBSET (0 .. n), 0 \in S,
           \A k \in 0 .. n - 1 : k \in S => k + 1 \in S
    PROVE  S = 0 .. n
<1> DEFINE U == {k \in Nat : k <= n => k \in S}
<1>1. 0 \in U
  OBVIOUS
<1>2. \A k \in U : k + 1 \in U
  OBVIOUS
<1>3. U = Nat
  <2> HIDE DEF U
  <2>1. U \in SUBSET Nat
    BY DEF U
  <2> QED
    BY <1>1, <1>2, <2>1, NatSet
<1>4. ASSUME NEW k \in 0 .. n PROVE k \in S
  <2>1. k \in U /\ k <= n
    BY <1>3
  <2> QED
    BY <2>1
<1> QED
  BY <1>4

(* fold folds s in this way where what is left is of the type.              *)
Unfolds(fold, T, step, base, s) ==
  /\ fold[{}] = base
  /\ \A x \in SUBSET (1 .. Len(s)) :
        x # {} /\ fold[x \ {LastOf(x)}] \in T
          => fold[x] = step[<<fold[x \ {LastOf(x)}], s[LastOf(x)]>>]

(* f goes from the base through s, one step each. *)
Follows(f, step, base, s) ==
  /\ f[0] = base
  /\ \A k \in 0 .. Len(s) - 1 : f[k + 1] = step[<<f[k], s[k + 1]>>]

(* fold gets to its value for all of s so. *)
Reached(fold, T, step, base, s) ==
  \E f \in [0 .. Len(s) -> T] :
     Follows(f, step, base, s) /\ f[Len(s)] = fold[1 .. Len(s)]

(* What folds s in this way goes through it from the first to the last, one  *)
(* step each, and stays within T.                                           *)
LEMMA FoldSteps ==
    ASSUME NEW T, NEW E, NEW step \in [T \X E -> T], NEW base \in T, NEW s \in Seq(E),
           NEW fold, Unfolds(fold, T, step, base, s)
    PROVE  Reached(fold, T, step, base, s)
<1> DEFINE f == [k \in 0 .. Len(s) |-> fold[1 .. k]]
           S == {k \in 0 .. Len(s) : f[k] \in T}
<1>0. Len(s) \in Nat
  OBVIOUS
<1>1. f[0] = base
  <2>1. f[0] = fold[1 .. 0] /\ 1 .. 0 = {}
    BY <1>0
  <2> HIDE DEF f
  <2> QED
    BY <2>1 DEF Unfolds
<1>2. ASSUME NEW k \in 0 .. Len(s) - 1, f[k] \in T
      PROVE  f[k + 1] = step[<<f[k], s[k + 1]>>] /\ f[k + 1] \in T
  <2>1. 1 .. k + 1 \in SUBSET (1 .. Len(s)) /\ 1 .. k + 1 # {} /\ k + 1 \in 1 .. k + 1
    BY <1>0
  <2>2. LastOf(1 .. k + 1) = k + 1
    BY <2>1, LastIs
  <2>3. (1 .. k + 1) \ {k + 1} = 1 .. k
    OBVIOUS
  <2>4. f[k + 1] = fold[1 .. k + 1] /\ f[k] = fold[1 .. k]
    BY <1>0
  <2>5. s[k + 1] \in E
    BY <1>0
  <2> HIDE DEF f
  <2>6. f[k + 1] = step[<<f[k], s[k + 1]>>]
    BY <1>2, <2>1, <2>2, <2>3, <2>4 DEF Unfolds
  <2> QED
    BY <1>2, <2>5, <2>6
<1>3. S = 0 .. Len(s)
  <2>1. 0 \in S
    BY <1>0, <1>1
  <2>2. ASSUME NEW k \in 0 .. Len(s) - 1, k \in S PROVE k + 1 \in S
    <3>1. k + 1 \in 0 .. Len(s) /\ f[k] \in T
      BY <1>0, <2>2
    <3> HIDE DEF f
    <3> QED
      BY <1>2, <3>1
  <2>3. S \in SUBSET (0 .. Len(s))
    OBVIOUS
  <2> HIDE DEF S
  <2> QED
    BY <1>0, <2>1, <2>2, <2>3, AllOf
<1>4. f \in [0 .. Len(s) -> T]
  BY <1>3
<1>5. \A k \in 0 .. Len(s) - 1 : f[k + 1] = step[<<f[k], s[k + 1]>>]
  <2> SUFFICES ASSUME NEW k \in 0 .. Len(s) - 1 PROVE f[k + 1] = step[<<f[k], s[k + 1]>>]
    OBVIOUS
  <2>1. k \in 0 .. Len(s)
    BY <1>0
  <2>2. f[k] \in T
    <3> HIDE DEF f
    <3> QED
      BY <1>4, <2>1
  <2> QED
    BY <1>2, <2>2
<1>6. f[Len(s)] = fold[1 .. Len(s)]
  BY <1>0
<1> HIDE DEF f
<1> QED
  BY <1>1, <1>4, <1>5, <1>6 DEF Follows, Reached

-----------------------------------------------------------------------------
(* The quotient and the remainder make up the number.                        *)
LEMMA DivMod ==
    ASSUME NEW i \in Int, NEW e \in Nat \ {0}
    PROVE  /\ i \div e \in Int /\ i % e \in 0 .. e - 1
           /\ i = e * (i \div e) + (i % e)
OBVIOUS

(* Multiples are a divisor apart.                                            *)
LEMMA Multiples ==
    ASSUME NEW a \in Int, NEW b \in Int, NEW e \in Nat \ {0}, a < b
    PROVE  e * a + e <= e * b
<1>1. PICK d \in Nat : b = a + 1 + d
  <2>1. b - a - 1 \in Nat /\ b = a + 1 + (b - a - 1)
    OBVIOUS
  <2> QED
    BY <2>1
<1>2. e * d \in Nat
  OBVIOUS
<1>3. e * b = e * a + e + e * d
  BY <1>1
<1> QED
  BY <1>2, <1>3

-----------------------------------------------------------------------------
(***************************************************************************)
(* DatabasesAgree for every set of places and of hashes.  The invariant    *)
(* says what a commit of the trie library leaves in the overlay: what it   *)
(* inserts is not in the database the trie is of, what it removes is, but  *)
(* for the node of the empty trie, that never gets there, and the trie is  *)
(* what will be there once the transaction is written.  That is what makes *)
(* the reference counts of ParityDb exact.                                 *)
(***************************************************************************)

CurrentStore == IF work \in {"running", "committed", "written"} THEN copy ELSE seed

(* A database in which each hash is counted once for every place it is at. *)
Counted(store) ==
    /\ store.rocks \subseteq Nodes
    /\ store.parity = [h \in AllHashes |-> Of(h, store.rocks)]

StoreIInv ==
    /\ work \in {"generating", "generated", "idle", "running", "committed", "written"}
    /\ Counted(seed) /\ Counted(copy)
    /\ DOMAIN overlay \subseteq Nodes \cup {NullNode}
    /\ \A node \in DOMAIN overlay : overlay[node] \in {"inserted", "removed"}
    /\ Inserted \cap CurrentStore.rocks = {}
    /\ Removed \subseteq CurrentStore.rocks \cup {NullNode}
    /\ trie = (CurrentStore.rocks \cup Inserted) \ Removed
    /\ work = "generating" => DOMAIN overlay = {NullNode} /\ seed.rocks = {}
    /\ work # "generating" => Inserted \subseteq Nodes
    /\ work \in {"idle", "running", "written"} => DOMAIN overlay = {}
    /\ work = "running" => copy = seed

(* The nodes of a hash, among those of a trie, are finitely many.            *)
LEMMA OfFinite ==
    ASSUME NEW S, S \subseteq Nodes \cup {NullNode}, NEW h
    PROVE  /\ IsFiniteSet({ node \in S : Hash(node) = h })
           /\ Of(h, S) \in Nat
<1>1. IsFiniteSet(Nodes \cup {NullNode})
  <2>1. IsFiniteSet(Nodes)
    BY NodesFinite, FS_Product DEF Nodes
  <2> QED
    BY <2>1, FS_AddElement
<1>2. { node \in S : Hash(node) = h } \subseteq Nodes \cup {NullNode}
  OBVIOUS
<1>3. IsFiniteSet({ node \in S : Hash(node) = h })
  BY <1>1, <1>2, FS_Subset
<1> QED
  BY <1>3, FS_CardinalityType DEF Of

(* A trie has as many nodes of a hash as were there, and were inserted, less *)
(* those that were removed: the references that ParityDb counts.             *)
LEMMA OfCommitted ==
    ASSUME NEW R, NEW I, NEW D, NEW h,
           R \subseteq Nodes \cup {NullNode}, I \subseteq Nodes \cup {NullNode},
           I \cap R = {}, D \subseteq R
    PROVE  Of(h, (R \cup I) \ D) = Of(h, R) + Of(h, I) - Of(h, D)
<1> DEFINE r == { node \in R : Hash(node) = h }
           i == { node \in I : Hash(node) = h }
           d == { node \in D : Hash(node) = h }
           all == (R \cup I) \ D
           left == { node \in all : Hash(node) = h }
<1>1. /\ Of(h, R) = Cardinality(r) /\ Of(h, I) = Cardinality(i) /\ Of(h, D) = Cardinality(d)
      /\ Of(h, all) = Cardinality(left)
  BY DEF Of
<1>2. IsFiniteSet(r) /\ IsFiniteSet(i) /\ IsFiniteSet(d) /\ IsFiniteSet(left)
  BY OfFinite
<1>3. r \cap i = {} /\ d \cap left = {} /\ r \cup i = d \cup left
  OBVIOUS
<1> HIDE DEF r, i, d, left
<1>4. /\ Cardinality(r \cup i) = Cardinality(r) + Cardinality(i) - Cardinality(r \cap i)
      /\ Cardinality(d \cup left) = Cardinality(d) + Cardinality(left) - Cardinality(d \cap left)
  BY <1>2, FS_Union
<1>5. Cardinality({}) = 0
  BY FS_EmptySet
<1>6. /\ Cardinality(r) \in Nat /\ Cardinality(i) \in Nat /\ Cardinality(d) \in Nat
      /\ Cardinality(left) \in Nat
  BY <1>2, FS_CardinalityType
<1>7. Cardinality(left) = Cardinality(r) + Cardinality(i) - Cardinality(d)
  <2> DEFINE nr == Cardinality(r)
             ni == Cardinality(i)
             nd == Cardinality(d)
             nl == Cardinality(left)
  <2>1. Cardinality(r \cup i) = nr + ni - 0
    BY <1>3, <1>4, <1>5
  <2>2. Cardinality(r \cup i) = nd + nl - 0
    BY <1>3, <1>4, <1>5
  <2>3. nr \in Nat /\ ni \in Nat /\ nd \in Nat /\ nl \in Nat
    BY <1>6
  <2>4. nr + ni - 0 = nd + nl - 0
    BY <2>1, <2>2
  <2> HIDE DEF nr, ni, nd, nl
  <2>5. nl = nr + ni - nd
    BY <2>3, <2>4
  <2> QED
    BY <2>5 DEF nr, ni, nd, nl
<1> QED
  BY <1>1, <1>7

(* No tree of keys has the node of the empty trie, or its hash.              *)
LEMMA NullApart ==
    /\ NullNode \notin Nodes
    /\ \A node \in Nodes : Hash(node) # "null"
    /\ \A h : h # "null" => Hash(NullNode) # h
<1>1. Hash(NullNode) = "null"
  BY DEF Hash, NullNode
<1>2. ASSUME NEW node \in Nodes PROVE Hash(node) # "null"
  <2>1. node[2] \in Hashes
    BY DEF Nodes
  <2> QED
    BY <2>1, NodesFinite DEF Hash
<1> QED
  BY <1>1, <1>2

(* One transaction, written to a database whose references are exact, leaves *)
(* them exact.                                                               *)
LEMMA WrittenCounted ==
    ASSUME NEW store, Counted(store), Inserted \subseteq Nodes,
           Inserted \cap store.rocks = {}, Removed \subseteq store.rocks \cup {NullNode}
    PROVE  /\ Counted(Written(store))
           /\ Written(store).rocks = (store.rocks \cup Inserted) \ Removed
<1> DEFINE rocks == (store.rocks \cup Inserted) \ Removed
           real == Removed \ {NullNode}
<1>1. Written(store).rocks = rocks
  BY DEF Written
<1>2. store.rocks \subseteq Nodes /\ rocks \subseteq Nodes
  BY DEF Counted
<1>3. real \subseteq store.rocks /\ rocks = (store.rocks \cup Inserted) \ real
  BY <1>2, NullApart
<1>4. ASSUME NEW h \in AllHashes
      PROVE  Written(store).parity[h] = Of(h, rocks)
  <2> DEFINE left == store.parity[h] + Of(h, Inserted) - Of(h, Removed)
  <2>1. store.parity[h] = Of(h, store.rocks)
    BY DEF Counted
  <2>2. Of(h, rocks) = Of(h, store.rocks) + Of(h, Inserted) - Of(h, real)
    <3> HIDE DEF rocks, real
    <3> QED
      BY <1>2, <1>3, OfCommitted
  <2>3. Of(h, rocks) \in Nat
    <3> HIDE DEF rocks
    <3> QED
      BY <1>2, OfFinite
  <2>4. Written(store).parity[h] = IF left < 0 THEN 0 ELSE left
    BY DEF Written
  <2>5. CASE h # "null"
    <3>1. { node \in Removed : Hash(node) = h } = { node \in real : Hash(node) = h }
      BY <2>5, NullApart
    <3>2. Of(h, Removed) = Of(h, real)
      BY <3>1, Zenon DEF Of
    <3> HIDE DEF rocks, real
    <3>3. left = Of(h, rocks)
      BY <2>1, <2>2, <3>2
    <3> HIDE DEF left
    <3> QED
      BY <2>3, <2>4, <3>3
  <2>6. CASE h = "null"
    <3>1. ASSUME NEW S, S \subseteq Nodes PROVE Of(h, S) = 0
      <4>1. { node \in S : Hash(node) = h } = {}
        BY <2>6, <3>1, NullApart
      <4> QED
        BY <4>1, FS_EmptySet DEF Of
    <3>2. Of(h, store.rocks) = 0 /\ Of(h, Inserted) = 0 /\ Of(h, rocks) = 0
      BY <1>2, <3>1
    <3>3. Of(h, Removed) \in Nat
      <4>1. Removed \subseteq Nodes \cup {NullNode}
        BY <1>2
      <4> QED
        BY <4>1, OfFinite
    <3> HIDE DEF rocks, real
    <3>4. left = 0 + 0 - Of(h, Removed)
      BY <2>1, <3>2
    <3> HIDE DEF left
    <3>5. left <= 0
      BY <3>3, <3>4
    <3>6. (IF left < 0 THEN 0 ELSE left) = 0
      BY <3>3, <3>4, <3>5
    <3> QED
      BY <2>4, <3>2, <3>6
  <2> QED
    BY <2>5, <2>6
<1>5. Written(store).parity = [h \in AllHashes |-> Of(h, rocks)]
  <2>1. Written(store).parity = [h \in AllHashes |-> Written(store).parity[h]]
    BY DEF Written
  <2> HIDE DEF rocks
  <2> QED
    BY <1>4, <2>1
<1> QED
  BY <1>1, <1>2, <1>5 DEF Counted

(* For any nodes and hashes, whatever is generated, committed and run. *)
LEMMA StoreInvariance == StoreSpec => []StoreIInv
<1>1. StoreInit => StoreIInv
  <2> SUFFICES ASSUME StoreInit PROVE StoreIInv
    OBVIOUS
  <2>1. /\ overlay = [node \in {NullNode} |-> "inserted"] /\ trie = {NullNode}
        /\ work = "generating" /\ seed = EmptyStore /\ copy = EmptyStore
    BY DEF StoreInit
  <2>2. /\ DOMAIN overlay = {NullNode} /\ Inserted = {NullNode} /\ Removed = {}
        /\ \A node \in DOMAIN overlay : overlay[node] = "inserted"
    <3>1. DOMAIN overlay = {NullNode} /\ overlay[NullNode] = "inserted"
      BY <2>1
    <3> HIDE DEF NullNode
    <3> QED
      BY <3>1 DEF Inserted, Removed
  <2>3. Counted(EmptyStore) /\ EmptyStore.rocks = {}
    <3>1. ASSUME NEW h PROVE Of(h, {}) = 0
      BY FS_EmptySet DEF Of
    <3> QED
      BY <3>1 DEF Counted, EmptyStore
  <2> QED
    BY <2>1, <2>2, <2>3 DEF StoreIInv, CurrentStore
<1>2. StoreIInv /\ [StoreNext]_storeVars => StoreIInv'
  <2> SUFFICES ASSUME StoreIInv, [StoreNext]_storeVars PROVE StoreIInv'
    OBVIOUS
  <2>1. ASSUME NEW nodes \in SUBSET Nodes, Generate(nodes) PROVE StoreIInv'
    <3>1. /\ work = "generating" /\ work' = "generated"
          /\ overlay' = Overlaid(nodes, {NullNode})
          /\ trie' = nodes /\ seed' = seed /\ copy' = copy
      BY <2>1 DEF Generate
    <3>2. DOMAIN overlay = {NullNode} /\ seed.rocks = {}
      BY <3>1 DEF StoreIInv
    <3>3. NullNode \notin nodes
      BY NullApart
    <3>4. /\ DOMAIN overlay' = nodes \cup {NullNode}
          /\ \A node \in nodes : overlay'[node] = "inserted"
          /\ overlay'[NullNode] = "removed"
      BY <3>1, <3>2, <3>3 DEF Overlaid
    <3>5. Inserted' = nodes /\ Removed' = {NullNode}
      BY <3>3, <3>4 DEF Inserted, Removed
    <3>6. CurrentStore' = seed
      BY <3>1 DEF CurrentStore
    <3>7. Counted(seed)' /\ Counted(copy)'
      BY <3>1 DEF StoreIInv, Counted
    <3>8. trie' = (CurrentStore'.rocks \cup Inserted') \ Removed'
      BY <3>1, <3>2, <3>3, <3>5, <3>6
    <3> QED
      BY <3>1, <3>2, <3>4, <3>5, <3>6, <3>7, <3>8 DEF StoreIInv
  <2>2. ASSUME overlay' = NoOverlay
        PROVE  DOMAIN overlay' = {} /\ Inserted' = {} /\ Removed' = {}
    BY <2>2 DEF NoOverlay, Inserted, Removed
  <2>3. ASSUME work # "generating"
        PROVE  /\ Counted(Written(CurrentStore))
               /\ Written(CurrentStore).rocks = trie
    <3>1. Counted(CurrentStore)
      BY DEF StoreIInv, CurrentStore
    <3>2. /\ Inserted \subseteq Nodes /\ Inserted \cap CurrentStore.rocks = {}
          /\ Removed \subseteq CurrentStore.rocks \cup {NullNode}
          /\ trie = (CurrentStore.rocks \cup Inserted) \ Removed
      BY <2>3 DEF StoreIInv
    <3> QED
      BY <3>1, <3>2, WrittenCounted
  <2>4. CASE WriteSeed
    <3>1. /\ work = "generated" /\ work' = "idle" /\ seed' = Written(seed)
          /\ overlay' = NoOverlay /\ copy' = copy /\ trie' = trie
      BY <2>4 DEF WriteSeed
    <3>2. CurrentStore = seed /\ CurrentStore' = Written(seed)
      BY <3>1 DEF CurrentStore
    <3>3. Counted(seed)' /\ Counted(copy)'
      BY <2>3, <3>1, <3>2 DEF StoreIInv, Counted
    <3> QED
      BY <2>2, <2>3, <3>1, <3>2, <3>3 DEF StoreIInv
  <2>5. CASE StartRun
    <3>1. /\ work = "idle" /\ work' = "running" /\ copy' = seed
          /\ seed' = seed /\ overlay' = overlay /\ trie' = trie
      BY <2>5 DEF StartRun
    <3>2. CurrentStore = seed /\ CurrentStore' = seed
      BY <3>1 DEF CurrentStore
    <3>3. Inserted' = Inserted /\ Removed' = Removed
      BY <3>1 DEF Inserted, Removed
    <3>4. Counted(seed)' /\ Counted(copy)'
      BY <3>1 DEF StoreIInv, Counted
    <3> QED
      BY <3>1, <3>2, <3>3, <3>4 DEF StoreIInv
  <2>6. CASE WriteRun
    <3>1. /\ work = "committed" /\ work' = "written" /\ copy' = Written(copy)
          /\ overlay' = NoOverlay /\ seed' = seed /\ trie' = trie
      BY <2>6 DEF WriteRun
    <3>2. CurrentStore = copy /\ CurrentStore' = Written(copy)
      BY <3>1 DEF CurrentStore
    <3>3. Counted(seed)' /\ Counted(copy)'
      BY <2>3, <3>1, <3>2 DEF StoreIInv, Counted
    <3> QED
      BY <2>2, <2>3, <3>1, <3>2, <3>3 DEF StoreIInv
  <2>7. CASE EndRun
    <3>1. /\ work \in {"running", "written"} /\ work' = "idle" /\ trie' = seed.rocks
          /\ seed' = seed /\ copy' = copy /\ overlay' = overlay
      BY <2>7 DEF EndRun
    <3>2. CurrentStore' = seed
      BY <3>1 DEF CurrentStore
    <3>3. DOMAIN overlay = {} /\ Inserted' = {} /\ Removed' = {}
      BY <3>1 DEF StoreIInv, Inserted, Removed
    <3>4. Counted(seed)' /\ Counted(copy)'
      BY <3>1 DEF StoreIInv, Counted
    <3> QED
      BY <3>1, <3>2, <3>3, <3>4 DEF StoreIInv
  <2>8. ASSUME NEW insert \in SUBSET Nodes, NEW remove \in SUBSET Nodes,
               CommitRun(insert, remove)
        PROVE  StoreIInv'
    <3>1. /\ work = "running" /\ work' = "committed"
          /\ insert \cap trie = {} /\ remove \subseteq trie
          /\ overlay' = Overlaid(insert, remove) /\ trie' = (trie \cup insert) \ remove
          /\ seed' = seed /\ copy' = copy
      BY <2>8 DEF CommitRun
    <3>2. CurrentStore = copy /\ CurrentStore' = copy
      BY <3>1 DEF CurrentStore
    <3>3. DOMAIN overlay = {} /\ Inserted = {} /\ Removed = {} /\ trie = copy.rocks
      BY <3>1, <3>2 DEF StoreIInv, Inserted, Removed
    <3>4. /\ DOMAIN overlay' = insert \cup remove
          /\ \A node \in insert : overlay'[node] = "inserted"
          /\ \A node \in remove : overlay'[node] = "removed"
      BY <3>1, <3>3 DEF Overlaid
    <3>5. Inserted' = insert /\ Removed' = remove
      BY <3>1, <3>4 DEF Inserted, Removed
    <3>6. Counted(seed)' /\ Counted(copy)'
      BY <3>1 DEF StoreIInv, Counted
    <3> QED
      BY <3>1, <3>2, <3>3, <3>4, <3>5, <3>6 DEF StoreIInv
  <2>9. ASSUME UNCHANGED <<seed, copy, overlay, trie, work>> PROVE StoreIInv'
    BY <2>9 DEF StoreIInv, CurrentStore, Inserted, Removed, Counted
  <2> QED
    BY <2>1, <2>4, <2>5, <2>6, <2>7, <2>8, <2>9 DEF StoreNext, storeVars
<1> QED
  BY <1>1, <1>2, PTL DEF StoreSpec

(* StoreTypeOK: the databases and the overlay know no nodes but those that   *)
(* tries are made of, and ParityDb counts references with naturals           *)
(* (bench/src/simple_trie.rs, bench/src/tempdb.rs).                          *)
THEOREM StoreTyped == StoreSpec => []StoreTypeOK
<1>1. StoreIInv => StoreTypeOK
  <2> SUFFICES ASSUME StoreIInv PROVE StoreTypeOK
    OBVIOUS
  <2>1. ASSUME NEW s, Counted(s)
        PROVE  s.rocks \subseteq Nodes \cup {NullNode} /\ s.parity \in [AllHashes -> Nat]
    <3>1. \A h \in AllHashes : Of(h, s.rocks) \in Nat
      BY <2>1, OfFinite DEF Counted
    <3> QED
      BY <2>1, <3>1 DEF Counted
  <2>2. /\ Counted(seed) /\ Counted(copy) /\ DOMAIN overlay \subseteq Nodes \cup {NullNode}
        /\ trie = (CurrentStore.rocks \cup Inserted) \ Removed
    BY DEF StoreIInv
  <2>3. CurrentStore.rocks \subseteq Nodes \cup {NullNode}
    BY <2>1, <2>2 DEF CurrentStore
  <2>4. trie \subseteq Nodes \cup {NullNode}
    BY <2>2, <2>3 DEF Inserted
  <2> QED
    BY <2>1, <2>2, <2>4 DEF StoreTypeOK
<1> QED
  BY <1>1, StoreInvariance, PTL

(* DatabasesAgree: of one trie that is overlaid, written and removed from,   *)
(* RocksDb has exactly the nodes and ParityDb as many references as a node   *)
(* has places (bench/src/tempdb.rs, ref_counted; simple_trie.rs, get).       *)
THEOREM BothDatabasesHoldTheTrie == StoreSpec => []DatabasesAgree
<1>1. StoreIInv => DatabasesAgree
  <2> SUFFICES ASSUME StoreIInv PROVE DatabasesAgree
    OBVIOUS
  <2>1. /\ Counted(seed) /\ Counted(copy) /\ Counted(CurrentStore)
        /\ trie = (CurrentStore.rocks \cup Inserted) \ Removed
        /\ \A node \in DOMAIN overlay : overlay[node] \in {"inserted", "removed"}
    BY DEF StoreIInv, CurrentStore
  <2>2. \A s \in {seed, copy}, h \in AllHashes : s.parity[h] = Of(h, s.rocks)
    BY <2>1 DEF Counted
  <2>3. ASSUME NEW node \in trie
        PROVE  GetRocks(CurrentStore, node) /\ GetParity(CurrentStore, node)
    <3>1. CASE node \in DOMAIN overlay
      BY <2>1, <3>1 DEF GetRocks, GetParity, Removed
    <3>2. CASE node \notin DOMAIN overlay
      <4> DEFINE same == { other \in CurrentStore.rocks : Hash(other) = Hash(node) }
      <4>1. node \in CurrentStore.rocks
        BY <2>1, <3>2 DEF Inserted
      <4>2. CurrentStore.rocks \subseteq Nodes
        BY <2>1 DEF Counted
      <4>3. Hash(node) \in AllHashes
        <5>1. node[2] \in Hashes
          BY <4>1, <4>2 DEF Nodes
        <5> QED
          BY <5>1 DEF Hash, AllHashes
      <4>4. IsFiniteSet(same) /\ node \in same
        BY <4>1, <4>2, OfFinite
      <4>5. Cardinality(same) \in Nat /\ Cardinality(same) # 0
        BY <4>4, FS_CardinalityType, FS_EmptySet
      <4>6. CurrentStore.parity[Hash(node)] = Cardinality(same)
        BY <2>1, <4>3 DEF Counted, Of
      <4> HIDE DEF same
      <4> QED
        BY <3>2, <4>1, <4>5, <4>6 DEF GetRocks, GetParity
    <3> QED
      BY <3>1, <3>2
  <2>4. ASSUME NEW node \in Nodes \ trie PROVE ~GetRocks(CurrentStore, node)
    BY <2>1, <2>4 DEF GetRocks, Inserted, Removed
  <2> QED
    BY <2>2, <2>3, <2>4 DEF DatabasesAgree, CurrentStore
<1> QED
  BY <1>1, StoreInvariance, PTL

-----------------------------------------------------------------------------
(***************************************************************************)
(* SamplesComplete for every sample size and every size of the database    *)
(* that is a multiple of it: the loop of trie.rs keeps exactly the keys    *)
(* whose index is a multiple of that ratio, and so as many as it asserts.  *)
(***************************************************************************)

(* A multiple is its quotient as often as the divisor says.                  *)
LEMMA WholeQuotient ==
    ASSUME NEW i \in Int, NEW e \in Nat \ {0}, i % e = 0
    PROVE  i \div e \in Int /\ i = (i \div e) * e
<1> DEFINE q == i \div e
<1>1. q \in Int /\ i = e * q + (i % e)
  BY DivMod
<1> HIDE DEF q
<1>2. e * q \in Int /\ e * q = q * e
  BY <1>1
<1>3. i = q * e
  BY <1>1, <1>2
<1> QED
  BY <1>1, <1>3 DEF q

(* A number has one quotient, and one remainder below the divisor.           *)
LEMMA OneQuotient ==
    ASSUME NEW a \in Int, NEW b \in Int, NEW e \in Nat \ {0},
           NEW r \in 0 .. e - 1, NEW s \in 0 .. e - 1, e * a + r = e * b + s
    PROVE  a = b /\ r = s
<1>1. e * a \in Int /\ e * b \in Int
  OBVIOUS
<1>2. CASE a < b
  <2>1. e * a + e <= e * b
    BY <1>2, Multiples
  <2> QED
    BY <1>1, <2>1
<1>3. CASE b < a
  <2>1. e * b + e <= e * a
    BY <1>3, Multiples
  <2> QED
    BY <1>1, <2>1
<1>4. CASE a = b
  BY <1>1, <1>4
<1> QED
  BY <1>2, <1>3, <1>4

(* And they are those that it is made of.                                    *)
LEMMA RemainderOf ==
    ASSUME NEW a \in Int, NEW e \in Nat \ {0}, NEW r \in 0 .. e - 1
    PROVE  (e * a + r) % e = r /\ (e * a + r) \div e = a
<1> DEFINE i == e * a + r
<1>1. i \in Int
  OBVIOUS
<1>2. /\ i \div e \in Int /\ i % e \in 0 .. e - 1
      /\ e * a + r = e * (i \div e) + (i % e)
  <2> HIDE DEF i
  <2>1. i \div e \in Int /\ i % e \in 0 .. e - 1 /\ i = e * (i \div e) + (i % e)
    BY <1>1, DivMod
  <2> QED
    BY <2>1 DEF i
<1>3. ASSUME NEW q \in Int, NEW s \in 0 .. e - 1, e * a + r = e * q + s
      PROVE  a = q /\ r = s
  BY <1>3, OneQuotient
<1> HIDE DEF i
<1>4. a = i \div e /\ r = i % e
  BY <1>2, <1>3
<1> QED
  BY <1>4 DEF i

(* Of every e numbers below a multiple of e, one has a given remainder.      *)
LEMMA SamplesCount ==
    ASSUME NEW n \in Nat, NEW e \in Nat \ {0}, NEW r \in 0 .. e - 1
    PROVE  LET T == { i \in 0 .. (e * n) - 1 : i % e = r }
           IN  IsFiniteSet(T) /\ Cardinality(T) = n
<1> DEFINE T == { i \in 0 .. (e * n) - 1 : i % e = r }
           f == [j \in 1 .. n |-> e * (j - 1) + r]
<1>1. ASSUME NEW j \in 1 .. n
      PROVE  e * (j - 1) + r \in T
  <2>1. e * (j - 1) + e <= e * n
    BY Multiples
  <2>2. e * (j - 1) >= e * 0
    <3>1. CASE j = 1
      BY <3>1
    <3>2. CASE 0 < j - 1
      <4>1. e * 0 + e <= e * (j - 1)
        BY <3>2, Multiples
      <4> QED
        BY <4>1
    <3> QED
      BY <3>1, <3>2
  <2>3. (e * (j - 1) + r) % e = r
    BY RemainderOf
  <2>4. e * (j - 1) \in Int /\ e * n \in Int /\ e * 0 = 0
    OBVIOUS
  <2>5. e * (j - 1) + r \in 0 .. (e * n) - 1
    BY <2>1, <2>2, <2>4
  <2> QED
    BY <2>3, <2>5
<1>2. \A j, k \in 1 .. n : f[j] = f[k] => j = k
  <2> SUFFICES ASSUME NEW j \in 1 .. n, NEW k \in 1 .. n,
                      e * (j - 1) + r = e * (k - 1) + r
               PROVE  j = k
    OBVIOUS
  <2>1. j - 1 = k - 1
    BY OneQuotient
  <2> QED
    BY <2>1
<1>3. ASSUME NEW i \in T PROVE \E j \in 1 .. n : f[j] = i
  <2> DEFINE q == i \div e
  <2>1. i \in Int /\ i >= 0 /\ i < e * n /\ i % e = r
    OBVIOUS
  <2>2. q \in Int /\ i = e * q + r
    BY <2>1, DivMod
  <2> HIDE DEF q
  <2>3. q < n
    <3>1. CASE n < q
      <4>1. e * n + e <= e * q
        BY <2>2, <3>1, Multiples
      <4>2. e * n \in Int /\ e * q \in Int
        BY <2>2
      <4> QED
        BY <2>1, <2>2, <4>1, <4>2
    <3>2. CASE n = q
      <4>2. e * n \in Int
        OBVIOUS
      <4> QED
        BY <2>1, <2>2, <3>2, <4>2
    <3> QED
      BY <2>2, <3>1, <3>2
  <2>4. q >= 0
    <3>1. CASE q < 0
      <4>1. e * q + e <= e * 0
        BY <2>2, <3>1, Multiples
      <4>2. e * 0 = 0 /\ e * q \in Int
        BY <2>2
      <4> QED
        BY <2>1, <2>2, <4>1, <4>2
    <3> QED
      BY <2>2, <3>1
  <2>5. PICK j \in 1 .. n : j - 1 = q
    <3>1. q + 1 \in 1 .. n /\ (q + 1) - 1 = q
      BY <2>2, <2>3, <2>4
    <3> QED
      BY <3>1
  <2>6. f[j] = e * q + r
    BY <2>5
  <2> QED
    BY <2>2, <2>5, <2>6
<1>4. f \in [1 .. n -> T]
  BY <1>1
<1> HIDE DEF T, f
<1>5. f \in Bijection(1 .. n, T)
  BY <1>2, <1>3, <1>4, Fun_IsBij
<1>6. ExistsBijection(1 .. n, T)
  BY <1>5, Fun_ExistsBij
<1>7. IsFiniteSet(1 .. n) /\ Cardinality(1 .. n) = n
  BY FS_Interval
<1>8. IsFiniteSet(T) /\ Cardinality(T) = n
  BY <1>6, <1>7, FS_Bijection
<1> QED
  BY <1>8 DEF T

SetupIInv ==
    /\ purpose \in {"none", "read", "write"}
    /\ histogram \in Histograms \cup {<<>>} /\ keys \in DatabaseSizes \cup {0}
    /\ pool = FromHistogram(histogram)
    /\ keys > 0 => Every \in Nat /\ Every >= 2 /\ keys = Every * SampleSize
    /\ idx \in 0 .. keys
    /\ warmup = { i \in 0 .. idx - 1 : i % Every = 0 }
    /\ query = { i \in 0 .. idx - 1 : purpose = "read" /\ i % Every = 1 }
    /\ \A i \in 0 .. idx - 1 :
        <<"drawn", i>> \in inserted /\ (i % Every = 0 => <<"warmup", i>> \in inserted)

(* Through every turn of the loop that fills the trie and takes the samples. *)
LEMMA SetupInvariance == SetupSpec => []SetupIInv
<1>0. /\ SampleSize \in Nat \ {0} /\ DatabaseSizes \subseteq Nat
      /\ \A size \in DatabaseSizes : size >= 2 * SampleSize
  BY SetupAssumption
<1>1. SetupInit => SetupIInv
  BY DEF SetupInit, SetupIInv
<1>2. SetupIInv /\ [SetupNext]_setupVars => SetupIInv'
  <2> SUFFICES ASSUME SetupIInv, [SetupNext]_setupVars PROVE SetupIInv'
    OBVIOUS
  <2>1. ASSUME NEW kind \in {"read", "write"}, Start(kind) PROVE SetupIInv'
    <3>1. /\ keys = 0 /\ purpose' = kind /\ histogram' \in Histograms
          /\ keys' \in DatabaseSizes /\ keys' % SampleSize = 0
          /\ idx' = idx /\ warmup' = warmup /\ query' = query /\ inserted' = inserted
          /\ pool' = FromHistogram(histogram')
      BY <2>1 DEF Start, WholeSamples
    <3>2. idx = 0 /\ warmup = {} /\ query = {}
      BY <3>1 DEF SetupIInv
    <3>3. 0 .. idx' - 1 = {} /\ idx' \in 0 .. keys'
      BY <1>0, <3>1, <3>2
    <3>4. Every' \in Nat /\ Every' >= 2 /\ keys' = Every' * SampleSize
      <4> DEFINE e == keys' \div SampleSize
      <4>1. keys' \in Nat /\ keys' >= 2 * SampleSize
        BY <1>0, <3>1
      <4>2. e \in Int /\ keys' = e * SampleSize
        <5>1. ASSUME NEW k \in Nat, k % SampleSize = 0
              PROVE  k \div SampleSize \in Int /\ k = (k \div SampleSize) * SampleSize
          BY <1>0, <5>1, WholeQuotient
        <5> QED
          BY <3>1, <4>1, <5>1
      <4>3. Every' = e
        BY DEF Every
      <4> HIDE DEF e
      <4>4. SampleSize * e \in Int /\ keys' = SampleSize * e
        BY <1>0, <4>2
      <4>5. ~ e < 2
        <5> SUFFICES ASSUME e < 2 PROVE FALSE
          OBVIOUS
        <5>1. SampleSize * e + SampleSize <= SampleSize * 2
          BY <1>0, <4>2, Multiples
        <5> QED
          BY <1>0, <4>1, <4>4, <5>1
      <4> QED
        BY <1>0, <4>2, <4>3, <4>4, <4>5
    <3> QED
      BY <3>1, <3>2, <3>3, <3>4 DEF SetupIInv
  <2>2. ASSUME idx < keys, idx' = idx + 1, UNCHANGED drawVars,
               warmup' = IF idx % Every = 0 THEN warmup \cup {idx} ELSE warmup,
               query' = IF purpose = "read" /\ idx % Every = 1 THEN query \cup {idx} ELSE query,
               inserted \subseteq inserted', <<"drawn", idx>> \in inserted',
               idx % Every = 0 => <<"warmup", idx>> \in inserted'
        PROVE  SetupIInv'
    <3>1. idx \in Nat /\ keys \in Nat /\ idx \in 0 .. keys
      BY <1>0 DEF SetupIInv
    <3>2. 0 .. idx' - 1 = (0 .. idx - 1) \cup {idx}
      BY <2>2, <3>1
    <3>3. keys' = keys /\ purpose' = purpose /\ histogram' = histogram /\ pool' = pool
      BY <2>2 DEF drawVars
    <3>4. Every' = Every
      BY <3>3 DEF Every
    <3>5. warmup' = { i \in 0 .. idx' - 1 : i % Every = 0 }
      <4>1. warmup = { i \in 0 .. idx - 1 : i % Every = 0 }
        BY DEF SetupIInv
      <4> QED
        BY <2>2, <3>2, <4>1
    <3>6. query' = { i \in 0 .. idx' - 1 : purpose = "read" /\ i % Every = 1 }
      <4>1. query = { i \in 0 .. idx - 1 : purpose = "read" /\ i % Every = 1 }
        BY DEF SetupIInv
      <4> QED
        BY <2>2, <3>2, <4>1
    <3>7. \A i \in 0 .. idx' - 1 :
            <<"drawn", i>> \in inserted' /\ (i % Every = 0 => <<"warmup", i>> \in inserted')
      BY <2>2, <3>2 DEF SetupIInv
    <3>8. idx' \in 0 .. keys
      BY <2>2, <3>1
    <3>9. pool' = FromHistogram(histogram')
      BY <3>3 DEF SetupIInv
    <3> QED
      BY <3>3, <3>4, <3>5, <3>6, <3>7, <3>8, <3>9 DEF SetupIInv
  <2>3. CASE PushWarmup
    BY <2>2, <2>3 DEF PushWarmup, Push, IsWarmup
  <2>4. CASE PushQuery
    BY <2>2, <2>4 DEF PushQuery, Push, IsWarmup, IsQuery
  <2>5. CASE PushOther
    BY <2>2, <2>5 DEF PushOther, Push, IsWarmup, IsQuery
  <2>6. CASE UNCHANGED setupVars
    BY <2>6 DEF SetupIInv, setupVars, drawVars, Every
  <2> QED
    BY <2>1, <2>3, <2>4, <2>5, <2>6 DEF SetupNext, StartRead, StartWrite
<1> QED
  BY <1>1, <1>2, PTL DEF SetupSpec

(* SetupTypeOK: the loop counts up to the keys of the database, and no index *)
(* is kept that it does not have (bench/src/trie.rs, setup).                 *)
THEOREM SetupTyped == SetupSpec => []SetupTypeOK
<1>1. SetupIInv => SetupTypeOK
  <2> SUFFICES ASSUME SetupIInv PROVE SetupTypeOK
    OBVIOUS
  <2>1. /\ keys \in Nat /\ idx \in 0 .. keys
    BY SetupAssumption DEF SetupIInv
  <2>2. warmup \cup query \subseteq 0 .. idx - 1
    BY DEF SetupIInv
  <2>3. 0 .. idx - 1 \subseteq 0 .. keys - 1
    BY <2>1
  <2> QED
    BY <2>1, <2>2, <2>3 DEF SetupTypeOK, SetupIInv
<1> QED
  BY <1>1, SetupInvariance, PTL

(* SamplesComplete: the assertion on the number of keys that were kept to    *)
(* warm up with and to be queried, and that the database has them            *)
(* (bench/src/trie.rs, TrieReadBenchmarkDescription::setup and               *)
(* TrieWriteBenchmarkDescription::setup).                                    *)
THEOREM SamplesAreComplete == SetupSpec => []SamplesComplete
<1>1. SetupIInv => SamplesComplete
  <2> SUFFICES ASSUME SetupIInv PROVE SamplesComplete
    OBVIOUS
  <2>1. \A i \in warmup : <<"warmup", i>> \in inserted
    BY DEF SetupIInv
  <2>2. \A i \in query : <<"drawn", i>> \in inserted
    BY DEF SetupIInv
  <2>3. ASSUME keys > 0, idx = keys
        PROVE  /\ Cardinality(warmup) = SampleSize
               /\ Cardinality(query) = IF purpose = "read" THEN SampleSize ELSE 0
    <3>1. /\ Every \in Nat \ {0} /\ Every >= 2 /\ idx = Every * SampleSize
          /\ SampleSize \in Nat
      BY <2>3, SetupAssumption DEF SetupIInv
    <3> DEFINE Kept(r) == { i \in 0 .. (Every * SampleSize) - 1 : i % Every = r }
    <3>2. 0 \in 0 .. Every - 1 /\ 1 \in 0 .. Every - 1
      BY <3>1
    <3>3. Cardinality(Kept(0)) = SampleSize /\ Cardinality(Kept(1)) = SampleSize
      BY <3>1, <3>2, SamplesCount
    <3>4. warmup = Kept(0)
      BY <3>1 DEF SetupIInv
    <3>5. CASE purpose = "read"
      <4>1. query = Kept(1)
        BY <3>1, <3>5 DEF SetupIInv
      <4> QED
        BY <3>3, <3>4, <3>5, <4>1
    <3>6. CASE purpose # "read"
      <4>1. query = {}
        BY <3>6 DEF SetupIInv
      <4> QED
        BY <3>3, <3>4, <3>6, <4>1, FS_EmptySet
    <3> QED
      BY <3>5, <3>6
  <2> QED
    BY <2>1, <2>2, <2>3 DEF SamplesComplete
<1> QED
  BY <1>1, SetupInvariance, PTL

-----------------------------------------------------------------------------
(***************************************************************************)
(* SharesOfHistogram for every histogram.  The pool has each size under the*)
(* sum of the counts up to it; these sums increase, so that a number is    *)
(* drawn for the one entry between whose sum and the sum before it it lies.*)
(***************************************************************************)

Entries == [size : Nat, count : Nat \ {0}]
Pools == [distribution : SUBSET (Nat \X Nat), total : Nat]

(* FromHistogram enters one size after the other. *)
LEMMA PoolSteps ==
    ASSUME NEW h \in Seq(Entries)
    PROVE  \E f \in [0 .. Len(h) -> Pools] :
             /\ f[0] = [distribution |-> {}, total |-> 0]
             /\ \A k \in 0 .. Len(h) - 1 : f[k + 1] = Enter(f[k], h[k + 1])
             /\ FromHistogram(h) = f[Len(h)]
<1> DEFINE base == [distribution |-> {}, total |-> 0]
    step == [p \in Pools \X Entries |-> Enter(p[1], p[2])]
    Is(g) == g = [x \in SUBSET DOMAIN h |->
                    IF x = {} THEN base
                    ELSE Enter(g[x \ {CHOOSE m \in x : \A y \in x : m >= y}],
                               h[CHOOSE m \in x : \A y \in x : m >= y])]
    fold == CHOOSE g : Is(g)
<1>0. Len(h) \in Nat /\ DOMAIN h = 1 .. Len(h) /\ base \in Pools
  BY DEF Pools
<1>1. step \in [Pools \X Entries -> Pools]
  <2> SUFFICES ASSUME NEW p \in Pools, NEW entry \in Entries PROVE Enter(p, entry) \in Pools
    OBVIOUS
  <2>1. p.total + entry.count \in Nat /\ entry.size \in Nat
    BY DEF Pools, Entries
  <2>2. p.distribution \cup {<<p.total + entry.count, entry.size>>} \in SUBSET (Nat \X Nat)
    BY <2>1 DEF Pools
  <2> QED
    BY <2>1, <2>2 DEF Enter, Pools
<1>2. ASSUME NEW p \in Pools, NEW entry \in Entries
      PROVE  step[<<p, entry>>] = Enter(p, entry)
  OBVIOUS
<1> HIDE DEF base, step
<1>3. ASSUME NEW g, NEW x \in SUBSET (1 .. Len(h)), x # {}, g[x \ {LastOf(x)}] \in Pools
      PROVE  step[<<g[x \ {LastOf(x)}], h[LastOf(x)]>>]
               = Enter(g[x \ {LastOf(x)}], h[LastOf(x)])
  <2>1. LastOf(x) \in 1 .. Len(h)
    BY <1>0, <1>3, LastIn
  <2>2. h[LastOf(x)] \in Entries
    BY <2>1
  <2> QED
    BY <2>2, <1>2, <1>3
<1>4. PICK g \in [SUBSET (1 .. Len(h)) -> Pools] : FoldedBy(g, step, base, h)
  BY <1>0, <1>1, FoldExists, Zenon
<1>5. Is(g)
  <2>1. ASSUME NEW x \in SUBSET (1 .. Len(h)), x # {}
        PROVE  g[x] = Enter(g[x \ {LastOf(x)}], h[LastOf(x)])
    <3>1. g[x \ {LastOf(x)}] \in Pools
      OBVIOUS
    <3> QED
      BY <1>3, <1>4, <2>1, <3>1 DEF FoldedBy
  <2>2. g = [x \in SUBSET (1 .. Len(h)) |->
               IF x = {} THEN base ELSE Enter(g[x \ {LastOf(x)}], h[LastOf(x)])]
    BY <1>4, <2>1 DEF FoldedBy
  <2> QED
    BY <2>2, <1>0 DEF LastOf
<1>6. Is(fold)
  <2> HIDE DEF Is
  <2> QED
    BY <1>5
<1>7. FromHistogram(h) = fold[DOMAIN h]
  BY DEF FromHistogram, FoldLeft, MapThenFoldSet, Max, base
<1> HIDE DEF fold
<1>8. \A x \in SUBSET (1 .. Len(h)) :
        fold[x] = IF x = {} THEN base ELSE Enter(fold[x \ {LastOf(x)}], h[LastOf(x)])
  BY <1>6, <1>0 DEF LastOf
<1>9. PICK f \in [0 .. Len(h) -> Pools] :
        Follows(f, step, base, h) /\ f[Len(h)] = fold[1 .. Len(h)]
  <2>1. Unfolds(fold, Pools, step, base, h)
    BY <1>3, <1>8 DEF Unfolds
  <2>2. base \in Pools /\ Reached(fold, Pools, step, base, h)
    BY <1>0, <1>1, <2>1, FoldSteps, Zenon
  <2> QED
    BY <2>2 DEF Reached
<1>10. ASSUME NEW k \in 0 .. Len(h) - 1 PROVE f[k + 1] = Enter(f[k], h[k + 1])
  <2>1. k \in 0 .. Len(h) /\ k + 1 \in 1 .. Len(h)
    BY <1>0
  <2>2. f[k] \in Pools /\ h[k + 1] \in Entries
    BY <2>1
  <2> QED
    BY <1>2, <1>9, <2>2 DEF Follows
<1> QED
  BY <1>0, <1>7, <1>9, <1>10 DEF base, Follows

(* P[k] is the sum of the counts of the first k entries. *)
Totals(P, h) ==
  /\ P \in [0 .. Len(h) -> Nat] /\ P[0] = 0
  /\ \A k \in 0 .. Len(h) - 1 : P[k + 1] = P[k] + h[k + 1].count

(* The pool has each size under the sum of the counts up to it. *)
LEMMA PoolShape ==
    ASSUME NEW h \in Seq(Entries)
    PROVE  \E P : /\ Totals(P, h)
                  /\ FromHistogram(h)
                       = [distribution |-> {<<P[i], h[i].size>> : i \in 1 .. Len(h)},
                          total |-> P[Len(h)]]
<1>0. Len(h) \in Nat
  OBVIOUS
<1>1. PICK f \in [0 .. Len(h) -> Pools] :
        /\ f[0] = [distribution |-> {}, total |-> 0]
        /\ \A k \in 0 .. Len(h) - 1 : f[k + 1] = Enter(f[k], h[k + 1])
        /\ FromHistogram(h) = f[Len(h)]
  BY PoolSteps
<1> DEFINE P == [k \in 0 .. Len(h) |-> f[k].total]
           Entered(k) == {<<P[i], h[i].size>> : i \in 1 .. k}
           S == {k \in 0 .. Len(h) : f[k].distribution = Entered(k)}
<1>2. \A k \in 0 .. Len(h) : P[k] = f[k].total /\ P[k] \in Nat /\ f[k] \in Pools
  BY DEF Pools
<1>3. P \in [0 .. Len(h) -> Nat] /\ P[0] = 0
  BY <1>0, <1>1, <1>2
<1> HIDE DEF P
<1>4. ASSUME NEW k \in 0 .. Len(h) - 1
      PROVE  /\ P[k + 1] = P[k] + h[k + 1].count
             /\ f[k + 1].distribution = f[k].distribution \cup {<<P[k + 1], h[k + 1].size>>}
  <2>1. k \in 0 .. Len(h) /\ k + 1 \in 0 .. Len(h)
    BY <1>0
  <2>2. f[k + 1] = [distribution |->
                      f[k].distribution \cup {<<f[k].total + h[k + 1].count, h[k + 1].size>>},
                    total |-> f[k].total + h[k + 1].count]
    BY <1>1 DEF Enter
  <2> QED
    BY <2>1, <2>2, <1>2
<1>5. S = 0 .. Len(h)
  <2>1. 0 \in S
    BY <1>0, <1>1
  <2>2. ASSUME NEW k \in 0 .. Len(h) - 1, k \in S PROVE k + 1 \in S
    <3>1. k + 1 \in 0 .. Len(h) /\ f[k].distribution = Entered(k)
      BY <1>0, <2>2
    <3>2. 1 .. k + 1 = (1 .. k) \cup {k + 1}
      OBVIOUS
    <3>3. Entered(k + 1) = Entered(k) \cup {<<P[k + 1], h[k + 1].size>>}
      BY <3>2
    <3> HIDE DEF Entered
    <3> QED
      BY <1>4, <3>1, <3>3
  <2>3. S \in SUBSET (0 .. Len(h))
    OBVIOUS
  <2> HIDE DEF S
  <2> QED
    BY <1>0, <2>1, <2>2, <2>3, AllOf
<1>6. Len(h) \in 0 .. Len(h)
  BY <1>0
<1>7. f[Len(h)] = [distribution |-> Entered(Len(h)), total |-> P[Len(h)]]
  <2>1. f[Len(h)].distribution = Entered(Len(h))
    BY <1>5, <1>6
  <2>2. f[Len(h)] \in Pools /\ f[Len(h)].total = P[Len(h)]
    BY <1>2, <1>6
  <2> HIDE DEF Entered
  <2> QED
    BY <2>1, <2>2 DEF Pools
<1>8. Totals(P, h)
  BY <1>3, <1>4 DEF Totals
<1>9. FromHistogram(h)
        = [distribution |-> {<<P[i], h[i].size>> : i \in 1 .. Len(h)}, total |-> P[Len(h)]]
  BY <1>1, <1>7
<1> QED
  BY <1>8, <1>9

(* The totals increase, since nothing is counted less than once. *)
LEMMA TotalsIncrease ==
    ASSUME NEW h \in Seq(Entries), NEW P, Totals(P, h),
           NEW i \in 0 .. Len(h), NEW j \in 0 .. Len(h), i < j
    PROVE  P[i] < P[j]
<1> DEFINE S == {k \in 0 .. Len(h) : \A l \in 0 .. Len(h) : l < k => P[l] < P[k]}
<1>0. Len(h) \in Nat
  OBVIOUS
<1>1. 0 \in S
  BY <1>0
<1>2. ASSUME NEW k \in 0 .. Len(h) - 1, k \in S PROVE k + 1 \in S
  <2>1. k \in 0 .. Len(h) /\ k + 1 \in 0 .. Len(h) /\ k + 1 \in 1 .. Len(h)
    BY <1>0
  <2>2. h[k + 1] \in Entries
    BY <2>1
  <2>3. h[k + 1].count \in Nat \ {0}
    BY <2>2 DEF Entries
  <2>4. P[k] < P[k + 1] /\ P[k] \in Nat /\ P[k + 1] \in Nat
    BY <2>1, <2>3 DEF Totals
  <2>5. ASSUME NEW l \in 0 .. Len(h), l < k + 1 PROVE P[l] < P[k + 1]
    <3>1. P[l] \in Nat
      BY DEF Totals
    <3>2. l < k \/ l = k
      BY <2>1, <2>5
    <3>3. l < k => P[l] < P[k]
      BY <1>2
    <3> QED
      BY <2>4, <3>1, <3>2, <3>3
  <2> QED
    BY <2>1, <2>5
<1>3. S = 0 .. Len(h)
  <2>1. S \in SUBSET (0 .. Len(h))
    OBVIOUS
  <2> HIDE DEF S
  <2> QED
    BY <1>0, <1>1, <1>2, <2>1, AllOf
<1> QED
  BY <1>3

(* A number is drawn for the first entry whose total it does not exceed. *)
LEMMA DrawnFor ==
    ASSUME NEW h \in Seq(Entries), NEW P, Totals(P, h),
           \A i, j \in DOMAIN h : i < j => h[i].size < h[j].size,
           NEW p, p.distribution = {<<P[i], h[i].size>> : i \in 1 .. Len(h)},
           NEW sr \in Nat, sr < P[Len(h)]
    PROVE  /\ SizesAt(p, sr) # {}
           /\ \A i \in 1 .. Len(h) :
                h[i].size \in SizesAt(p, sr) <=> sr <= P[i] /\ (i = 1 \/ P[i - 1] < sr)
<1> DEFINE n == Len(h)
<1>0. n \in Nat /\ DOMAIN h = 1 .. n
      /\ \A i \in 1 .. n : h[i].size \in Nat
  <2>1. \A i \in 1 .. n : h[i] \in Entries
    OBVIOUS
  <2> QED
    BY <2>1 DEF Entries
<1> HIDE DEF n
<1>1. \A i \in 0 .. n : P[i] \in Nat
  BY DEF Totals, n
<1>2. \A i, j \in 0 .. n : i < j => P[i] < P[j]
  BY TotalsIncrease DEF n
<1> DEFINE First(i) == sr <= P[i] /\ \A j \in 1 .. n : sr <= P[j] => P[i] <= P[j]
<1>3. ASSUME NEW x
      PROVE  x \in SizesAt(p, sr) <=> \E i \in 1 .. n : x = h[i].size /\ First(i)
  <2> DEFINE dist == p.distribution
             Least1(d) == d[1] >= sr /\ \A f \in dist : f[1] >= sr => d[1] <= f[1]
  <2>1. x \in SizesAt(p, sr) <=> \E d \in dist : x = d[2] /\ Least1(d)
    <3>1. SizesAt(p, sr) = {e[2] : e \in {d \in dist : Least1(d)}}
      BY DEF SizesAt
    <3> HIDE DEF Least1, dist
    <3> QED
      BY <3>1
  <2>2. dist = {<<P[i], h[i].size>> : i \in 1 .. n}
    BY DEF n
  <2>3. ASSUME NEW i \in 1 .. n
        PROVE  First(i) <=> Least1(<<P[i], h[i].size>>)
    <3>1. \A j \in 1 .. n : P[j] \in Nat
      BY <1>0, <1>1
    <3>2. (\A f \in dist : f[1] >= sr => P[i] <= f[1])
            <=> \A j \in 1 .. n : P[j] >= sr => P[i] <= P[j]
      <4> HIDE DEF dist
      <4>1. \A j \in 1 .. n : <<P[j], h[j].size>> \in dist /\ <<P[j], h[j].size>>[1] = P[j]
        BY <2>2
      <4>2. \A f \in dist : \E j \in 1 .. n : f[1] = P[j]
        BY <2>2
      <4> QED
        BY <4>1, <4>2
    <3> HIDE DEF dist
    <3> QED
      BY <3>1, <3>2
  <2> HIDE DEF First, Least1, dist
  <2>4. \A i \in 1 .. n : <<P[i], h[i].size>> \in dist
    BY <2>2
  <2>5. \A d \in dist : \E i \in 1 .. n : d = <<P[i], h[i].size>>
    BY <2>2
  <2>6. ASSUME NEW i \in 1 .. n, x = h[i].size, First(i) PROVE x \in SizesAt(p, sr)
    <3>1. x = <<P[i], h[i].size>>[2]
      BY <2>6
    <3> QED
      BY <2>1, <2>3, <2>4, <2>6, <3>1
  <2>7. ASSUME x \in SizesAt(p, sr) PROVE \E i \in 1 .. n : x = h[i].size /\ First(i)
    <3>1. PICK d \in dist : x = d[2] /\ Least1(d)
      BY <2>1, <2>7
    <3>2. PICK i \in 1 .. n : d = <<P[i], h[i].size>>
      BY <2>5
    <3>3. x = h[i].size /\ Least1(<<P[i], h[i].size>>)
      BY <3>1, <3>2
    <3> QED
      BY <2>3, <3>3
  <2> QED
    BY <2>6, <2>7
<1>4. ASSUME NEW i \in 1 .. n
      PROVE  First(i) <=> sr <= P[i] /\ (i = 1 \/ P[i - 1] < sr)
  <2>1. i \in 0 .. n /\ i - 1 \in 0 .. n /\ (i # 1 => i - 1 \in 1 .. n) /\ i - 1 < i
    BY <1>0
  <2>2. P[i] \in Nat /\ P[i - 1] \in Nat /\ P[i - 1] < P[i]
    BY <2>1, <1>1, <1>2
  <2>3. First(i) => sr <= P[i] /\ (i = 1 \/ P[i - 1] < sr)
    BY <2>1, <2>2
  <2>4. ASSUME sr <= P[i], i = 1 \/ P[i - 1] < sr, NEW j \in 1 .. n, sr <= P[j]
        PROVE  P[i] <= P[j]
    <3>1. j \in 0 .. n /\ P[j] \in Nat
      BY <1>0, <1>1
    <3>2. CASE j < i
      <4>a. i \in Int /\ j \in Int
        BY <1>0
      <4>1. j = i - 1 \/ j < i - 1
        BY <3>2, <4>a
      <4>2. P[j] <= P[i - 1]
        BY <4>1, <3>1, <2>1, <2>2, <1>2
      <4>3. i # 1
        BY <3>2
      <4> QED
        BY <4>2, <4>3, <3>1, <2>2, <2>4
    <3>3. CASE i = j
      BY <3>3, <2>2
    <3>4. CASE i < j
      BY <3>4, <3>1, <2>1, <2>2, <1>2
    <3> QED
      BY <3>2, <3>3, <3>4, <1>0
  <2> QED
    BY <2>3, <2>4
<1>5. SizesAt(p, sr) # {}
  <2> DEFINE Enough == {i \in 1 .. n : sr <= P[i]}
  <2>1. n \in Enough
    <3>1. n # 0
      BY DEF n, Totals
    <3>2. n \in 1 .. n /\ P[n] \in Nat
      BY <3>1, <1>0, <1>1
    <3> QED
      BY <3>2 DEF n
  <2>2. PICK i \in Enough : \A j \in Enough : i <= j
    <3>1. Enough \in SUBSET Nat
      BY <1>0
    <3> HIDE DEF Enough
    <3> QED
      BY <3>1, <2>1, LeastOf
  <2>3. i \in 1 .. n /\ sr <= P[i] /\ (i # 1 => i - 1 \in 1 .. n) /\ i - 1 < i
    BY <1>0
  <2>4. i = 1 \/ P[i - 1] < sr
    BY <2>2, <2>3, <1>0, <1>1
  <2>5. First(i)
    <3> HIDE DEF First
    <3> QED
      BY <2>3, <2>4, <1>4
  <2> HIDE DEF First
  <2>6. h[i].size \in SizesAt(p, sr)
    BY <1>3, <2>3, <2>5
  <2> QED
    BY <2>6
<1>6. ASSUME NEW i \in 1 .. n
      PROVE  h[i].size \in SizesAt(p, sr) <=> First(i)
  <2> HIDE DEF First
  <2>1. \A j \in 1 .. n : h[i].size = h[j].size => i = j
    <3> SUFFICES ASSUME NEW j \in 1 .. n, h[i].size = h[j].size, i # j PROVE FALSE
      OBVIOUS
    <3>1. i < j \/ j < i
      BY <1>0
    <3>2. h[i].size < h[j].size \/ h[j].size < h[i].size
      BY <3>1, <1>0
    <3>3. h[i].size \in Nat
      BY <1>0
    <3> QED
      BY <3>2, <3>3
  <2> QED
    BY <2>1, <1>3
<1> HIDE DEF First
<1> QED
  BY <1>4, <1>5, <1>6 DEF n

(* Of each size the numbers drawn for it are as many as the histogram        *)
(* counts, and one more for the first and one less for the last.            *)
LEMMA SharesAreCounts ==
    ASSUME NEW h, StateDistribution(h), NEW i \in DOMAIN h
    PROVE  LET p == FromHistogram(h)
               draws == { sr \in 0 .. p.total - 1 : h[i].size \in SizesAt(p, sr) }
           IN  /\ Cardinality(draws) - h[i].count \in -1 .. 1
               /\ \A sr \in 0 .. p.total - 1 : SizesAt(p, sr) # {}
<1> DEFINE n == Len(h)
           p == FromHistogram(h)
           draws == { sr \in 0 .. p.total - 1 : h[i].size \in SizesAt(p, sr) }
<1>1. h \in Seq(Entries) /\ \A j, k \in DOMAIN h : j < k => h[j].size < h[k].size
  BY DEF StateDistribution, Entries
<1>2. n \in Nat /\ DOMAIN h = 1 .. n /\ i \in 1 .. n
  BY <1>1
<1>3. PICK P : /\ Totals(P, h)
               /\ p = [distribution |-> {<<P[j], h[j].size>> : j \in 1 .. n}, total |-> P[n]]
  BY <1>1, PoolShape
<1> HIDE DEF p
<1>4. p.total = P[n] /\ p.distribution = {<<P[j], h[j].size>> : j \in 1 .. n}
  BY <1>3
<1>5. /\ P[i] \in Nat /\ P[i - 1] \in Nat /\ P[n] \in Nat /\ P[0] = 0
      /\ P[i] = P[i - 1] + h[i].count /\ (i # n => P[i] < P[n])
      /\ (i # 1 => P[i - 1] > 0)
  <2>1. i \in 0 .. n /\ i - 1 \in 0 .. n - 1 /\ i - 1 \in 0 .. n /\ n \in 0 .. n /\ 0 \in 0 .. n
    BY <1>2
  <2>2. (i - 1) + 1 = i
    BY <1>2
  <2>3. \A k \in 0 .. n - 1 : P[k + 1] = P[k] + h[k + 1].count
    BY <1>3 DEF Totals
  <2>4. P[i] = P[i - 1] + h[i].count
    BY <2>1, <2>2, <2>3
  <2>5. i # n => P[i] < P[n]
    BY <2>1, <1>1, <1>2, <1>3, TotalsIncrease
  <2>6. P[0] = 0 /\ \A k \in 0 .. n : P[k] \in Nat
    BY <1>3 DEF Totals
  <2>7. i # 1 => P[0] < P[i - 1]
    BY <2>1, <1>1, <1>2, <1>3, TotalsIncrease
  <2> QED
    BY <2>1, <2>4, <2>5, <2>6, <2>7
<1>6. h[i].count \in Nat \ {0}
  <2>1. h[i] \in Entries
    BY <1>1, <1>2
  <2> QED
    BY <2>1 DEF Entries
<1>7. ASSUME NEW sr \in 0 .. p.total - 1
      PROVE  /\ SizesAt(p, sr) # {}
             /\ h[i].size \in SizesAt(p, sr) <=> sr <= P[i] /\ (i = 1 \/ P[i - 1] < sr)
  <2>1. sr \in Nat /\ sr < P[Len(h)]
    BY <1>4, <1>5
  <2> QED
    BY <2>1, <1>1, <1>2, <1>3, <1>4, DrawnFor
<1> DEFINE lo == IF i = 1 THEN 0 ELSE P[i - 1] + 1
           hi == IF i = n THEN P[n] - 1 ELSE P[i]
<1>8. draws = lo .. hi
  <2>1. ASSUME NEW sr \in Int
        PROVE  sr \in draws <=> sr \in lo .. hi
    <3>1. sr \in draws <=> /\ 0 <= sr /\ sr <= P[n] - 1
                           /\ sr <= P[i] /\ (i = 1 \/ P[i - 1] < sr)
      BY <1>4, <1>5, <1>7
    <3> HIDE DEF draws
    <3> QED
      BY <3>1, <1>2, <1>5
  <2>2. draws \in SUBSET Int /\ lo .. hi \in SUBSET Int
    BY <1>4, <1>5
  <2> HIDE DEF draws, lo, hi
  <2> QED
    BY <2>1, <2>2
<1>9. lo \in Int /\ hi \in Int
  BY <1>5
<1>10. Cardinality(draws) = IF lo > hi THEN 0 ELSE hi - lo + 1
  <2> HIDE DEF draws, lo, hi
  <2> QED
    BY <1>8, <1>9, FS_Interval
<1>11. hi - lo + 1 - h[i].count \in -1 .. 1 /\ hi - lo + 1 >= 0
  <2> DEFINE c == h[i].count
             before == P[i - 1]
  <2>1. c \in Nat \ {0} /\ before \in Nat /\ P[i] = before + c /\ (i = 1 => before = 0)
    BY <1>2, <1>5, <1>6
  <2>2. hi = IF i = n THEN before + c - 1 ELSE before + c
    <3>1. CASE i = n
      <4>1. hi = P[i] - 1
        BY <3>1
      <4> QED
        BY <2>1, <3>1, <4>1
    <3>2. CASE i # n
      <4>1. hi = P[i]
        BY <3>2
      <4> QED
        BY <2>1, <3>2, <4>1
    <3> QED
      BY <3>1, <3>2
  <2> HIDE DEF hi, c, before
  <2>3. lo = IF i = 1 THEN 0 ELSE before + 1
    BY DEF before
  <2> HIDE DEF lo
  <2>4. hi - lo + 1 - c \in -1 .. 1 /\ hi - lo + 1 >= 0
    BY <2>1, <2>2, <2>3
  <2> QED
    BY <2>4 DEF c
<1>12. Cardinality(draws) = hi - lo + 1
  <2> HIDE DEF draws, lo, hi
  <2> QED
    BY <1>9, <1>10, <1>11
<1>13. Cardinality(draws) - h[i].count \in -1 .. 1
  <2> HIDE DEF draws, lo, hi
  <2> QED
    BY <1>6, <1>9, <1>11, <1>12, SMT
<1> QED
  BY <1>7, <1>13 DEF p

(* SetupSound: a trie benchmark measures a whole sample of a database whose  *)
(* values have the sizes of the histogram, of each its share up to one, and  *)
(* no draw finds no size (bench/src/trie.rs, SizePool::value and setup).     *)
THEOREM SetupIsSound == SetupSpec => []SetupSound
<1>1. SetupIInv => SharesOfHistogram
  <2> SUFFICES ASSUME SetupIInv PROVE SharesOfHistogram
    OBVIOUS
  <2>1. pool = FromHistogram(histogram)
    BY DEF SetupIInv
  <2>2. CASE histogram = <<>>
    BY <2>2 DEF SharesOfHistogram
  <2>3. CASE histogram \in Histograms
    <3>1. StateDistribution(histogram)
      BY <2>3, SetupAssumption
    <3> QED
      BY <2>1, <3>1, SharesAreCounts DEF SharesOfHistogram
  <2> QED
    BY <2>2, <2>3 DEF SetupIInv
<1> QED
  BY <1>1, SetupInvariance, SamplesAreComplete, PTL DEF SetupSound

-----------------------------------------------------------------------------
(***************************************************************************)
(* The benchmark program, for every number of runs, every duration and     *)
(* every filter.  The invariant knows the benchmarks that main lists, and  *)
(* what one run of each works on.                                          *)
(***************************************************************************)

SizeNames == {"empty", "small", "medium", "large", "full", "custom"}
BlockTypeNames == {"transfer_keep_alive", "transfer_reaping", "noop"}
Descriptions ==
    { Imports[i] : i \in 1 .. 72 }
        \cup { Tries("read")[i] : i \in 1 .. 12 } \cup { Tries("write")[i] : i \in 1 .. 12 }
        \cup {Proposer("medium"), Proposer("large"), TxPool}

Described(b) ==
    \/ b.kind = "import" /\ b.size \in SizeNames /\ BlockType(b) \in BlockTypeNames
    \/ b.kind \in {"read", "write", "txpool"}
    \/ b.kind = "proposer" /\ b.size \in {"medium", "large"}

Outcomes == {"none", "usage", "running", "listed", "reported", "not_found", "panicked"}

(* The imports whose set up, or whose checks, fail.                          *)
TooLarge == prepared >= KeyringLength
NoopImport == BlockType(benchmark) = "noop" /\ prepared > 0

(* Whatever a run finds is what the first found, and the first run of an     *)
(* import has decided about its checks.                                      *)
BenchIInv ==
    /\ opt \in [list : BOOLEAN, filter : Filters \cup {"none"}, transactions : {0} \cup Customs]
    /\ benchOutcome \in Outcomes
    /\ toRun \in Seq(Descriptions)
    /\ benchmark \in Descriptions \cup {NoBenchmark}
    /\ prepared \in Nat /\ benchDb = 0
    /\ durations \in Seq(Durations) /\ Len(durations) <= Runs
    /\ starts \subseteq {<<0, prepared>>}
    /\ durations # <<>> /\ benchmark.kind = "import" =>
          SanityChecks(BlockType(benchmark), prepared)
    /\ benchOutcome = "panicked" =>
          durations = <<>> /\ benchmark.kind = "import" /\ (TooLarge \/ NoopImport)

(* A loop of a nest is always at one of what it goes over.                   *)
LEMMA NestedIn ==
    ASSUME NEW S, NEW s \in Seq(S), Len(s) \in Nat \ {0}, NEW inside \in Nat \ {0},
           NEW i \in Nat \ {0}
    PROVE  Nested(s, inside, i) \in S
<1> DEFINE d == (i - 1) \div inside
<1>1. i - 1 \in Int
  OBVIOUS
<1>2. d \in Int
  BY <1>1, DivMod
<1> HIDE DEF d
<1>3. d % Len(s) \in 0 .. Len(s) - 1
  BY <1>2, DivMod
<1>4. (d % Len(s)) + 1 \in 1 .. Len(s)
  BY <1>3
<1>5. s[(d % Len(s)) + 1] \in S
  BY <1>4, ElementOfSeq
<1> QED
  BY <1>5 DEF Nested, d

(* A function on 1 .. n is a list of n of its values. *)
LEMMA SequenceOf ==
    ASSUME NEW S, NEW n \in Nat, NEW f \in [1 .. n -> S]
    PROVE  f \in Seq(S)
OBVIOUS

(* The benchmarks that main lists (bench/src/main.rs, main).                 *)
LEMMA BenchmarksDescribed ==
    Benchmarks \in Seq(Descriptions) /\ \A b \in Descriptions : Described(b)
<1>0. 2 * 6 * 3 * 2 = 72 /\ 6 * 2 = 12
  OBVIOUS
<1>1. Imports \in Seq(Descriptions) /\ \A i \in 1 .. 72 : Described(Imports[i])
  <2>1. ASSUME NEW i \in 1 .. 72
        PROVE  /\ Imports[i].kind = "import" /\ Imports[i].size \in SizeNames
               /\ BlockType(Imports[i]) \in BlockTypeNames
    <3>1. Sizes \in Seq(SizeNames) /\ Len(Sizes) = 6
      BY DEF Sizes, SizeNames
    <3>2. Nested(Sizes, 6, i) \in SizeNames
      BY <3>1, NestedIn
    <3>3. Imports[i].kind = "import" /\ Imports[i].size = Nested(Sizes, 6, i)
      BY <1>0 DEF Imports
    <3>4. BlockTypes \in Seq(BlockTypeNames) /\ Len(BlockTypes) = 3
      BY DEF BlockTypes, BlockTypeNames
    <3>5. Nested(BlockTypes, 2, i) \in BlockTypeNames
      BY <3>4, NestedIn
    <3>6. BlockType(Imports[i]) = Nested(BlockTypes, 2, i)
      BY <1>0 DEF Imports, BlockType
    <3> QED
      BY <3>2, <3>3, <3>5, <3>6
  <2>2. Imports = [i \in 1 .. 72 |-> Imports[i]]
    BY <1>0, Zenon DEF Imports
  <2>3. \A i \in 1 .. 72 : Imports[i] \in Descriptions
    BY DEF Descriptions
  <2>4. Imports \in [1 .. 72 -> Descriptions]
    BY <2>2, <2>3
  <2> QED
    BY <2>1, <2>4, SequenceOf DEF Described
<1>2. ASSUME NEW kind \in {"read", "write"}
      PROVE  Tries(kind) \in Seq(Descriptions) /\ \A i \in 1 .. 12 : Described(Tries(kind)[i])
  <2>1. ASSUME NEW i \in 1 .. 12 PROVE Tries(kind)[i].kind = kind
    BY <1>0 DEF Tries
  <2>2. Tries(kind) = [i \in 1 .. 12 |-> Tries(kind)[i]]
    BY <1>0, Zenon DEF Tries
  <2>3. \A i \in 1 .. 12 : Tries(kind)[i] \in Descriptions
    BY DEF Descriptions
  <2>4. Tries(kind) \in [1 .. 12 -> Descriptions]
    BY <2>2, <2>3
  <2> QED
    BY <2>1, <2>4, SequenceOf DEF Described
<1>3. /\ Described(Proposer("medium")) /\ Described(Proposer("large")) /\ Described(TxPool)
  BY DEF Proposer, TxPool, Described
<1>4. Proposer("medium") \in Descriptions /\ Proposer("large") \in Descriptions
      /\ TxPool \in Descriptions
  BY DEF Descriptions
<1>5. <<Proposer("medium"), Proposer("large"), TxPool>> \in Seq(Descriptions)
  <2> DEFINE a == Proposer("medium")
             b == Proposer("large")
             c == TxPool
  <2> HIDE DEF a, b, c
  <2>1. a \in Descriptions /\ b \in Descriptions /\ c \in Descriptions
    BY <1>4 DEF a, b, c
  <2>2. <<a, b, c>> \in Seq(Descriptions)
    BY <2>1
  <2> QED
    BY <2>2 DEF a, b, c
<1>6. Imports \o Tries("read") \in Seq(Descriptions)
  BY <1>1, <1>2, ConcatProperties
<1>7. Imports \o Tries("read") \o Tries("write") \in Seq(Descriptions)
  BY <1>2, <1>6, ConcatProperties
<1>8. Benchmarks \in Seq(Descriptions)
  BY <1>5, <1>7, ConcatProperties DEF Benchmarks
<1>9. ASSUME NEW b \in Descriptions PROVE Described(b)
  BY <1>1, <1>2, <1>3 DEF Descriptions
<1> QED
  BY <1>8, <1>9

(* The benchmarks that are not full, or of custom size, have accounts enough; *)
(* an import that has not takes a block as long as the keyring                *)
(* (testing/src/bench.rs, BenchKeyring; bench/src/common.rs,                  *)
(* SizeType::transactions).                                                   *)
LEMMA KeyringsLast ==
    ASSUME BenchIInv
    PROVE  /\ \A size \in SizeNames, capacity \in BlockCapacities :
                /\ Least(Transactions(size), capacity) \in Nat
                /\ \/ KeyringLasts(Least(Transactions(size), capacity + 1))
                   \/ Least(Transactions(size), capacity) >= KeyringLength
           /\ \A size \in {"medium", "large"} :
                Transactions(size) \in Nat /\ KeyringLasts(Transactions(size))
<1>1. /\ KeyringLength \in Nat /\ BlockCapacities \subseteq Nat
      /\ KeyringLength >= 500 /\ Customs \subseteq Nat
  BY RunnerAssumption
<1>2. opt.transactions \in Nat
  <2>1. opt.transactions \in {0} \cup Customs
    BY DEF BenchIInv
  <2>2. \A t \in {0} \cup Customs : t \in Nat
    BY <1>1
  <2> QED
    BY <2>1, <2>2
<1>3. \A size \in SizeNames : Transactions(size) \in Nat
  BY <1>1, <1>2 DEF Transactions, SizeNames, Unlimited
<1>4. Transactions("medium") = 100 /\ Transactions("large") = 500
  BY DEF Transactions
<1>5. ASSUME NEW n \in Nat, NEW capacity \in Nat
      PROVE  /\ Least(n, capacity) \in Nat
             /\ \/ KeyringLasts(Least(n, capacity + 1))
                \/ Least(n, capacity) >= KeyringLength
  BY <1>1 DEF Least, KeyringLasts
<1>6. ASSUME NEW size \in SizeNames, NEW capacity \in BlockCapacities
      PROVE  Transactions(size) \in Nat /\ capacity \in Nat
  BY <1>1, <1>3
<1>7. ASSUME NEW size \in {"medium", "large"}
      PROVE  Transactions(size) \in Nat /\ KeyringLasts(Transactions(size))
  BY <1>1, <1>4 DEF KeyringLasts
<1> QED
  BY <1>5, <1>6, <1>7

(* The checks of an import fail for no-ops only (bench/src/import.rs, run).  *)
LEMMA ChecksFail ==
    ASSUME NEW blockType \in BlockTypeNames, NEW signed \in Nat,
           ~SanityChecks(blockType, signed)
    PROVE  blockType = "noop" /\ signed > 0
<1>1. CASE blockType = "transfer_keep_alive"
  <2>1. EventsOf(blockType) = 7 /\ ExpectedEvents(blockType) = 7
    BY <1>1 DEF EventsOf, ExpectedEvents, FeeEvents
  <2> QED
    BY <2>1 DEF SanityChecks
<1>2. CASE blockType = "transfer_reaping"
  BY <1>2 DEF SanityChecks
<1>3. CASE blockType = "noop"
  <2>1. signed # 0
    <3>1. EventsOf(blockType) \in Int /\ ExpectedEvents(blockType) \in Int
      BY <1>3 DEF EventsOf, ExpectedEvents, FeeEvents
    <3> SUFFICES ASSUME signed = 0 PROVE FALSE
      OBVIOUS
    <3>2. signed * EventsOf(blockType) = 0 /\ signed * ExpectedEvents(blockType) = 0
      BY <3>1
    <3> QED
      BY <3>2 DEF SanityChecks
  <2> QED
    BY <1>3, <2>1
<1> QED
  BY <1>1, <1>2, <1>3 DEF BlockTypeNames

(* A benchmark is set up with what a block takes, or with all of its         *)
(* content, and nothing has run; an import may fail at once.                 *)
LEMMA BenchSetUp ==
    ASSUME BenchIInv, NEW kinds, NEW content \in Nat, SetUp(kinds, content),
           \/ benchOutcome' = benchOutcome
           \/ /\ benchOutcome' = "panicked"
              /\ Head(toRun).kind = "import" /\ content >= KeyringLength
    PROVE  BenchIInv'
<1>1. /\ toRun \in Seq(Descriptions) /\ toRun # <<>>
      /\ benchmark' = Head(toRun) /\ toRun' = Tail(toRun)
      /\ prepared' = content /\ durations' = <<>> /\ starts' = {}
      /\ opt' = opt /\ benchDb' = 0
      /\ benchOutcome = "running"
  BY DEF SetUp, BenchIInv, BetweenBenchmarks, Benchmarking
<1>2. Head(toRun) \in Descriptions /\ Tail(toRun) \in Seq(Descriptions)
  BY <1>1, HeadTailProperties
<1>3. <<>> \in Seq(Durations) /\ Len(<<>>) <= Runs
  BY RunnerAssumption, EmptySeq
<1>4. benchOutcome' \in Outcomes
  BY <1>1 DEF Outcomes
<1>5. benchOutcome' = "panicked" => benchmark'.kind = "import" /\ TooLarge'
  BY <1>1 DEF TooLarge
<1> QED
  BY <1>1, <1>2, <1>3, <1>4, <1>5 DEF BenchIInv

(* A run begins with what those before it have begun with, and fails only if *)
(* it is the first of an import of no-ops.                                   *)
LEMMA BenchRun ==
    ASSUME BenchIInv, NEW kinds, NEW succeeds \in BOOLEAN, Run(kinds, succeeds),
           prepared' = prepared, benchDb' = 0,
           succeeds /\ benchmark.kind = "import" =>
              SanityChecks(BlockType(benchmark), prepared),
           ~succeeds => durations = <<>> /\ benchmark.kind = "import" /\ NoopImport
    PROVE  BenchIInv'
<1>1. /\ Len(durations) < Runs /\ starts' = starts \cup {<<benchDb, prepared>>}
      /\ opt' = opt /\ toRun' = toRun /\ benchmark' = benchmark /\ benchOutcome = "running"
      /\ succeeds => \E d \in Durations : durations' = Append(durations, d)
      /\ ~succeeds => durations' = durations
      /\ benchOutcome' = IF succeeds THEN "running" ELSE "panicked"
  BY DEF Run, Benchmarking, PanicUnless
<1>2. starts' \subseteq {<<0, prepared'>>}
  BY <1>1 DEF BenchIInv
<1>3. durations' \in Seq(Durations) /\ Len(durations') <= Runs
  <2>1. CASE succeeds
    <3>1. PICK d \in Durations : durations' = Append(durations, d)
      BY <1>1, <2>1
    <3>2. durations' \in Seq(Durations) /\ Len(durations') = Len(durations) + 1
      BY <3>1, AppendProperties DEF BenchIInv
    <3>3. Len(durations) \in Nat /\ Runs \in Nat
      BY RunnerAssumption, LenProperties DEF BenchIInv
    <3> QED
      BY <1>1, <3>2, <3>3
  <2>2. CASE ~succeeds
    BY <1>1, <2>2 DEF BenchIInv
  <2> QED
    BY <2>1, <2>2
<1>4. durations' # <<>> /\ benchmark'.kind = "import" =>
         SanityChecks(BlockType(benchmark'), prepared')
  <2>1. BlockType(benchmark') = BlockType(benchmark)
    BY <1>1
  <2>2. CASE succeeds
    BY <1>1, <2>1, <2>2
  <2>3. CASE ~succeeds
    BY <1>1, <2>3
  <2> QED
    BY <2>2, <2>3
<1>5. benchOutcome' = "panicked" =>
         durations' = <<>> /\ benchmark'.kind = "import" /\ NoopImport'
  <2>1. NoopImport' = NoopImport
    BY <1>1 DEF NoopImport, BlockType
  <2> QED
    BY <1>1, <2>1
<1>6. benchOutcome' \in Outcomes
  BY <1>1 DEF Outcomes
<1> QED
  BY <1>1, <1>2, <1>3, <1>4, <1>5, <1>6 DEF BenchIInv

(* Through the loop of main over the benchmarks, each with its set up and its runs. *)
LEMMA BenchInvariance == BenchSpec => []BenchIInv
<1>0. /\ Runs \in Nat /\ Len(<<>>) = 0 /\ <<>> \in Seq(Durations) /\ <<>> \in Seq(Descriptions)
  BY RunnerAssumption, EmptySeq
<1>1. BenchInit => BenchIInv
  BY <1>0 DEF BenchInit, BenchIInv, Outcomes
<1>2. BenchIInv /\ [BenchNext]_benchVars => BenchIInv'
  <2> SUFFICES ASSUME BenchIInv, [BenchNext]_benchVars PROVE BenchIInv'
    OBVIOUS
  <2>1. ASSUME UNCHANGED setupOfBench, UNCHANGED runsOfBench,
               opt' \in [list : BOOLEAN, filter : Filters \cup {"none"},
                         transactions : {0} \cup Customs],
               toRun' \in Seq(Descriptions), benchOutcome' \in Outcomes,
               benchOutcome' = "panicked" => benchOutcome = "panicked"
        PROVE  BenchIInv'
    <3>1. /\ benchmark' = benchmark /\ prepared' = prepared /\ benchDb' = benchDb
          /\ durations' = durations /\ starts' = starts
      BY <2>1 DEF setupOfBench, runsOfBench
    <3>2. NoopImport' = NoopImport /\ TooLarge' = TooLarge
      BY <3>1 DEF NoopImport, TooLarge, BlockType
    <3> QED
      BY <2>1, <3>1, <3>2 DEF BenchIInv
  <2>2. CASE ParseOpt
    BY <2>1, <2>2, BenchmarksDescribed DEF ParseOpt, BenchIInv, Outcomes
  <2>3. CASE RefuseOpt \/ ListBenchmarks \/ ReportResults
    BY <2>1, <2>3
       DEF RefuseOpt, ListBenchmarks, ReportResults, BenchIInv, Outcomes
  <2>4. CASE SkipBenchmark
    <3>1. Tail(toRun) \in Seq(Descriptions)
      BY <2>4, HeadTailProperties DEF SkipBenchmark, BenchIInv
    <3> QED
      BY <2>1, <2>4, <3>1 DEF SkipBenchmark, BenchIInv
  <2>5. ASSUME toRun # <<>> PROVE Described(Head(toRun))
    BY <2>5, HeadTailProperties, BenchmarksDescribed DEF BenchIInv
  <2>6. CASE SetUpImport
    <3> DEFINE wanted == Transactions(Head(toRun).size)
    <3>1. PICK capacity \in BlockCapacities :
            /\ toRun # <<>> /\ SetUp({"import"}, Least(wanted, capacity))
            /\ PanicUnless(KeyringLasts(Least(wanted, capacity + 1)))
      BY <2>6 DEF SetUpImport
    <3>2. Head(toRun).kind = "import"
      BY <3>1 DEF SetUp
    <3>3. Head(toRun).size \in SizeNames
      BY <2>5, <3>1, <3>2 DEF Described
    <3>4. /\ Least(wanted, capacity) \in Nat
          /\ \/ KeyringLasts(Least(wanted, capacity + 1))
             \/ Least(wanted, capacity) >= KeyringLength
      BY <3>3, KeyringsLast
    <3> HIDE DEF wanted
    <3>5. \/ benchOutcome' = benchOutcome
          \/ benchOutcome' = "panicked" /\ Least(wanted, capacity) >= KeyringLength
      BY <3>1, <3>4 DEF PanicUnless
    <3> QED
      BY <3>1, <3>2, <3>4, <3>5, BenchSetUp
  <2>7. CASE SetUpProposer
    <3> DEFINE wanted == Transactions(Head(toRun).size)
    <3>1. /\ toRun # <<>> /\ SetUp({"proposer"}, wanted) /\ PanicUnless(KeyringLasts(wanted))
      BY <2>7 DEF SetUpProposer
    <3>2. Head(toRun).kind = "proposer"
      BY <3>1 DEF SetUp
    <3>3. Head(toRun).size \in {"medium", "large"}
      BY <2>5, <3>1, <3>2 DEF Described
    <3>4. wanted \in Nat /\ KeyringLasts(wanted)
      BY <3>3, KeyringsLast
    <3> HIDE DEF wanted
    <3>5. benchOutcome' = benchOutcome
      BY <3>1, <3>4 DEF PanicUnless
    <3> QED
      BY <3>1, <3>4, <3>5, BenchSetUp
  <2>8. CASE SetUpPool \/ SetUpTrie
    BY <2>8, BenchSetUp DEF SetUpPool, SetUpTrie
  <2>9. CASE RunImport
    <3> DEFINE passes == benchDb = 0 /\ SanityChecks(BlockType(benchmark), prepared)
    <3>1. /\ Run({"import"}, passes) /\ prepared' = prepared /\ benchDb' = benchDb
          /\ benchmark.kind = "import"
      BY <2>9 DEF RunImport, Run, DatabaseAfter
    <3>2. benchDb = 0 /\ prepared \in Nat
      BY DEF BenchIInv
    <3>3. Described(benchmark)
      BY <3>1, BenchmarksDescribed DEF BenchIInv, NoBenchmark
    <3>4. BlockType(benchmark) \in BlockTypeNames
      BY <3>1, <3>3 DEF Described
    <3>5. passes <=> SanityChecks(BlockType(benchmark), prepared)
      BY <3>2
    <3>6. ~passes => durations = <<>> /\ NoopImport
      BY <3>1, <3>2, <3>4, <3>5, ChecksFail DEF BenchIInv, NoopImport
    <3>7. passes \in BOOLEAN
      BY DEF SanityChecks
    <3> HIDE DEF passes
    <3> QED
      BY <3>1, <3>2, <3>5, <3>6, <3>7, BenchRun
  <2>10. CASE RunProposer
    <3> DEFINE served == ProposerCalls \subseteq PoolImplements \cup TransactionImplements
    <3>1. /\ Run({"proposer"}, served) /\ prepared' = prepared /\ benchDb' = benchDb
          /\ benchmark.kind = "proposer"
      BY <2>10 DEF RunProposer, Run, StubAfterwards
    <3>2. served = TRUE
      BY DEF ProposerCalls, PoolImplements, TransactionImplements
    <3>3. benchDb = 0
      BY DEF BenchIInv
    <3> HIDE DEF served
    <3> QED
      BY <3>1, <3>2, <3>3, BenchRun
  <2>11. CASE RunPool
    <3> DEFINE lasts == KeyringLasts(Transactions("medium"))
    <3>1. /\ Run({"txpool"}, lasts) /\ prepared' = prepared /\ benchDb' = benchDb
          /\ benchmark.kind = "txpool"
      BY <2>11 DEF RunPool, Run
    <3>2. lasts = TRUE
      <4>1. Transactions("medium") \in Nat /\ lasts
        BY KeyringsLast
      <4> QED
        BY <4>1 DEF KeyringLasts
    <3>3. benchDb = 0
      BY DEF BenchIInv
    <3> HIDE DEF lasts
    <3> QED
      BY <3>1, <3>2, <3>3, BenchRun
  <2>12. CASE RunTrie
    <3>1. /\ Run({"read", "write"}, TRUE) /\ prepared' = prepared /\ benchDb' = benchDb
          /\ benchmark.kind \in {"read", "write"}
      BY <2>12 DEF RunTrie, Run
    <3>2. benchDb = 0
      BY DEF BenchIInv
    <3> QED
      BY <3>1, <3>2, BenchRun
  <2>13. CASE TakeAverages
    <3>1. /\ benchOutcome = "running" /\ benchOutcome' = "running"
          /\ benchmark' = NoBenchmark /\ prepared' = 0 /\ benchDb' = 0
          /\ durations' = <<>> /\ starts' = {} /\ opt' = opt /\ toRun' = toRun
      BY <2>13 DEF TakeAverages, Benchmarking
    <3> QED
      BY <1>0, <3>1 DEF BenchIInv
  <2>14. CASE UNCHANGED benchVars
    BY <2>1, <2>14 DEF benchVars, BenchIInv
  <2> QED
    BY <2>2, <2>3, <2>4, <2>6, <2>7, <2>8, <2>9, <2>10, <2>11, <2>12, <2>13, <2>14
       DEF BenchNext
<1> QED
  BY <1>1, <1>2, PTL DEF BenchSpec

(* BenchTypeOK: no benchmark is run more often than run_benchmark says, and  *)
(* every one is set up with a number of transactions (bench/src/core.rs).    *)
THEOREM BenchTyped == BenchSpec => []BenchTypeOK
<1>1. BenchIInv => BenchTypeOK
  BY DEF BenchIInv, BenchTypeOK, Outcomes
<1> QED
  BY <1>1, BenchInvariance, PTL

(* RunsIndependent: every run of a benchmark begins with the database and    *)
(* the content that the first began with, and none fails but the first, of   *)
(* an import of no-ops; the set up fails for want of an account only for a   *)
(* block as long as the keyring (bench/src/import.rs and construct.rs, setup *)
(* and run; testing/src/bench.rs, create_context and BenchKeyring::at).      *)
THEOREM RunsAreIndependent == BenchSpec => []RunsIndependent
<1>1. BenchIInv => RunsIndependent
  <2> SUFFICES ASSUME BenchIInv PROVE RunsIndependent
    OBVIOUS
  <2>1. Cardinality(starts) <= 1
    <3> DEFINE first == <<0, prepared>>
    <3>1. starts \subseteq {first}
      BY DEF BenchIInv
    <3>2. IsFiniteSet({first}) /\ Cardinality({first}) = 1
      BY FS_Singleton
    <3> HIDE DEF first
    <3> QED
      BY <3>1, <3>2, FS_Subset
  <2>2. benchOutcome = "panicked" =>
          durations = <<>> /\ benchmark.kind = "import" /\ (TooLarge \/ NoopImport)
    BY DEF BenchIInv
  <2> QED
    BY <2>1, <2>2 DEF RunsIndependent, TooLarge, NoopImport
<1> QED
  BY <1>1, BenchInvariance, PTL

-----------------------------------------------------------------------------
(***************************************************************************)
(* AveragesHold for every number of runs, of those that are skipped and of *)
(* those that are taken.  What is skipped at either end leaves values      *)
(* between the bounds, and so is their average.                            *)
(***************************************************************************)

(* SumOf adds one value after the other. *)
LEMMA SumSteps ==
    ASSUME NEW s \in Seq(Nat)
    PROVE  \E f \in [0 .. Len(s) -> Nat] :
             /\ f[0] = 0
             /\ \A k \in 0 .. Len(s) - 1 : f[k + 1] = f[k] + s[k + 1]
             /\ SumOf(s) = f[Len(s)]
<1> DEFINE step == [p \in Nat \X Nat |-> p[1] + p[2]]
    Is(g) == g = [x \in SUBSET DOMAIN s |->
                    IF x = {} THEN 0
                    ELSE g[x \ {CHOOSE m \in x : \A y \in x : m >= y}]
                           + s[CHOOSE m \in x : \A y \in x : m >= y]]
    fold == CHOOSE g : Is(g)
<1>0. Len(s) \in Nat /\ DOMAIN s = 1 .. Len(s) /\ step \in [Nat \X Nat -> Nat]
  OBVIOUS
<1>1. ASSUME NEW g, NEW x \in SUBSET (1 .. Len(s)), x # {}, g[x \ {LastOf(x)}] \in Nat
      PROVE  step[<<g[x \ {LastOf(x)}], s[LastOf(x)]>>] = g[x \ {LastOf(x)}] + s[LastOf(x)]
  <2>1. LastOf(x) \in 1 .. Len(s)
    BY <1>0, <1>1, LastIn
  <2>2. s[LastOf(x)] \in Nat
    BY <2>1
  <2> QED
    BY <2>2, <1>1
<1>2. PICK g \in [SUBSET (1 .. Len(s)) -> Nat] : FoldedBy(g, step, 0, s)
  <2> HIDE DEF step
  <2> QED
    BY <1>0, FoldExists, Zenon
<1>3. Is(g)
  <2>1. ASSUME NEW x \in SUBSET (1 .. Len(s)), x # {}
        PROVE  g[x] = g[x \ {LastOf(x)}] + s[LastOf(x)]
    <3>1. g[x \ {LastOf(x)}] \in Nat
      OBVIOUS
    <3> HIDE DEF step
    <3> QED
      BY <1>1, <1>2, <2>1, <3>1 DEF FoldedBy
  <2>2. g = [x \in SUBSET (1 .. Len(s)) |->
               IF x = {} THEN 0 ELSE g[x \ {LastOf(x)}] + s[LastOf(x)]]
    BY <1>2, <2>1 DEF FoldedBy
  <2> QED
    BY <2>2, <1>0 DEF LastOf
<1>4. Is(fold)
  <2> HIDE DEF Is
  <2> QED
    BY <1>3
<1>5. SumOf(s) = fold[DOMAIN s]
  BY DEF SumOf, FoldLeft, MapThenFoldSet, Max
<1> HIDE DEF fold
<1>6. \A x \in SUBSET (1 .. Len(s)) :
        fold[x] = IF x = {} THEN 0 ELSE fold[x \ {LastOf(x)}] + s[LastOf(x)]
  BY <1>4, <1>0 DEF LastOf
<1>7. PICK f \in [0 .. Len(s) -> Nat] :
        Follows(f, step, 0, s) /\ f[Len(s)] = fold[1 .. Len(s)]
  <2> HIDE DEF step
  <2>1. Unfolds(fold, Nat, step, 0, s)
    BY <1>1, <1>6 DEF Unfolds
  <2>2. 0 \in Nat /\ Reached(fold, Nat, step, 0, s)
    BY <1>0, <2>1, FoldSteps, Zenon
  <2> QED
    BY <2>2 DEF Reached
<1>8. ASSUME NEW k \in 0 .. Len(s) - 1 PROVE f[k + 1] = f[k] + s[k + 1]
  <2>1. k \in 0 .. Len(s) /\ k + 1 \in 1 .. Len(s)
    BY <1>0
  <2>2. f[k] \in Nat /\ s[k + 1] \in Nat
    BY <2>1
  <2> QED
    BY <1>7, <2>2 DEF Follows
<1> QED
  BY <1>0, <1>5, <1>7, <1>8 DEF Follows, Reached

(* i comes before j, or is j, when s is sorted. *)
Before(s, i, j) == s[i] < s[j] \/ (s[i] = s[j] /\ i <= j)

(* There are n indices from 1 to n. *)
LEMMA IndexCount ==
    ASSUME NEW n \in Nat
    PROVE  IsFiniteSet(1 .. n) /\ Cardinality(1 .. n) = n
<1>1. /\ IsFiniteSet(1 .. n)
      /\ Cardinality(1 .. n) = IF 1 > n THEN 0 ELSE n - 1 + 1
  BY FS_Interval
<1> QED
  BY <1>1

(* The ranks of the indices are the indices, each once, in the order of the  *)
(* values.                                                                  *)
LEMMA RanksOrder ==
    ASSUME NEW s \in Seq(Nat)
    PROVE  LET rank == [i \in DOMAIN s |-> Rank(s, i)]
           IN  /\ rank \in Bijection(DOMAIN s, DOMAIN s)
               /\ \A i, j \in DOMAIN s : rank[i] <= rank[j] => s[i] <= s[j]
<1> DEFINE D == DOMAIN s
           Upto(i) == {j \in D : Before(s, j, i)}
           rank == [i \in D |-> Rank(s, i)]
<1>1. Len(s) \in Nat /\ D = 1 .. Len(s) /\ \A i \in D : s[i] \in Nat /\ i \in Nat
  OBVIOUS
<1>2. IsFiniteSet(D) /\ Cardinality(D) = Len(s)
  <2>1. IsFiniteSet(1 .. Len(s)) /\ Cardinality(1 .. Len(s)) = Len(s)
    BY <1>1, IndexCount
  <2> HIDE DEF D
  <2> QED
    BY <2>1, <1>1
<1>3. \A i \in D : rank[i] = Cardinality(Upto(i))
  BY DEF Rank, Before
<1> HIDE DEF rank, D
<1>4. ASSUME NEW i \in D PROVE rank[i] \in D
  <2>1. i \in Upto(i) /\ Upto(i) \in SUBSET D
    BY <1>1 DEF Before
  <2>2. IsFiniteSet(Upto(i)) /\ Cardinality(Upto(i)) <= Cardinality(D)
    <3> HIDE DEF Upto
    <3> QED
      BY <2>1, <1>2, FS_Subset
  <2>3. Cardinality(Upto(i)) \in Nat /\ Cardinality(Upto(i)) # 0
    <3> HIDE DEF Upto
    <3> QED
      BY <2>1, <2>2, FS_CardinalityType, FS_EmptySet
  <2>4. rank[i] = Cardinality(Upto(i))
    BY <1>3
  <2> HIDE DEF Upto
  <2> QED
    BY <2>2, <2>3, <2>4, <1>1, <1>2
<1>5. ASSUME NEW i \in D, NEW j \in D, Before(s, i, j), i # j PROVE rank[i] < rank[j]
  <2>1. Upto(i) \in SUBSET Upto(j) /\ j \in Upto(j) /\ j \notin Upto(i)
    <3>1. \A k \in D : Before(s, k, i) => Before(s, k, j)
      BY <1>1, <1>5 DEF Before
    <3>2. Before(s, j, j) /\ ~Before(s, j, i)
      BY <1>1, <1>5 DEF Before
    <3> QED
      BY <3>1, <3>2
  <2>2. Upto(j) \in SUBSET D
    OBVIOUS
  <2>3. rank[i] = Cardinality(Upto(i)) /\ rank[j] = Cardinality(Upto(j))
    BY <1>3
  <2>4. rank[i] \in Nat /\ rank[j] \in Nat
    BY <1>1, <1>4
  <2> HIDE DEF Upto
  <2>5. IsFiniteSet(Upto(j))
    BY <2>2, <1>2, FS_Subset
  <2>6. Cardinality(Upto(i)) <= Cardinality(Upto(j))
    BY <2>5, <2>1, FS_Subset
  <2>7. Cardinality(Upto(i)) # Cardinality(Upto(j))
    BY <2>5, <2>1, FS_Subset
  <2> QED
    BY <2>3, <2>4, <2>6, <2>7
<1>6. \A i, j \in D : Before(s, i, j) \/ Before(s, j, i)
  BY <1>1 DEF Before
<1>7. \A i, j \in D : rank[i] = rank[j] => i = j
  <2> SUFFICES ASSUME NEW i \in D, NEW j \in D, rank[i] = rank[j], i # j PROVE FALSE
    OBVIOUS
  <2>1. rank[i] \in Nat /\ rank[j] \in Nat
    BY <1>1, <1>4
  <2>2. rank[i] < rank[j] \/ rank[j] < rank[i]
    BY <1>5, <1>6
  <2> QED
    BY <2>1, <2>2
<1>8. rank \in Injection(D, D)
  <2>1. rank \in [D -> D]
    BY <1>4 DEF rank
  <2> QED
    BY <2>1, <1>7 DEF Injection, IsInjective
<1>9. rank \in Bijection(D, D)
  <2>1. rank \in Surjection(D, D)
    BY <1>2, <1>8, FS_Injection
  <2> QED
    BY <2>1, <1>8 DEF Bijection
<1>10. ASSUME NEW i \in D, NEW j \in D, rank[i] <= rank[j] PROVE s[i] <= s[j]
  <2>1. rank[i] \in Nat /\ rank[j] \in Nat
    BY <1>1, <1>4
  <2>2. i = j \/ ~Before(s, j, i)
    BY <1>5, <1>10, <2>1
  <2> QED
    BY <2>2, <1>6, <1>1 DEF Before
<1> QED
  BY <1>9, <1>10 DEF D, rank

(* Sorted rearranges s, in the order of its values. *)
LEMMA SortedPermutes ==
    ASSUME NEW s \in Seq(Nat)
    PROVE  \E p \in Bijection(DOMAIN s, DOMAIN s) :
             /\ Sorted(s) = [k \in DOMAIN s |-> s[p[k]]]
             /\ \A i, j \in DOMAIN s : i <= j => s[p[i]] <= s[p[j]]
<1> DEFINE D == DOMAIN s
           rank == [i \in D |-> Rank(s, i)]
           p == [k \in D |-> CHOOSE i \in D : Rank(s, i) = k]
<1>1. rank \in Bijection(D, D) /\ \A i, j \in D : rank[i] <= rank[j] => s[i] <= s[j]
  BY RanksOrder
<1>2. ASSUME NEW k \in D PROVE p[k] \in D /\ rank[p[k]] = k
  <2>1. \E i \in D : Rank(s, i) = k
    <3>1. \E i \in D : rank[i] = k
      <4> HIDE DEF rank, D
      <4> QED
        BY <1>1 DEF Bijection, Surjection
    <3> QED
      BY <3>1
  <2>2. p[k] = CHOOSE i \in D : Rank(s, i) = k
    OBVIOUS
  <2>3. p[k] \in D /\ Rank(s, p[k]) = k
    <3> HIDE DEF p
    <3> QED
      BY <2>1, <2>2
  <2> QED
    BY <2>3
<1>3. Sorted(s) = [k \in D |-> s[p[k]]]
  BY DEF Sorted
<1>4. p \in [D -> D]
  <2>1. \A k \in D : (CHOOSE i \in D : Rank(s, i) = k) \in D
    BY <1>2
  <2> QED
    BY <2>1
<1>5. D = 1 .. Len(s)
  OBVIOUS
<1> HIDE DEF p, rank, D
<1>6. p \in Bijection(D, D)
  <2>1. p \in Injection(D, D)
    BY <1>2, <1>4 DEF Injection, IsInjective
  <2>2. p \in Surjection(D, D)
    <3>1. ASSUME NEW i \in D PROVE \E k \in D : p[k] = i
      <4>1. rank[i] \in D
        BY <1>1 DEF Bijection, Injection
      <4>2. p[rank[i]] \in D /\ rank[p[rank[i]]] = rank[i]
        BY <4>1, <1>2
      <4>3. p[rank[i]] = i
        BY <4>2, <1>1 DEF Bijection, Injection, IsInjective
      <4> QED
        BY <4>1, <4>3
    <3> QED
      BY <3>1, <1>4 DEF Surjection
  <2> QED
    BY <2>1, <2>2 DEF Bijection
<1>7. ASSUME NEW i \in D, NEW j \in D, i <= j PROVE s[p[i]] <= s[p[j]]
  BY <1>2, <1>1, <1>7
<1> QED
  BY <1>3, <1>6, <1>7 DEF D

(* One factor more. *)
LEMMA OneMore ==
    ASSUME NEW k \in Nat, NEW a \in Nat
    PROVE  (k + 1) * a = k * a + a /\ k * a \in Nat
OBVIOUS

(* Between sums of bounds are the sums. *)
LEMMA SumsOrdered ==
    ASSUME NEW a \in Nat, NEW b \in Nat, NEW low \in Nat, NEW high \in Nat,
           NEW x \in Nat, NEW y \in Nat, a <= x, x <= b, low <= y, y <= high
    PROVE  a + low <= x + y /\ x + y <= b + high
OBVIOUS

(* A sum lies between as many times the least and the greatest of its terms. *)
LEMMA SumBounds ==
    ASSUME NEW s \in Seq(Nat), NEW low \in Nat, NEW high \in Nat,
           \A k \in DOMAIN s : s[k] \in low .. high
    PROVE  SumOf(s) \in Nat /\ Len(s) * low <= SumOf(s) /\ SumOf(s) <= Len(s) * high
<1>0. Len(s) \in Nat /\ DOMAIN s = 1 .. Len(s)
  OBVIOUS
<1>1. PICK f \in [0 .. Len(s) -> Nat] :
        /\ f[0] = 0
        /\ \A k \in 0 .. Len(s) - 1 : f[k + 1] = f[k] + s[k + 1]
        /\ SumOf(s) = f[Len(s)]
  BY SumSteps
<1> DEFINE S == {k \in 0 .. Len(s) : k * low <= f[k] /\ f[k] <= k * high}
<1>2. 0 \in S
  BY <1>0, <1>1
<1>3. ASSUME NEW k \in 0 .. Len(s) - 1, k \in S PROVE k + 1 \in S
  <2>a. k \in 0 .. Len(s) /\ k + 1 \in 0 .. Len(s) /\ k + 1 \in DOMAIN s /\ k \in Nat
    BY <1>0
  <2>b. s[k + 1] \in low .. high
    BY <2>a
  <2>1. k + 1 \in 0 .. Len(s) /\ s[k + 1] \in low .. high /\ f[k] \in Nat /\ k \in Nat
    BY <2>a, <2>b
  <2>2. f[k + 1] = f[k] + s[k + 1]
    BY <1>1
  <2>3. (k + 1) * low = k * low + low /\ (k + 1) * high = k * high + high
        /\ k * low \in Nat /\ k * high \in Nat
    BY <2>1, OneMore
  <2>4. k * low <= f[k] /\ f[k] <= k * high
    BY <1>3
  <2>5. (k + 1) * low <= f[k + 1] /\ f[k + 1] <= (k + 1) * high
    <3> DEFINE least == k * low
               most == k * high
    <3>1. /\ least \in Nat /\ most \in Nat /\ least <= f[k] /\ f[k] <= most
          /\ s[k + 1] \in Nat /\ low <= s[k + 1] /\ s[k + 1] <= high
      BY <2>1, <2>3, <2>4
    <3>2. (k + 1) * low = least + low /\ (k + 1) * high = most + high
      BY <2>3
    <3> HIDE DEF least, most
    <3>3. least + low <= f[k] + s[k + 1] /\ f[k] + s[k + 1] <= most + high
      BY <2>1, <3>1, SumsOrdered
    <3> QED
      BY <2>2, <3>2, <3>3
  <2> QED
    BY <2>1, <2>5
<1>4. S = 0 .. Len(s)
  <2> HIDE DEF S
  <2>1. S \in SUBSET (0 .. Len(s))
    BY DEF S
  <2> QED
    BY <2>1, <1>0, <1>2, <1>3, AllOf
<1>5. Len(s) \in S
  <2>1. Len(s) \in 0 .. Len(s)
    BY <1>0
  <2> HIDE DEF S
  <2> QED
    BY <2>1, <1>4
<1> QED
  BY <1>0, <1>1, <1>5

(* A quotient lies between the numbers whose multiples the dividend lies between. *)
LEMMA QuotientWithin ==
    ASSUME NEW sum \in Nat, NEW n \in Nat \ {0}, NEW low \in Nat, NEW high \in Nat,
           n * low <= sum, sum <= n * high
    PROVE  sum \div n \in low .. high
<1> DEFINE q == sum \div n
           r == sum % n
<1>1. q \in Int /\ r \in 0 .. n - 1 /\ sum = n * q + r
  BY DivMod
<1> HIDE DEF q, r
<1>2. n * q \in Int /\ n * low \in Int /\ n * high \in Int
  BY <1>1
<1>3. q < low => n * q + n <= n * low
  BY <1>1, Multiples
<1>4. high < q => n * high + n <= n * q
  BY <1>1, Multiples
<1>5. n * q <= sum /\ sum < n * q + n
  BY <1>1, <1>2
<1>6. ~(q < low) /\ ~(high < q)
  BY <1>2, <1>3, <1>4, <1>5
<1> QED
  BY <1>1, <1>6 DEF q

(* The average lies between any two numbers that not more runs than are      *)
(* skipped at an end are below, and above.                                  *)
LEMMA AverageWithin ==
    ASSUME NEW s \in Seq(Nat), Len(s) = Runs, NEW low \in Nat, NEW high \in Nat,
           Cardinality({i \in DOMAIN s : s[i] < low}) <= Skip,
           Cardinality({i \in DOMAIN s : s[i] > high}) <= Skip
    PROVE  Average(s) \in low .. high
<1> DEFINE D == DOMAIN s
           first == Skip + 1
           last == Skip + Take
<1>0. /\ Skip \in Nat /\ Take \in Nat /\ Take # 0 /\ D = 1 .. Skip + Take + Skip
      /\ first \in D /\ last \in D /\ first <= last
      /\ \A i \in D : s[i] \in Nat /\ i \in Nat
  BY RunnerAssumption
<1>1. PICK p \in Bijection(D, D) :
        /\ Sorted(s) = [k \in D |-> s[p[k]]]
        /\ \A i, j \in D : i <= j => s[p[i]] <= s[p[j]]
  BY SortedPermutes
<1>2. IsFiniteSet(D)
  BY <1>0, FS_Interval
<1> HIDE DEF D
<1>3. p \in [D -> D] /\ \A i, j \in D : p[i] = p[j] => i = j
  BY <1>1 DEF Bijection, Injection, IsInjective
<1>4. s[p[first]] >= low
  <2>a. s[p[first]] \in Nat
    BY <1>0, <1>3
  <2> SUFFICES ASSUME s[p[first]] < low PROVE FALSE
    BY <2>a
  <2> DEFINE Below == {i \in D : s[i] < low}
             q == [k \in 1 .. first |-> p[k]]
  <2>1. 1 .. first \in SUBSET D
    BY <1>0
  <2>2. ASSUME NEW k \in 1 .. first PROVE p[k] \in Below
    <3>1. k \in D /\ k <= first
      BY <2>1, <1>0
    <3>2. p[k] \in D /\ s[p[k]] \in Nat /\ s[p[first]] \in Nat /\ s[p[k]] <= s[p[first]]
      BY <3>1, <1>0, <1>1, <1>3
    <3> QED
      BY <3>2
  <2>3. IsFiniteSet(Below)
    BY <1>2, FS_Subset
  <2> HIDE DEF Below
  <2>4. q \in Injection(1 .. first, Below)
    BY <2>1, <2>2, <1>3 DEF Injection, IsInjective
  <2>5. Cardinality(1 .. first) = first
    BY <1>0, FS_Interval
  <2> HIDE DEF q
  <2>6. Cardinality(1 .. first) <= Cardinality(Below)
    BY <2>3, <2>4, FS_Injection
  <2>7. Cardinality(Below) <= Skip /\ Cardinality(Below) \in Nat
    BY <2>3, FS_CardinalityType DEF Below, D
  <2> QED
    BY <2>5, <2>6, <2>7, <1>0
<1>5. s[p[last]] <= high
  <2>a. s[p[last]] \in Nat
    BY <1>0, <1>3
  <2> SUFFICES ASSUME s[p[last]] > high PROVE FALSE
    BY <2>a
  <2> DEFINE Above == {i \in D : s[i] > high}
             top == last .. Skip + Take + Skip
             q == [k \in top |-> p[k]]
  <2>1. top \in SUBSET D
    BY <1>0
  <2>2. ASSUME NEW k \in top PROVE p[k] \in Above
    <3>1. k \in D /\ last <= k
      BY <2>1, <1>0
    <3>2. p[k] \in D /\ s[p[k]] \in Nat /\ s[p[last]] \in Nat /\ s[p[last]] <= s[p[k]]
      BY <3>1, <1>0, <1>1, <1>3
    <3> QED
      BY <3>2
  <2>3. IsFiniteSet(Above)
    BY <1>2, FS_Subset
  <2> HIDE DEF Above
  <2>5. Cardinality(top) = Skip + 1
    <3>1. last \in Int /\ Skip + Take + Skip \in Int /\ last <= Skip + Take + Skip
      BY <1>0
    <3> QED
      BY <3>1, <1>0, FS_Interval
  <2> HIDE DEF top
  <2>4. q \in Injection(top, Above)
    BY <2>1, <2>2, <1>3 DEF Injection, IsInjective
  <2> HIDE DEF q
  <2>6. Cardinality(top) <= Cardinality(Above)
    BY <2>3, <2>4, FS_Injection
  <2>7. Cardinality(Above) <= Skip /\ Cardinality(Above) \in Nat
    BY <2>3, FS_CardinalityType DEF Above, D
  <2> QED
    BY <2>5, <2>6, <2>7, <1>0
<1> DEFINE kept == SubSeq(Sorted(s), first, last)
<1>6. /\ kept \in Seq(Nat) /\ Len(kept) = Take
      /\ \A k \in DOMAIN kept : kept[k] \in low .. high
  <2>1. \A k \in D : s[p[k]] \in Nat
    BY <1>0, <1>3
  <2>2. Sorted(s) \in Seq(Nat) /\ Len(Sorted(s)) = Skip + Take + Skip
    BY <2>1, <1>0, <1>1
  <2>3. ASSUME NEW i \in first .. last
        PROVE  Sorted(s)[i] \in Nat /\ Sorted(s)[i] \in low .. high
    <3>1. i \in D /\ first <= i /\ i <= last
      BY <1>0
    <3>2. Sorted(s)[i] = s[p[i]]
      BY <3>1, <1>1
    <3>3. s[p[first]] <= s[p[i]] /\ s[p[i]] <= s[p[last]]
      BY <3>1, <1>0, <1>1
    <3>4. s[p[first]] \in Nat /\ s[p[last]] \in Nat /\ s[p[i]] \in Nat
      BY <3>1, <2>1, <1>0
    <3>5. low <= s[p[i]]
      BY <3>3, <3>4, <1>4
    <3>6. s[p[i]] <= high
      BY <3>3, <3>4, <1>5
    <3> QED
      BY <3>2, <3>4, <3>5, <3>6
  <2>4. first \in Int /\ last \in Int /\ first <= last /\ last - first + 1 = Take
    BY <1>0
  <2>5. \A i \in 1 .. Take : first + i - 1 \in first .. last
    BY <1>0
  <2> HIDE DEF first, last
  <2>6. /\ kept \in Seq(Nat)
        /\ Len(kept) = IF first <= last THEN last - first + 1 ELSE 0
        /\ \A i \in 1 .. last - first + 1 : kept[i] = Sorted(s)[first + i - 1]
    BY <2>3, <2>4, SubSeqProperties
  <2> HIDE DEF kept
  <2>7. Len(kept) = Take /\ \A i \in 1 .. Take : kept[i] = Sorted(s)[first + i - 1]
    BY <2>4, <2>6
  <2>8. DOMAIN kept = 1 .. Take
    BY <2>6, <2>7, LenProperties
  <2> QED
    BY <2>3, <2>5, <2>6, <2>7, <2>8
<1> HIDE DEF kept
<1>7. SumOf(kept) \in Nat /\ Take * low <= SumOf(kept) /\ SumOf(kept) <= Take * high
  BY <1>6, SumBounds
<1>8. Average(s) = SumOf(kept) \div Take
  BY DEF Average, kept
<1> QED
  BY <1>0, <1>7, <1>8, QuotientWithin

(* The last result is of as many runs as there are, and has their average. *)
ResultIInv ==
    \/ lastResult.of = <<>>
    \/ /\ lastResult.of \in Seq(Durations) /\ Len(lastResult.of) = Runs
       /\ lastResult.average = Average(lastResult.of)

(* Only run_benchmark takes averages, of all of its runs. *)
LEMMA ResultInvariance == BenchSpec => []ResultIInv
<1>1. BenchInit => ResultIInv
  BY DEF BenchInit, ResultIInv
<1>2. BenchIInv /\ ResultIInv /\ [BenchNext]_benchVars => ResultIInv'
  <2> SUFFICES ASSUME BenchIInv, ResultIInv, [BenchNext]_benchVars PROVE ResultIInv'
    OBVIOUS
  <2>1. ASSUME lastResult' = lastResult PROVE ResultIInv'
    BY <2>1 DEF ResultIInv
  <2>2. CASE TakeAverages
    <3>1. /\ Len(durations) = Runs
          /\ lastResult' = [raw |-> RawAverage(durations), average |-> Average(durations),
                            of |-> durations]
      BY <2>2 DEF TakeAverages
    <3>2. durations \in Seq(Durations)
      BY DEF BenchIInv
    <3>3. lastResult'.of = durations /\ lastResult'.average = Average(durations)
      BY <3>1
    <3> QED
      BY <3>1, <3>2, <3>3 DEF ResultIInv
  <2>3. CASE ParseOpt \/ RefuseOpt \/ ListBenchmarks \/ SkipBenchmark \/ ReportResults
    BY <2>1, <2>3 DEF ParseOpt, RefuseOpt, ListBenchmarks, SkipBenchmark, ReportResults
  <2>4. CASE SetUpImport \/ SetUpProposer \/ SetUpPool \/ SetUpTrie
    BY <2>1, <2>4 DEF SetUpImport, SetUpProposer, SetUpPool, SetUpTrie, SetUp
  <2>5. CASE RunImport \/ RunProposer \/ RunPool \/ RunTrie
    BY <2>1, <2>5 DEF RunImport, RunProposer, RunPool, RunTrie, Run
  <2>6. CASE UNCHANGED benchVars
    BY <2>1, <2>6 DEF benchVars
  <2> QED
    BY <2>2, <2>3, <2>4, <2>5, <2>6 DEF BenchNext
<1> QED
  BY <1>1, <1>2, BenchInvariance, PTL DEF BenchSpec

(* AveragesHold: the average that is reported lies between any two durations  *)
(* that not more runs are below, and above, than are skipped at either end    *)
(* (bench/src/core.rs, run_benchmark).                                        *)
THEOREM AveragesAlwaysHold == BenchSpec => []AveragesHold
<1>1. ASSUME ResultIInv, NEW low \in Durations, NEW high \in Durations,
             lastResult.of # <<>>,
             Cardinality({ i \in DOMAIN lastResult.of : lastResult.of[i] < low }) <= Skip,
             Cardinality({ i \in DOMAIN lastResult.of : lastResult.of[i] > high }) <= Skip
      PROVE  lastResult.average \in low .. high
  <2>1. /\ lastResult.of \in Seq(Durations) /\ Len(lastResult.of) = Runs
        /\ lastResult.average = Average(lastResult.of)
    BY <1>1 DEF ResultIInv
  <2>2. lastResult.of \in Seq(Nat) /\ low \in Nat /\ high \in Nat
    <3>1. Durations \subseteq Nat
      BY RunnerAssumption
    <3>2. ASSUME NEW s \in Seq(Durations) PROVE s \in Seq(Nat)
      <4>1. Len(s) \in Nat /\ s = [i \in 1 .. Len(s) |-> s[i]]
        OBVIOUS
      <4>2. \A i \in 1 .. Len(s) : s[i] \in Nat
        <5>1. \A i \in 1 .. Len(s) : s[i] \in Durations
          BY <4>1
        <5> QED
          BY <3>1, <5>1
      <4> QED
        BY <4>1, <4>2, SequenceOf
    <3> QED
      BY <2>1, <3>1, <3>2
  <2>3. Average(lastResult.of) \in low .. high
    BY <1>1, <2>1, <2>2, AverageWithin
  <2> QED
    BY <2>1, <2>3
<1>2. ResultIInv => AveragesHold
  BY <1>1 DEF AveragesHold
<1> QED
  BY <1>2, ResultInvariance, PTL
=============================================================================
