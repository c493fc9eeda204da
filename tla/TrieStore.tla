------------------------------ MODULE TrieStore -------------------------------
(***************************************************************************)
(* Where the trie benchmarks keep a trie: SimpleTrie is an overlay of      *)
(* inserted and removed nodes over a key-value store, and is written to    *)
(* the store in one transaction.  The store is RocksDb, that knows a node  *)
(* by its place and its hash (prefixed_key), or ParityDb, that is handed   *)
(* the last 32 bytes of that key, the hash, and counts references.         *)
(*                                                                         *)
(* A node is a place and a hash: equal subtrees have equal hashes in       *)
(* different places.  The trie library commits once to an overlay: it      *)
(* removes nodes that were there and inserts nodes that were not.  Both    *)
(* stores are kept here side by side, of the seed database and of the copy *)
(* that each run of a benchmark works on.                                  *)
(***************************************************************************)
EXTENDS Integers, FiniteSets

CONSTANTS
    Places, Hashes, \* what nodes are made of
    MaxRuns         \* bound: how often a copy is taken

ASSUME StoreBound == MaxRuns \in Nat
ASSUME NodesFinite == IsFiniteSet(Places) /\ IsFiniteSet(Hashes) /\ "null" \notin Hashes

VARIABLES
    seed,           \* the database that generate_trie has filled
    copy,           \* the copy of it that a run works on
    overlay,        \* for the nodes of the overlay: inserted, or removed
    trie,           \* the nodes of the trie that has been committed to
    work,           \* what is done: generating, between runs, running, written
    runs

storeVars == <<seed, copy, overlay, trie, work, runs>>

Nodes == Places \X Hashes
Hash(node) == node[2]

(* The node of the empty trie, that generate_trie puts in by itself. *)
NullNode == <<"", "null">>
AllHashes == Hashes \cup {"null"}

-----------------------------------------------------------------------------
EmptyStore == [rocks |-> {}, parity |-> [h \in AllHashes |-> 0]]
NoOverlay == [node \in {} |-> "inserted"]

Inserted == { node \in DOMAIN overlay : overlay[node] = "inserted" }
Removed == { node \in DOMAIN overlay : overlay[node] = "removed" }

(* HashDB::get: what the overlay knows comes before the store. *)
GetRocks(store, node) ==
    IF node \in DOMAIN overlay THEN overlay[node] = "inserted" ELSE node \in store.rocks
GetParity(store, node) ==
    IF node \in DOMAIN overlay THEN overlay[node] = "inserted" ELSE store.parity[Hash(node)] > 0

(* HashDB::emplace and remove, for what one commit of the library does. *)
Overlaid(insert, remove) ==
    [node \in DOMAIN overlay \cup insert \cup remove |->
        IF node \in insert THEN "inserted"
        ELSE IF node \in remove THEN "removed" ELSE overlay[node]]

Of(hash, nodes) == Cardinality({ node \in nodes : Hash(node) = hash })

(* Mutant: ParityDb without ref_counted, or with no regard for it. *)
Uncounted(store) ==
    [rocks |-> (store.rocks \cup Inserted) \ Removed,
     parity |-> [h \in AllHashes |->
                   IF Of(h, Inserted) > 0 THEN 1
                   ELSE IF Of(h, Removed) > 0 THEN 0 ELSE store.parity[h]]]

(* The transaction: put and delete for each key of the overlay. *)
Written(store) ==
    [rocks |-> (store.rocks \cup Inserted) \ Removed,
     parity |-> [h \in AllHashes |->
                   LET left == store.parity[h] + Of(h, Inserted) - Of(h, Removed)
                   IN  IF left < 0 THEN 0 ELSE left]]

-----------------------------------------------------------------------------
StoreInit ==
    /\ seed = EmptyStore /\ copy = EmptyStore
    /\ overlay = [node \in {NullNode} |-> "inserted"]
    /\ trie = {NullNode}
    /\ work = "generating"
    /\ runs = 0

(* generate_trie: all keys are inserted, then committed, then written.  The  *)
(* commit removes the node of the empty trie, that the first key replaces.   *)
Generate(nodes) ==
    /\ work = "generating" /\ work' = "generated"
    /\ nodes # {}
    /\ overlay' = Overlaid(nodes, {NullNode})
    /\ trie' = nodes
    /\ UNCHANGED <<seed, copy, runs>>

WriteSeed ==
    /\ work = "generated" /\ work' = "idle"
    /\ seed' = Written(seed)
    /\ overlay' = NoOverlay
    /\ UNCHANGED <<copy, trie, runs>>

(* A run clones the directory of the seed and opens the clone. *)
StartRun ==
    /\ work = "idle" /\ work' = "running"
    /\ runs < MaxRuns /\ runs' = runs + 1
    /\ copy' = seed
    /\ UNCHANGED <<seed, overlay, trie>>

(* The write benchmark: one key is inserted, and the path to it changes. *)
CommitRun(insert, remove) ==
    /\ work = "running" /\ work' = "committed"
    /\ insert \cap trie = {} /\ insert # {} /\ remove \subseteq trie
    /\ overlay' = Overlaid(insert, remove)
    /\ trie' = (trie \cup insert) \ remove
    /\ UNCHANGED <<seed, copy, runs>>

WriteRun ==
    /\ work = "committed" /\ work' = "written"
    /\ copy' = Written(copy)
    /\ overlay' = NoOverlay
    /\ UNCHANGED <<seed, trie, runs>>

(* The next run starts from the seed again: from the trie as it was          *)
(* generated, whose nodes are those that RocksDb holds.                      *)
EndRun ==
    /\ work \in {"running", "written"} /\ work' = "idle"
    /\ trie' = seed.rocks
    /\ UNCHANGED <<seed, copy, overlay, runs>>

StoreNext ==
    \/ \E nodes \in SUBSET Nodes : Generate(nodes)
    \/ WriteSeed \/ StartRun \/ WriteRun \/ EndRun
    \/ \E insert \in SUBSET Nodes, remove \in SUBSET Nodes : CommitRun(insert, remove)

StoreSpec == StoreInit /\ [][StoreNext]_storeVars

-----------------------------------------------------------------------------
StoreTypeOK ==
    /\ \A s \in {seed, copy} : s.rocks \subseteq Nodes \cup {NullNode}
                                 /\ s.parity \in [AllHashes -> Nat]
    /\ DOMAIN overlay \subseteq Nodes \cup {NullNode} /\ trie \subseteq Nodes \cup {NullNode}

(* Both databases hold the trie: through the overlay and without it RocksDb  *)
(* has its nodes and no others, and ParityDb has a reference for each place  *)
(* a node is at, so that it loses none while the trie still has it.          *)
DatabasesAgree ==
    LET current == IF work \in {"running", "committed", "written"} THEN copy ELSE seed
    IN  /\ \A node \in trie : GetRocks(current, node) /\ GetParity(current, node)
        /\ \A node \in Nodes \ trie : ~GetRocks(current, node)
        /\ \A s \in {seed, copy}, h \in AllHashes : s.parity[h] = Of(h, s.rocks)
=============================================================================
