------------------------------ MODULE TrieSetup -------------------------------
(***************************************************************************)
(* How the trie benchmarks fill their database (trie.rs): the sizes of the *)
(* values are drawn from a pool that is made of a histogram, and of every  *)
(* so many keys one is kept to warm up with and one to be queried.         *)
(***************************************************************************)
EXTENDS Integers, Sequences, FiniteSets, SequencesExt

CONSTANTS
    SampleSize,     \* SAMPLE_SIZE
    DatabaseSizes,  \* DatabaseSize::keys
    Histograms      \* bound: the histograms that are tried

(* TLC counts this far; a u32, that holds the total, about twice as far. *)
LargestTotal == 2147483647

SumOfCounts(h) == FoldLeft(LAMBDA total, entry : total + entry.count, 0, h)

(* KUSAMA_STATE_DISTRIBUTION, of which nothing matters but this: it names    *)
(* the sizes in their order, each once, counts each at least once, and a u32 *)
(* takes the sum of its counts.                                             *)
StateDistribution(h) ==
    /\ h # <<>> /\ h \in Seq([size : Nat, count : Nat \ {0}])
    /\ \A i, j \in DOMAIN h : i < j => h[i].size < h[j].size
    /\ SumOfCounts(h) \in 1 .. LargestTotal

ASSUME SetupAssumption ==
    /\ SampleSize \in Nat \ {0}
    /\ DatabaseSizes \subseteq Nat
    /\ \A keys \in DatabaseSizes : keys >= 2 * SampleSize
    /\ \A h \in Histograms : StateDistribution(h)

VARIABLES
    purpose,        \* of the trie: "read" or "write"
    histogram, pool,
    keys,           \* how many keys the database is to have
    idx,            \* the keys so far
    inserted,       \* what has been put into the trie: keys by their index and kind
    warmup, query   \* the indices kept

drawVars == <<purpose, histogram, pool, keys>>
setupVars == <<drawVars, idx, inserted, warmup, query>>

-----------------------------------------------------------------------------
(* Mutant: a size is entered under the total before it. *)
EnterBefore(p, entry) ==
    [distribution |-> p.distribution \cup {<<p.total, entry.size>>},
     total |-> p.total + entry.count]

Enter(p, entry) ==
    [distribution |-> p.distribution \cup {<<p.total + entry.count, entry.size>>},
     total |-> p.total + entry.count]

(* SizePool::from_histogram *)
FromHistogram(h) == FoldLeft(Enter, [distribution |-> {}, total |-> 0], h)

(* SizePool::value for one random number below the total: the first entry   *)
(* from there on, that must exist.                                          *)
SizesAt(p, sr) ==
    { e[2] : e \in { d \in p.distribution :
                       d[1] >= sr /\ \A f \in p.distribution : f[1] >= sr => d[1] <= f[1] } }

(* Mutant: every other key is kept to be queried. *)
EveryOther(i, every) == i % 2 = 1

IsWarmup(i, every) == i % every = 0
IsQuery(i, every) == i % every = 1

-----------------------------------------------------------------------------
(* The assertion of DatabaseSize::keys. *)
WholeSamples(size) == size % SampleSize = 0

SetupInit ==
    /\ purpose = "none" /\ histogram = <<>> /\ pool = FromHistogram(<<>>)
    /\ keys = 0 /\ idx = 0
    /\ inserted = {} /\ warmup = {} /\ query = {}

Start(benchmark) ==
    /\ keys = 0 /\ purpose' = benchmark
    /\ histogram' \in Histograms /\ keys' \in DatabaseSizes /\ WholeSamples(keys')
    /\ pool' = FromHistogram(histogram')
    /\ UNCHANGED <<idx, inserted, warmup, query>>

StartRead == Start("read")
StartWrite == Start("write")

Every == keys \div SampleSize
Push(kept) == inserted' = inserted \cup kept /\ idx' = idx + 1

(* A warm-up key is a key of its own, that shares the prefix of the others;  *)
(* its value is also drawn for the key that follows.                         *)
PushWarmup ==
    /\ idx < keys /\ IsWarmup(idx, Every)
    /\ warmup' = warmup \cup {idx}
    /\ Push({<<"warmup", idx>>, <<"drawn", idx>>})
    /\ UNCHANGED <<drawVars, query>>

(* Only the read benchmark keeps keys to query. *)
PushQuery ==
    /\ idx < keys /\ ~IsWarmup(idx, Every) /\ IsQuery(idx, Every)
    /\ query' = IF purpose = "read" THEN query \cup {idx} ELSE query
    /\ Push({<<"drawn", idx>>})
    /\ UNCHANGED <<drawVars, warmup>>

PushOther ==
    /\ idx < keys /\ ~IsWarmup(idx, Every) /\ ~IsQuery(idx, Every)
    /\ Push({<<"drawn", idx>>})
    /\ UNCHANGED <<drawVars, warmup, query>>

SetupNext == StartRead \/ StartWrite \/ PushWarmup \/ PushQuery \/ PushOther

SetupSpec == SetupInit /\ [][SetupNext]_setupVars

-----------------------------------------------------------------------------
SetupTypeOK ==
    /\ purpose \in {"none", "read", "write"}
    /\ histogram \in Histograms \cup {<<>>} /\ keys \in DatabaseSizes \cup {0}
    /\ idx \in 0 .. keys /\ warmup \cup query \subseteq 0 .. keys - 1

(* The samples are complete when the loop ends, which is asserted, and hold  *)
(* nothing that the database does not.                                       *)
SamplesComplete ==
    /\ \A i \in warmup : <<"warmup", i>> \in inserted
    /\ \A i \in query : <<"drawn", i>> \in inserted
    /\ keys > 0 /\ idx = keys =>
        /\ Cardinality(warmup) = SampleSize
        /\ Cardinality(query) = IF purpose = "read" THEN SampleSize ELSE 0

(* Every number that can be drawn finds a size; and of each size there is,   *)
(* up to one, the share that the histogram counts.                           *)
SharesOfHistogram ==
    \A i \in DOMAIN histogram :
        LET draws == { sr \in 0 .. pool.total - 1 : histogram[i].size \in SizesAt(pool, sr) }
        IN  /\ Cardinality(draws) - histogram[i].count \in -1 .. 1
            /\ \A sr \in 0 .. pool.total - 1 : SizesAt(pool, sr) # {}

(* What a trie benchmark measures is a whole sample of a database whose      *)
(* values have the sizes of the state they stand for.                        *)
SetupSound == SamplesComplete /\ SharesOfHistogram
=============================================================================
