----------------------------- MODULE BenchRunner ------------------------------
(***************************************************************************)
(* The benchmark program: main.rs lists the benchmarks and runs those the  *)
(* filter selects, core.rs sets one up, runs it again and again and takes  *)
(* the averages.  A run of a node benchmark makes a context of its own out *)
(* of the database of the benchmark, and imports a block (import.rs),      *)
(* proposes one out of a pool that is a stub (construct.rs), or submits    *)
(* transactions to a real pool in it (txpool.rs).  An import counts the    *)
(* events of its block when it is through.                                 *)
(*                                                                         *)
(* Durations are small numbers, a transaction is only counted.  A name     *)
(* that contains the filter is taken for a name that begins with it.  The  *)
(* pauses of the profile mode lie outside of what is measured.             *)
(***************************************************************************)
EXTENDS Integers, Sequences, SequencesExt, FiniteSetsExt

CONSTANTS
    Runs, Skip, Take,   \* 50, 10 and 30 in run_benchmark
    KeyringLength,      \* the accounts of a bench database, 50_000
    BlockCapacities,    \* bound: how many transactions a block may take
    Durations,          \* bound: how long a run may take
    Filters,            \* bound: the filters that are tried
    Customs             \* bound: the values of --transactions that are tried

ASSUME RunnerAssumption ==
    /\ Runs \in Nat /\ Skip \in Nat /\ Take \in Nat \ {0} /\ 2 * Skip + Take = Runs
    /\ Durations \subseteq Nat /\ Customs \subseteq Nat /\ BlockCapacities \subseteq Nat
    /\ KeyringLength \in Nat
    /\ KeyringLength >= 500     \* the content of the large benchmarks

VARIABLES
    opt,            \* the arguments
    toRun,          \* the benchmarks to come
    benchmark,      \* the one that is set up
    prepared,       \* how many transactions it was set up with
    benchDb,        \* the best block in the database of the benchmark
    durations,      \* how long the runs took, in their order
    starts,         \* history: what the runs of the benchmark began with
    lastResult,     \* the averages of the last benchmark
    benchOutcome    \* of the program

setupOfBench == <<benchmark, prepared>>
runsOfBench == <<benchDb, durations, starts>>
benchVars == <<opt, toRun, setupOfBench, runsOfBench, lastResult, benchOutcome>>

-----------------------------------------------------------------------------
Profiles == <<"wasm", "native">>
Sizes == <<"empty", "small", "medium", "large", "full", "custom">>
BlockTypes == <<"transfer_keep_alive", "transfer_reaping", "noop">>
Databases == <<"rocksdb", "paritydb">>
DatabaseSizeNames == <<"empty", "smallest", "small", "medium", "large", "huge">>

(* Which of s a loop over it is at in round i of a nest of loops; a round of *)
(* that loop is as many rounds of the nest as the loops inside it have.      *)
Nested(s, inside, i) == s[(((i - 1) \div inside) % Len(s)) + 1]

(* ImportBenchmarkDescription::path, for all that main pushes. *)
Imports ==
    [i \in 1 .. 2 * 6 * 3 * 2 |->
        LET size == Nested(Sizes, 6, i)
        IN  [kind |-> "import", size |-> size,
             path |-> <<"node", "import", Nested(Profiles, 36, i), "sr25519",
                        Nested(BlockTypes, 2, i), Nested(Databases, 1, i), size>>]]

(* The database of a trie benchmark is not in its path. *)
Tries(kind) ==
    [i \in 1 .. 6 * 2 |->
        LET name == Nested(DatabaseSizeNames, 2, i)
        IN  [kind |-> kind, size |-> name, path |-> <<"trie", kind, name>>]]

Proposer(name) ==
    [kind |-> "proposer", size |-> name,
     path |-> <<"node", "proposer", "wasm", "sr25519", "transfer", "rocksdb", name>>]

TxPool == [kind |-> "txpool", size |-> "medium", path |-> <<"node", "txpool">>]

Benchmarks ==
    Imports \o Tries("read") \o Tries("write")
        \o <<Proposer("medium"), Proposer("large"), TxPool>>

(* The names a filter is contained in. *)
Containing(filter) ==
    CASE filter = "transfer" -> {"transfer", "transfer_keep_alive", "transfer_reaping"}
      [] filter = "small" -> {"small", "smallest"}
      [] OTHER -> {filter}

Has(path, filter) == filter = "none" \/ ToSet(path) \cap Containing(filter) # {}

-----------------------------------------------------------------------------
(* Where s[i] comes when s is sorted, equal values in their order. *)
Rank(s, i) == Cardinality({ j \in DOMAIN s : s[j] < s[i] \/ (s[j] = s[i] /\ j <= i) })

Sorted(s) == [k \in DOMAIN s |-> s[CHOOSE i \in DOMAIN s : Rank(s, i) = k]]
SumOf(s) == FoldLeft(+, 0, s)

(* Mutant: the durations are not sorted before some are skipped. *)
UnsortedAverage(s) == SumOf(SubSeq(s, Skip + 1, Skip + Take)) \div Take

Average(s) == SumOf(SubSeq(Sorted(s), Skip + 1, Skip + Take)) \div Take
RawAverage(s) == SumOf(s) \div Len(s)

(* SizeType::transactions: a full block is not limited, one of custom size   *)
(* has as many as the argument says.                                        *)
Unlimited == KeyringLength + 1
Transactions(name) ==
    CASE name = "empty" -> 0
      [] name = "small" -> 10
      [] name = "medium" -> 100
      [] name = "large" -> 500
      [] name = "full" -> Unlimited
      [] name = "custom" -> opt.transactions

Least(a, b) == IF a < b THEN a ELSE b

(* The n-th transaction is signed by the n-th account: there must be one.    *)
KeyringLasts(n) == n <= KeyringLength

NoBenchmark == [kind |-> "none", size |-> "empty", path |-> <<>>]

-----------------------------------------------------------------------------
BenchInit ==
    /\ opt = [list |-> FALSE, filter |-> "none", transactions |-> 0]
    /\ toRun = <<>> /\ benchmark = NoBenchmark /\ prepared = 0
    /\ benchDb = 0 /\ durations = <<>> /\ starts = {}
    /\ lastResult = [raw |-> 0, average |-> 0, of |-> <<>>]
    /\ benchOutcome = "none"

ParseOpt ==
    /\ benchOutcome = "none" /\ benchOutcome' = "running"
    /\ opt' \in [list : BOOLEAN, filter : Filters \cup {"none"}, transactions : {0} \cup Customs]
    /\ toRun' = Benchmarks
    /\ UNCHANGED <<setupOfBench, runsOfBench, lastResult>>

(* A mode that is neither regular nor profile. *)
RefuseOpt ==
    /\ benchOutcome = "none" /\ benchOutcome' = "usage"
    /\ UNCHANGED <<opt, toRun, setupOfBench, runsOfBench, lastResult>>

ListBenchmarks ==
    /\ benchOutcome = "running" /\ opt.list /\ benchOutcome' = "listed"
    /\ UNCHANGED <<opt, toRun, setupOfBench, runsOfBench, lastResult>>

Benchmarking == benchOutcome = "running" /\ ~opt.list

BetweenBenchmarks == Benchmarking /\ benchmark = NoBenchmark

SkipBenchmark ==
    /\ BetweenBenchmarks /\ toRun # <<>>
    /\ ~Has(Head(toRun).path, opt.filter)
    /\ toRun' = Tail(toRun)
    /\ UNCHANGED <<opt, setupOfBench, runsOfBench, lastResult, benchOutcome>>

SetUp(kinds, content) ==
    /\ BetweenBenchmarks /\ toRun # <<>>
    /\ Has(Head(toRun).path, opt.filter) /\ Head(toRun).kind \in kinds
    /\ benchmark' = Head(toRun) /\ toRun' = Tail(toRun)
    /\ prepared' = content
    /\ benchDb' = 0 /\ durations' = <<>> /\ starts' = {}
    /\ UNCHANGED <<opt, lastResult>>

PanicUnless(condition) ==
    benchOutcome' = IF condition THEN benchOutcome ELSE "panicked"

(* The block is built on the genesis of the database, and not imported there, *)
(* until its content ends or it is full; by then one more transaction was     *)
(* generated.                                                                 *)
SetUpImport ==
    /\ toRun # <<>>
    /\ \E capacity \in BlockCapacities :
        LET wanted == Transactions(Head(toRun).size)
        IN  /\ SetUp({"import"}, Least(wanted, capacity))
            /\ PanicUnless(KeyringLasts(Least(wanted, capacity + 1)))

(* All the content is generated, however much a block takes. *)
SetUpProposer ==
    /\ toRun # <<>>
    /\ LET wanted == Transactions(Head(toRun).size)
       IN  SetUp({"proposer"}, wanted) /\ PanicUnless(KeyringLasts(wanted))

SetUpPool ==
    SetUp({"txpool"}, 0) /\ UNCHANGED benchOutcome

(* The trie benchmarks keep a sample of the keys, see TrieSetup. *)
SetUpTrie ==
    SetUp({"read", "write"}, 0) /\ UNCHANGED benchOutcome

-----------------------------------------------------------------------------
(* Mutant: the context is over the database of the benchmark, as client() is. *)
SharedDatabase(block) == block

(* The database of the benchmark after a run has put a block in its context:  *)
(* create_context copies the directory, and the copy goes with the run.       *)
DatabaseAfter(block) == benchDb

(* The events of a signed extrinsic, as the checks of the keep-alive transfers *)
(* count them: its fee is withdrawn and deposited with two events; a transfer  *)
(* makes an account, endows it and is one itself; the extrinsic succeeds.      *)
FeeEvents == 3
EventsOf(blockType) == FeeEvents + (IF blockType = "transfer_keep_alive" THEN 3 ELSE 0) + 1

(* What the checks expect of it; transfers that reap are not checked. *)
ExpectedEvents(blockType) == IF blockType = "transfer_keep_alive" THEN 7 ELSE 2

(* The inherent is the one extrinsic that is not signed. *)
SanityChecks(blockType, signed) ==
    blockType # "transfer_reaping" =>
        signed * EventsOf(blockType) + 1 = signed * ExpectedEvents(blockType) + 1

BlockType(b) == b.path[5]

(* The pool stub: what it implements, and what the proposer asks of it and   *)
(* of its transactions; all else is unimplemented!.                         *)
PoolImplements == {"ready_at", "remove_invalid"}
TransactionImplements == {"data", "hash"}
ProposerCalls == {"ready_at", "remove_invalid", "data", "hash"}

(* The iterator of ready_at and remove_invalid leave the transactions to the  *)
(* stub, that is cloned into the factory of each run.                         *)
StubAfterwards == prepared

(* A run that panics has no duration. *)
Run(kinds, succeeds) ==
    /\ Benchmarking /\ benchmark.kind \in kinds /\ Len(durations) < Runs
    /\ starts' = starts \cup {<<benchDb, prepared>>}
    /\ IF succeeds
       THEN \E d \in Durations : durations' = Append(durations, d)
       ELSE UNCHANGED durations
    /\ PanicUnless(succeeds)
    /\ UNCHANGED <<opt, toRun, benchmark, lastResult>>

(* The block is the first on top of the genesis, or import_block panics.     *)
RunImport ==
    /\ Run({"import"}, benchDb = 0 /\ SanityChecks(BlockType(benchmark), prepared))
    /\ benchDb' = DatabaseAfter(1)
    /\ UNCHANGED prepared

(* The proposer builds on the genesis out of the stub, as far as its time    *)
(* and the block go; the block is not imported.                             *)
RunProposer ==
    /\ Run({"proposer"}, ProposerCalls \subseteq PoolImplements \cup TransactionImplements)
    /\ prepared' = StubAfterwards
    /\ UNCHANGED benchDb

(* A new pool in a new context, whose content is of medium size; what        *)
(* submit_one answers is not looked at.                                     *)
RunPool ==
    /\ Run({"txpool"}, KeyringLasts(Transactions("medium")))
    /\ UNCHANGED <<benchDb, prepared>>

(* A copy of the database is opened, see TrieStore. *)
RunTrie ==
    /\ Run({"read", "write"}, TRUE)
    /\ UNCHANGED <<benchDb, prepared>>

TakeAverages ==
    /\ Benchmarking /\ benchmark # NoBenchmark /\ Len(durations) = Runs
    /\ lastResult' = [raw |-> RawAverage(durations), average |-> Average(durations),
                      of |-> durations]
    /\ benchmark' = NoBenchmark /\ prepared' = 0
    /\ benchDb' = 0 /\ durations' = <<>> /\ starts' = {}
    /\ UNCHANGED <<opt, toRun, benchOutcome>>

ReportResults ==
    /\ BetweenBenchmarks /\ toRun = <<>>
    /\ benchOutcome' = IF lastResult.of = <<>> THEN "not_found" ELSE "reported"
    /\ UNCHANGED <<opt, toRun, setupOfBench, runsOfBench, lastResult>>

BenchNext ==
    \/ ParseOpt \/ RefuseOpt \/ ListBenchmarks
    \/ SkipBenchmark \/ SetUpImport \/ SetUpProposer \/ SetUpPool \/ SetUpTrie
    \/ RunImport \/ RunProposer \/ RunPool \/ RunTrie
    \/ TakeAverages \/ ReportResults

BenchSpec == BenchInit /\ [][BenchNext]_benchVars

-----------------------------------------------------------------------------
BenchTypeOK ==
    /\ opt \in [list : BOOLEAN, filter : Filters \cup {"none"}, transactions : {0} \cup Customs]
    /\ {prepared, benchDb} \subseteq Nat /\ Len(durations) <= Runs
    /\ benchOutcome \in {"none", "usage", "running", "listed", "reported", "not_found",
                         "panicked"}

(* However far off a few of the runs are, as long as they are not more than  *)
(* are skipped at either end, the average is one of the others.              *)
AveragesHold ==
    \A low, high \in Durations :
        /\ lastResult.of # <<>>
        /\ Cardinality({ i \in DOMAIN lastResult.of : lastResult.of[i] < low }) <= Skip
        /\ Cardinality({ i \in DOMAIN lastResult.of : lastResult.of[i] > high }) <= Skip
        => lastResult.average \in low .. high

(* The runs of a benchmark are independent: each begins with what the first  *)
(* began with, and none but the first, or the set up, can fail, so that no   *)
(* average is lost to what an earlier run left behind.  Only imports fail:   *)
(* one whose block takes the whole keyring, and one of no-ops at all.        *)
RunsIndependent ==
    /\ Cardinality(starts) <= 1
    /\ benchOutcome = "panicked" =>
        /\ durations = <<>> /\ benchmark.kind = "import"
        /\ prepared >= KeyringLength \/ (BlockType(benchmark) = "noop" /\ prepared > 0)

(* "should be 2 per signed extrinsic + 1 per unsigned": an import passes its *)
(* sanity checks, of the block type they are for as of the others.           *)
ImportsPassChecks ==
    benchmark.kind = "import" /\ prepared < KeyringLength => benchOutcome # "panicked"
=============================================================================
