# Votechain: a verification development

Votechain is an online voting system on a blockchain: a Substrate node whose
runtime has a pallet for elections (`src/votechain`), and a web client in React
that votes, administers elections and shows their results (`src/client`). This
directory holds TLA+ modules translated from that code, the configurations that
check them with TLC, and proofs that TLAPS checks.

To check a run: `tlc -config MCVotechain.cfg MCVotechain`. To check the proofs:
`tlapm` on `VotechainProofs`, `VoteClientProofs`, `SessionProofs`,
`TxButtonProofs`, `GovernanceProofs`, `RuntimeProofs`, `BenchProofs` and
`NodeProofs`; the last three are long and take many minutes each.
`PROJECT.json` lists the runs, the source lines every definition stands for, the mutations of
the code each property was seen to catch, the hazards, the findings and the
theorems.

## 1. The system

### 1.1 Components

| Component | Where | State it keeps | Operations |
|---|---|---|---|
| Votechain pallet | `pallets/votechain/src/lib.rs` | five storage maps keyed by hash: `Elections`, `ElectionCandidates`, `ElectionVotes`, `Candidates`, `CandidateVotes`; the template's value `Something` | `create_election`, `close_election`, `create_candidate` (Root), `create_vote` (signed); `do_something`, `cause_error` left from the template |
| Runtime | `runtime/src/*.rs` | none of its own; it configures some forty Substrate pallets and so decides what they do: who may act for whom, which share of which body may do what, where fees go, what fits in a block, how validators are changed | proxy filter, fee split, fee multiplier, `create_transaction`, the parameters of the other pallets |
| Node | `cli`, `executor`, `rpc`, `primitives` | a process: its tasks, the handles its parts share, the genesis of its chain | subcommands, starting a node, `create_extrinsic` |
| Inspector | `inspect` | none; it reads the database of a node | parsing the address of a block or an extrinsic, showing it |
| Benchmarks | `bench`, `testing` | a list of benchmarks, a generated trie in one of two databases, an overlay over it, a keyring | set up, runs, averages |
| Connection and keyring of the client | `SubstrateContext.js`, `App.js` | `apiState`, `apiError`, `keyringState`, the module's flag `keyringLoadAll` | event handlers of the api, `loadAccounts`, the choice of a screen |
| Navbar | `Navbar.js` | `isSudo`, `openModal`; `currentAccount` in the context above | login, check for the sudo key, logout |
| Votechain context | `VotechainContext.js` | `elections`, `candidates`, `votes`, `blocks` | four asynchronous fetches, a reducer |
| Vote and result pages | `Vote.js`, `ElectionResult.js` | `electionId`, `candidateId` of a form | selections, effects that fetch, the submit button |
| TxButton | `TxButton.js` | `unsub`, `sudoKey`, a status line | sending, hearing of what was sent, cancelling |
| Administration pages | `CreateElection.js`, `AddCandidates.js`, `CloseElection.js` | a form each | sudo buttons |
| Explorer | `Blocks.js`, `Events.js`, `BlockNumber.js`, `Balances.js` | subscriptions and lists | reading block by block, subscribing and unsubscribing |
| Template pages | `Interactor.js` and others | a form each | rendering |

### 1.2 How they interact

* The client reaches the pallet by extrinsics: a `TxButton` signs a call, the
  node's pool holds it, a block includes it. A nonce keeps those of one account
  in order; nothing orders those of different accounts. What Root does comes
  through `pallet-sudo`, which dispatches the inner call with the Root origin.
* The client reaches the storage by queries. Each is one or more awaits; the
  answer shows the storage of an earlier moment and is dispatched later.
* A node is put together in a fixed order (`service.rs`): client, pool and queue,
  network, RPC, then what authors and votes. The tasks run from the moment they
  are spawned. The RPC is handed the voter state before there is a voter.
* In the runtime the pallets meet in the steps of a block: BABE ends epochs, the
  session rotates, staking plans eras and takes its validators from an election
  whose voters come from the bags; the council fills the technical committee,
  which has powers over what the council wants voted on.
* The three parts of the client share React state: the context of the
  connection gives `api`, `keyring` and `currentAccount` to the navbar and to
  every `TxButton`; the votechain context outlives the pages that fill it.

### 1.3 What is hard here

* **Failure half way.** Dispatchables are not transactional in this version of
  Substrate unless they are marked so, and only `create_election` is. Whatever a
  call wrote before it failed stays on the chain.
* **Long sequences of legal calls.** Ids are hashes of contents, so that a call
  repeated hits the records of the first one; all ids have one type, so that a
  caller may give any hash for any other.
* **Answers out of order.** A fetch answered late is dispatched after a later
  one; the form has gone on meanwhile.
* **Connections.** The socket drops between any two awaits; the api emits
  `ready` once only; the keyring must be loaded once only.
* **Time in two units.** Epochs are counted in slots and elections in blocks;
  slashes are deferred while stake unbonds; a referendum is confirmed, rejected
  or times out by block numbers.
* **Rounding.** Fees are split, and the fee multiplier moves, in integers.
* **Parts that end while others start.** An essential task may end before
  anybody waits for it.
* **Rights passed on.** Proxies grant proxies; one body appoints another.
* **A chain that moves on.** `create_extrinsic` asks for the best block three
  times; the inspector meets forks and pruned bodies.
* **Overlapping clicks and logins.** Nothing disables a button while its call
  runs, and a check for the sudo key may outlast the login it was made for.

### 1.4 What makes each component correct

* Pallet: one ballot per author and election; a counted vote is one that was
  accepted; the maps agree with each other; votes leave the chain only by calls
  of Root; calls do nothing a plain ballot box would not do.
* Votechain context and pages: what is shown was on the chain, as one list and
  not a mixture; a vote sent from the form is not wasted.
* Connection, keyring, navbar: loaded once, always recovering unless lost for a
  stated reason; the menu of the administration belongs to who is logged in.
* TxButton: no subscription out of reach, no news of an old extrinsic under a
  new one, no sending without an end.
* Runtime: nobody acts with more than was given; a share of the council cannot be
  got around; no money appears or vanishes; blocks keep their limits and fees
  follow the load; the validators are those that were elected, and an offence
  that is reported in time is slashed; a track is held by one referendum.
* Node: every named chain builds; a node does not go on without what it is there
  for; the RPC tells what the voter does; an extrinsic can be included until it
  expires and never after.
* Benchmarks: two databases that hold the same trie; runs that begin alike and an
  average that outliers do not move.

## 2. The modules

| Module | Models | Kind |
|---|---|---|
| `BallotBox` | what an election promises a voter | abstract specification |
| `Votechain` | the pallet's election storage and calls | detailed specification |
| `MCVotechain` | instances of it for TLC | |
| `VotechainProofs` | the inductive invariant, what follows, and that `Votechain` implements `BallotBox` | proofs |
| `VoteClient` | context, vote form and result page, composed with `Votechain` | specification |
| `MCVoteClient` | instances of it | |
| `VoteClientProofs` | what a browser loaded at any moment shows and sends, and that the chain behind it is `Votechain` | proofs |
| `ClientSession` | connection, keyring, screens, login and menu | specification |
| `MCClientSession` | instances of it | |
| `SessionProofs` | the invariant of a session | proofs |
| `TxButton` | the button that sends | specification |
| `TxButtonProofs` | the invariant of its calls | proofs |
| `TemplateValue` | `do_something` and `cause_error` of the pallet | specification |
| `ProxyRules` | kinds of proxies, the proxy pallet | specification |
| `Governance` | council, technical committee, democracy, treasury | specification |
| `Referenda` | the track of the referenda | specification |
| `GovernanceProofs` | the three above | proofs |
| `Fees` | what becomes of a fee | specification |
| `BlockLoad` | block weights and the fee multiplier | specification |
| `Eras` | epochs, sessions, eras, elections, slashes | specification |
| `VoterBags` | the bags of voters | specification |
| `MCRuntime` | the runtime's seven and `TemplateValue` in one instance | |
| `RuntimeProofs` | the four above, and all properties of the composition of `MCRuntime` | proofs |
| `ChainSpec` | the named chains and their genesis | operators |
| `NodeService` | one process of the node | specification |
| `ExtrinsicLife` | making an extrinsic, and including it | specification |
| `Inspect` | the inspect subcommand | specification |
| `TrieStore` | overlay and databases of the trie benchmarks | specification |
| `TrieSetup` | the data of the trie benchmarks | specification |
| `BenchRunner` | the benchmark program | specification |
| `MCNode` | `NodeService` to `BenchRunner` and `TxButton` in one instance | |
| `BenchProofs` | `TrieStore`, `TrieSetup` and `BenchRunner` | proofs |
| `NodeProofs` | `ChainSpec`, `NodeService`, `ExtrinsicLife`, the types of `Inspect`, and the invariants of the composition of `MCNode` | proofs |

### 2.1 `Votechain` and `BallotBox`

Each storage map is a function from `Hash` to a value or `None`. `Hash` holds
every id a caller can name: those of elections and of candidates, which Rust
does not tell apart. `HashOf` is a constant operator; `HashAssumption` says that
it has no collision on what the pallet hashes, and nothing else is known of it.
The length in bytes of a description or a name is the constant `Bytes`.

A dispatchable is one action, since the runtime runs one at a time, and each of
its early returns is a disjunct: `Reject(e)` if nothing has been written by then.
`CreateVote` has the one error that leaves a write behind: the ballot is pushed
on `ElectionVotes` before `CandidateVotes` is read. Every origin calls every
dispatchable. The clean-up that `#[transactional]` would do for
`create_election` is not needed, as that call fails before it writes.

Three variables are not storage: `result`, the outcome of the last call, and
the histories `accepted` (votes answered with Ok) and `created` (how often each
id was created). No guard reads them.

`BallotBox` has boxes that are opened, take one ballot of a voter each, and are
closed; opening a box again empties it. The mapping takes the phase of a box
from `Elections` and its ballots from `ElectionVotes`. A failed call maps to a
stutter, except the vote whose candidate does not exist: the box accepts its
ballot. That is exactly what the code does, and the finding `refused_voter`
says what is wrong with it.

Not modelled: events and weights. The template's two calls share no storage with
the elections and are a module of their own, `TemplateValue`: `something` is the
storage item, a number of `Width` bits or none, and every origin makes either
call. The pallet's unit test expects that `do_something` reserves a balance,
which nothing in the pallet does.

### 2.2 `VoteClient`

It extends `Votechain` with one voter's browser. `fetches` holds, per kind, the
bag of calls under way: `Answer` reads the storage of that moment, `Dispatch`
hands the answer to the reducer, in any order and with any steps in between. The
two awaits of `fetchElections` and `fetchCandidates` read their storage in the
first and transform it after, so that one answer stands for both.

`OpenPage`, `SelectElection`, `SelectCandidate` and `Submit` are the user's
clicks, with the effects React runs after them: leaving a page empties its form
and mounting one fetches; a change of the election fetches and keeps the chosen
candidate. `pool` is the queue of the user's extrinsics, in the order of their
nonces, and `Include` runs the pallet's `CreateVote` for its head. `Others` are
Root and the other voters, through the pallet's own actions; those that change
no storage are left out because nothing in the client could see them.

Simplified: an item of a list is its id, without the text; the order of items
in a list is not kept. `fetchBlocks` and the counts of the result table are not
modelled.

### 2.3 `ClientSession`

`socket` is the connection of the provider and `metadata` whether the api has
initialised. `Connected`, `Ready`, `Drop` and `ConnectFails` are the events with
their handlers; there is no handler for `disconnected`, so `Drop` by itself
changes no `apiState`. `StartLoadingIf` is the effect that loads the accounts
after a render with a ready api. `loading` tells which await of `loadAccounts`
is pending: the extension, that the user authorises, or the chain. `Screen` is
what `App.js` renders, and `NavbarUnmounts` the loss of the navbar's state when
another screen takes its place. `RenderThrows` is the exception of the error
screen, that reads `errObj.target.url` of an error that has no target. `checks`
is the bag of pending `sudo.key()` calls, by the account they were made for.

The highlighted menu entry is left out, as nothing depends on it.

### 2.4 `TxButton`

`calls[c]` is how far the asynchronous call of the c-th click has come: looking
for the signer, sending, watched by a subscription, over, or lost to an
exception. `unsub` is what the hook holds: nothing, the function that cancels
one subscription, or a promise, which the sudo buttons keep because they do not
await `signAndSend`. `status` says of which click the status line speaks.
`overtaken` records that a click came while an earlier one was still being
sent. Query, rpc, constant and unsigned buttons and the conversion of parameters
are not modelled.

### 2.5 The runtime

The runtime is configuration: each module states what a pallet does with the
parameters that `lib.rs`, `impls.rs`, `constants.rs` and `voter_bags.rs` give it.
What is Substrate's is marked external in `PROJECT.json`; what the repository
chooses is mapped to its line.

* `ProxyRules`: `Filter` and `IsSuperset` are the two methods of `ProxyType`, over
  classes of calls. A transaction is signed by an account (`Sign`) and may go on
  as another one through a grant (`ProxyCall`), any number of times; `acting`
  says for whom and through what. `given` remembers what an account gave away
  itself. No guard but the bound on grants reads it.
* `Governance`: a motion of a body is one step with the ayes it got. `dissent` are
  the members that oppose everything, so that a motion has at most the ayes of the
  others. The origins of `lib.rs` are operators on ayes. `committee` is what
  `ChangeMembers`, by half of the council, makes of it. Simplified: the council is
  that of one term, Root is not an actor, an account may veto more than once.
* `Fees`: `Withdraw` and `Deposit` are the two ends of
  `pallet_transaction_payment`, `Ration`, `Shares` and `Credited` the split of
  `DealWithFees`, the payment of `Author` and the existential deposit. The call
  between them may empty the payer (`SpendAll`).
* `BlockLoad`: weights are twentieths of a block. `Hooks` takes what the hooks may,
  `Apply` is an extrinsic that `CheckWeight` lets in (`Fits`), `Finalize` moves
  the multiplier by `TargetedFeeAdjustment`, in integers that round as
  `FixedU128` does. `MultiplierAssumption` asks that a full block moves even the
  least multiplier by a unit; a configuration that broke it would leave the
  multiplier at the bottom for good, so that this is where the danger lies and not
  in the steps. `lib.rs:429-430` meets it with room: in units of 10^-18 the
  variable is 10^13, the least multiplier 10^9, and 10^9 times three quarters of
  10^13 is 7.5 * 10^21, where 10^18 is asked for.
* `Eras`: one action for each kind of block. A block is at the next slot or, when
  slots stay empty, a later one; it opens a phase of the election, or rotates the
  session, or neither. `PlanEra` and `ElectionFails` are the rotation at which
  staking wants the next era. `Offend`, `Report`, `Unbond`, `WithdrawUnbonded` and
  `CancelSlash` are about one offender, whose slash is applied as an era starts.
* `VoterBags`: `Relist` is what staking has the list do when a bond changes;
  `SlashOrReward` changes the weight behind its back; `Rebag` repairs. The two
  hundred thresholds of `voter_bags.rs` are abridged to five with a ratio of two:
  the numbers of the table, with their ratio of 1.063 and their last entry of
  2^64 - 1, are in no run and no proof. What is shown is how far the snapshot
  depends on the ratio, at a ratio of two.
  `order` holds who was listed before whom, as pairs; `Before` looks at those of
  one bag, since higher bags come first.
* `Referenda`: `Tick` opens a block and makes all referenda under way due; each is
  served by one action of the pallet's `service_referendum`. The share of approval
  and turnout that is asked for falls along the two curves of `TracksInfo`.

### 2.6 The node and its tools

* `ChainSpec` has no state: `Genesis` of a chain's name is what `testnet_genesis`
  makes, `Builds` what the pallets assert of it.
* `NodeService`: `at` is how far `run` of `command.rs`, `new_partial` and
  `new_full_base` have come; there is one action for each part that is spawned.
  `cell` says which voter state the RPC builder, the service, the RPC and the
  voter have a handle of. `TaskEnds` may happen from the moment a task is there,
  `StartFails` wherever a `?` may leave, and drops what was made.
* `ExtrinsicLife`: `ReadBestHash`, `ReadBestNumber` and `FetchNonceAndSign` are the
  three reads of `create_extrinsic`, between which blocks are imported, the chain
  is reorganised, and the runtime is replaced. `CreateTransaction` is
  `create_transaction` of the runtime. `Includable` are the signed extensions of
  the next block. `HashCountAssumption` says how many block hashes are kept, from
  two to 4096 (the runtime keeps 2400): with one, the shortest era would
  outlive the hash of the block it was signed on.
* `Inspect`: an input is a sequence of parts, each of the class that the parsers
  tell apart. Between two runs of the command the node goes on. `BlockBody` and
  `Header` are the two lookups of the client by an id, a number or a hash, which
  `GetById` makes one after the other. That a number and a hash lead to one block
  is a matter of the client, of which the module states no property; it has its
  types, among them that a body has a header.
* `TrieStore`: `overlay` is that of `SimpleTrie`; `Written` is its transaction, in
  RocksDb and in ParityDb side by side. A node of the trie is a place and a hash,
  so that equal subtrees at two places are in the model. What the trie library
  does to the overlay is any commit that inserts nodes that were not there and
  removes nodes that were. The null node, which `generate_trie` puts in the overlay
  first, is removed by the first commit, and so never comes into the database.
* `TrieSetup`: `Enter` and `SizesAt` are `SizePool::from_histogram` and `value`;
  `PushWarmup`, `PushQuery` and `PushOther` the branches of the loop that fills
  the database. The table of `state_sizes.rs` is what `StateDistribution` says of
  it: sizes in their order, each counted, and the sum of the counts below 2^31, which
  a `u32` takes (`LargestTotal`).
* `BenchRunner`: `Benchmarks` is the list of `main.rs`, in the order of its nested
  loops. The loop of `main` takes the head of `toRun`: `SkipBenchmark` if the filter
  leaves it out, else one of the actions `SetUp...`, the runs, which are those of
  the kinds of benchmarks, and `TakeAverages`, which is `run_benchmark`. A panic is
  an outcome: of a set up that needs one account more than the keyring has, and of
  an import that is not the first on its database or whose events are not as many
  as `SanityChecks` asks. `EventsOf` counts them as the comment on the transfers
  does; transfers that reap are not checked. `benchDb` is the best block of the
  benchmark's database, which a run leaves as it was because it works on a copy
  (`DatabaseAfter`), and `starts` remembers what the runs began with. `Sorted` is `sort` by what it yields: at each place the duration of
  that rank, equal ones in their order.

`MCNode` and `MCRuntime` put these machines side by side: they share no variable,
and `component` says which of them moves in a behaviour, so that their states add
up and do not multiply. `TxButton` is in `MCNode` for the same reason; its type
is fixed where another component moves.

### 2.7 What is assumed of code outside the repository

* Substrate: a block runs one dispatchable after another; hashes have no
  collisions; `pallet-sudo` gives its inner call the Root origin; no rollback
  without `#[transactional]`.
* The pallets that the runtime configures do what their source of that version
  does: `pallet_proxy` checks `is_superset` and the filter of the grant it goes
  through, `pallet_collective` counts absent members by the prime member's vote,
  the staking, session, election, bags and referenda pallets as in 2.5.
* GRANDPA's voter publishes its rounds in the state it is handed; the task manager
  reports an essential task whenever it ended. ParityDb counts references where
  its column is told to.
* `@polkadot/api`: the provider rejects pending calls when the socket closes and
  connects again by itself; `ready` is emitted once; if the metadata cannot be
  loaded `error` carries an `Error`, else the event of the socket;
  `signAndSend` resolves when the extrinsic is taken and its subscription ends
  after the finalized block.
* React: state set in a handler is rendered before the next event; the effect of
  a render runs before the next event.

## 3. The runs

| Run | Module, cfg | What it shows |
|---|---|---|
| `two_elections` | `MCVotechain`, `MCVotechain.cfg` | storage maps agree, ballots are accounted for, and the pallet implements the ballot box, when calls mix up the ids of two elections |
| `recreation` | `MCVotechain`, `MCRecreation.cfg` | types, one ballot per author, no double count without a re-creation, and only Root discards votes, with elections and candidates created again and every refused length |
| `vote_form` | `MCVoteClient`, `MCVoteClient.cfg` | whatever arrives late, what the form offers exists and what the table shows is the list of one election |
| `session` | `MCClientSession`, `MCClientSession.cfg` | keyring loaded once, menu right unless raced, the client lost only after a dropped connection, and the pages back in the end |
| `runtime` | `MCRuntime`, `MCRuntime.cfg` | no proxy gets more than was given; dissent in the council holds; fees are conserved; blocks fit and fees follow the load; validators follow the eras, no election loses a phase, and slashes bite; the heaviest vote; a track decides one referendum |
| `node` | `MCNode`, `MCNode.cfg` | the named chains build; the RPC reads what the voter writes; a lost duty stops the node; an extrinsic lives until it expires; both databases hold the trie; samples and shares are sound; an average lies within the runs that are not outliers; the runs of a benchmark begin alike, and only imports panic, at once; of the button: open subscriptions held, the status of the last click, and an end of every sending |
| `refused_voter` | `MCVotechain`, `MCRefusedVoter.cfg` | finding 1 |
| `second_vote` | `MCVotechain`, `MCSecondVote.cfg` | finding 2 |
| `foreign_votes` | `MCVotechain`, `MCForeignVotes.cfg` | finding 3 |
| `stale_candidates` | `MCVoteClient`, `MCStaleCandidates.cfg` | finding 4 |
| `loading_forever` | `MCClientSession`, `MCLoadingForever.cfg` | finding 5 |
| `noop_import` | `BenchRunner`, `MCNoopImport.cfg` | finding 6 |

### 3.1 Bounds, and why they are enough

* `MaxCreations`, `MaxRegistrations` bound how often one election is created and
  how long its list of candidates gets. `two_elections` has two elections
  created once each, with one name registered in both; `recreation` has one
  election created twice with two registrations. A state of one election never
  depends on a third: every call names at most two ids.
* `Named` bounds what a ballot bears as candidate: the hash of a candidate that
  may exist, and that of an election, which never is a candidate. Any further
  hash behaves like one of them.
* Two accounts: enough for an author who is not the last on a list, which a
  search that stops early or looks at the last ballot only would miss.
* Lengths lie just inside and on both bounds of the runtime (9 and 4095; 8 and
  4096).
* `MaxClicks` 4 in the vote form: select an election, a candidate, another
  election, submit; `MaxFetches` 2 of a kind: two answers that overtake each
  other. `MCInit` starts where Root has created the elections and a first vote
  is in each, which the pallet reaches, and Root may go on from there.
* `MaxDrops` 2 and `MaxLogins` 3: a drop while the accounts load and one after,
  and two logins that overlap around a third.
* Four clicks on a button of each type that needs an account: two that overlap,
  with one before and one after.
* `runtime`. Three accounts and two grants: a proxy of a proxy. A council of four
  and an expert: a single objection is exactly a quarter, two are half. Prices 0,
  3, 7 and 12 with an existential deposit of 3: shares that round, and shares too
  small to make an account. Four charges reach what one leaves to the next. The
  multiplier from 20 to 30 units: steps that would round to nothing if its minimum
  were not what `MultiplierAssumption` asks. Epochs of 8 slots with phases of 2
  and one slot empty at a time, the most that `EraAssumption` admits; eras of two
  sessions; bonding for four eras, so that a slash is deferred by one; seven eras
  see an offence through. Three voters for a snapshot of two. Two referenda on a
  track for one; the timeout of 28 days is cut to seven blocks, more than a
  referendum is decided in. A value of three bits.
* `node`. Every subcommand, chain and configuration; two tasks that end: an
  essential one and another. Chains of three blocks for the inspector, on two
  forks. Five hashes are kept, for a period of 4, and six blocks: an extrinsic
  expires, and one more block comes. Two places with two hashes. Nine keys in
  samples of three, and histograms of three sizes. Four runs, of which one is
  skipped at either end. 500 accounts in the keyring, so that the large benchmarks
  ask for just as many, and a block that takes 120 transactions or 600: an import
  may be cut short by the block, run out of accounts, or neither. The filters reach
  every kind of benchmark, every type of block and every way to panic.

The bounds restrict the next state (`Bounded'` in `MCNext`), so that no step
leaves them. `StorageView` and `ClientView` drop variables that no guard and no
checked invariant reads (`result`; in the client the history `accepted` too);
action properties still see every step. Accounts, and in the client the two
descriptions, are symmetric. Runs with a temporal property that needs fairness
use neither.

Deadlock is checked in the runs of the pallet. The clients may stop: the user's
actions are bounded, and a crashed page does nothing more. So may the machines of
`runtime` and `node`, which reach their bounds, or end as processes do.

### 3.2 Fairness

* `ClientSession`: the provider goes on connecting until it succeeds, the node
  answers what it is asked on an open connection. The user, and the extension
  that waits for the user, owe nothing, so that `EventuallyShown` excepts them.
* `TxButton`: the signer is found or is not, `signAndSend` resolves or rejects,
  and of what the node has taken there is some news. That it is ever finalized is
  not assumed. Clicks owe nothing, and nothing is awaited where another component
  moves.
* `NodeService`: the start goes on, for it is one function that waits for nobody;
  and the process ends once the task manager reports an essential task. That a
  task ends, that the voter votes, and signals owe nothing. `Startup` and `Exit`
  are never enabled where another component moves.
* The pallet and the vote form have no liveness property: nothing there must
  happen unless somebody calls.

### 3.3 Findings

1. `refused_voter`: a vote for a candidate that does not exist fails with
   `CandidateNotFound` and still spends the author's ballot. The comment of
   `create_vote` says that voters who voted before are refused; this one never
   did.
2. `second_vote`: creating an election with a description used before empties
   its ballots and keeps its candidates' votes; an author accepted before is
   accepted again and counted twice.
3. `foreign_votes`: `create_vote` never compares the two ids, and credits a
   candidate with votes of another election.
4. `stale_candidates`: the answer for the election chosen before may be
   dispatched last, and its candidates stay beside the new election.
5. `loading_forever`: a connection lost while the accounts load ends in
   `KEYRING_ERROR`, and the client shows "Loading accounts" for good.
6. `noop_import`: after an import the benchmark counts events. For transfers that
   keep their account alive it expects seven of a signed extrinsic, of which the
   comment ascribes three to the fee, three to the transfer and one to success
   (`bench/src/import.rs:135-144`); for no-ops it expects two, one of them for the
   fee (`import.rs:155-162`). The fee is split alike (`DealWithFees`), so that both
   cannot hold: with three events of a fee, the first run of any import of no-ops
   that is not empty panics. `RunsIndependent` says that nothing else does, beyond
   a block that takes the whole keyring.

Findings 1 to 3 do not break the ballot box: they are about what its users are
told, about Root's calls, and about the lists of the candidates, that the box
does not have.

## 4. The proofs

`VotechainProofs` proves of `Spec`, for any set of accounts, descriptions and
names, any lengths and bounds and any number of calls, the invariant

    IInv == /\ TypeOK /\ StorageMapsAgree /\ CreationsCounted
            /\ OneBallotPerAuthor /\ BallotsAccounted /\ DoubleCountNeedsRecreation

from `HashAssumption` (no collisions) and `DistinctAssumption` (Root is no
account, `None` no stored value). The theorems are its parts: `TypeCorrect`,
`MapsAgree`, `OneBallot`, `BallotsAreAccounted`, `NoDoubleCount`.

Why the strengthening is needed: `CreationsCounted` says that `created` is 0
for just those ids that are not stored. That a candidate counts no
author twice rests on `BallotsAccounted` (a counted vote was accepted, an accepted
vote of an election created once is on its list of ballots), on the search for
an earlier ballot, and on the counter: the first creation finds no vote of that
election at all (`FirstCount` draws these together). `StorageMapsAgree` needs
the absence of collisions: a candidate registered again overwrites its own
record and no other's. Each part has a lemma, with one step for each disjunct
of the next-state relation; `NextSteps` splits it once for all of them.

`RefinesBallotBox` is `Spec => ImplementsBallotBox`, from that invariant:
`StepRefines` maps the storing calls to `OpenBox`, `CloseBox` and `Cast` and
everything else to a stutter. The run that checks it creates each election once;
the proof has no such bound and covers elections created again.

`VotersDiscardNothing` is about steps: from the same invariant, a list of ballots
that does not only grow was cut by Root creating that election again, or
registering that candidate again.

The other proof modules are each for any values of the constants that satisfy the
assumptions named in the specifications. What each invariant adds to the property:

* `SessionProofs`, of `ClientSession`. `SessionIInv` adds that the keyring says
  `LOADING` just while an await of `loadAccounts` is pending and that what was
  started has set `keyringLoadAll` (`LoadingAgrees`); that before the first drop
  nothing is under way on a closed socket, since there was no page to log in on
  (`FirstConnection`); and that, as long as nothing raced, either the one awaited
  check is that of the account logged in, or none is and the menu is right
  (`MenuFollows`). `SessionKeyringOnce` is about steps and uses the first.
* `TxButtonProofs`. `Settled`: unless a click overtook another, every call before
  the last is at its end, and what is watched is what the button holds. That a
  click leaves no open subscription behind needs the one before it to have been
  held; neither `OpenSubscriptionHeld` nor `StatusOfLastClick` is inductive alone.
* `VoteClientProofs`, of `VoteClient` over any state of the chain that satisfies
  `IInv` of the pallet (`LoadedSpec`), so also of a page loaded late, as `MCInit`
  has it; `LoadedFirst` says that `ClientSpec` is a case of it. What a list of the
  client names never leaves the chain (`ChainGrows`), so that an answer is as good
  when it is dispatched, selected, submitted or included as when the node read it
  (`TruthStays`). `ClientIInv` says this of every list, call, answer and extrinsic
  on its way. `OneList` is what keeps the votes that are shown those of one
  election, and a prefix of its list unless the election was created again.
  `ClientRefinesPallet` is that the composition does to the pallet only what the
  pallet does by itself: what a page has sent names two hashes the chain has
  (`PoolOK`), so that `Include` is a `CreateVote` of some account. With it
  `ClientKeepsBallotBox` carries the ballot box and the invariants of the pallet
  over to the composition.
* `GovernanceProofs`.
  * `ProxySafe`: `SupersetSound` says that the order of the kinds is that of their
    filters, and `IsSuperset` is transitive. `ProxyIInv` says of each grant, and of
    what is acted through, that a kind the grantor gave away itself is above it:
    `NoEscalation` alone speaks of the call that is made now and says nothing of
    the grants that later calls go through.
  * `DissentIsHeard`: `AyesAndAgainst` counts that the ayes of a motion of the
    council are none of those who object, `Proportions` what follows for each
    origin. `GovIInv` carries it through the stages of a decision: what waits to be
    tabled as a majority vote had three quarters of the council, so that a
    committee, however it was filled since, finds nothing else to put to a vote in
    a hurry; what is approved stays approved by three fifths until it is paid.
  * `TrackDecidesSoundly`: `DecidedInTime` says how late a poll may be: one that
    was served in this block has time left, one that was not is late by this block
    only. `TrackTaken` counts polls being decided, slots freed in this block and
    slots being freed, which `one_fewer_deciding` settles a block later.
    `PassingIsMajority` is that the curve of approval never asks for less than
    half.
* `RuntimeProofs`.
  * `FeesSafe`: `RationExact` and `SharesExact` bound a share from both sides; the
    invariant is `FeesConserved` with the types, that a charge that is not open is
    empty, and that the treasury is an account, so that nothing it gets is dropped.
  * `BlocksSafe`: `LoadIInv` bounds the normal class by its maximum and both
    classes by the block, and `ReserveIsKept` derives that what fits in the reserve
    is let in.
  * `FeesMoveWithLoad`: products and quotients of unknowns, which `ProductMonotone`,
    `QuotientAtMost` and `QuotientAtLeast` bound. `TermsOrdered`: the second term
    of the adjustment never outweighs the first, so that its sign is that of the
    difference from the target; `FullBlockTerm`: after a full block it does not
    round to nothing, by `MultiplierAssumption`, which asks for an accuracy of 16
    at least (10^18 in the code).
  * `ErasRunSoundly`: `EraIInv` says which phases an election has had by what
    remains until it. `Keys` relates the two sets of validators to the two eras by
    `startsIn`. `NextBlockInSession` says that what remains goes down by at most a
    phase from block to block, `FreshSession` that a session starts with more than
    both phases ahead, so that no block steps over one. This is where
    `EraAssumption` (fewer empty slots in a row than a phase has blocks) is used.
  * `ReportsInTimeBite`: `StakeFollows` says when stake on its way out is free, not
    before a bonding duration after the offence, and that a slash that is due is
    applied as the era starts; with `Keys` the two clocks are one era apart at most.
  * `SnapshotTakesHeaviest`: `Queues` makes `order` an order, so that whoever is in
    front of a voter has fewer ahead (`FewerAhead`), and nobody who is left out is in
    front of one who is taken. The thresholds enter by `BagOfWeight`: a bag's upper
    threshold is less than twice the weight of who belongs in it.
  * `RuntimeTyped`: `PartsAlone` says that each part of the composition is a
    behaviour of its own specification, and every part is typed.
  * `RuntimeSafe`: by the same lemma, all other properties of the run.
* `BenchProofs`. What a fold computes, for data of any length, takes an induction,
  and the induction theorems of the library have an operator for a parameter. The
  first lemmas do without: a set of naturals that has 0 and the successor of each
  of its members is `Nat` (`NatSet`, by well-foundedness, and `AllOf` for those up
  to a bound), so that what is to be shown for all n becomes a set of numbers. The
  step of a fold is a function that a lemma can be given; `FoldExists` makes the
  function on sets of indices by which `FoldLeft` is defined, and `FoldSteps`
  turns it into the sequence of intermediate results, one for each prefix.
  * `BothDatabasesHoldTheTrie`, for any places and hashes: `Counted` says of both
    copies of the database that ParityDb's count of a hash is the number of places
    it is at; the trie is what is stored, with what the overlay inserts and without
    what it removes. `StoreIInv` follows this through the commits, for which the
    effect of a transaction on a count is worked out with cardinalities.
  * `SetupIsSound`, for any sizes and histograms. `SetupIInv` describes the samples
    as what the loop has passed; that they are as many as asked is a count of
    multiples (`SamplesCount`, `SamplesAreComplete`). It also says that the pool is
    the one of the histogram. `PoolShape`, by induction over the histogram: the
    distribution maps the running totals to the sizes, and the totals increase
    (`TotalsIncrease`). A number is given the size of the first total it does not
    exceed (`DrawnFor`), so that the numbers of one size are those between two
    totals, and one more or less at either end of the pool (`SharesAreCounts`).
  * `RunsAreIndependent`, for a keyring of at least 500 accounts and blocks of any
    capacity: `BenchIInv` says that the database stays at its genesis and the
    content what it was set up with, that an import which has had a run passes its
    checks, and why a benchmark panicked, for every benchmark that `Benchmarks` can
    describe (`BenchmarksDescribed`). `KeyringsLast` and `ChecksFail` say when the
    two conditions of a panic can be met; `BenchSetUp` and `BenchRun` are the steps
    that all kinds of benchmarks share.
  * `AveragesAlwaysHold`: `ResultIInv` says that what was averaged is the list of
    all durations. Ranks are a permutation of the indices (`RanksOrder`,
    `SortedPermutes`), so that with at most `Skip` durations below a bound, what is
    left after skipping `Skip` is above it; sums of such are bounded by induction
    (`SumBounds`), and so is the quotient (`AverageWithin`).
* `NodeProofs`.
  * `RpcAndVoterAgree`: that the cells of the builder, the service, the RPC and the
    voter are the same from the step on at which each is filled, for every `at`.
  * `ExtrinsicsLiveUntilExpired`: `SoundExtrinsic` relates what was signed to the
    block it names; the birth of an era is computed back from its phase, which
    needs the period to be a power of two that fits the kept hashes
    (`NextPowerOfTwo`). `OnChainInv` makes nonces places on the chain.
  * `EveryGenesisBuilds`: by induction over the authorities (`EndowSteps`,
    `EndowedOnce`), nobody is endowed twice and every stash is. `TestnetBuilds`
    draws from that what the pallets ask of any genesis `testnet_genesis` makes, if
    the list it is given names nobody twice and has the root key, somebody
    validates, and half of the endowed fit into the bodies; `KnownChainsBuild` is
    that the three named chains are such.
  * `NodeTypesOK` and `NodeSafe`: `ProgramsAlone` says that each program of the
    composition is a behaviour of its own specification; with it, what each of them
    was proved to keep by itself holds of the composition. The second leaves out
    the types, which are the first and `TxTyped`.

Every invariant and every action property that a passing run checks is proved.
Only model-checked are the liveness properties `EventuallyShown`, `SendingEnds` and
`DutyLostStopsNode`: they rest on fairness, and so on `ENABLED`, which is out of the
prover's reach.

The six properties that the code violates have counterexamples, not theorems.

## 5. The plan

Done, in the order of importance: the pallet, its ballot box and their proofs;
the client that votes; the session; the button; the rules of the runtime; the
process of the node; the inspector and the benchmarks. What would come next:

1. **Explorer.** `fetchBlocks` over a chain that grows and is reorganised
   between the awaits, and the subscriptions of `Events.js` and `BlockNumber.js`
   with pages left before they resolve. Properties: a block is listed once and
   in order; every subscription is cancelled or owned by a mounted page.
2. **Administration pages** as further pages of `VoteClient`, composed with the
   sudo `TxButton` in place of the plain `Submit`.
3. **Theorems** about the two above. Every safety property that a passing run
   checks today is proved.

## 6. What is not modelled, and why

* Consensus, finality, networking and the transaction pool: Substrate's, not this
  repository's. The weights that calls really need.
* Pallets the runtime includes with parameters that nothing else depends on
  (assets, uniques, identity, lottery, bounties, child bounties, contracts,
  multisig, recovery, vesting and others); the runtime APIs, which hand calls on.
* The mining of election solutions and the balancing of their support, a matter
  of their quality.
* The explorer and the administration pages of the client: see section 5. Its
  template pages: rendering.
* The generated numbers of `state_sizes.rs` and `voter_bags.rs`, beyond what
  `StateDistribution` and `THRESHOLDS` say of them.
* The tests of the repository, which were read for what they expect.
* Texts, formatting and logging, except where a screen's text is what the
  finding is about.
