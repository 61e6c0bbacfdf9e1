# Formal models of CipherDEX

TLA+ specifications of the CipherDEX contracts and of the programs that spend
real funds to test them, the TLC configurations that check them on small
instances, and TLAPS proofs about them. Paths below are relative to the
repository; a bare script name is under `scripts/`.

    tlc -workers 2 -config MCPublicCPMM.cfg MCPublicCPMM     # one run
    tlapm PublicCPMM_proofs.tla                              # one proof module

`PROJECT.json` lists the runs, the lines of the source behind every definition,
one mutant per property, the hazards and the findings.

## 1. The system

| Component | State | Operations | Interacts with |
|---|---|---|---|
| `PublicCPMM` (+ `PublicLPToken`, `CipherDEXFeePolicy`) | `initialized`, two reserves, two protocol claims, LP locks; LP supply and balances in the LP token | swap, add / first add, remove, lock, unlock, collect fees, sweep surplus | pool tokens (may tax transfers, rebase, be seized or donated), LP token, fee vault |
| `CipherDEXFeeVault`, public side | `publicFees[token]` beside the raw balance | `depositPublicFees` (pools only), `sweepPublicToken` (beneficiary) | called inside a pool's collection |
| `CipherDEXFeeVault` / `CipherDEXConfidentialFeeVault`, confidential side | per token: queue of 24-hour epochs with swap counts, next index | `depositConfidentialFees`, `sweepConfidentialToken` | called inside a confidential pool's collection or terminal exit |
| `PublicCPMMLimitOrderBook` | orders, statuses, escrow totals, open bounties, credited bounties and proceeds | create (with permit), amend, add bounty, fill, cancel, claim, sweep | best-execution router, wrapped native token, makers, fillers, recipients that may reject native coins |
| Public routers (`PublicBestExecution[Native]Router`, `PublicCPMM[Native]Router`, `PublicCPMMLiquidityRouter`, `PublicCPMMQuoter`) | none between calls | best quote over fee tiers, create-or-add, wrap and unwrap | pools, factory |
| `ConfidentialCPMM`, `ObservableConfidentialCPMM` (+ `PrivateLPToken`) | encrypted reserves, fees and shares; swap counters and window; locks; (observable) price bucket | swap, router quote and settlement, add, bootstrap, remove, lock, unlock, collect, previews | vault, factory, routers, migrator |
| Launchpad and markets: strategy registry, factories, launch strategies, migrators, confidential best-execution routers | registry finalised or not, pools by complete key, launch records | bind, register, finalize, create, migrate, quote and swap at the best pool | confidential pools |
| `lp-fee-accounting-model.ts` | growth per share, carries, claims, allowances, locks | mint, burn, transfer, lock, accrue, claim | model of the next LP token; its probe script compares it with a contract |
| `durable-append-log.mjs`: process lease | one file that names its owner | `acquireProcessLease`, `release` | every runner process; crashes |
| `durable-append-log.mjs`: append log | hash-chained lines, possibly a torn tail | `readLatestUtf8Record`, `appendUtf8RecordIfUnchanged` | coordinator, recovery journal |
| `funded-process-coordinator.mjs`, `run-fresh-hardhat.mjs` | per signer: transactions with nonce and status | reserve, record status, abandon, settle at launch | append log, wallet |
| `funded-recovery-journal.ts`, `funded-transaction-wallet.ts`, `funded-rpc-confirmation.mjs`, `funded-private-allowance.ts` | encrypted journal of signed transactions, resources and obligations | prepare, broadcast, confirm, record, recover | append log, RPC node |
| `recover-funded-deployment.ts` | none of its own | abandon, reconcile, rebroadcast | journal, signer's record, RPC node |
| Funded test scripts (`testnet-*.ts`, twelve runners), `deploy-protocol.ts`, `testnet-harness.ts` | one journal each | long sequences of transactions with recovery on error and at the next launch | wallet, journal, contracts |
| `funded-run-evidence.ts` | evidence records | decides what a run's transactions must show | journal, chain |
| SDK, other deployment scripts, lints | none, or files | encodings, straight-line I/O | wallets, repository, chain |

What is hard here. On chain a transaction is atomic and `nonReentrant`, so the
difficulty is not interleaving inside a call but long sequences of legal calls
by different parties, while tokens misbehave behind the contracts' back:
rounding that leaks a unit at a time, books that no longer match balances,
losses and who bears them, payments that recipients reject, pools that are
emptied and started again, and arithmetic on encrypted words that may not
branch. Off chain the difficulty is the opposite: short programs whose every
write can be the last one before a crash, two durable records that must agree
with each other and with a chain that forgets, and clean-up code that runs from
a state its author never saw.

What makes each component correct:

- pool: shares are never diluted; holders can always leave; the protocol's claim
  takes losses first; surplus goes to the vault only; the initialized flag
  follows the LP supply;
- vault: claims never exceed what deposits delivered; confidential fees leave only
  in aggregates large and old enough, and none is stranded;
- order book: every claim is backed; makers get their limit and can always cancel;
  a shortfall of a token prefers nobody; the keeper's view tells the truth;
- confidential pool: the same economics on words that overflow; the quote path
  accepts exactly what the settling path accepts; exits and publication never block;
- markets: a launch opens its pool once and nobody else does; the router finds the
  best pool blindly;
- LP fees: no fraction is lost, made, or taken from its holder;
- lease and log: at most one live holder; compare-and-append is atomic; nothing
  committed becomes unreadable;
- journal and signer's record: no operation is submitted twice; whatever may have
  been sent is on disk; what is open is settled;
- scripts: whatever holds the owner's funds is in the journal before a crash can
  matter; recovery ends with everything back; a run that nothing disturbs passes.

## 2. Modules

| Module | Models | Extends / instantiates |
|---|---|---|
| `FullMath` | OpenZeppelin `mulDiv` (down, up) and `min` | |
| `ConstantProduct` | fee policy, quote, share arithmetic of a pool | `FullMath` |
| `CipherDEXFeeVaultPublic` | the vault's ordinary ERC-20 side | instantiated by `PublicCPMM` |
| `PublicCPMM` | pool, LP token, vault deposits, token environment | `ConstantProduct` |
| `Custody` | abstract: what an escrow promises | |
| `PublicCPMMLimitOrderBook` | the order book | `FullMath`, instantiates `Custody` |
| `AggregateRelease` | abstract: what encrypted fee collection promises traders | |
| `ConfidentialFees` | confidential pools' fee counters and the vault's epoch queue | instantiates `AggregateRelease` |
| `ConfidentialPool` | `ConfidentialCPMM` on words of any width, the router's blind quote, `PrivateLPToken` | `ConstantProduct` |
| `ObservablePool` | the published price of `ObservableConfidentialCPMM` | `ConfidentialPool` |
| `ConfidentialMarkets` | registry, factory, strategies, migrators, best-execution router over all pools of a pair | one `ConfidentialPool` per key |
| `ObservableMarkets` | the same for observable pools, with the price reference handed through | `ConfidentialMarkets`, one `ObservablePool` per key |
| `LpFeeAccounting` | `lp-fee-accounting-model.ts` | |
| `ProcessLease` | lease acquisition and release between processes | |
| `DurableAppendLog` | compare-and-append under the lease | `ProcessLease` |
| `SubmittedOnce` | abstract: what the funded runners promise about a signer | |
| `RecoveryJournal` | the journal's operations on one record | |
| `FundedTransactions` | one signer's transactions from the launcher to the chain | `RecoveryJournal` |
| `FundedRuns` | deployment, harness and recovery tool on that signer | `FundedTransactions`, instantiates `SubmittedOnce` |
| `FundedSteps` | the steps the test scripts are made of | |
| `LaunchpadScenario`, `BestExecutionScenario`, `FeeScenario`, `ProbeScenarios` | the twelve test scripts as sequences of steps, with openings and recoveries | `FundedSteps` |
| `DeploymentScenarios` | the four deployment programs, in the same steps | `FundedSteps` |
| `EvidencePolicy` | what the evidence of each runner must contain | |
| `FundedScenarios` | a script over its journal: launches, errors, catches, recovery, evidence | the five above and `EvidencePolicy` |
| `MC*` | constants for TLC | the module of that name |
| `NumberFacts` | proved facts about rounding, products, words, totals and loops; no model | `FullMath` |
| `PublicCPMM_proofs`, `PublicCPMMLimitOrderBook_proofs`, `LpFeeAccounting_proofs`, `DurableAppendLog_proofs`, `FundedRuns_proofs` | proofs | the module of that name, `NumberFacts` where it counts |
| `ConfidentialPool_proofs` | proofs about the confidential pool and what an observable one publishes | `ObservablePool`, `NumberFacts` |
| `ConfidentialProtocol_proofs` | proofs about the epochs of confidential fees, and about launches, markets and their router | `ConfidentialFees`, `ObservableMarkets`, `NumberFacts` |

An operator named for a slip (`RetainedRoundedDown`, `ApproveOwedLate`) stands before
the definition it spoils. It is the mutant of a property and no behaviour uses it.

### PublicCPMM

`reserve[s]`, `protocolFees[s]` and `balance[s]` are the storage pairs
`reserve0State / reserve1State`, `protocolFees0 / 1` and the pool's raw token
balances, with side `s` in {0, 1}. Each external function is one action:
`Swap`, `InitializeLiquidity` and `IncreaseLiquidity` (the two branches of
`_addLiquidity`), `RemoveLiquidity`, `CollectProtocolFees`, `SweepSurplus`,
`LockShares`, `UnlockShares`. A revert is a disabled action. Every operation
works on the books as `_reconcileAccountingLoss` leaves them
(`ReconciledReserve`, `ReconciledClaim`) and ends in `_requireBacked`. The
environment moves the raw balance (`ExternalBalanceChange`), transfers LP tokens
(`TransferShares`), sweeps the vault and advances time. A token in `Taxed`
delivers any part of what is sent. The fee policy's 10_000 and 6 are constants:
the small instance takes 4 and 2 so that zero net inputs, zero protocol fees
and inexact quotients occur with single-digit amounts; the proofs hold for all
values.

Two wallets' balances outside the pool are not tracked one by one, only what they
may still hold together. Swap recipients, callbacks into the pool (excluded by
`nonReentrant`), decimals beyond the two scales and events are left out.
256-bit overflow reverts the transaction in this code (checked arithmetic, `mulDiv`),
so integers are unbounded.

### PublicCPMMLimitOrderBook

Orders, statuses, the three totals and the two credit ledgers are variables under
the contract's names; `tokenBalance` and `nativeBalance` are what the contract
holds. `bought` is auxiliary: output delivered since the order's terms were last
set. The router is its interface: it takes exactly the approved input and delivers
at least the minimum. Whether a push of native coins is accepted is chosen by the
environment at every payment (`paidProceeds`, `paidBounty`). The output token,
the candidate bitmap and the signature of `createOrderWithPermit` are left out:
no property depends on them.

`Custody` says what depositors rely on, without orders: operations move holdings
and claims together, the sweeps take exactly the unowed rest, the outside may give
or, for rebasing tokens, take. `BookIsCustody` is the refinement
(`held <- Held`, `owed <- Owed`); `Owed` is summed from the orders and credits, not
from the running totals, so it is the totals that are being checked.

### ConfidentialFees

An encrypted amount is the set of swaps whose fees it sums, which is all a
beneficiary who sees the sum learns about them. Beside it the model keeps the
public counters the contracts decide by: `swapCount[p][t]` and `windowStart[p][t]`
of a pool (`protocolFeeSwapCount0 / 1`, `protocolFeeWindowStart0 / 1`),
`countByEpoch[t][e]`, the queue `epochs[t]` and `nextIndex[t]` of the vault. So a
counter that drifts from the fees it stands for shows in the sets. Actions:
`Initialize`, `SwapExactInput` (a swap's protocol fee is required positive, line
1088), `CollectProtocolFees` of one token or both, `FullExit` with
`_depositTerminalProtocolFees`, `SweepConfidentialToken`, `Tick`. A deposit and the
resets after it are one transaction. The reserves and shares that make a swap or
an exit possible are the callers' choice. Exactness checks on encrypted
transfers revert the whole call, so a call that takes effect has delivered its
amount.

`AggregateRelease` says what is promised without counters, epochs or pools: a fee
is paid at most once and only in a sum over at least the threshold of swaps.
`FeesLeaveInAggregates` is the refinement, with `pending` the fees in pools and
epochs and `released` what has been swept. `madeAt` and `swept` are auxiliary.

### ConfidentialPool and ObservablePool

The contract computes on encrypted words. A checked operation reveals whether it
overflowed and a call that overflows anywhere reverts, so an operation is its exact
integer and a bound `MaxWord`; the router's quote may not revert and is modelled as
the code does it, by wrapped words and a validity bit (`QuotedOutput`, `QuoteValid`).
Actions: `Swap`, `InitializeLiquidity`, `IncreaseLiquidity`, `Bootstrap` with its three
dispositions, `RemoveLiquidity`, `LockShares` (which burns LP tokens), `UnlockShares`,
`TransferShares`, `CollectProtocolFees`. Previews are pure operators. Slippage and price
limits, deadlines and unlock times only reject, or can be waited for, and are left
out; so is the replay protection of encrypted inputs and request ids (one set
insertion) and tokens sent to the pool unasked, which its books never read.

`ObservablePool` adds reference, bucket, quantum and the activity counter: the first
liquidity publishes, each swap clamps the price to a factor of two around the last
bucket, quantizes and publishes when the bucket changes, the last exit clears.
Sequence numbers and publication times are left out.

### ConfidentialMarkets and ObservableMarkets

All pools of one pair by complete key: a fee tier and a class, which is the standard
one or a launch strategy. Configuration (`Bind`, `RegisterInitializationStrategy`,
`FinalizeRegistry`, `SetBestExecutionRouter`) happens in any order the code permits;
`Migrate` is the whole launch in one transaction (strategy's `prepareLaunch`, factory's
creation or lookup, bootstrap, authorization consumed); `FirstLiquidity`, `ExitPool`
and trades go on in any order. Each pool is an instance of `ConfidentialPool` by its key.
The router reads a candidate bitmap (`BitmapAccepted`), resolves its bits in order
(`ResolveCandidates`, `SlotAt`) and keeps the better of two quotes by masks (`SelectBest`,
`TakeBetter`). Both loops are recursive functions over their index, one value per
iteration. Creators, limits and deadlines of a launch
only reject and are left out. The branch of `prepareLaunch` that resolves an existing
empty protected pool is never taken in any behaviour: protected pools are created
and filled in one transaction.

### LpFeeAccounting

Each public mutation of `FungibleLpFeeModel` is an action; one that throws restores
its snapshot and is not enabled. `Scale` is `FEE_GROWTH_SCALE`. Principal, protocol
share and custody total only add up and are left out.

### ProcessLease and DurableAppendLog

A step is one file-system call, or several that no other process can tell apart:
`openSync(O_EXCL)`, the assertion that path and descriptor are the same file, the
write of the record, reading an existing lease, renaming it, the check and the
unlink of `release`. `path` is whose file is at `leasePath`, `written` whose file
has its record, `alive` what `process.kill(pid, 0)` sees. `stolen` is auxiliary and
becomes true when a file of a live process is taken from the path. Pids are not
reused and a dead process does not come back.

The log is a sequence of lines and a torn tail. A payload is a version number
that is written once, so it stands for its digest in the hash chain. A crash in a
write may tear the line; a failing write or fsync may have written nothing,
a part or all of it. `committed` is auxiliary: the last payload an append
returned for.

### RecoveryJournal, FundedTransactions, FundedRuns

Two records on disk describe a signer's transactions: the journal of each run
(`journal[r]`, with signed payloads) and the signer's record (`signer`, hash to status).
A hash is a label signed at a nonce, since signing is deterministic. `RecoveryJournal`
gives, for each operation of the class, when it does not throw (`MayPrepare`, ...) and
the state it leaves in memory, which it changes before it persists: `mem` and
`journal[r]` may differ after a failed append until the process ends.
`FundedTransactions` follows `sendPreparedFundedTransaction` write by write (sign,
journal, reserve, send, record), the wait for the receipt, the settling of earlier
transactions at a launch and the recovery tool with its rebroadcast. An error while
earlier transactions are settled ends the process, except in the runs of `Marking`, whose
catch marks the run failed first (`Stopped`; `testnet-harness.ts:463-486`). The chain holds
what any node was ever handed (`chain[t]`: pending, included, final, absent) and may
drop a pending transaction, undo an unconfirmed block or take a delayed request later.
`FundedRuns` adds the scripts: `deploy-protocol.ts`, `testnet-harness.ts` with its private
allowance, and what an older commit may have left in the signer's record.

`SubmittedOnce` is the promise, without processes, journals or retries: an operation is
submitted at one nonce, none is shared, and what the record says is what the chain
decided, for good. `SubmitsOnce` is the refinement. It maps everything except what the
recovery tool has given up, because a given-up transaction of an older commit can
reappear; `GivenUpIsUnsent` covers those of the commits for which the tool's check is
a proof.

Left out: compaction of the record beyond 256 terminal transactions, several signers,
fees and gas as part of a hash, parsing and encryption of both records, resources and
phases of the journal (they are `FundedScenarios`' subject).

### FundedScenarios and EvidencePolicy

The twelve funded test runners and the four deployment programs are sequences of steps
over one journal. A step is one
journalled transaction (`Call`, `Fund`, `Drain`, `Refused` for one that must revert), one
write to the journal (`Record`, `Recovered`, `Rebuild`, an obligation) or one check that may
throw. Labels are the strings the scripts sign under, because the journal signs a
label once and the policy looks for it; they are written with the helper functions
that build them. A transaction has the effects the properties see: which resource
comes to hold funds of the owner (`shares`), which private allowance stands
(`allowed`).

`FundedScenarios` executes a program: a launch runs the opening (reconcile, recover
obligations and resources, pending evidence), then the main part; an error runs the
catch. `Mine`, `LoseOutcome`, `DieUnsent`, `Fail` and `Die` are everything that can happen to
a step. The operator launches again (`Launch`) once the signer's last transaction is
settled, as the launcher demands. `LaunchRecovery` is the recovery-source mode of the
best-execution runner.

`EvidencePolicy` is `RUNNER_POLICIES` with the orders and bindings that
`requireOnchainSemanticBindings` and its siblings add, as a predicate on the log of a
run (`Accepts`). The scripts and the policy are far apart in the code and were
translated from their own text; `UndisturbedRunPasses` compares them.

A deployment program has, beside its journal, the record in its private runtime: each
mined transaction is listed there (`Listed`) before the next one is sent.
`run-fresh-hardhat.mjs` throws on a non-zero exit before it publishes and deletes the
runtime in its `finally`, so the record of a failed deployment or of one whose last outcome is
unknown is never published. Launched again, the program gets a fresh runtime and may
reserve a record, but its journal refuses the first label, which is signed already; the
observable program refuses earlier, since its journal is not fresh.

Left out: amounts, gas, decrypted values, reads that write nothing to the journal,
the factory bindings of pools other than those launched, signatures and the aggregation of
records into a suite. The policy does check the births of pools, LP tokens and migrators
and the calls of a launch. The LP probe's fees are a fraction of a unit to their
holder until one more fee, or the shares of an emptied holder, makes the fraction whole
(`FractionalFees`, `MadeWhole`). A claim on a fraction may be mined or revert, and pays
nothing; a claim on whole units pays, and reverts only as a mishap.

Five constants name where the code falls short of a property, so that the runs check
it everywhere else; each is described in section 4.

## 3. Runs

Sizes are distinct states; each run finishes in less than five minutes on two workers.

| Run | Instance | States | Shows |
|---|---|---|---|
| `pool` | 2 users, side 0 taxed, 4 units per token, 1 lock, 2 outside moves, amounts 2 and 3 | 253,192 | no dilution, exit always open, vault backed, surplus and losses go where they must, lifecycle against LP supply |
| `book` | 2 accounts, 2 orders, a rebasing and a wrapped token, 1 amendment, 1 outside move | 154,839 | refinement of `Custody`, limit price and bounty over partial fills, cancellation, keeper's view, no preference in a shortfall |
| `confidential_pool` | 2 users, words of 5 bits, scales 2 and 1, amounts 1, 3, 4, 1 lock | 86,163 | quote against settlement on every overflow, exits, previews, books, dilution, publication |
| `confidential_fees` | 2 pools, 2 tokens, 4 swaps, 1-instant epochs, thresholds of 2, sweeps of 2 epochs | 560,171 | refinement of `AggregateRelease`, delay, nothing stranded |
| `markets` | 2 tiers, the standard class, 2 strategies of which 1 fits, 2 launches, 3 openings, 1 trade | 16,200 | launch records agree, best execution at the price quoted, reference follows the pool |
| `lp_fees` | 2 holders, quarters of a unit, amounts and fees 1 and 2 | 136,898 | conservation to the last fraction, nothing dormant, nothing taken |
| `log` | 3 writers, 1 crash, failing writes, 2 lines, 3 payloads | 562,237 | atomic compare-and-append, chain intact, every append ends, the lease is freed again and again |
| `funded_runs` | deployment of 1 label, harness of 5, an older label, 3 nonces, 1 mishap | 311,004 | refinement of `SubmittedOnce`, whatever is sent is on disk, allowances owed, one transaction in doubt, deployments settle |
| `funded_scenarios` | 12 test runners and 4 deployment programs, 2 mishaps each (1 in the two longest) | 169,636 | journal covers funds, undisturbed runs pass, passed runs are clean, recovery completes |
| `lease_race`, `log_torn`, `scenario_recovery` | the same instances, smaller | - | the three findings below |

Why these bounds. Pool: four units reach every branch (a loss inside the claim,
through it and into the reserves, total loss, a full exit with leftovers and a
new start), and two outside moves give a donation after a loss and the
converse; two users are needed for transfers and locks. Book: sharing of escrow and
native balance needs two orders, a partial fill needs a remainder. Confidential pool: with
words of five bits a single swap can bring a pool to either side of every product
bound; a larger word only makes the bounds rarer (the theorems hold for all).
Confidential fees: four swaps make two aggregates, or thin epochs of one swap; epochs of
one instant make queues longer than the two epochs of one sweep within five instants.
Markets: two tiers and two classes give candidates that are absent, empty and open in
every combination, and the third opening is a second life of a pool. LP fees: three
shares of two holders divide a fee unevenly. Log: a conflict needs two writers, a
race for a dead lease two more than the dead one, a checkpoint needs the second line to
be the last. Funded runs: one mishap of any kind (crash, failed append, lost answer,
eviction, reorganisation) meets every step; what older commits left adds a second one.
Scenarios: two mishaps are an error and a crash in its recovery. Users, pools and
tokens are interchangeable where `SYMMETRY` says so; no run with a liveness property
uses it. `CHECK_DEADLOCK FALSE` appears where nobody is obliged to go on and bounded
clocks, orders, versions and mishaps run out; the lease checks for deadlock.

`TypeOK` (`LeaseTypeOK`, `LogTypeOK`) is the one type invariant of a module; all are theorems
except the scripts', and what the markets need of one (`Shapes`) is part of their invariant. The action properties say
what no step may do: `ShareValueNeverDiluted`, `BooksFollowBalances`, `MakerLimitHonoured`,
`BountyRateNeverFalls`, `ShortfallFreezesToken`, `ReleasesDelayed`, `FeesStayWithHolders`,
`CompareAndAppend`. `CancelAlwaysOpen`, `KeeperViewExact` and `NothingStranded` use ENABLED:
the call would not revert. `HoldersCanExit` says the same of a removal by its conditions
(`RemovalAccepted`, `Backed`, `PaidOut`).

Fairness. On chain nothing is fair: nobody has to call. `FairAppendSpec` gives weak
fairness to the steps of an append that has begun and of its lease: synchronous code
that an operating system keeps running; nothing obliges a process to start, to retry
after an error, or to crash. `FundedRuns!FairSpec` lets a running process go on and the
chain include and confirm; it is strong for what the operator repeats by hand
(relaunching the recovery tool, and one of its rebroadcasts reaching a node), since
each attempt is interrupted by the retry before it. `FundedScenarios!FairSpec` lets a
script go on, a transaction in doubt be settled, and the operator launch again while the
journal is open. Crashes, errors and lost answers are bounded by `MaxMishaps` and never
forced.

## 4. Findings

- `lease_race`: `acquireProcessLease` renames whatever is at the path
  (`durable-append-log.mjs:164`), not the file whose record it has read. Two
  processes that read the same dead lease can both end up holding it: the second
  rename removes the first one's live file. `test/unit/FundedRecoveryJournal.spec.ts:206`
  says "recovers dead process leases but never steals a live lease".
- `log_torn`: readers drop an incomplete tail, but the next append writes behind it
  without truncating (line 326), so both become one unparsable line and the whole
  log, committed records included, is refused from then on.
  `test/unit/FundedRecoveryJournal.spec.ts:225` says "retains the last fsynced append
  record after an incomplete tail".
- `scenario_recovery`: `testnet-best-execution-feasibility.ts` closes its probes under
  "pool probe 0 closure and recovery", and its recovery (line 213) looks for
  "pool-probe-0 closure and recovery". An error between the closing and `markRecovered`
  makes every later recovery throw at the first probe, and the second one's tokens stay
  where they are. `README.md:289-291` says "Every disposable asset-holding resource is
  journaled before use, recovered to zero residue".

Observed while modelling, without a run of their own:

- `NoEvidence`: the policy of the configured compatibility run demands "full cleanup exit
  for 30 bps pool" (`funded-run-evidence.ts:265`); the script signs "full cleanup exit for
  pool <address>" (`testnet-best-execution.ts:907`). Its evidence cannot be accepted.
- `OpensFirst` also names the public testnet deployment, whose smoke test seeds a pool that no
  resource of its journal names, and `Unowed` its public approvals.
- `OpensFirst`: the migrator opens and fills pools in one transaction, and the
  best-execution and configured launchpad runs record them afterwards; a crash between
  leaves funds no resource names (`README.md:289-291`). The disposable launchpad run finds
  its pool again from the stack.
- `Unowed`: the feasibility run's encrypted approval is no obligation, against
  `docs/DEPLOYMENT.md:332-334`.
- `Wedges`: the launchpad recovery rebuilds the pool's resource from the stack and fails
  when the pool is already recovered but the stack is not (a crash between the two
  records, `testnet-launchpad.ts:599-675`); the LP probe's conservation calls have labels
  that are signed once; the quote-call probe leaves its journal "active" after any
  error.
- `NoRecovery`: `testnet-observable-confidential.ts` has no recovery for its pool; the
  feasibility run is the finding above.
- A label is signed once. A cleanup transaction that is mined with a failure, or journalled
  and never sent, cannot be sent again under its label (`Wasted` in `RecoveryCompletes`);
  this includes the labels "recovery allowance:...".
- The LP probe's recovery claims (`testnet-private-lp-accounting-probe.ts:721-739`) before it
  brings the shares together and burns them (740-764). A claim pays whole units only and
  does not itself revert on zero (`mocks/PrivateLPAccountingProbe.sol:734-742`). One crash after
  "accrue no-borrow settlement fee" or "accrue carry-recycling fee" therefore lets the claims
  pay nothing; the last burn then makes a unit claimable that nothing claims,
  `requireConservation` (line 788) throws, and every further launch meets labels that are
  signed, against `README.md:289-291`. `ClaimedTooEarly` names this outcome in
  `RecoveryCompletes`; without it the run `funded_scenarios` finds the property violated.
- The fee-collection resume takes the last swap for the state of the counters. After an
  exit and a crash before `markRecovered` they are zero, and it signs approvals again
  that are signed already (`testnet-fee-collection.ts:891-924`, `AllSwapped`); its catch
  completes the recovery.
- Launched again, a passed run of most scripts is marked failed (there is no check for a
  passed run in launchpad, best execution, fee collection and feasibility), after which
  `rematerialize-funded-evidence.ts:126-132` refuses; `docs/TESTNET_HARNESS.md:187-189` and
  `docs/DEPLOYMENT.md:345-354` describe it as a way to restore a record, and the launcher
  rejects a restored record beside a promoted one (`operator-funded-launcher.mjs:352-358`).
- An error before the first transaction closes a journal for good: the run is failed, owes
  nothing, and signs nothing more. The catches of best execution and fee collection leave
  obligations to the next launch. The recovery-source mode opens only the
  "best-execution" journal, never a configured compatibility one.
- The wallet journals a transaction (`funded-transaction-wallet.ts:260`) before it reserves
  its nonce (line 267). A crash between leaves a payload that neither the runner nor the
  recovery tool settles (`recover-funded-deployment.ts:124` wants the hash in the signer's
  record). A transaction that was given up and whose nonce was used cannot be reserved
  again.
- The harness records a mined success at one confirmation; `docs/DEPLOYMENT.md:281-284` asks for
  the minimum depth. A failed append after sending masks the unknown outcome with a plain
  error. Rebroadcast exists only for the deployment runner.
- A preview of an addition may be given whose addition overflows
  (`requestAddLiquidityQuote`); `PreviewHonoured` therefore speaks of additions that are
  accepted.
- In the LP fee model transfers of last shares recycle the same fraction of a unit again
  and again, and growth per share may pass the lifetime fees; the next full exit is then
  rejected (`lp-fee-accounting-model.ts:605`). Ten steps with three shares show it in the
  `lp_fees` instance. `docs/NEXT_GENERATION_REFACTOR_PLAN.md:302` says of the other bounds that
  "transfer, burn and claim remain available". After a partial burn the global remainder
  may reach `totalShares`, which `docs/NEXT_GENERATION_PHASE2C_RESULTS.md:44-46` excludes.
- `testnet-private-lp-accounting-probe.ts:1153-1530` is not reached.

## 5. Proofs

Checked by TLAPS, for every value of the constants that satisfies the named assumptions
(`FeeAssumption`, `PublicCPMMAssumption`, `LimitOrderBookAssumption`,
`ConfidentialFeesAssumption`, `ConfidentialPoolAssumption`, `ObservablePoolAssumption`,
`ConfidentialMarketsAssumption`, `ObservableMarketsAssumption`, `LpFeeAssumption`,
`ProcessLeaseAssumption`, `DurableAppendLogAssumption`, and of the funded runs `RunOfLabels`,
`Bounds` and `RunsCovered`: a label has one run, and the deployment's and the harness's labels
are theirs). The sets of users and
accounts are assumed finite where their holdings are added up; addresses are.

| Component | Theorems |
|---|---|
| public pool | `TypeCorrect`, `LifecycleInvariant`, `VaultInvariant`, `LocksRedeemable`, `ExitInvariant` (every holder can leave), `BooksTheorem`, `NoDilutionTheorem`, `SwapKeepsProduct`, `ChargeWithinOffer` |
| order book | `BookTypesCorrect`, `CustodyTheorem` (implements `Custody`), `SolvencyTheorem`, `CancelCoveredTheorem`, `FillCoveredTheorem`, `MakerLimitTheorem`, `BountyRateTheorem`, `ShortfallTheorem` |
| confidential pool | `ConfidentialPoolTypeCorrect`, `BooksAlwaysAgree`, `QuoteTheorem`, `ExitTheorem`, `PreviewTheorem`, `ConfidentialNoDilution`; of observable pools `ObservablePoolIsConfidentialPool`, `PublishingTheorem` |
| confidential fees | `ConfidentialTypeCorrect` (with the sweep index inside its queue), `ReleasesDelayedAlways`, `FeesLeaveInAggregatesAlways` (implements `AggregateRelease`), `QueuesNeverBlock` |
| markets | `LaunchRecordsTheorem`, `BestExecutionTheorem`, `ObservableMarketsAreMarkets`, `ReferenceTheorem` |
| LP fees | `LpTypesCorrect`, `FeesConservedAlways`, `NothingDormant`, `FeesStayTheorem` |
| lease and log | `LeaseTheorem` (exclusive until a live process's lease is stolen), `LogUsesLease`, `LogTypeCorrect`, `CompareAndAppendAtomic`, `ChainKept` |
| funded runs | `Types_Correct`, `Recorded_Before_Sent`, `Given_Up_Is_Unsent`, `One_In_Doubt`, `Allowance_Is_Owed`, `Submitted_Once` (implements `SubmittedOnce`) |

Totals. Five of these invariants are about sums: LP balances against the supply, orders and
credits against the escrow, users and locks against the total, what holders are owed against
a liability. A sum by recursion would need an induction the provers cannot do, so
`NumberFacts` says "f adds up to n on S" as the existence of an additive measure
(`AddsUpTo`), and proves how the total follows when one value changes, when two ledgers
are added, scaled or restricted. `TotalIsSum` is the bridge to `SumFunction`, which the
models use: on a finite set the measure of the whole is the sum. Were there a subset on
which the two differ, there would be a smallest one (`SmallestSubset`, by the
well-foundedness of the strict subsets of a finite set), and taking a member out
contradicts it.

Public pool. `Inv` (in `PublicCPMM_proofs`) adds to the checked invariants that the LP
balances add up to the LP supply (`SharesAddUp`) and that the live locks add up
to no more than the pool's shares (`EscrowHolds`). Both are needed: a burn keeps
the supply natural only because no holder has more than all shares, and an
unlock keeps the pool's shares natural only because the escrow covers it. Each operation
has a step lemma (`SwapStep`, `RemoveStep`, ...) proving `Inv'` and `NoDilution` together,
and `NextStep` collects them. `HoldersCanExit` follows from `Inv`: what a removal pays is
rounded down out of books that `Reconciled...` keeps within the balance. `BooksTheorem` goes
through the operations once more, by what each does to balance and books.

Order book. `BookInv` says that an open order has bought, since its terms were set, its
limit's worth for what it has spent since (`TermsKept`). It has to be inductive over fills:
each adds at least the rounded-up minimum of its part (`LimitStep`, from `MulDivUpBounds`),
so no split loses the remainder twice; an amendment resets both sides. `OrderKept` gathers
what a step promises about one order. For custody, `Ledger` adds that closed orders are
empty and that the running totals are what the orders and the credits add up to
(`OrdersAddUp`, `CreditsAddUp`). Each operation then moves what is held and what is owed by
the same amounts: the lemmas `...Moves` say how, `OwedIsDebt` identifies the sums of the
refinement mapping with the totals, and `CustodyTheorem` maps every step to one of `Custody`
or to a stutter. `Solvent` and `CancelCovered` (the subtractions of `cancelOrder` never
underflow) are consequences, and so is `FillCovered`: of what `fillOrder` checks and
subtracts, `canFillOrder` leaves out only what always holds.

Confidential fees. The delay is in no guard: the code compares epoch numbers
only. The invariant therefore carries the age of
a fee through its stations: named swaps were made by now (`SwapsPast`), and the
fees in an epoch are of swaps made before the epoch ended (`MadeBeforeEpochEnds`).
`MatureIsOld` turns the two-epoch rule into the delay; it uses the equality of
`CONFIDENTIAL_EPOCH_SECONDS` and `MIN_CONFIDENTIAL_SWEEP_DELAY` (lines 37-38), stated
in `ConfidentialFeesAssumption`.
That payments are aggregates is not in a guard either: the code adds up public counters and
never sees whose fees it sums. `Flow` says what makes the counters trustworthy: each is the
number of fees beside it (`CountsAreFees`), no fee is in two places (`FeesApart`), what was
swept is past (`SweptPast`), and the queue holds exactly the epochs with fees in the order
of time (`QueueInOrder`). A sweep then takes a gapless prefix of the queue (`SweptAreNext`),
so the counts it adds are those of disjoint sets and their sum is the number of swaps in the
payment (`CountIsFees`, over the totals of `NumberFacts`); `StepReleases` maps each step to
one of `AggregateRelease` or to a stutter. `EnoughIsSweepable` is the converse. Mature epochs
are the head of the queue because it is in order; each of them has a fee, so the
32 that one sweep may visit hold 8 swaps if more than 32 are mature.

Confidential pool. The invariant says that an open pool is within its operational
bounds (every product of shares and reserves an exit takes fits a word), that its
records agree, and that holders and live locks add up to the total (`Ledger`). The bounds
are what the settling path checks at the end of a trade or an
addition, and what the router's wrapped words test by bits; `QuoteAgrees` shows that on a
pool within its bounds the wrapped words are exact wherever the bit survives, so both
accept the same swaps. `ExitOpen` needs the ledger: a holder's part of the reserves is
bounded only because it is a part. `NextStep` proves the invariant and `NoDilution` step by
step as for the public pool. An observable pool adds variables and guards, so each of its
steps is a step of the pool (`ObservableStepIsStep`) and all of this holds of it. For what it
publishes (`PublishingTheorem`): the quantum divides nothing down to zero because it is at
most the lower end of the pool's reference range (`QuantumFits`, which needs
`2 * BucketBps <= FeeDenominator`), and prices are clamped into that range before they are
rounded.

Markets. `RecordsMatch` says of every strategy and tier that the launches completed there are
those the key is active for, that the pool exists and is marked completed exactly when there
is one, and that nothing is open that does not exist. The factory's own test
(`initialized`) would let a second launch into a pool its holders left; it is the strategy's
`activeLaunchForPoolKey` that rules it out, and the invariant has to carry it across exits and
new seeds. The pools' arithmetic plays no part in it: of an operation on a pool these proofs
use which fields it sets (`OnePoolChanges`, `OpenPool`). `ReferenceTheorem` adds the reference.

The router. `BestExecution` relates a choice made blindly, by wrapped words and bits, to what
every candidate would really do. It needs two things. `TradeInv` adds to the records that every
open pool is within its bounds (`WithinBounds`), which every opening and every settlement
checks and no exit breaks; on such a pool a valid quote is exact and is what the settlement
accepts and pays (`QuoteSettles`). The bounds are needed: a quote tests by bits only some of
its products and trusts the others to fit. The rest is about the loops, for bitmaps of any
size. What a loop has handed on after its last iteration cannot be had from an induction
theorem, which takes the formula as a parameter; instead the formula becomes a set of indices.
`HandedOn` says that a set which contains the first index, and each next one, contains all: one
left out would be the least. `LoopRuns` says by the same argument that the recursive function of
a loop exists. With these, `CandidatesOpen` shows that only open pools are
candidates, and `BestLoop` that after `i` quotes the best is the first of the largest valid
ones among them (`FirstBest`). Since a best that is equal is not replaced, ties go to the lower
tier, then the lower class; and since what was quoted is what the settlement pays, the
comparison after it (`QuoteSettlementMismatch`) never fails.

LP fees. The argument is that what a holder is owed, counted in fractions of a unit, is a
linear function of the growth per share whether or not it has been settled (`Worth`,
`EntitlementIsWorth`). A settlement changes nobody's worth (`SettleHolder`: the borrow between
the limbs, the split into claim and carry, and every product within a word), and an
advance by `grown` gives a balance `b` exactly `b * grown`. So each operation is one entry
(`Effect`): one holder's worth changes by `change`, every share's by `grown`, and the
liability that is somebody's by `change + total * grown`. From the entry alone `SideKeeps`
restores the invariant, the sum of all worths being carried by the sum of the balances, and
bounds everybody's gain, which is `EntitlementKept`. `LpInv` needs, beside the books,
that nobody was settled beyond its pool's growth and that without shares there is no
carry (`Sound`). What is shown of `CanSettle` matters most: no bound of the two-limb
arithmetic ever stands between a holder and its claim.

Lease and log. `LeaseInv` adds to the types that, until something is stolen, a live
process from its `openSync` to its `unlinkSync` finds its own file at the path: two such
processes would name the same file. `LogInv` adds what the holder has read: between its
comparison and its write the log is readable, ends in what it expected, has the length its
record counts from and has room (`StillCompared`), because nobody else alive is in that
stretch (`Alone`). Payloads grow with each call (`PayloadsGrow`), which is why a log that
can be read has not fallen back. The condition "until something is stolen" cannot be
dropped: `lease_race` shows the theft.

Funded runs. `IInv` is what the rest needs: where the process may be (`Control`), that the
journal in memory has the operations of the one on disk at their nonces, until an append
fails (`MemFollowsDisk`), that what is about to be handed to a node is in both
records (`InHandRecorded`), and that everything ever handed over is (`AllRecorded`). The
steps are many and few of them write: `SignerMoves`, `JournalMoves`, `HandedMoves` name every
write to the signer's record, a journal and the nodes, and `Flow` how a process moves. On
`IInv` rest, each with a strengthening of its own,
`AllTidy` (a payload is kept exactly while a transaction is unsettled),
`OpenInHand` (what is being sent is still open in memory),
`InDoubt` (with no replaced head and no failed append, at most one transaction is reserved
without a receipt, and a process that is sending has it in hand), `Truths` (a reserved nonce
has one transaction, a label is sent at one nonce, the records repeat what the chain decided)
and `Duty` with `Stepping` (what the harness's journal, on disk and in memory, must say of its
obligation and its receipts at each step of the script). `Submitted_Once` maps every step to
one of `SubmittedOnce`: a first handing to a node submits, a final inclusion decides, a write
to the record tells. The nonce a wallet is given next is the least free one (`LeastOf`),
again by well-foundedness and not by an induction on a formula.

Only model-checked:

- what uses ENABLED: `CancelAlwaysOpen` (`CancelCoveredTheorem` proves its arithmetic),
  `KeeperViewExact` (`FillCoveredTheorem`, the same), the second half of `NothingStranded`
  (`QueuesNeverBlock` proves it of the guard that `ENABLED` stands for);
- all liveness: `AppendEnds`, `LeaseAlwaysFreedAgain`, `DeploymentSettles`, `RecoveryCompletes`;
- the scripts (`FundedScenarios`: `JournalCoversFunds`, `UndisturbedRunPasses`,
  `PassedMeansClean`): they are sixteen concrete programs, and the run executes each of them
  with every mishap; a theorem would add that more than `MaxMishaps` of them change nothing.
  What holds at a step follows from the steps before it in that very program, so a proof
  would go through each of the programs by hand.

The provers take no theorem with an operator as a parameter, so the induction schemes of the
library are out of reach. What can be done instead is done above, for totals, nonces and
loops: well-foundedness of a concrete relation gives a least counterexample. ENABLED and
fairness have no rules in this version of the prover.

## 6. Not modelled, and why

- Public routers and the quoter: stateless compositions of a few pool calls in one
  transaction. The pool and the book take calls with arbitrary arguments, which includes
  theirs.
- Factories and LP token factories of the public side, deployers, permit signatures,
  `WrappedNativeToken`, signature and token compatibility libraries: one-time wiring,
  encodings, a one-to-one wrapper.
- A token that shrinks the vault's own balance (`CipherDEXFeeVault.sol:207`):
  `sweepPublicToken`'s write-down is in the model, but no step takes it there.
- Time and caller limits of confidential pools and launches; replay protection; observation
  sequence numbers; donations to confidential pools, which their books never read.
- Pid reuse: it makes a dead lease look live, which refuses service but does not
  break exclusion.
- Journals of two runners at once in one process, several signers, compaction of the
  signer's record; secure-file primitives (write, fsync, rename; the pattern is in the
  checkpoint of `DurableAppendLog`).
- The rest of the evidence verification: parsing, signatures, factory child bindings, the
  suite. Other deployment scripts are straight lines through the same wallet and journal.
- SDK: encodings, argument checks and read-only quotes without state.
- Lints, `sdk/dist`, mocks: text checks, generated code, test doubles.

## 7. Order of work, and what would come next

The modules were written from the money outward: pool arithmetic and pool, book, lease and
log, confidential fees, confidential and observable pool, markets, LP fees, then the signer's
records and the scripts that use them. The proofs followed in the same order. Next would be
the allowances of the scripts: that a step which approves comes after the one that owes, in
every program and on every way into it, is a property of the programs' text and could be
proved piece by piece, as they are composed.
