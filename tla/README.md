# Verification of verifiable-ml-market

TLA+ modules, TLC configurations and TLAPS proofs about the program in this
repository: machine-learning predictions committed, revealed and scored on a
Substrate chain, fed by a Rust pipeline and Python models.

## 1. The system

| Part | State it keeps | Operations | Talks to |
|---|---|---|---|
| verification pallet (`substrate-node/pallets/verification`) | `Commitments`, `Reveals`, `GroundTruths`, each keyed by prediction id | `submit_commitment`, `reveal_prediction`, `submit_ground_truth` | reads the block number |
| prediction-market pallet (`substrate-node/pallets/prediction-market`) | `Models`, `Stakes` (market x model), `Markets` | `register_model`, `create_market`, `stake_prediction`, `settle_market` | reads `Reveals` and `GroundTruths`; reserves, unreserves and mints through `pallet_balances` |
| runtime (`substrate-node/runtime`) | all of the above plus balances, fees, sudo | applies the extrinsics of blocks one at a time | wires the pallets |
| node (`substrate-node/node`) | pool, chain database, genesis | authors from its pool if it is an authority, GRANDPA finality unless disabled, follows forks (SDK template) | runs the runtime |
| chain client and endpoints (`rust-pipeline/src/substrate_client.rs`, `api/server.rs`) | one connection, one signing key, shared by all handlers | submit and wait for finality; read a market at the last finalised block | the node over RPC |
| pipeline engines (`rust-pipeline/src/core`, `provenance`) | none (pure functions of the request) | rolling, lag and growth features; ensemble weights; SHA-256, Merkle trees, off-chain commitments | called by the HTTP handlers |
| ingestion (`rust-pipeline/src/ingestion`) | none | price history, CSV, market state | HTTP, files, chain client |
| Python models (`python-models/models`) | fitted model, feature columns | feature preparation, fit, predict, evaluate | libraries; the pipeline through `adapters/` |

What makes it hard:

- **Any account calls anything, in any order.** Ids are claimed first come,
  first served; the oracle is whoever reports first; anyone settles. The chain
  serialises the calls, but the order is nobody's choice.
- **State in several maps, in two pallets.** A stake, its market's totals, its
  owner's reserve, its model's record and the reveal it depends on are written
  by different calls; errors of two of the money operations are ignored
  (`unreserve`'s rest and `deposit_into_existing`'s result).
- **Arithmetic at its limits.** Fixed-point scores saturate, are capped, and
  are divided with rounding; reputation saturates at both ends.
- **Time.** A settlement fixes the score of predictions that are still hidden;
  stakes stay reserved until somebody settles.
- **Concurrent handlers over one nonce.** All submissions sign for one
  account at its finalised nonce: rivals usurp or refuse each other, forks undo
  blocks before finality, the socket may close for good, and the result of the
  call that was submitted is not looked at.
- **Failures half way.** `fit` replaces the columns, then their scalers, then the
  network, and may raise after each; what a call that raised has done stays.
- **Boundaries:** windows, lags, odd Merkle levels, empty and short inputs,
  splits without a validation set, NaN, and looking ahead.

Correctness, per component: the verification pallet is a commit-reveal scheme
whose records are permanent; the market pallet holds exactly the stakes of
open markets in reserve, settles each market once and as a whole, pays every
owner in full and creates no more than the pool; the client reports what
happened, takes nothing back and leaves no caller waiting; features are computed
from the right rows and never from the future; the grid's optimum is one; a
commitment binds its prediction and a root its batch; a fit keeps the best it
found, and predictions are scaled as the network was trained.
`PROJECT.json` lists every hazard with its line and the properties aimed at it.

## 2. Modules

| Module | Models | Composes |
|---|---|---|
| `Storage` | FRAME storage maps as partial functions: `Put` is `insert`, the domain is `contains_key` | - |
| `System` | external: accounts, `block_number`, `NextBlock` | - |
| `Verification` | the verification pallet, one action per call | `System`, `Storage` |
| `CommitReveal` | abstract: what a commit-reveal scheme promises | implemented by `Verification` |
| `Balances` | external: reserve, unreserve, deposit, transfers, fees, reaping | `System` |
| `PredictionMarket` | the market pallet, one action per call | `Verification`, `Balances` |
| `Runtime` | the pallets in one state machine, and the properties that need all of them | `PredictionMarket` |
| `Escrow` | abstract: what staking promises about money | implemented by `Runtime` |
| `ChainClient` | the chain endpoints of the API, `SubstrateClient`, and the node as they see it | - |
| `Features` | columns of the feature engine, as operators | - |
| `Ensemble` | ensemble prediction, grid search, metrics, as operators | - |
| `Provenance` | off-chain commitments and Merkle trees, as operators | - |
| `FeatureTable` | the feature table of `xgboost_model.py`, as operators | - |
| `Pipeline` | the endpoints and library functions of the pipeline, and what their callers keep | the four above |
| `LstmTraining` | `lstm_model.py`: fit, predict, evaluate, save, load | - |
| `SumProofs` | lemmas about sums over finite sets, and the inductions they rest on | - |
| `VerificationProofs`, `RuntimeProofs`, `MoneyProofs`, `SettlementProofs`, `ChainClientProofs`, `PipelineProofs`, `LstmProofs` | the theorems (section 4) | the module they are about, the proofs they build on |
| `MCVerification`, `MCRuntime`, `MCPipeline`, `MCLstm` | values for TLC | |

**Calls.** A dispatchable is one atomic step: FRAME executes an extrinsic to
its end before the next, inside a storage layer that is dropped when it
returns `Err`. So every `ensure!` and `?` is a conjunct of the action, and a
failing call has no step of its own; its fee is a separate `PayFee` step,
which may also happen without a call. A call's guards come in the order of the
code; its arguments are quantified in `VerificationCall` and `MarketCall`.

**Verification.** The three storage maps and the block number are the
variables. `Blake2` is a constant operator on openings (prediction, salt,
model hash, input hash) assumed collision free (`HashAssumption`), which is
what any statement about commitments rests on. The salt is not kept, as in
the code. Events are left out; `VerificationFailed` never reaches the chain,
as the error that follows drops it.

**PredictionMarket.** `Stakes` is a map from pairs, as the double map. A
market's `total_stake` and `participant_count` are fields of their own, updated
by `RecordStake`, and are related to the stakes only by a property.
`settle_market` is `SettleMarket`: its checks, then `PayOut`, in which the
code's two loops are sums and functions over `Entrants(market)`. The order of
the loop over stakes does not matter: each entrant's reward is fixed by the
first loop, and what one owner gets for several entrants adds up.
`Unreserved` and `Deposited` keep the two ignored outcomes in the model: an
unreserve of more than the reserve moves less, and a deposit to an account
that does not exist pays nothing. Scores follow the code's arithmetic step by
step with the constants it fixes (10, 10^6, 10^12, 5000, 200, ...) as
parameters, so that small ones reach the same boundaries; the divisor is 10^6,
as in the code and `ARCHITECTURE.md` (two comments in the source say 10^12).

**Balances and System** stand for the SDK, whose code is not in the
repository. What they assume of it: an account below the existential deposit
is reaped, unless it holds a reserve, which keeps it alive; fees and transfers
happen at any time between calls.

**ChainClient.** Handlers and node are one state machine. A handler moves
through `phase` ("idle", "signing", "signed", "watching" or "reading", then its
answer), one action between two awaits, so any number of handlers interleave:
`Post`/`Get` (connection, `parse_h256`), `Sign` (the nonce at the finalised
block, read anew by every submission), `Accept`/`Refuse`, `AnswerFinalised`/
`AnswerDropped`, `FetchAtLatest`. The node's side is external: a transaction of
the chain's nonce enters the pool and may usurp one that waits with the same
nonce; a block holds one transaction; a fork replaces blocks that are not
finalised and returns what they held to the pool; `Connect` happens once, and a
closed socket stays closed. Blocks hold transactions whether or not their
call succeeded. The calls name one model, one prediction and one market, so the
state of the chain is which call of which account ran (`State`, a fold of
`ApplyExtrinsic`, whose guards are those of the pallets' calls); the pallets in
detail are `Runtime`. Bodies of requests are texts that `parse_h256` accepts or
not; a retry is one more submission.

**Pipeline.** One request at a time, as the handlers share nothing: a caller
sends (`Ask`), one `Serve...` action per endpoint or library function computes
the reply or panics, the caller takes it (`TakeReply`, the methods of
`adapters/http_adapter.py`). What outlives a request is the commitment its
caller remembers. The inputs include malformed ones: a window of zero, lists of
unequal or no length, a price API that fails or returns two series of different
length. Numbers are integers. A mean, a deviation, a rate of change or a
logarithm is kept as what it is computed from (the sum, the sum of squares, the
pair), so equality and order mean what they mean in the code and floating-point
rounding is left out. Ensemble weights are multiples of the grid's step.
SHA-256 is collision free: a digest is represented by its text, and the text is
what the code joins, separators included. Leaves and nodes are hashed alike, so an
item may be the text of a node (`NodeTexts`), as it may in the code. r_squared is kept
as the fraction the code computes, with its 0 for values that do not vary, and mape by
the terms it adds up, which leave out actual values of zero. (`ARCHITECTURE.md:53` calls it Blake2-256; it is a
SHA-256 of texts, while `reveal_prediction` accepts only a Blake2-256 of encoded
values.) Gradient descent is a choice among the weights it may end with.

**LstmTraining.** A script's calls on one predictor. `Fit` is `fit` up to its
first epoch, `Epoch` one epoch, `Finish` its end; a call that raises answers
"raised" and leaves what it did until then. On a frame without rows `values.min()`
raises (`lstm_model.py:114`) when the columns are replaced and their scalers are
not; without a target column, or when the validation share is empty, columns and
scalers are both replaced and the network is not (`torn` remembers either until a
fit gets further); without a best epoch all three are. A network is named by the fit and the
epoch its weights come from, a scaler by the fit that computed it, and the loss
of an epoch is any of `Losses` or NaN (only NaN once the weights are NaN). `Load`
makes a new predictor from the file, sized by the file's columns.

**Refinements.** `CommitReveal` knows no hashes: an id is bound once, by one
owner, to at most one value, and only that value is ever shown. The mapping
in `Verification` takes a commitment to the set of values its hash can open to
(none, or one). `Escrow` knows no models, scores or accounts: deposits are held
until their market closes, all released in that step, which alone may create
money and no more than it releases. The mapping in `Runtime` takes `reserved`
to what is held and the settled markets to the closed ones.

## 3. What TLC checks

All bounds are constants of the configurations. In the pallets' models the clock
and the key sets are finite, and in `ChainClient` the requests, so behaviours
stop when all ids are used up or all requests answered: deadlock is not an error
there, and their configurations say so. `pipeline`, `training` and `unfitted`
run with the deadlock check: no input leaves a handler or a script stuck.

| Run | Configuration | Shows |
|---|---|---|
| `verification` | 2 accounts, 2 ids, 2 values, 1 salt, a hash that opens to nothing, blocks 0..1 | `VerificationTypeOK`; `RevealsAreCommitted`: what is published was committed to, by the same account, and opens the commitment; `NeverRewritten`; `ImplementsCommitReveal`; `HonestRevealSucceeds`: no other call blocks a reveal |
| `market` | 1 market, 2 models, 2 owners, 3 values, products that saturate | `SettlementPaysInFull`: nothing of an announced payment is lost and the pool is shared out up to rounding; `CloserEarnsNoLess` |
| `rounds` | 2 markets of at most 2 participants, 3 models, 2 owners, fees and transfers that reap accounts, reputation at both ends | `TypeOK`, `ReserveBacksStakes`, `BooksBalance`, `SettledTogether`, `RecordsMatchStakes`, `StakersStayAlive`, `SettlementIsFinal`, `ImplementsEscrow` |
| `release` | 1 market, 1 owner, 2 models, with fairness | `StakesAreReleased`: nothing keeps stakes locked once the outcome is known |
| `client` | 2 submissions, 1 query, calls commit and reveal, 1 transaction of another account, 2 forks, with fairness | `ClientTypeOK`; `NothingTakenBack`: what was reported stays true; `ReadsOwnWrites`; `OneAheadOfFinality`: the API runs submissions one by one; `NoReplay`; `EveryRequestAnswered` |
| `pipeline` | all series of up to 4 values in 0..2, price series of up to 5, windows 0 to 5, a grid of 4, batches of up to 5 items and of up to 3 that may be texts of nodes, frames of up to 4 rows | `FeaturesAreCausal`: no feature looks ahead; `FeaturesAgree`; `OptimumIsBest`; `MetricsAgree`: mean error, root mean square, mape, r_squared and moves tell one story, but for zeros and constants; `CommitmentBindsPrediction`; `RootIdentifiesBatch`: other batches with the same root are repetitions of its end or made of its nodes; `TableLooksBack` |
| `training` | 2 fits of up to 5 epochs, patience 2, losses 1..3 and NaN, frames with no rows, with no, one or two sequences, missing columns and NaN values | `TrainingTypeOK`; `BestIsRestored`; `StopsInTime`; `ScalersMatchModel` |
| `reported_ok` | 1 submission, no forks | the message "verified on-chain" for an Ok (`OkMeansExecuted`) does not hold |
| `unfitted` | 1 fit of up to 3 epochs | "Model not fitted." is not raised for every predictor that is not (`PredictOnlyIfFitted`) |
| `outcome_first` | as `verification` | the documented "commit before outcome" (`CommittedBeforeOutcome`) does not hold |
| `settle_early` | 1 market, 1 model | the documented "after ground truth and reveals" (`SettlesAfterReveals`) does not hold |
| `inaccurate` | 1 market, 1 model | the documented "inaccurate models lose stake" (`InaccurateLoseStake`) does not hold |

Why the bounds are enough for what the runs ask: every relation between two
calls on one key needs at most two accounts and, for calls that should not
interfere, two keys; the participant limit is met with 2 instead of 10 by
having three models; reputation starts one gain below its maximum and less
than two losses above its minimum, so two markets saturate it at either end;
`MaxU128 = 20` makes one product of pool and score saturate and not another;
the values 0, 2, 3 with a divisor of 2 give a full score, a partial one, and
one at the cap. In `rounds` the endowment is twice the amount a transfer or a
fee moves, which is also the existential deposit: two transfers empty and reap
an account, and a third to it brings it back. `MaxBlock = 0` in the market runs: the pallet
stores block numbers and never reads them.

In `client` two submissions are enough to be rivals for a nonce, and a commit
with a reveal is a pair of which one presupposes the other, so that a query can
see either without the other's effect and a transaction can fail on chain. One
transaction of another account makes a call fail that would have succeeded; two
forks undo the same transaction twice, or two of them. The five safety
properties are also proved for any number of each. In `pipeline` the default
window (3), the third lag and momentum, and the volatility (of three returns, so
four prices) all have entries and missing entries; batches of five items have
odd Merkle levels at two heights; three rows of two assets interleave them in
time, and four rows of one asset fill a lag, a window and a row after it. The
grid has 4 steps instead of 50: the code's comparison between neighbours and the
weights 0, 1/2 and 1 are in both. Among the items of the short batches are the text of
the node over the first two leaves and the text "empty", so that a batch of one has the
root of a batch of two, or of none: both exceptions of `RootIdentifiesBatch` occur. In
`training`, patience 2 of 5 epochs lets a fit stop early,
improve after a bad epoch, tie, and run to its end; two fits are needed for one
to fail, or to be loaded, after the other.

**Symmetry.** Accounts, prediction ids and models are permuted in the pallets'
safety runs, and nothing in the other runs; none of the properties there singles one
out, and no liveness property is checked with symmetry.

**Fairness.** `FairVerificationSpec`: weak fairness of the reveals of each id,
that is, an owner who knows the opening keeps sending it until a block takes
it; a reveal that is possible stays possible, so weak fairness is enough.
`FairSpec`: weak fairness of settling each market; anyone may settle, and once
it is possible it stays possible. Neither assumes anything of other accounts,
of the oracle, or of the clock. That blocks are authored at all is the node's
part and assumed. `ChainClient!Spec`: weak fairness of each handler's next step
(the async runtime polls a task that is ready; a task whose connection is lost
is woken with an error), of authoring a transaction of the node's own pool
(`start_aura`), and of finalising (`run_grandpa_voter`). The property is
conditional on the node being an authority and GRANDPA not disabled, as in the
node's service; without either a submission does wait for ever. Nothing is
assumed of other nodes and accounts, of forks (at most `MaxForks`, for a client
that is starved by endless forks is not the code's fault) or of the socket. The
other modules have no liveness: their handlers and scripts compute one result.

**Every property can fail.** For each property `PROJECT.json` names a wrong
version of one operation (marked "Wrong version" in the modules: a dropped
check, an off-by-one, a missing floor, ...) under which TLC refutes it.

### Where code and documentation disagree

1. `submit_commitment` accepts a commitment after the ground truth is on chain
   (`verification/src/lib.rs:119`), so the chain alone does not prove that a
   prediction was made first, which `ARCHITECTURE.md:100` says it does. The
   block numbers of both records let a reader find out.
2. `settle_market` does not wait for reveals (`prediction-market/src/lib.rs:284`):
   as soon as the outcome is known anybody may settle, and hidden predictions
   score 0. The header (`lib.rs:9`) says "after ground truth and reveals".
3. Inaccurate models do not lose their stake (`lib.rs:327`, against `lib.rs:10`):
   it is returned in full and the rewards are minted.
4. A submission is reported Ok as soon as a finalised block holds it
   (`rust-pipeline/src/substrate_client.rs:129`); the events of the extrinsic are
   not fetched, so a call that failed on chain is reported like one that did not.
   `rust-pipeline/tests/e2e_demo.rs:177` prints "hash verified on-chain!" for it.
5. `predict` takes a predictor for fitted once it has a network
   (`python-models/models/lstm_model.py:264`), which `fit` sets at line 198,
   before its epochs. When no epoch has a loss (one NaN in the data is enough)
   `fit` raises at line 247, and `predict` then answers from the network of the
   fit that failed instead of raising "Model not fitted." (line 265).

## 4. What TLAPS proves

Every safety invariant and action property of section 3's passing runs, and both
refinements, for every set of accounts, ids, values, models and requests and every
value of the other constants that meets the named assumptions:

- `HashAssumption`: Blake2 is collision free. `AccountAssumption`, `KeyAssumption`:
  accounts, models and markets are finitely many (keys of 256 bits), so sums are sums.
- `BlockAssumption`, `MarketAssumption`, `BalancesAssumption`, `LstmAssumption`: what
  the code's types and constants say (widths, positive divisors and deposits, a
  positive patience). `FrameAssumption`: a frame lists the lengths of its series, and
  a series has rows; a frame may have none.
- `ClientAssumption`: submissions are finitely many, and neither queries nor the
  other account.
- `GridAssumption`: the grid has an even number of steps (50 in the code), so equal
  weights are on it. `InputAssumption`: what a request lists is a list, of numbers or of
  items; of the items themselves nothing is assumed.
- `TextAssumption`: texts are sequences of tokens, and the decimal text of a number
  has no separator in it; salts and hashes may.

**`VerificationProofs`**

- `TypeCorrect`: `VerificationSpec => []VerificationTypeOK`.
- `PublishedWasCommitted`: `=> []RevealsAreCommitted`. The inductive invariant
  `VerificationInv` adds the types and `DatedInThePast`: that a commitment is
  no younger than its reveal is only inductive if no record lies in the future.
- `HistoryNeverRewritten`: `=> NeverRewritten`, from the types.
- `PalletImplementsScheme`: `=> ImplementsCommitReveal`. The one step that
  needs thought is a reveal: the value shown is among those the commitment
  can open to, and not shown yet because `revealed` and `Reveals` agree
  (from the invariant); collision freedom makes it the only one (`HiddenIsAtMostOne`).

**`RuntimeProofs`**

- `RuntimeRunsThePallet`: `Spec => VerificationSpec`, as no market call, fee or
  transfer touches the pallet's storage; so `RuntimeKeepsCommitments`: the
  pallet's theorems hold in the runtime.
- `MarketTypeCorrect`: `Spec => []MarketTypeOK`, for any fees and transfers.
- `StakesSettleTogether`: `=> []SettledTogether`. Inductive with `Filed`
  (every stake belongs to a market and a model, and a market that counts
  participants has stakes): without it `settle_market`'s check of
  `participant_count` would not give a stake to settle.
- `SettledIsFinal`: `=> SettlementIsFinal`, from the same invariant.

**`SumProofs`.** Sums are the community modules' folds. No induction theorem of the
library can be used (they take operators), but a set can stand for the predicate:
`SubsetInduction`, `AddingInduction` and `UpToInduction` take a set `Good` of subsets, or
of numbers, and follow from the library's well-founded orders. By the first, a fold
over a finite set has the partial sums that define it (`PartialSumExists`), and
adding an element adds its value (`SumAdd`); the rest follows: splitting,
monotonicity, sums by owner, and the Cauchy-Schwarz inequality with its case of equality
(`SumOfSquares`).

**`MoneyProofs`**, by one inductive invariant, `MoneyInv`: the types, `Filed`,
`SettledTogether` and the properties below but the last, as each needs others. A settlement takes stakes
off the sum of an owner's open stakes and as much off the reserve, because the
reserve is no less than that sum, and the account is there to be paid because a
reserve keeps it alive.

- `RuntimeTypeCorrect`: `Spec => []TypeOK`.
- `ReserveIsStakes`: `=> []ReserveBacksStakes`, reserve and open stakes being equal.
- `MarketBooksBalance`: `=> []BooksBalance`.
- `StakersAlwaysAlive`: `=> []StakersStayAlive`.
- `ModelRecordsMatch`: `=> []RecordsMatchStakes`; inductive once `MoneyInv` holds:
  one settlement rates each model at most once.

**`SettlementProofs`**

- `SettlementIsFull`: `=> SettlementPaysInFull`. Nothing of the two ignored outcomes is
  lost (`DepositsSucceed`), and the divisions round down to between the pool and the
  pool less the number of entrants, unless a product saturates (`RewardsShareOut`,
  `RewardsWithinPool`).
- `CloserPredictionWins`: `=> CloserEarnsNoLess`: square, saturation, cap, inversion and
  share are monotone one by one.
- `RuntimeImplementsEscrow`: `=> ImplementsEscrow`. A stake maps to a deposit, a
  settlement to a release, a fee or transfer to a stutter or to a
  burn (fees and dust leave the accounts).

**`ChainClientProofs`**, for any number of submissions, queries, forks and rivals

- `ClientTypeCorrect`: `Spec => []ClientTypeOK`; that nonces are bounded comes from
  counting the transactions on the chain.
- `NothingRunsTwice`: `=> []NoReplay`. The inductive invariant `ReplayInv`
  says that the nonce of a transaction on the chain is the number of
  transactions of the account below it (`InOrder`), which a fork keeps because
  it keeps a prefix; and that only a handler past signing has one (`Sent`), so
  signing anew does not disturb it. Two blocks with the same transaction would
  have the same number below them (`BeforeGrows`).
- `OneAtATime`: `=> []OneAheadOfFinality`. `FinalityInv` adds that no nonce is
  above the finalised one (`NotAhead`: it was read there, and finality does not
  go back), that what waits in the pool has no used nonce (`NotBehind`: a
  rival on the chain drops it) and shares it with nobody (`NoRivals`: a usurper
  drops the other). So all that is ahead of finality has one and the same
  nonce. The step that needs thought is a fork: what it returns to the pool has
  a lower nonce than whatever waited there, and one no lower than the number
  used by what is left of the chain.
- `ToldIsKept`: `=> []NothingTakenBack`, and `WritesAreRead`: `=> []ReadsOwnWrites`. The state
  of the chain is a fold over its blocks; `StateStep` unfolds one block, so the state
  grows with the chain (`StateGrows`), depends on the blocks alone and holds the effect
  of each call whose guards held (`CallTakesEffect`). `ReadInv`: a block holds its
  submission's call, an answered one is finalised, and a view is of finalised blocks,
  which are kept (`FinalisedAreKept`).

**`PipelineProofs`.** Each invariant says that a reply is what the module's operators
make of a request that was really sent (`Known`); the work is about the operators.

- `CommitmentsBind`: `Spec => []CommitmentBindsPrediction`. The text that is hashed starts with
  the prediction and the first separator (`JoinStarts`), and no prediction has one
  (`PredictionIsRead`). It says no more: the other fields may have separators.
- `OptimumBeatsTheModels`: `=> []OptimumIsBest`. The grid search is a minimum
  (`GridBeats`) over a grid that has the weights 0, 1/2 and 1 on it (`AlternativesOnGrid`).
- `MetricsAlwaysAgree`: `=> []MetricsAgree`, by Cauchy-Schwarz over lists
  (`MetricsConsistent`). It does not say that a prediction is perfect by all metrics or
  by none, which is false of the code: mape is also zero for errors at actual values of
  zero, and r_squared is also zero for a perfect prediction of a constant (that the
  variation is zero just for constants is the case of equality, `VariationTells`).
- `FeaturesNeverLookAhead`: `=> []FeaturesAreCausal`. A series that begins with another has
  its windows (`SameWindow`), so its columns, volatility and rows (`RowIsCausal`).
- `FeaturesAlwaysAgree`: `=> []FeaturesAgree`. A mean is between the extremes, and a
  deviation is zero only if they are equal (`WindowStatistics`, again by Cauchy-Schwarz).
- `TablesLookBack`: `=> []TableLooksBack`: sorting does not look at targets
  (`TargetsDoNotSort`), and neither lags nor windows look at this row's or a later one's.
- `RootsIdentify`: `=> []RootIdentifiesBatch`. Up to the height where they settle, levels
  form a tree whose nodes each stand for a block of texts (`TreeExists`, `BlocksDouble`).
  By induction from the leaves, digests of one level are equal just if their blocks are
  (`SameHeight`), so roots of one height tell filled batches apart. Trees of different
  heights have different filled batches, as blocks grow from level to level
  (`LongerAbove`); if they have one root all the same, then from the root down every leaf
  of the lower one is a node of the higher (`LowerMimics`). Batches of one length
  have one height (`WidthsAgree`), and as many leaves under one root are the same leaves
  (`TreesAgree`).

**`LstmProofs`**, for any series, columns, losses, epochs and patience

- `TrainingTypeCorrect`: `Spec => []TrainingTypeOK`. That every column has a scaler is part
  of it, unless the last fit raised before it had made its network (`torn`): on a frame
  without rows the code leaves columns without scalers.
- `BestAlwaysRestored`: `=> []BestIsRestored`. Inductive with `Tracked` (`best`
  is the earliest of the best epochs so far; `LessIsOrder` has the order with
  NaN) and `Dated` (a history is older than the fit that runs, so that a fit
  that raises does not pass for the one the history is of).
- `AlwaysStopsInTime`: `=> []StopsInTime`. Inductive with `Counting`:
  `patience_counter` is the number of epochs since the best one.
- `ScalersAlwaysMatch`: `=> []ScalersMatchModel`, with the same of the file
  (`FileCoherent`). It is stated of predictors whose last fit did not raise before
  its network; one that raised after its epochs, and one fitted again, are among them.

Only model-checked: the liveness properties `HonestRevealSucceeds`, `StakesAreReleased`
and `EveryRequestAnswered` (fairness and ENABLED are out of the prover's reach), and the five
documented claims that do not hold, each by its counterexample.

## 5. Not modelled, and the plan

Next, in this order:

1. `ChainClient` with blocks of several transactions.
2. Proofs: what liveness rests on and is safety, that a step which is possible stays
   possible until it is taken.
3. The six hazards without a property. Two of them are left to their assumption:
   a submission waits for ever when nothing is ever finalised, and a predictor whose
   last fit raised before its network answers with parts of two fits. The code does
   both, and nothing in the repository says that it may not.

Left out for good:

- events (a failing call drops its own), block stamps nothing reads, sudo,
  timestamps and the runtime APIs: framework code the pallets do not call;
- in the node: networking, telemetry, the command line, the chain specification
  and the keystore; Aura and GRANDPA beyond when they run: SDK code;
- transaction mortality and the pool's finality timeout (the client's transactions
  expire, and the pool stops watching them, after numbers of blocks no model of this
  size reaches; the client's answer would be the error it gives for a closed socket,
  which also leaves open whether the call runs), HTTP timeouts and the decoding of
  replies; `/health` and `/hash`; `main.rs`, which reads arguments and prints;
- `ema` and `calculate_consistency`, which nothing calls, and the thresholds of
  the market regime; `verify_leaf`, `hash_value` and the fields a commitment only
  carries; `load_from_csv`;
- gradient descent, the XGBoost regression, the network itself and all rounding:
  floating point and libraries;
- the docker file: a deployment description without state.
