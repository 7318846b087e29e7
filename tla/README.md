# USDY: a verification project

TLA+ models of the contracts in `src/contracts` through which customers buy and
redeem USDY, and of the scripts in `src/deploy` and `src/scripts` that deploy
them; the TLC runs that check them on small instances, and proofs, checked by
TLAPS, that hold for every value of the constants.

## 1. The system

Customers pay USDC in and later claim USDY for it, or burn USDY and later claim
USDC. Between the two steps, operators outside the chain move the money and
decide at which price and when a request may be claimed.

| component | state | operations |
|---|---|---|
| `RWAHub` | `depositIdToDepositor`, `redemptionIdToRedeemer`, two counters, fees, minimums, `pricer`, `assetSender`, `feeRecipient`, two pause flags | users: `requestSubscription`, `requestRedemption`; anyone: `claimMint`, `claimRedemption`; relayer: `addProof`; price id setter: `setPriceIdForDeposits`, `setPriceIdForRedemptions`; manager: two overwrite functions, setters, unpausing; pauser: pausing |
| `RWAHubOffChainRedemptions` | one minimum, one pause flag | `requestRedemptionServicedOffchain`, its setter and pauses |
| `USDYManager` | `depositIdToClaimableTimestamp`, the pointers to a blocklist and a sanctions list | `setClaimableTimestamp`, list setters; adds the time check to `_claimMint`, implements `_checkRestrictions` |
| `Pricer` | `prices`, `currentPriceId`, `latestPriceId` | `addPrice`, `updatePrice`, `getPrice`, `getLatestPrice` |
| `PricerWithOracle` | the same and an oracle | also `addLatestOraclePrice`; `addPrice` writes the oracle |
| `RWAOracleRateCheck`, `RWAOracleExternalComparisonCheck` | price, time, last Chainlink round | `setPrice` within limits of change and of time |
| `USDY` | balances, allowances, supply, pause flag, pointers to three lists | `mint`, `burn`, `burnFrom`, `burn(from, amount)`, `transfer`, `transferFrom`, `approve`, `increaseAllowance`, `decreaseAllowance`, `pause`, list setters; every movement runs `_beforeTokenTransfer` |
| `AllowlistUpgradeable` | terms, valid indexes, verifications | terms set by admins, accepted by users, by signature or by a setter |
| `Blocklist` | blocked addresses, owner and pending owner | add, remove, transfer of ownership in two steps |
| sanctions oracle, USDC | external | read by the clients; moved by `safeTransferFrom` |
| roles | members of each role, in order | granted and revoked by the role's admin |
| `USDYFactory`, `AllowlistFactory`, proxies | guardian, the last proxy, ProxyAdmin and implementation | deploy, initialize and hand over in one transaction |
| deployment scripts (`src/deploy/usdy/production`, tasks in `src/scripts/usdy`) | none of their own: the chain, and the store `deployments/<network>/*.json` | deploy, read, save, propose |
| Defender and the Safe | registered contracts, open proposals | `addContract`, `proposeFunctionCall`, `proposeGrantRole`; executed by the owners when they like |
| local network (`src/deploy/usdy/local`) | the same chain and store | the same deployment, sent by the signers themselves |
| verification scripts | `config.ts` | compare the chain with it |

How they interact. The manager calls the token (`mint`, `burnFrom`), which asks
the allowlist and its blocklist and sanctions list about the caller and both
ends of the transfer. The manager asks its own blocklist and sanctions list,
which need not be the token's. It reads prices from the pricer by id. USDC moves
from users to the asset recipient and from the asset sender to users; in both
directions fees go to the fee recipient. The scripts create all of these; what
one script leaves to the next is on the chain or in the store, and in production
everything but the creation of a contract goes through a proposal.

What is hard. A transaction is atomic and a failed one changes nothing, so the
concurrency is that of transactions: a request lives for days, and during this
time every other actor may act. Ids are used again (a transaction hash relayed
again, an id overwritten after its claim). Two kinds of request share a counter.
Ids are priced and timed whether or not they were requested. Prices arrive out
of the order of their timestamps. Lists and pauses change between the request
and the claim. Batches are claimed by anyone, for anyone. Divisions truncate.
Nothing crashes or gets lost on the chain: what plays the part of a duplicated
message is a proof relayed twice, that of a timeout the claimable timestamp.
The deployment is different: its scripts are processes that may be lost at any
await, two numbered orders of them interleave as the operator likes, and what
they propose is executed later, in any order, twice when they were run twice.

What makes each part correct:

* deposits: minted at most once, at a price id given to this very deposit and
  with a claimable time that no other mint used, kept unchanged while open, and
  claimable until claimed;
* redemptions: one id each, paid at most once, at a price given for them, and
  never on chain when they were to be serviced off chain;
* money: rounding favours the fund, and costs the users less than one unit for
  each mint and each payout; a pause stops it; a user on the manager's lists
  moves no collateral, one whom the token does not let hold USDY no USDY;
* pricer: ids have no gaps, the latest pointer is the newest price, and what a
  reader has seen of the list of prices stays in it;
* pricer with an oracle: the latest price is the oracle's when it becomes the
  latest, and the pricer writes to no oracle it disagrees with;
* oracles: prices are positive, follow each other at the distance of the window
  and change within the limits, whatever rounding does; the periods compared
  with Chainlink are about the same;
* token: nothing moves to or from a restricted account, whatever the function;
  no spender uses more than was approved;
* allowlist: nobody is allowed without having agreed to the text of a valid term;
* deployment: the guardian alone administers what the factories deploy, no pointer
  leads to an address without a contract, and both orders of scripts come to an
  end and leave what `config.ts` describes.

## 2. The modules

| module | models | state |
|---|---|---|
| `Pricer` | `Pricer.sol` | `prices`, `currentPriceId`, `latestPriceId` |
| `HubMath` | the internal arithmetic of `RWAHub.sol` | none |
| `USDYRestrictions` | `USDY._beforeTokenTransfer`, the lists behind it, and USDY's pause flag and list pointers | `listed`, `allowed`, `token` |
| `Allowlist` | `AllowlistUpgradeable.sol`, several deployments | `terms`, `currentTermIndex`, `validIndexes`, `verifications`, `signed` |
| `USDYToken` | `USDY.sol` with the ERC20 it is built from; extends `Allowlist` and implements `USDYRestrictions` | `balances`, `allowances`, `totalSupply`, `listed`, `token` |
| `USDYManager` | `USDYManager.sol` with the two contracts it inherits; extends `Pricer`, `HubMath` and `USDYRestrictions` | the mappings and counters, `config`, `paused`, the balances `usdc` and `usdy`, `now` |
| `PriceFeed` | what a reader of `IPricer` relies on: a list of prices that only grows, and its latest entry. `Pricer` implements it (`ImplementsPriceFeed`) | `feed`, `latest` |
| `RWAOracle` | what `IRWAOracleSetter` promises: a positive price, set at most once per window | `rwaPrice`, `priceTimestamp`, `oracleNow` |
| `RWAOracleRateCheck` | the contract of this name; implements `RWAOracle` | the same |
| `RWAOracleExternalComparisonCheck` | the contract of this name; implements `RWAOracle`. What Chainlink answers is an input of `SetPrice` | also `lastSetRound` |
| `PricerWithOracle` | the contract of this name; extends `Pricer` and `RWAOracle`, so that what holds of it holds with either oracle | the pricer's and the oracle's |
| `DeployedContracts` | the chain during a deployment: constructors, both factories, AccessControlEnumerable, Ownable2Step, and the calls the scripts send | `created`, `members`, `ref` |
| `DeploymentScripts` | each production deployment, task and local deployment as data: the sequence of its awaits | none |
| `Deployment` | the operator who runs the scripts, hardhat-deploy's store, Defender and the Safe; extends the two above | `network`, `next`, `running`, `step`, `local`, `deployments`, `registered`, `proposals` |
| `DeploymentChecks` | `src/scripts/usdy/verification-scripts`, and what the event coverage script needs, as predicates of `Deployment`; the properties of a deployment | none |
| `CarefulDeployment` | what is true at each step of the production scripts if the operator is careful: the invariant behind `WiredWhenDone` | none |
| `MCPricer`, `MCUSDYManager`, `MCRWAOracleRateCheck`, `MCExternalComparison`, `MCPricerWithOracle` | instances for TLC; `USDYToken` and `DeploymentChecks` need none | |
| `PricerProofs`, `HubMathProofs`, `USDYManagerProofs`, `RateCheckProofs`, `ComparisonProofs`, `PricerWithOracleProofs`, `USDYTokenProofs`, `DeploymentProofs` | theorems | |

`USDYRestrictions` stands between the manager and the token. The manager's model
needs only who may hold and move USDY, which there changes at any time. That the
token, with its lists, terms and signatures, changes it in no other way is
`ImplementsRestrictions`, checked and proved.

Correspondence with the code:

* One action per external function, with the name of the function. A revert is a
  false guard. Modifiers (`onlyRole`, `ifNotPaused`, `checkRestrictions`) are
  the first conjuncts. `nonReentrant` is left out: no call leaves the system for
  code that could call back.
* `msg.sender` is the parameter `sender` where it matters. The claims have none:
  anyone may call them.
* Id arrays are sets of at most `MaxBatch` ids (functions from a set of ids to
  price ids where two arrays run in parallel). An id named twice makes a claim
  revert, and makes a setter revert or write the same value again. One bad id
  fails the whole batch.
* Deposit ids are the numbers below the counter and transaction hashes; both
  index the same mapping. `TxHashAssumption` keeps the two apart.
* The settings of the administrators are the record `config`; the three pause
  flags the function `paused`, indexed by the feature.
* The pricer of the manager is address(0), the modelled one, or one newly
  deployed, without prices (`setPricer` accepts any address).
* `depositHistory`, `redemptionHistory`, `offChainIds` and `overwrites` are
  history variables: they count what was done under each id, and say for which of
  its requests it was last given a price id (`pricedFor`). They are read by no
  guard other than the bounds `MaxProofs` and `MaxOverwrites`.
* `MoveBurningUnasked` aside, `Move` is the body of `_mint`, `_burn` and `_transfer`
  at once, as a mint comes from address(0) and a burn goes there.
* `entitled` (what an owner allowed a spender so far, less what was used) and
  `agreed` (the texts an account agreed to, or was given by a setter) are history
  variables. `signed` is external: a signature covers the text alone, so it is
  known to every list and at every index with this text.
* A script is a sequence of steps, one per await on the chain, the store or
  Defender, in the order of the file. `Deployment` runs them one step at a time.
  Names without a variable of the script stand for the constants of
  `mainnet_constants.ts` and the signers. What a step cannot do throws; a script
  that threw starts again from its beginning, with `local` forgotten.
* `deployments.deploy` returns what the store has for the same arguments and
  creates a contract otherwise. A call sent to an address without code succeeds
  and does nothing, which is what a proposal to address(0) does.
* `proposals` is a bag: a task that is run twice proposes twice. `undone` and
  `hasty` are history variables that say how careful the operator was.
* `3_deploy_usdyFactory.ts` imports `PROD_GUARDIAN_OMMF`, which
  `mainnet_constants.ts` does not export, and `5_deploy_usdy_pricer.ts` deploys a
  contract `USDYPricer` that the repository does not have. Both are constants of
  the model: what the one is undefined, or the other missing, does is a matter of
  their value. The run gives them the values the scripts mean; the theorems hold
  for any guardian of the factory and any such name but that of another contract.
* Conversions between `int256` and `uint256` prices (PricerWithOracle.sol:94-119) are
  the identity: the prices are positive and far below 2^255.
* USDC is external: a transfer moves the amount, and reverts when the balance is
  too small or the recipient is address(0).

Each definition that begins with the comment `Mutation:` is a wrong version of
the one that follows it. Putting it in the place of the right one makes a run fail, which
shows that the property depends on that line of the code.

## 3. The runs

| run | asks | bounds |
|---|---|---|
| `pricer` | do the ids, the latest pointer and the timestamps stay right; is the table the list of `PriceFeed`? | 4 prices, timestamps 0..2, prices 0..2 |
| `deposits` | is a deposit minted once, at a price id given to it, with a time not used before; is it kept; does it stay claimable? | 1 user, 2 requests and 1 hash relayed up to twice, 1 overwrite, 2 moments of time, batches of 2 |
| `redemptions` | the same for redemptions of both kinds, whose ids may be priced before they are requested | 1 user, 3 ids, 1 overwrite, batches of 2, the real pricer and an empty one |
| `solvency` | do rounding and fees ever cost the fund, or the users more than a unit? | deposits of 4 or 5, redemptions of 2 or 3, two of each, price 3 with `ONE` = 2 and `decimalsMultiplier` = 2, so that the divisions leave rests; fees of 0, 1 and 4 of 4 |
| `restrictions` | does anything move to or from a listed user; does a pause stop claims as well as requests; do the types survive every setting? | 1 user, 1 deposit, 1 redemption of either kind, two blocklists, a sanctions list and the allowlist, the user listed, allowed and removed at any time, all three pause flags, a fee of 5 of 4 (refused), the setters that take address(0) |
| `rate_check` | how far can a setter move the price, window by window? | initial price 9, changes up to a quarter, windows of 3 ticks, times 1..14 |
| `external_comparison` | do rounded comparisons bound the exact change; do the compared periods match; does 0 end the oracle? | prices 0..36 from 13 or 25, times 1..5, two rounds and the id 0, answers -1, 0 and 15..23, windows of 2; a basis point is a tenth, limits 2 and 1 |
| `pricer_with_oracle` | do the two agree when they must; is the unchecked pointer of `addLatestOraclePrice` right? | 4 prices, prices 0..2, timestamps 1..4, times 1..3, window 1, a second setter of the oracle |
| `token` | can approvals be overdrawn; is anybody allowed without consent; does a restricted balance move; does the token do what the manager is told? | 1 user, 1 contract with every role, 1 unit of supply, amounts 1 of at most 2 (`UintMax`, the unlimited approval, is 2), a total entitlement of 2, two allowlists of which one is called, 2 texts, 2 terms |
| `deployment` | is what comes out of every order of scripts and executions safe; is it what `config.ts` expects; do both networks come to an end? | 2 contracts of a kind, 1 failure at any step, at most 1 proposal left open when a script starts |

One id of each kind, or a pair, is what the properties of the manager speak of,
and an id is told apart only by having been used before; two uses of a hash and
one overwrite produce every history that the guards distinguish. The theorems
below remove these bounds.

In `token`, an approval of `UintMax` and one that is used up are both two steps
away, and two terms are what withdrawing one in favour of another takes. In
`deployment`, one repetition of a script already proposes everything twice and
creates second contracts, and a start while a proposal is open is one that the
operator should have waited with (`MaxPending`); a task proposes up to eight, and
these are executed in every order.

`solvency` has one price and no relayed or overwritten entries, for which the
claim is not meant: a price that changes moves the gain or loss to the fund, and
an overwritten entry says whatever the manager wants.
`UsersCovered` excepts behaviours with off-chain redemptions, whose burned USDY
is paid for outside the chain. Amounts are scaled down: `BPS_DENOMINATOR` is 4, 8
or 10, and `ONE` 1 or 2, instead of 10000 and 10^18; two prices and rounds are
what one call of an oracle compares, and small numbers make every rest of a
division occur.

`pricer_with_oracle` runs under `PunctualSpec`: no price carries a timestamp of
the future. Two of its four properties are proved without this condition.
`ZeroIsFinal` also speaks of a constructor that was given a price of 0 or less;
the run starts from positive prices, which `KeepsOraclePromises` presupposes, and
reaches the answer of 0; the theorem covers both.

TLC's deadlock check is on in every run but `deployment`: a deployment ends, or
stops when contracts of a kind run out (`MaxInstances`). Elsewhere some setter,
or time, is always enabled.

What is allowed and stated as it is: a claimable time set before there is a
deposit, or left behind by `overwriteDepositor` to address(0), serves the deposit
that comes (`EveryMintHasItsTime` says only that no time is used twice), while a
price id given too early does not survive the request.

Two runs expect a violation. Each checks one sentence of the documentation
that the program does not keep:

* `proof_replay`: the deposit of a transaction hash is unique (README.md:15,19).
  After its claim the same hash is accepted and minted again.
* `latest_ahead_of_oracle`: the latest timestamp "is always <=
  latestOraclePriceTimestamp" (PricerWithOracle.sol:101). A price that `addPrice`
  records with a timestamp of the future is ahead of the oracle's.

Smaller disagreements, without a run: RWAHub.sol:258 says that `claimRedemption`
"Implicitly does all checks present in underlying `rwa`", and README.md:23 of the
repository that `_checkRestrictions` "will make the same transfer checks that the
RWA itself makes". It makes those of the manager's own blocklist and sanctions
list (USDYManager.sol:69): a user who is on the token's lists alone, or not on its
allowlist, cannot be minted USDY but is paid collateral. `RestrictedAreNotServed`
therefore ties each token to the lists of its own side. `RWAOracleExternalComparisonCheck.sol:136`
says "< MAX_ABSOLUTE_DIFF_BPS", and the code accepts the limit itself and, as it
rounds, almost a basis point more (`ChangesFollowChainlink` states what it really
enforces). `config.ts:72` expects a member of `LIST_CONFIGURER_ROLE` on the token
and `config.ts:114` the multisig as owner of the blocklist; no production script
grants the one or transfers the other ("Execute in script for prod",
local/deploy_blocklist.ts:23). `WiredWhenDone` states both as they are.

Fairness. On the chain none is assumed: nothing in the code obliges an operator to
price a deposit or a user to claim one. What the code does promise is a safety
property, `ClaimableUntilClaimed`: once claimable, a deposit stays so. A script,
on the other hand, runs on by itself: `Fairness` has weak fairness of its steps
(an await returns or throws) and, on the local network, of starting the next one,
which hardhat does without an operator. With it, `LocalCompletes` says that the
local network always reaches a state in which the coverage script can run. In
production the next script and the execution of a proposal are up to people, and
`Fairness` says nothing of them; `CarefulOperatorFinishes` therefore has their
diligence as its premise, and shows that the two orders of scripts, which wait
for each other's results at several points, never wait for each other in a
circle. Strong fairness in the premise is needed for a script that the operator
starts too early and that throws: both orders must be tried again and again.

Each property of a passing run is paired in `PROJECT.json` with a mutation of the
code that makes TLC find it violated.

## 4. What is proved

`PricerProofs`: the invariants of the pricer, that its pointer only moves
forward, and that it implements `PriceFeed`. The invariant is `TableInv /\
LatestIsNewest`: exactly the ids up to `currentPriceId` carry a price, `prices[0]`
is `NoPrice` (so that `latestPriceId = 0`, the empty table, is older than all), and
the pointer is one of the issued ids. `TableInv` alone is what
`PricerWithOracle`, whose pointer need not be the newest, keeps.

`HubMathProofs`: a fee lies between 0 and the amount (`FeesWithinAmount`), and a
deposit redeemed at its own price returns at most the deposit
(`RoundTripNeverGains`), for all prices, amounts and decimals. It also holds the
theory of `Sum`. `Sum` is a fold, a recursive function that takes elements out of
a finite set in the order of a `CHOOSE`; the lemmas show that such a function
exists for every finite set (`FoldExists`), that the order does not matter
(`SumOfTerms`), and how a sum changes when terms are replaced, cleared, added or
gathered by account (`SumChange`, `SumCleared`, `SumAdded`, `SumGathered`). The
library's induction theorems cannot be instantiated by the prover; each induction
here is over a set of numbers instead (`NatSetInduction`), which follows from the
well-foundedness of `<` on the naturals.

`USDYManagerProofs`: from the assumptions on the constants declared in the
modules, for any number of users, ids, lists and prices and batches of any size.
The inductive invariant `Inv` is a conjunction of one part per group of
variables (the pricer's invariant, the lists, `DepositsInv`, `RedemptionsInv`,
settings, money). Each action has a lemma that proves only the parts whose
variables it changes; the rest follows from the lemmas `...Kept`. Proved are
`TypeOK`, the three `EveryMint...`, `EveryRedemptionHasItsOwnId`, the two
`EveryPayout...`, `OffChainRedemptionsStayOffChain`, `FundCovered`, `UsersCovered`,
and the action properties `OpenRequestsAreKept`, `ClaimableUntilClaimed`,
`RestrictedAreNotServed` and `PausedMovesNoMoney`.

* The counting invariants are inductive together: that a claim raises `minted`
  by one is paid for by the entry (the time) it deletes.
* `EveryMintHasItsPrice` and `EveryPayoutHasItsPrice` compare two numbers of a
  history, the last request of an id and the one that was priced last. A request
  makes the first of them larger and, by clearing the price id, the premise false;
  giving a price id makes them equal. With the counting invariants, no price id is
  used for two mints, or two payouts, either.
* `OffChainRedemptionsStayOffChain` is `EveryPayoutHasItsBurn` with
  `EveryRedemptionHasItsOwnId`: an off-chain id has no request of the other
  kind, so a payout under it needs an entry the manager reopened.
* `ClaimableUntilClaimed` needs `PricedIdsAreIssued`: a price id with a price
  keeps one, because ids are never taken back.
* `RestrictedAreNotServed` and `PausedMovesNoMoney` look at what each action moves:
  what a batch pays to an account is a sum over the ids of that account, which is
  empty when the checks of the batch exclude the account. Users differ from the
  fund's accounts (`ManagerAssumption`), so a fee is no payment to a user.
* `FundCovered` is proved for the instances it speaks of, `OneMarket`: one price,
  no relayed deposit and no overwritten entry (`TxHashes` and `OverwriteUsers` are
  empty), and payouts from other accounts than the one that receives deposits.
  With p the price, it says p * `RwaShare` + `unit` * `NetShare` <= 0, where
  `RwaShare` is the USDY held and the amounts waiting to be redeemed, and
  `NetShare` the deposits waiting, plus what was paid out, less what the fund took
  in. A request moves an amount between the two sums of a share; a claim moves it
  from one share to the other at the price, rounded down (`MintsWithinDeposits`,
  `PayoutsWithinRedemptions`). `CoveredInv` adds only that every price in the
  table is one that was submitted.
* `UsersCovered` bounds the same comparison from below, for `ClosedMarket`: no fee
  goes to an account of the fund, which starts empty; one price id, and no pricer
  that lacks it, since a redemption with an unknown price id is settled for nothing.
  `ClosedInv` adds that ids not yet given out have no amount, which is what keeps a
  new request from covering an old one, and that nobody holds USDY before there
  is a price. Both assumptions hold of the instance of `solvency`.

`RateCheckProofs`: `RWAOracleRateCheck` implements `RWAOracle`, and no change
exceeds the limit as an exact fraction: a change rounded up that passes the
check was not larger before it was rounded. `PriceWithinEnvelope` is proved with
the same kind of induction as the sums: `highest` and `lowest` exist
(`SequenceExists`), widen with every window, and a change of a price inside them
ends inside the next ones, because a higher price may rise to a higher one and
falls to one no lower (`StepMonotone`). Two changes are at least a window apart,
so that each uses up a window of its own (`WindowsAdvance`).

`ComparisonProofs`: `RWAOracleExternalComparisonCheck` implements `RWAOracle`
when it is deployed with a positive price (the constructor does not ask for
one); its prices obey `ChangesFollowChainlink`; the compared periods match; a
price or an answer of 0 is final. The lemmas about `Quotient` say that a
quotient truncated towards 0 is less than one away from the exact one, on the
side of 0, so that the difference of two of them, within m, bounds the exact
difference by m + 2. That a negative price cannot be left either is an
argument of its own: the change to a positive price is at least the whole.

`PricerWithOracleProofs`: types, issued ids, `NewLatestIsOraclePrice` and
`DisagreementStopsThePricer` under `Spec`, from `TableInv` and the oracle's types;
`LatestNotAheadOfOracle` and `ImplementsPriceFeed` under `PunctualSpec`, where the
invariant adds `LatestNotAheadOfOracle` itself: addLatestOraclePrice then never
moves the pointer back.

`USDYTokenProofs`: for any number of accounts, allowlists, terms and texts.
`ConsentedToAValidTerm` follows from `ConsentInv`: behind every verification is an
agreement to the text of its index, and indexes stay below the number of terms,
so that a new term finds no verification that was there before it.
`SpentWithinApprovals` follows from `SpendersInv`: an allowance is never more than
what is left of the entitlement. `RestrictedBalancesStay` and
`ImplementsRestrictions` are proved action by action; the latter is the refinement
of `USDYRestrictions`, with what the allowlist answers in the place of `allowed`.

`DeploymentProofs`: for any number of contracts, open proposals and failures, on
both networks, and for any value of the two constants left open by the source
(`PricerAssumption` says that no other contract is meant by `USDYPricer`).
A script knows a contract only by a name: of a variable, of an entry of
the store, of a getter. `DeploymentInv` says of each name that matters that it
stands for a contract of one kind, for nothing yet, or, where it came from a
factory, for address(0); and of each open proposal that the contracts it names
are of the right kinds. It survives every delay because contracts only get more
(`Grows`). That no script gives the token to anybody else, and that every name is
assigned from the right place, is a condition on the scripts alone (`GoodScript`),
checked step by step for all fifteen. What the factory does with its three
temporary roles is `DeployUSDYKeeps`. From it follow `TokensAnswerToGuardian`,
`TokensHaveRealLists` and `ManagersHoldRealTokens`.

`TypeOK` needs what the scripts do beyond `GoodScript`: that all they name is one of
their constants, signers and amounts, or was assigned by an earlier step, and that
each constructor and call gets its number of arguments. `TypedInv` is `TypeOK` with
the number of arguments of the open proposals.

`WiredWhenDone` is about the end of ten scripts, run by an operator who may stop
anywhere and a Safe that executes what it likes. Its inductive invariant is
`DeploymentInv /\ TypedInv /\ BaseInv /\ CarefulInv`, the last in
`CarefulDeployment`:

* `BaseInv` holds of every run: a contract that does not exist yet has neither
  members nor fields (`FreshOK`; a deployment starts from those), and a variable of
  a script holds something only after the step that assigns it (`LocalsOK`).
* `ProcessInv` says what carefulness is for: while a script runs, the only open
  proposals are its own. `ReadsInv` draws the consequence: the script that reads a
  factory's pointer proposes nothing, so the Safe cannot deploy between the read
  and the save, and what is saved is still the latest.
* `AllowlistInv`, `TokenInv`, `GrantsInv`: a step that is behind a script
  (`Past(task, k)`) has its proposal still open or its effect on the chain, never
  neither. With no open proposal at the end every effect is there.
* The other direction is what repetition needs. The Safe may deploy a second
  allowlist or token when task 1 or 3 is run again; that nothing has been built on
  the first by then is in `ProposalsInv` (which proposals wait at which task),
  `OrderInv` (no token before its task proposed it) and the first lines of
  `ManagerInv` (no manager before the token is there).
  A grant executed twice changes nothing the second time (`Granting`).
* `StoreInv`: hardhat-deploy skips what the store has with the same arguments, so
  a script that is run again deploys no second factory, blocklist or pricer; the
  pricer exists only after the last script of its track, which is why task 5 comes
  after all of them.

`NextCareful` has one lemma per kind of step: the operator's, the reads, the saves,
the proposals, the deployments, and the Safe's execution of each kind of proposal;
under each, one step per part of `CarefulInv`. `CarefulHolds` states the invariant
itself, `WiredProved` that at the end it is what `config.ts` says
(`UsdyIsWired`, `AllowlistIsWired`, `ManagerIsWired`, `PricerIsWired`), but for the two
points of section 3 that no script sees to. The bounds `MaxInstances`, `MaxPending`
and `MaxFailures` are any naturals there. `WiredWhenDone` is what the run
`deployment` checks; TLC also finds `CarefulInv` and `BaseInv`'s parts true when they
are added to `Deployment.cfg` and checked with the module `CarefulDeployment`.

Only model-checked: `LocalCompletes` and `CarefulOperatorFinishes`. They are
liveness, which is outside the prover. Every other property of a passing run is
stated by a theorem, two of them (`PunctualLatestNotAhead`,
`PunctualImplementsFeed`) for a pricer without timestamps of the future, as in
its run.

## 5. What is not modelled

* In `USDYManager`: the allowance that `burnFrom` and `safeTransferFrom` need
  (granted by the holder at will, so leaving it out allows more behaviours, not
  fewer), the token's minter role, which the manager is taken to hold (the
  deployment shows that it gets it), and transfers of USDY between users.
* Roles that change while the contracts are in use: `RoleMembers`, `Minters` and
  the like are constants. `DeployedContracts` has grants, and the revocations of
  the factory; `revokeRole` and `renounceRole` from outside are called by no script.
* `renounceOwnership`, upgrades through the ProxyAdmin, and `multiexcall` of the
  factories (arbitrary calls by the guardian, who can do all of this anyway).
* The cryptography of the allowlist's signatures: `signed` is external.
* Overflow of `uint256` in the manager: the amounts of the program are far from
  it, and Solidity 0.8 reverts. The token has it, as `UintMax`.
* In the oracles: `startedAt`, the description of the feed, and overflow of
  `int256` (the guard of `RWAOracleRateCheck` against overflow is modelled).
* A price id that the pricer does not know: `claimRedemption` settles it for
  nothing, and so does the model; no property forbids it.
* The scripts in `src/scripts/ommf`, whose contracts are not in the repository;
  the verification task of the rate check oracle, for which `config.ts` has no
  address; the helpers of `defender-helper.ts` that no USDY script calls.
* In the event coverage script: the amounts, and the race between its claimable
  time, taken from the chain's clock, and the block of the call.
* Names, symbols and decimals, gas, logging, events, and the vendored libraries
  beyond what the contracts use of them.

## 6. Plan

Done: `Pricer` and `PriceFeed`, `HubMath`, `USDYRestrictions`, `USDYManager`,
`RWAOracle` with its two implementations, `PricerWithOracle`, `USDYToken` and
`Allowlist` with the refinement of `USDYRestrictions`, and the deployment, each
with runs and proofs. Next, in this order:

1. Roles while the contracts are in use: what a pauser, a price id setter and a
   manager can do to each other, with `members` of `DeployedContracts` in the place
   of `RoleMembers`.
2. Liveness under weak fairness of `claimMint` and of time: a priced and timed
   deposit of an allowed user is minted, unless paused, listed or overwritten.
3. An abstract specification of one request (open, priced, settled), implemented
   by `USDYManager` for each id, with the refinement proved.

Runs stay few: `pricer` can be folded into `pricer_with_oracle` when a new module
needs a run of its own.
