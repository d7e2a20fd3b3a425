# Agama on MagicBlock: specifications

TLA+ models of the Agama vault program (`programs/agama-magicblock/src/lib.rs`)
and of the off-chain processes around it (the keeper's two loops, the set-up and
operation scripts, the private client), checked with TLC on small instances, and
theorems about them proved with TLAPS for every instance.

## The system

Agama takes USDC and issues shares whose price rises as four lending pools
accrue yield. It is split over three places: Solana, a public rollup, and a
rollup inside a trusted enclave (TEE).

| Part | Where it runs | State it keeps | Operations |
|---|---|---|---|
| Public vault | Solana | `Vault`: `shares`, `total_in`, `total_out`; the custody `vault_usdc`; agYLD balances | `initialize`, `deposit`, `redeem` |
| Lending book | a public rollup, while delegated; Solana keeps the last committed copy | `PoolBook`: principal, accrued, rate and weight of four pools; `nav`; `marked_in`, `marked_out`; `last_ts` | `init_book`, `tick`, `absorb`, `set_apr`, `commit_book`, `undelegate_book`, `delegate_book`, `migrate_book` |
| Private aggregate and exit tickets | the enclave; Solana keeps the last committed aggregate | `Shielded`: `shares`, `total_in`, `total_out`; `ExitBook`: 16 ticket slots; the private custody | `init_shielded`, `deposit_private`, `redeem_private`, `redeem_private_to`, `settle_exit`, `commit_shielded`, `undelegate_shielded`, `delegate_shielded`, `delegate_exits` |
| Positions | Solana, then the enclave | `Position`: shares, private shares, entry price, marks, session key and expiry, the privacy flag; its permission account | `init_position`, `authorize_session`, `delegate_position`, `init/set/close_permission`, `sync_position`, `rotate_session`, `undelegate_position` |
| Keeper (`keeper.ts`, `recycle.ts`) | off chain, under launchd | what it last read; the counters `n`, `commits`; the rollup connection | reads, `absorb`, `tick`, `commit_book`, recycling |
| Private keeper (`private-keeper.ts`) | in the keeper's loop | its login; `seen`, `commits` | paying tickets, committing the aggregate, recycling it, refilling the sponsor |
| Private client (`private.ts`; `e2e-private.ts` and `e2e-stealth.ts` walk through it) | a browser | session key, shield keys | open, shield (plain or through MagicBlock's queue), seal, deposit, redeem, rotate |
| Set-up and operation scripts (`setup.ts`, `setup-private.ts`, `migrate-book.ts`, `position.ts`, `privacy.ts`, `e2e.ts`) | by hand | none: they look at what is there | one transaction after another |

How they interact. Solana cannot read a rollup and a rollup cannot read Solana,
except for clones of accounts. `nav_for_pricing` therefore prices on Solana's
stale copy of the book and corrects it with the *marks*: how much of the vault's
cumulative flow the book has absorbed. The keeper closes the loop: it reads both
sides and sends the difference to the book (`absorb`); commits carry the book
back. Private flow takes one step more: it reaches Solana as one number when the
aggregate is committed, and only then is absorbed. A delegation sponsors ten
commits, after which the keeper recycles it (undelegate, wait, delegate again).
A rollup may lose a delegation altogether; `migrate_book` then restarts from the
last committed copy. A private redemption opens a ticket in the exit book, and
the private keeper pays it from the private custody later.

What makes this hard. The keeper's two reads happen at different moments, and
its transactions land late, or never, or after it has given up on them; commits
are scheduled now and land later; both pricing sides work on stale copies, and
not on the same ones; a recycle may be cut off between any two of its steps; a
payment may land twice, or after its ticket was closed and its group id drawn
again; the private keeper logs in once, and what it does in one turn stops at the
first failure; a script dies between two transactions, one of which may still
land while it is run again; a position's session key changes on one side while the permission that
lists it lives on the other; every amount is a rounded-down 64-bit integer.

### What makes each part correct

- *Lending book*: spreading or taking capital loses no unit; yield is never
  credited twice or before it is earned, and what is lost is only rounding.
- *Pricing*: the price is exact whatever the copy misses, and every trade is
  rounded against whoever asks for it.
- *Book life cycle and keeper*: every dollar is absorbed exactly once and gets
  to the committed book eventually; Solana's copy never goes back.
- *Private side*: tickets are paid once and always covered by the custody; the
  aggregate is the sum of the positions; the two kinds of share are priced alike.
- *Positions*: only the owner or a live session key acts; a session's expiry is
  set back by nothing but a new authorisation; the flag says what the permission
  does; the numbers shown are what entered prices and price moves account for.
- *Keeper loops*: the book and the aggregate keep reaching Solana, every recycle
  is finished, an aggregate without its gate is gated again, every ticket is paid.
- *Client*: what is sent is credited, all parts of it, and every share can be
  redeemed, whatever keys are lost.
- *Scripts*: a script that is run again until it is done gets everything done, in
  an order in which nothing was made before what it depends on.

## Modules

| Module | What it is | Source |
|---|---|---|
| `U64` | saturating and truncating 64-bit arithmetic, the width a constant | Rust's integers |
| `PoolBook` | the book as a record, each instruction a function on it | lib.rs `PoolBook`, `tick`, `absorb`, `set_apr` |
| `PoolLoops` | the loops of `fund`, `defund`, `marked_value`, pool by pool | lib.rs |
| `LendingBook` | the book over time, moving between hosts with clocks of their own | lib.rs |
| `Pricing` | `nav_for_pricing` and the conversions between dollars and shares | lib.rs |
| `FairVault` | abstract: a vault that trades shares at a fair price and otherwise gains value | the promise of `deposit` and `redeem` |
| `PublicVault` | depositors, book, commits, delegation, loss, migration, keeper | lib.rs, keeper.ts, recycle.ts, migrate-book.ts |
| `PrivateVault` | the enclave's trades, the aggregate's life, tickets and their payment, beside the public side | lib.rs, private-keeper.ts |
| `PositionAccess` | session key, permission and privacy flag of one position | lib.rs |
| `PositionLedger` | shares, entry price, value and yield of one position | lib.rs |
| `Position` | the two composed: one Position account | lib.rs |
| `KeeperLoop` | the public keeper: the loop of `main`, `recycleBook` and every way they fail | keeper.ts, recycle.ts, common.ts, keeper.sh |
| `Scripts` | the six scripts as sequences of steps over facts, cut off and run again | setup.ts, setup-private.ts, migrate-book.ts, position.ts, privacy.ts, e2e.ts, common.ts |
| `PrivateSide` | what the private keeper and a depositor share: the aggregate, tickets, money on its way, the sponsor; and what MagicBlock does | private.ts; external |
| `PrivateLoop` | the private keeper's start and its turn in the loop | private-keeper.ts, keeper.ts, common.ts, diagnose.ts |
| `PrivateClient` | a private depositor of either kind | private.ts, e2e-private.ts, e2e-stealth.ts |
| `PrivatePath` | `Scripts`, then `PrivateLoop` and `PrivateClient` over `PrivateSide` | |
| `SystemPath` | `PrivatePath`, and `KeeperLoop` after `setup.ts` | |
| `MC*` | values of the constants for TLC | |
| `SumProofs` | lemmas about sums of finite functions (`SumFunction`), by induction over sets | |
| `PoolBookProofs` | lemmas about the 64-bit arithmetic, the book's instructions and the loops | |
| `LendingBookProofs`, `PublicVaultProofs`, `PublicPriceProofs`, `PrivateVaultProofs`, `PositionProofs`, `PrivatePathProofs` | theorems, and the lemmas of their own | |

`PublicVault` and `PrivateVault` extend `PoolBook` and `Pricing`; `PublicVault`
instantiates `FairVault` with `nav <- BaseNav, supply <- BaseSupply`, the two
numbers `nav_for_pricing` returns on Solana. `Position` extends `PositionAccess`
and `PositionLedger`: a step is one of the first, or one of the second, and the
ledger's own instructions ask the first who may act and where the account is.
`PrivatePath` extends `Scripts`, `PrivateLoop` and `PrivateClient`: a step is one
of a script until `setup-private.ts` is done, then one of the keeper, the
depositor or MagicBlock. `SystemPath` extends it and instantiates `KeeperLoop`:
after `setup.ts` a step is one of the public keeper's loop. The two loops run
apart there, each after its own set-up; they share the process and no state but
its life. `PrivateVault` has the amounts of the private side and
takes its hosting as steps that are retried; `PrivateLoop` has the control flow
that retries them, and no amounts but whole units.

A definition followed or preceded by others of its name and a suffix (`Redeem`
and `RedeemUnchecked`) has variants: what a plausible mistake would make of it.
Each property is checked to fail under one (`PROJECT.json`, `mutants`). No
next-state relation contains a variant.

### State and actions

**PublicVault.** `vault`, `custody`, `agyld` are Solana's. The book exists
twice: `book` is the account where it is written and `baseBook` is Solana's copy;
`site` says who writes it (`solana`, `rollup`, `returning` after
`undelegate_book`, `lost`). `settling` holds the contents a scheduled commit will
deliver. `keeper` is what the keeper has read since it last acted, `inflight` the
absorb transactions it has sent. One action is one instruction, one settlement of
MagicBlock, or one answer to the keeper. `TopUp` is a plain token transfer to the
custody, which makes redeemed yield payable.

**PrivateVault.** `shielded` is the live aggregate, `baseShielded` Solana's copy,
`site` and `settling` as above; `exits` the open tickets, `custody` the private
custody's balance, `private_shares` the positions' share counts. `round` is what
the private keeper read of the exit book, `sent` its payments that may still
land. `claimed` and `paid` are not in the program: they record what each wallet
was promised and paid. A payment and the `settle_exit` behind it are one action,
because they are one transaction.

**PositionAccess.** `session_key`, `session_expiry`, `is_private` are the
account's; `permission` is the permission program's account in the enclave;
`site` where the position is written. `ClosesFirst` says that the owner closes
the permission before leaving, as `undelegate_position` asks; `Reopens` that
`init_permission` is sent, or lands, again after the position was opened.

**PositionLedger.** `ledger` is the account's numbers, `held` the owner's agYLD
on Solana, of which the position learns by `sync_position` only. `price` is the
enclave's (`share_price` of what `nav_for_pricing` computes there), at which the
position is entered and marked; it moves up and down as the environment likes.
Public trades happen at Solana's price, which the position never learns, so they
change `held` alone. `lowest`, `highest`, `marked` and `gain` are not in the
program: they record the prices entered, the price of the last mark, and what the
price moves since brought on the shares the position had meanwhile.

**KeeperLoop.** `pc` is the step of the loop or of the recycle the keeper is at,
`n` and `commits` its counters, `nonce` the rollup's own count, `site` where the
book is. Each step has a `...Done` and a `...Throws` action; a transaction that
throws may have landed (`sendAndPoll` gives up after 15 s).

**Scripts.** `world` is the set of facts the script's transactions have made,
`line` its next step, `late` the transactions given up on that may still land. A
step says which facts it looks for (`sees`; none, and it sends at once), how many
steps that look decides about (`block`), which facts its transaction needs and
which it makes. `Skip`, `Confirm`, `Throw` are the three ways a step ends;
`Take` is a validator taking what was delegated to it.

**PrivateLoop.** `at` is the step of the turn or of the recycle the keeper is at,
`turn` and `commits` its counters, `seen`, `ripe` and `todo` its memory of
tickets, `token` whether the enclave accepts its login, `sent` the payments it
gave up on. `site`, `gated` and `nonce` are the aggregate's place, its gate in the
enclave and the commits its delegation has sponsored. As in `KeeperLoop` a step
is done or `Throws`; what throws may have had its effect. Throws that need not
have been, crashes, expired and failed logins share the bound `MaxMishaps`; what
is hopeless (no login, a ticket somebody else has paid) throws whenever tried.

**PrivateClient.** `money` counts a depositor's units by place: `wallet`,
`sending` (in the queue), `key` (at a throwaway key), `shielding`, `eata` (the
key's private account), `custody`, `leaving`. `holds` and `lost` say whether the
session key and the shield key in use are at hand. A `session` user opens with
the wallet; a `stealth` user's keys are derived from a signature and never lost,
and the sponsor pays for its opening.

### What is abstracted

- Amounts are small integers and `U64Max` a constant: the saturation and
  truncation are in the operators, and the bounds keep the runs below the width,
  except where `ClosedFormsMatchLoops` goes beyond it on purpose. TLC's arithmetic
  has no u64, and a vault near 2^64 micro-dollars does not exist.
- `YieldUnit` stands for the 10 000 basis points times the seconds of a year: a
  small one makes yield, and the loss of fractions, happen in a run of seconds.
- Who a depositor or a session key is matters only by equality; the runs use
  symmetry over them, which is sound here since those runs check invariants and
  properties of steps, no liveness.
- `PrivateVault` reads the vault and the aggregate at one moment and commits the
  book in one step, since the two moments and the scheduled commit are
  `PublicVault`'s subject. It takes the enclave's clones of Solana's accounts as
  current. Nobody tops up its custodies.
- `PositionLedger` takes any path of the enclave's price within a set. That
  price does fall: it divides by the live supply what a redemption on Solana, at
  the higher committed price, has taken from (with 1100 dollars for 1000 shares on
  Solana and 3150 for 3000 in the enclave, a redemption of 900 pays 990 and leaves
  2160 for 2100). `PublicVault`'s `SharePriceNeverFalls` is about Solana's price
  and says nothing of it.
- `PrivateClient` has one deposit and one ticket, of all its units: a ticket that
  can never be paid and blocks the ones behind it, and the commit and the refill
  of its turn, is not covered. (`Lot = 1`, two tickets, was checked once for
  session users alone: all properties hold in 122 000 states; failures there are
  bounded as in the run.)
- In `PrivateLoop` a transaction that was given up on and is not a payment has its
  effect at the moment of the throw or never; only payments land later
  (`LandPayment`).
- A `stealth` user's shield key is derived, as `shieldKeyAt` (`private.ts`) does
  for the app. The walk `e2e-stealth.ts` draws a random one, which dies with it;
  what was sent to such a key and not shielded is out of the model.
- Stateless parsing is left out and its result assumed: a rotation the wallet
  signed (`assert_ed25519`), a deposit with its transfer
  (`assert_token_transfer`), a ticket closed with its payment.

## Runs

| Run | Question | Bounds | Result |
|---|---|---|---|
| `lending` | is yield accrued and capital placed correctly over time, and are the closed forms the program's loops? | 3 s, 3 dollars of flow, two hosts | all hold |
| `public_vault` | is flow absorbed once, pricing exact, and every trade fair? | 2 depositors, 2 dollars, 2 s, one change of rate, one absorb under way | all hold |
| `public_vault_live` | does every deposit reach the committed book, and does no share lose value when yield is paid out? | 1 depositor, 2 dollars, 2 topped up, 1 s | all hold |
| `public_vault_late` | what if an absorb lands after the keeper re-read? | 2 absorbs under way | **violated**: the book gets ahead of the vault, for good |
| `private` | do both sides price exactly what they know, and is each ticket covered and paid once? | 2 owners, 2 group ids, 2 slots, 2 payments under way | all hold |
| `private_live` | does private flow reach the book? | 1 owner, 1 slot | holds |
| `private_worth` | are the two kinds of share worth the same? | 2 dollars, 1 s | **violated**: not while yield is committed and a private deposit is not |
| `position` | do key, members and flag stay in step, and are the numbers ones price moves account for? | 2 keys, 1 viewer, lots of 3 shares, 6 of each kind, 3 prices, 3 marks, 1 s | 8 properties hold |
| `position_reopen` | and when `init_permission` lands twice? | the same | **violated**: the flag says gated, the permission is open |
| `keeper_cut` | and with nobody to restart a stalled keeper? | no crash | **violated**: a recycle cut off before the delegation is never finished |
| `setup_cut` | is `setup-private.ts` done in the end, wherever it is cut off? | 2 runs cut off, 1 late transaction | **violated**: a queue that was made and not delegated stops it for good |
| `system` | do the scripts get done and in order; does the book keep reaching Solana, whatever fails; is what is sent privately credited, each ticket paid, the aggregate published and gated, each share redeemable? | 6 scripts, 2 runs cut off, 1 late transaction; a limit of 1 commit, 4 ticks between commits, 1 crash, others commit too; 1 depositor of either kind, 2 parts, 1 mishap | all hold, with an operator |

### Why the bounds are enough

*Money.* Two dollars and two amounts make the three kinds of trade happen that
differ: a first deposit, a deposit at a price that does not divide it, and a
redemption of part of a position. With `YieldUnit` 1 or 2 the price moves to 2
or 3/2 in a second, so shares and payouts round. The weights give one pool two
parts, one pool none and the last the remainder.
*Time.* Two seconds let a rate change fall between two accruals; in `lending`
three.
*Flight.* One absorb under way is all the keeper has when it waits for its
answer; two are what `public_vault_late` needs. Two payments are one given up and
the one sent in its place.
*Sessions.* Two keys, one of which replaces the other; one viewer that must
survive; a term of two seconds with a leeway of one.
*Commits.* One sponsored commit is spent by the keeper or by others; the keeper
then recycles by its own count or by the limit error, and after a restart its
count is behind. The counters are kept modulo `COMMIT_EVERY`. (`KeeperLoop`
alone, with a limit of two spent by both and an operator, has 1 150 states and the
same results.)
*Positions.* Prices of 900, 1000 and 1301 make a rise, a fall and a blend that
does not divide; three marks are a purchase, a replayed or partial sync and an
exit, in any order with trades the position has not heard of.
*The private path.* Two cut-off runs and one late transaction let a transaction
land after the script has begun again, and again. A limit of one commit makes the
keeper, the walk of `e2e-private.ts` or both spend a delegation, so every commit
but the first of a delegation meets the limit error or the keeper's own count.
Two parts can be apart, and one redemption of both units is enough, since tickets
are paid one by one from a list. A cadence of two has turns with every duty and
turns with none. One mishap is a crash, a failed or expired login, lost keys,
somebody else at the sponsor, or a needless failure of any step, at any moment;
two of them, with one unit, were checked outside the listed runs and change
nothing (146 000 states).

### Violations

The five runs that end in a violation are disagreements between the code and its
documentation. `PROJECT.json` quotes the lines under `findings`; in short:

1. `public_vault_late`. `absorb` is sent with `.rpc()`, which may throw though
   the transaction lands later. The retry reads the book before it does, and the
   same flow is absorbed twice. `marked_in` is then above `total_in`, and
   `deposit` and `redeem` fail with `BookAheadOfVault`. Nothing lowers a mark.
2. `private_worth`. Solana divides newly committed yield among the shares it
   knows of, the enclave among all. Until the aggregate is committed, a public
   share redeems for more than a private one.
3. `position_reopen`. `init_permission` sets `is_private` without looking whether
   the permission it found is open.
4. `keeper_cut`. After a recycle cut off between undelegate and delegate, a
   deposit makes every round throw at `absorb`, before the tick counter moves, so
   the commit that would recycle is never reached, and the error is not the one
   that the catch looks for. `n` stands still, so the `STALL` line is not printed
   either: what an operator sees is `tick failed`, every round.
5. `setup_cut`. `setup-private.ts` looks once for the queue and then makes it and
   delegates it in two transactions. Cut off between them, it never delegates the
   queue: every later run skips both and waits at the crank for a queue that no
   rollup takes. `OnlyTheQueueStrands`, in `system`, says that this is the one
   place of the scripts where that happens.

Seen while modelling, without a run of their own:

- `tick` stores the host's clock in `last_ts` even when it is behind. With hosts
  whose clocks differ (`ClockLag <- MCSkewedClocks`) a second is credited twice
  and `NeverOverAccrues` fails.
- Yield is rounded down on every tick, so it depends on how often `tick` is
  called; `LossIsOnlyRounding` bounds what is lost.
- When payouts exceed the pools' principal (yield paid out of a custody topped
  up), `defund` drops the rest while `marked_out` counts it, and the price
  steps *up* at the next commit: `NavExact` holds only with `MaxTopUp = 0`.
- `authorize_session` on Solana may move an expiry back. A rotation message the
  wallet once signed is then good again: undelegate, authorise, delegate, and the
  old message is accepted, though lib.rs:773-774 says that `expiry` "only moves
  forward, which makes an old signed message worthless". The property `ExpiryForward`
  says what is left of that: nothing but an authorisation by the owner moves the
  expiry back, and between two of them no message is accepted twice.
- `init_permission` does not count the session key against the member cap,
  `set_permission` does.
- `PrivateKeeper.recycle` is "Resumable", but after the limit error `commits` is
  below the limit, so the next `commit` does not resume it: it sends
  `commit_shielded` for an aggregate that is not there and throws. `heal` looks
  at the start of the process only. And a token that has expired, or a login
  that failed without notice, makes every private duty throw. Without
  `WF(OperatorRestarts)`, `AggregateReachesSolana`, `RedemptionsPaid`, `Regated`
  and `SharesRedeemable` all fail.
- `privacy.ts` marks a position but does not call `prepare_for_rollup`, without
  which the rollup refuses to clone the accounts; the model takes an owner who
  has called it.
- What public shares were bought and sold for on Solana, no position learns:
  they are entered at the enclave's price of the sync that sees them. An owner who
  sells and buys back between two syncs is shown as having held all the time.
  `YieldIsPriceMoves` is about the shares as the position counts them.

## Fairness

Safety runs assume none. The live runs assume what the code's retries justify.

- `PublicVault!LiveSpec`: MagicBlock lands what is scheduled (`WF` on `LandCommit`);
  the keeper recycles what came back (`WF` on `DelegateBook`); reads and
  transactions are retried for ever and succeed again and again (`SF`, because a
  recycle or a loss may come between). `OneKeeper`: the loop is sequential, so
  the delegation is recycled between two rounds. A lost delegation is migrated by
  the operator, on the `STALL` report.
- `PrivateVault!LiveSpec`: the same for the aggregate, and for each owner and
  group id that a payment tried again and again lands; one that does not expires (`WF` on `DropPayment`: a blockhash lives a minute).
- `KeeperLoop!Unattended`: the process runs (`WF` on its steps), and what it keeps
  trying works now and then (`SF` on a tick, an answered commit, the two
  transactions of a recycle and its waits). `SF` on `Tick /\ pc' = "commit"` says
  that the round in which a commit falls due is not the one that always fails.
- `SystemPath!PublicFairness`: the same from when `setup.ts` is done, with an
  operator who restarts a keeper whose log shows that its rounds fail while the
  book is on Solana (`WF`). It stands before the two properties of the public
  keeper and not in `LiveSystem`, since no other property needs it.
- `SystemPath!LiveSystem`: the scripts' steps, the keeper's process, MagicBlock's
  deliveries and the depositor go on (`WF`), and late transactions land or
  expire. `WF(OperatorRestarts)`: somebody restarts a keeper whose log shows that
  its private turns fail, or whose aggregate `diagnose.ts` finds on Solana; the
  code relies on it (see above). `SF` only for what needs the aggregate in the
  enclave, which is away during a recycle: a depositor tries again. No fairness
  is asked of others' commits and payments (`CommitHere`, `PayHere`), nor of
  anything that goes wrong. Throws and mishaps are bounded, which stands for
  "not for ever".

## Proofs

What is proved holds for every value of the constants that satisfies the named
assumptions; no theorem rests on another assumption unless it says so.

| Theorem | Says |
|---|---|
| `PublicVaultProofs!TypeCorrect` | `Spec => []TypeOK`: no balance, total or mark leaves its type |
| `PublicVaultProofs!CommittedForward` | `Spec => CommittedNeverRegresses` |
| `PublicVaultProofs!FlowInvariant` | `PromptLanding => (Spec => []FlowCarriedOnce)` |
| `PublicVaultProofs!NeverAheadOfVault` | `PromptLanding => (Spec => []BookNotAhead)` |
| `PoolBookProofs!FundTotal`, `DefundTotal` | `fund` places and `defund` takes exactly what it is given, or all there is |
| `PublicPriceProofs!CoveredAtPar` | `PromptLanding => (Spec => []SharesCoveredAtPar)` |
| `PublicPriceProofs!PriceNeverFalls` | `PromptLanding => (Spec => SharePriceNeverFalls)` |
| `PublicPriceProofs!ImplementsFairVault` | `PromptLanding => (Spec => TradesFairly)`, the refinement of `FairVault` |
| `PublicPriceProofs!NavIsExact` | `PromptLanding`, no top-ups: `Spec => []NavExact` |
| `LendingBookProofs!TypeCorrect`, `DeployedCapitalIsHeld` | `Spec => []TypeOK`, `Spec => []PrincipalCoversMarks` |
| `LendingBookProofs!OnlyEarnedIsCredited` | the hosts' clocks agree: `Spec => []NeverOverAccrues` |
| `LendingBookProofs!OnlyRoundingIsLost` | the clocks agree: `Spec /\ []EarningsFit => []LossIsOnlyRounding` |
| `LendingBookProofs!LoopsMatch` | `Spec => []ClosedFormsMatchLoops` |
| `PrivateVaultProofs!TypeCorrect`, `AggregateOrdered`, `BothPricesExact` | `Spec => []TypeOK`, `Spec => []AggregateInOrder`, `Spec => []BothNavsExact` |
| `PrivateVaultProofs!EveryTicketCovered`, `EveryTicketPaidOnce` | `Spec => []TicketsCovered`, `Spec => []PaidOnce` |
| `PrivateVaultProofs!AggregateSumsPositions` | `Spec /\ []SharesFit => []SharesAreThePositions` |
| `PrivateVaultProofs!PrivatePriceKept` | `Spec /\ []SharesFit => PrivateTradesKeepThePrice` |
| `PositionProofs!TypeCorrect` | `PositionSpec => []PositionTypeOK` |
| `PositionProofs!EntryPriceInRange` | `PositionSpec => []EntryInRange` |
| `PositionProofs!ShownYieldIsPriceMoves` | `PositionSpec => []YieldIsPriceMoves` |
| `PositionProofs!FlagInStep`, `NamedSessionReads` | `ClosesFirst`, `~Reopens`: `PositionSpec => []FlagMirrorsGate`, `PositionSpec => []SessionIsTheReader` |
| `PositionProofs!SessionLifetime`, `OnlyAuthorisationsSetBack`, `ViewersStay` | `LifetimeBounded`, `ExpiryForward`, `ViewersKept` |
| `PrivatePathProofs!MadeInOrder` | `SystemSpec => []InOrder` |
| `PrivatePathProofs!PathTypeCorrect` | `SystemSpec => []PathTypeOK` |

**No flow absorbed twice.** `BookNotAhead` is not inductive: the marks move when
an absorb lands, by amounts computed from reads that are old by then. The
invariant is `FlowCarriedOnce`, four parts: the committed copy, the scheduled
commit and the live book are in order (`CopiesInOrder`, also all that
`CommittedForward` needs); the marks are behind the vault (`VaultAhead`); what the
keeper read of the vault is past and what it read of the book is still so
(`KeeperFresh`); and the one absorb under way fits on top of the marks
(`FlightFits`). `PromptLanding` enters where the keeper reads the book: nothing is
under way then. `public_vault_late` shows that it cannot be dropped.

**The public price.** A copy of the book adds to the vault's flow what its pools
hold, less what it has marked in, plus what it has marked out: its `Worth`. Yield
adds to it; an absorption leaves it as it is if the pools can give what is asked,
and adds what they cannot give, which `defund` drops and `marked_out` counts all
the same (`AbsorbedSound`). So `Worth` never falls from one copy to the next
(`WorthInOrder`), and `Value`, which is the `Worth` of Solana's copy and the
vault's own flow, is what `nav_for_pricing` computes as long as neither of its
saturating operations saturates. The addition does not because no pool holds more
than was put in (`Sound`), and the subtraction does not because `Value` is at least
the supply, which is the statement about par: the invariant `PriceInv` carries
both, since each needs the other. From it every step buys at the price
(`BuysAt`), sells at it (`SellsAt`), or gains (`Gains`), by the two roundings
(`DepositFair`, `RedeemFair`); the theorems are a case analysis on these, and for
the refinement the three are `FairVault`'s actions.

That the price is *exact* needs more: that dollars are conserved (`CashExact`), so
that what the keeper sends never asks the pools for more than they hold, and every
copy is `Backed`. This is so only if nobody tops up the custody (`MaxTopUp = 0`);
otherwise yield is paid out and `NavExact` is false (see above).

**Both private prices.** The enclave and Solana price on different copies of the
aggregate and one copy of the book. `InOrder` says that the committed aggregate,
the commit on its way and the live aggregate are earlier and later states of one
another. `BookExact` says that both copies of the book are backed, and that what
the book has marked, together with what is on its way to it, is flow of the vault
and the *committed* aggregate, hence of the live one (`Absorbable`). With `Solvent`
(no custody has paid more than it took, which is what `open_exit`'s comparison is
for) neither side's subtraction underflows and both prices are exact.

**Nothing credited that was not earned.** `NeverOverAccrues` is not inductive: it
says nothing of the seconds since `last_ts`. `Earned` counts them (`Unsettled`),
and every instruction settles them at the old principal and rate before it
changes either (`InstructionSettles`). The clocks must agree: see the first
remark above. For `PrincipalCoversMarks` the invariant `Deployed` says also that
the pools hold no more than was ever put in, so that placing more cannot saturate.

**Nothing lost but rounding.** The other side of `Earned`. `Credited` says that
what a pool was credited, and what it has earned since `last_ts`, fall short of
what it has earned in all by less than one unit for each second accrued (`Age`):
an instruction that settles loses less than one unit, and only if time has passed.
The program lets an accrued balance saturate and a yield be cut to 64 bits
(`accrue`), with no bound on the rates, so the theorem is about executions in
which what each pool earned fits (`EarningsFit`).

**The loops.** `ClosedFormsMatchLoops` compares `PoolBook`'s closed forms of
`fund`, `defund` and `marked_value` with the iterations of `PoolLoops`. That
saturation commutes with the order of the additions (`marked_value`), and that
the sum of the parts placed so far never saturates (`fund`), is what the lemmas
`FundIsLoop`, `DefundIsLoop` and `MarkedIsLoop` are about; they hold for every
principal and amount of the width.

**Sums.** `TicketsCovered`, `PaidOnce` and `SharesAreThePositions` are about sums
over all owners. `SumFunction` folds its function in an order a `CHOOSE` makes
up. The library's induction theorems take a predicate, which the provers cannot
instantiate; `SumProofs` proves induction for a *set* of numbers from the
well-foundedness of `<` (`Induction`), then that any argument can be taken out of
a fold first, and so what a change of one entry does to a sum.

**Tickets.** `TicketsCovered` and `PaidOnce` are kept together (`TicketsKept`,
with the finiteness of the set of open tickets). What is due on them is a sum: a
ticket opened adds one term (`DueOpened`), a ticket paid takes one away
(`DueSplit`). `open_exit` opens none whose group id is in use and compares with
the custody less what is due already; `settle_exit` finds its ticket by owner,
amount and group id, so a payment of a ticket that was closed, and whose id was
drawn again, either meets a ticket of the same owner and amount or pays nothing.
That a total of payments never passes a total of deposits is `Solvent`, of the
prices above. `Owners` must be finite (`OwnersAssumption`).

**Shares and positions.** Both `deposit_private`'s additions saturate, separately;
a position and the aggregate could then part. `SharesFit` says that neither is at
the limit. It is a hypothesis on executions and not a consequence of the bound on
dollars: in the enclave a share can be worth less than a dollar (see
`private_worth`), and a dollar then buys more than one share.
`PrivatePriceKept` compares products of value and supply before and after; a
redemption is part of the supply because the aggregate is the sum of positions.

**Yield and the price's moves.** `YieldIsPriceMoves` is about what the position
shows and is not inductive. The invariant carries the paper gain of the last mark,
`Shares(ledger) * (marked - entry_price)`, and says that it is `gain` but for what
blends rounded away: an entry price is rounded down by less than one, on at most
`2 * MaxShares` shares, at most once a mark. A purchase adds nothing to the paper
gain and nothing to `gain`; an exit takes the same from both; a price move adds
the same to both, at the next mark. Nothing is asked of the price's path.

**Scripts in order.** Each step makes facts no other step makes, and makes them
together (`Apart`, `Looks`, `Fresh`, checked for each of the six scripts). So a
look at one fact says whether the step's transaction ever landed: in this run, in
an earlier one, or late. The invariant says that everything a script has made, and
everything a late transaction needs, was made by a step before, for any bounds on
cuts and late transactions. The queue's look decides about two transactions, and
a run that was cut off between them passes over the second; the crank then has
everything before it all the same, because it needs the queue taken, and a
rollup takes only what was delegated (`QueueTaken`). The public keeper's steps
leave the path alone (`SystemIsThePath`). The bounds of `PathTypeOK` rest on a
conservation law of the money by place, with the parts of a send and the tickets
open, on the keeper's look before each refill, and on the limit check of each
commit.

**Flag, members and key in step.** A key authorised on Solana reaches no
permission there, so `SessionIsTheReader` needs that there is none to reach:
`AwayIsClosed` (a permission exists only in the enclave) joins the two. This is
where `ClosesFirst` is used; `~Reopens` where `init_permission` finds a permission.

**Entry price in range.** The lemma `Average` (a weighted average of two numbers,
rounded down, lies between any bounds of both) carries every blend; a weight of
nothing asks nothing of its price, which covers a position emptied and filled
again. Neither trades the position does not know of nor price moves change the
prices entered.

### Only model-checked

- Liveness: `DepositsReachTheBook`, `PrivateFlowReachesTheBook`,
  `BookReachesSolana`, `RecyclesFinish`, `OnlyTheQueueStrands`, `SendsCredited`,
  `RedemptionsPaid`, `AggregateReachesSolana`, `Regated`, `SharesRedeemable`. Outside this prover's reach.

## Not modelled

- Stateless introspection of instructions, account constraints and derived
  addresses (they say who may call; the actions take it as given), event
  emission.
- The faucet: one comparison of a stored time per user, which touches no other
  state.
- Who may read what in the enclave (the gates' lists of members, the walks' reads
  by strangers) beyond a position's permission: decided by MagicBlock's programs
  and its query filter.
- The attestation of the enclave (`assertTeeAttested`), a check before use.
- Deployment, `topup.ts` and the scripts that print or probe (`state.ts`,
  `smoke.ts`, `check-app-espl.ts`, `probe-qfs.ts`, `test-wallet.ts`).
- MagicBlock's programs (delegation, permission, the private token queue): external;
  what `src` relies on is in the actions that land commits and undelegations,
  take accounts and deliver parts and payouts.
- What the permission program does with a list beyond its cap, and what becomes
  of an ephemeral permission whose account leaves the rollup: not in this
  repository. `TakeAggregate` allows both, a gate that is kept and one that is not.

## Plan

Done, in this order: `PoolBook`, `LendingBook`, `Pricing`, `PublicVault` with
`FairVault` and its proofs; `PrivateVault`; `PositionAccess`, `PositionLedger`,
`Position` and their proofs; `KeeperLoop`; `Scripts`, `PrivateLoop`,
`PrivateClient`, `PrivatePath`, `SystemPath`.

What is left, for whoever goes on:

- The public and the private side together as one implementation of `FairVault`,
  at the price Solana computes (`PrivateVault` is proved exact, not refined).
- `SharesFit` as a bound on the prices instead of on the shares.
- Amounts in the composition of `PrivatePath`, which counts whole units: a unit's
  price is `PrivateVault`'s subject, and the product of the two is out of TLC's
  reach within minutes.
- The gates' lists of members, if the permission program's source becomes part
  of the repository.

