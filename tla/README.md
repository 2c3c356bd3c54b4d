# A formal model of fomowell_app

TLA+ specifications of the parts of this repository that carry its own logic,
the TLC configurations that check them on small instances, and TLAPS proofs of
the invariants that matter most, for every value of the constants.

`PROJECT.json` is the index: components, runs, mutants, theorems, findings,
hazards, and for each definition the source lines it stands for. Inside this
directory,

    tlc -workers 2 -config LauncherPoints.cfg MCLauncherPoints.tla
    tlapm LauncherPointsProofs.tla

run one check and one set of proofs.

## 1. The system

fomowell is a launch pad for tokens on the Internet Computer (IC). A user pays
a fee, a launcher canister has a token, a liquidity pool and a project canister
made, and follows the pool's market cap. At 5,000 USD the pool is locked and its
liquidity is shared with the chosen DAOs. Points, bought with ICP, pay for
comments and profile edits.

| part | source | state it keeps | operations |
|---|---|---|---|
| points economy | `fomowell-launcher/src/main.rs`, `user_pj.rs`, `fomowell-icpex-lib/src/ic_utils.rs` | `USER_PROFILE_MAP`, `POINT_HISTORY_MAP`, `CounterState.point_count` | `edit_user`, `topup_points`, `spending_points`, `airdrop_points`, `count_point`, upgrades |
| project creation | `main.rs` | `FOMO_PROJECT_MAP`, `CounterState.count`, `last_create_fomo` | `create_fomo`, `count`, upgrades |
| market progress | `main.rs`, `project_pj.rs` | progress, completion time, god of wells, `last_buy_sell_op` | `update_progress` (timers and any caller), `set_buy_or_sell`, `reply_update`, `lock_pool` |
| ownership transfer | `main.rs` | none of its own; its effects are at the ICP ledger and the backend | `ownership_transfer`, `add_token_controllers` |
| comments | `fomowell-project/src/main.rs`, `comment.rs` | `COMMENTS`, the project's counter, its metadata | `add_comment`, `count`, paging |
| holders | `fomowell-project/src/main.rs` | the holders' list | `update_user_holding_list`, `get_top10_holders` |
| pool canister | `fomowell-pool/src/main.rs` | a memo counter | transfers for the router |
| token client | `fomowell-icpex-lib/src/interface/itoken.rs` | cached fees and standards | transfers, approvals and queries over several token standards |
| token ledgers | `fomowell-icpex-lib/src/token/dip20.rs`, `ext.rs` | balances, allowances, supply | transfer, approve, mint, burn, holders |
| market-maker curve | `fomowell-icpex-lib/src/pmm.rs` | none | the PMM formulas |
| ICPSwap launch | `fomowell-icpswap-lib/src/launch.rs` | none | a sequence of calls that makes a pool elsewhere |
| Sonic and Kong clients | `fomowell-sonic-lib` | none | single calls |
| wallet session | `artemis-web3-adapter/src/index.js`, `wallets/*.js`, `utils/wallet/connect.ts`, `store/app.ts` | the adapter's principal and wallet, its cache of actors, the store, the local storage | `requestConnect`, `verifyConnectionAndAgent`, `disconnect`, `getCanisterActor`, registering and saving a profile |
| batches | `artemis-web3-adapter/src/libs/batchTransact.js` | the array of steps, their states and results | `execute`, `retryExecute` |
| trading | `pages/ICPInfo/ICPInfo.tsx` | the form, the lock of its button, the interval of each trade | `btnPlaceTrade`, `getswapTokenToToken`, `search_fomosReq` |
| paying the launcher | `pages/SetCoin/SetCoin.tsx`, `layout/home/buyToken/index.tsx`, `ICPInfo.tsx` | the parameters of a new project, three buttons, one allowance | `btnFomo`, `btnBuyToken`, `btnremoveownership` |
| board | `pages/Home/Home.tsx` | list, pager, selects, god of wells, details of the rows | `searchFomos`, `pagChange`, `updateFomoUserNames`, polls |
| project page | `ICPInfo.tsx` | the project shown and what eight readings say of it, comments, quotes, dialogs of cycles and steps | `search_fomosReq`, `getCommentsByIndex`, `switchIcp`, `BtnPostreply`, `btnBuyamount` |
| header and user page | `layout/home/header.tsx`, `sendICP`, `pages/User` | the last trade and creation, the profile being edited, the coins of a user, two dialogs that send | polls, `editUserInfo`, `GertSearch_fomos`, `btnseticp` |

Frontend paths are under `fomowell-frontend/src` (or `fomowell-frontend`).

How they interact:

- The launcher calls the ICP ledger (balance, allowance, `icrc2_transfer_from`),
  the oracle (prices, market caps), the backend (token, pool, removal of
  controllers), the management canister (create and install the project
  canister), the router (share and lock liquidity) and the swap index. Each is
  an `await`: the state is committed and other messages run before the answer.
- A project canister calls the launcher twice for each comment:
  `spending_points` takes 6 points, `reply_update` counts the reply. Each of the
  two keeps a record of its own of what happened.
- `edit_user` calls `spending_points` of its own canister, a message like any
  other.
- The frontend approves ICP, then calls `create_fomo`, `topup_points` or
  `ownership_transfer`; all three are charged from one allowance of the user to the
  launcher. After a swap it reports the trade with `set_buy_or_sell`.
- In the browser, components share the store (`store/app.ts`) and the wallet
  adapter; everything else is state of one component, read by closures of the
  render in which a handler was created.
- The backend, router, oracle, swap index and ICP ledger are not in this
  repository. They are modelled by what the code here needs from them, and the
  map marks what is external.

### What is hard in this code

- **Awaits.** A handler is a sequence of segments; everything read before an
  await may be stale after it. `create_fomo` has eleven awaits, `topup_points`
  and `ownership_transfer` four or more, `update_progress` one per project and
  then up to three per project it locks.
- **Panics.** A panic drops the segment it happens in and keeps what earlier
  segments committed, here and in other canisters: fees are paid, points taken
  and indices used by calls that then end.
- **Two records of one fact.** Reply counts, points against history, completion
  against locks, the ledger's charges against credits.
- **Overlap.** `update_progress` is started by timers every 60 and 90 seconds and
  by any caller; nothing excludes a second run.
- **Upgrades.** Maps and counters are saved and inserted again; a counter that
  falls behind makes later inserts overwrite earlier entries.
- **Retries.** A batch is retried by what its callbacks recorded, not by what
  took effect.
- **Answers in the browser.** No request is cancelled and none carries a number:
  whatever is answered last is shown, for whichever project, user, page or
  amount it was asked. Intervals and timers outlive the run that set them.
- **Closures.** A handler or effect sees the state of the render it was created in.
  A value spread into a new state brings back what it was then.

## 2. The modules

Each handler is split at its awaits. A slot of a call (`topup[c]`, `create[c]`,
`call[c]`, `run[r]`, `trade[c]`) holds the program counter and the locals that
survive the await; one action is one segment, with everything it changes. Where
another canister commits before its answer is processed here, the effect and
the answer are two actions (`LedgerCharges` then `TopupCredited`), so that the
handlers of other calls run between them. A definition whose comment begins
with "Faulty:" is a plausible bug, used only to see that a property notices it.

### LauncherPoints (LauncherPointsProofs, FiniteSums) and PointsAccount

`FiniteSums` holds what the proofs need to know of sums over finite sets.

The points economy of the launcher. `profile`, `history`, `point_count` are
`USER_PROFILE_MAP`, `POINT_HISTORY_MAP` and `CounterState.point_count`; a profile
has `points` (`None` until the account is opened), `pre` (pre_reward_points) and
`spent`. `balance`, `allowance`, `charges` are the ICP ledger.

| code | actions |
|---|---|
| `edit_user` | `EditForFree` (one segment), `EditForFreeWithImage`, `EditExisting`; `SpendForEdit` or `EditRefused` (the self-call of `spending_points`), `EditPaid`, `EditPaidWithImage`, `UploadDone`, `UploadFails` |
| `topup_points`, `get_icp_platform_fee` | `Topup` (registers a new user), `ReadBalance`, `ReadAllowance`, `QuoteAccepted`, `QuoteRefused`, `QuoteFails`, `LedgerCharges`, `LedgerRefuses`, `TopupCredited`, `TopupRefused` |
| `spending_points`, `airdrop_points`, `count_point` | `ProjectSpends`, `AirdropPoints`, `CountPoint` |
| the last segment of `create_fomo` | `RewardCreator` |
| `pre_upgrade`, `post_upgrade` | `Upgrade` |

`InitPoints`, `AddPoints`, `CanDeduct` and `DeductPoints` are `init_points`,
`add_points` and `deduct_points` on one profile. Amounts and fees are the numbers of
the code, in e8s. `LauncherFee`, which three modules share, is what
`get_icp_platform_fee` makes of a fee: it accepts any allowance from 1% below, charges
by the allowance found up to 1% above, and leaves the ledger's own 10,000 out of it.

`PointsAccount` is what this promises without calls, ledgers or history: a user
is registered, opens an account once, and spends only what the account holds.
`LauncherPoints` implements it (`ImplementsAccounts`); the mapping counts the
welcome points as the account's own and the reward field as earned.

Properties: the books agree (`BooksAgree`: balance and spent against the
history's entries), every ICP charge is credited exactly once or its answer is
on its way (`PaidIsCredited`), every 8-point deduction pays for exactly one edit
(`EditsAccounted`), the history is append-only across upgrades (`HistoryKept`),
a segment after an await finds what it relied on before it (`CallsConsistent`).

### LauncherProgress (LauncherCallsProofs)

How the launcher follows the market: `fomos` (market cap, progress, whether
`pool_progress_done_time` is set, god of wells, replies, DAO choice), `god`
(`god_of_wells_idx`), `lastSwap` (the time in `last_buy_sell_op`); `moved` and
`locked` are what the router did.

| code | actions |
|---|---|
| `update_progress` | `UpdateNothing`, `StartUpdate` (the snapshot), `OracleAnswers`, `OracleAnswersLast` (records read again and written, the list of pools to lock made), `RouterTransfers`, `RouterLocks`, `RouterErrs`, `RouterRejects` |
| `set_buy_or_sell` | `SetBuyOrSell`, `SwapAccepted`, `WriteTrade`, `TradeFails` |
| `create_fomo` (insert), `reply_update`, `lock_pool` | `NewFomo`, `ReplyUpdate`, `LockPool` |

Properties: each DAO is sent its share at most once, by overlapping runs too
(`ShareSentOnce`); no run loses a reply (`RepliesCounted`); the progress shown is the one of the market
cap shown (`ProgressFollowsCap`); completed projects are locked in the end
(`CompletedIsLocked`). That a report of a swap keeps a completion (`TradesKeepCompletion`) does not hold,
see section 5.

### FomoCreation (FomoCreationProofs)

`create_fomo` from the first check to the registration. `fomos`, `count` and
`last_create` are `FOMO_PROJECT_MAP`, `CounterState.count` and
`last_create_fomo`; `made` and `code` are the tokens, pools and canisters that
exist and the index each project canister was installed with. One action per
await: `CreateFomo`, `QuoteAccepted` or `PaymentRefused`, `LedgerCharges`,
`TakeIndex`, `TokenCreated`, `RouterApproved`, `PoolCreated`, `CanisterCreated`,
`ImageUploaded`, `StatusRead`, `CodeInstalled`, `FomoRegistered`; `CreateFails` is
a panic after the payment. `Count` is a foreign call of the public `count`, `Upgrade` saves and
restores.

Properties: an index has one owner and the counter is ahead of all of them
(`IndexOwned`), a project is never overwritten (`ProjectsKept`), token, pool and
canister belong to one project and the canister reports under its project's
index (`ResourcesOwned`), every fee is accounted for (`FeesAccounted`), whoever
paid gets the project unless a call failed (`PaidIsCreated`).

### FomoComments (FomoCommentsProofs)

`add_comment` across two canisters: `comments` and `count` at the project,
`points`, `spent`, `replies` at the launcher. `AddComment` takes the index,
`SpendingPoints` is the launcher's segment, `PointsTaken`, `UploadDone`,
`ReplyUpdate`, `StoreComment` follow; `ReturnRefusal` returns the launcher's
refusal, `CommentLost` is a failing upload or reply. `registered` is false at
first: the project canister runs from `install_code` on, one await before the
launcher knows it. `ReportTrade`, `TradeReported` and `ReportFails` are
`set_buy_or_sell`, as far as it touches the replies: it reads the count before its awaits
and writes it back after them. `exposed` counts the replies counted meanwhile.

Properties: points are taken once per comment (`CommentsPaid`), the launcher counts no
more replies than were answered and lacks none of them but those counted while a trade
was being reported (`RepliesAgree`), indices are
distinct (`IndexOwned`), stored comments stay (`CommentsKept`), and what was paid
is stored in the end (`PaidIsStored`).

### OwnershipTransfer (LauncherCallsProofs, FiniteSums, LauncherFee)

`ownership_transfer`: the controllers of a token are removed BEFORE the fee is
collected. Balance and allowance are read by two awaits (`ReadBalance`, `ReadAllowance`)
and the price by a third; amounts are e8s. The quote does not leave the ledger's own fee,
so `LedgerRefuses` can happen with no race at all: an allowance at the lower end of the
band passes the quote and pays nothing. `outspent` records the calls whose user's funds fell
below what they had read. `QuoteHolds`: a call past its quote finds the fee it was quoted,
and the ledger's on top of it if what it read covered both, unless such a race took
it. `RemovalsAccounted`: a removal is paid, about to be, or unpaid, and nobody
pays for one that was not done.

### WalletAdapter: WalletSession and BatchTransact (WalletProofs)

`WalletSession` is the session of a user. A task is one chain of awaits
(connecting, restoring, disconnecting, reading, registering or saving a profile)
with the values it captured. `adapter`, `store`, `storage`, `identity` and `authed`
are the places that say who is connected; `actors` is the adapter's cache, `signed`
the latest call made, with the user shown when it was signed. `SessionAgrees`: the
places agree. `SignerKnown`: a call is signed by the user shown unless several
connected since the page was loaded. `ChainsSettle`: no chain hangs but in the
wallet's own window.

`BatchTransact` is `BatchTransaction` on the path of the wallets that make one call
at a time: `execute`, `retryExecute`, the outcome of each call (done, refused,
rejected, answer not seen) and the end of the loops. `WithSuccess` and `WithFail` are the
steps that were given an `onSuccess` or an `onFail`; any may lack either, or have one that
throws. `ExecutedOnce`: no step that marks its success takes effect again after it was
seen to be done, and one that does not, once for each retry. `DoneMeansAll`,
`SuccessReported`: what the batch says is what happened, but for an error because a step
that was carried out has no `onSuccess`.

### TradeFlow (WalletProofs)

A trade from the click to the report: approve, quote once more, swap, ask for the
status every second. The form (`form`) and what the page shows (`screen`) are two
states; each trade keeps the form of its closure. The ledger's allowance is part of
the state because a second trade's `icrc2_approve` replaces it. The approval is a batch of
one step, which may also end without calling back (`ApproveSilent`: no provider when the
batch was made, or no actor): the button then loads for good, which `ButtonFreed` names.

### PaidFlows (PaidFlowsProofs, LauncherFee)

Creating, topping up and giving ownership away, each an approval sized by the
browser's price times 1.3 and a charge by the launcher's. The flows are told apart
by their `kind`; `allowance` is what they share, with whose approval it was. The charge is
the one of `LauncherFee` with the ledger's fee on top, which an approval has to cover out
of its margin. So the margin is not the 30% it is meant to be: at 10 USD per ICP
78,000,000 e8s are approved for a project, which are refused when the launcher's price is
28.7% above the browser's. `MarginSuffices` states a quarter, which holds for every price
that puts an ICP below 373 USD. `ApproveSilent` is as for a trade; `ProfileRead` is the reading of the
profile inside the `try` of a top-up, whose rejection frees the button once more.

### FrontendPages (FrontendPagesProofs)

Fourteen parts that show what was asked. They share no state of their own, so one
behaviour exercises one part (`part`) while the others stay as first rendered; the
run checks all of them.

| module | models | property |
|---|---|---|
| `HomeList` | sorting, searching and paging of the board | `ListAgrees`: once all is answered the list is what the controls say; `SkeletonEnds` |
| `CommentList`, `CommentPost` | the comments of a project read while scrolling, and posting one with a picture | `CommentsAgree` |
| `QuoteBox` | the amount a trade would bring | `QuoteAgrees` |
| `SendIcp`, `SendToken`, `AddCycles`, `ProfileEdit` | the dialogs that send, each with several clicks under way up to the balance read after the transfer, and the one that edits the profile | `DialogsAgree`: what is sent or saved is what was shown, covered as far as the dialog knew, and one at a time until such a balance was rejected |
| `StepDialogs` | the two circles of a trade, a creation and a top-up, with their timers and the profile read after a top-up | `StepsAgree` |
| `ContextFeed` | the last trade and creation, read by header and board | `FeedsAgree`, with the next three |
| `BoardCards` | the god of wells, and names (kept by user), replies and cycles of the rows | |
| `UserPage` | the coins a user made, read while scrolling | |
| `ProjectPage` | the lookup of a project and the readings it starts: cycles, pool, owners, balances | |

Each property has the form "what is shown is what was asked for, unless ...", and
each "unless" is one of the races of section 5 under its own flag (`met`, `late`,
`overlap`, `moved`, `lost`, ...). The flags are set at the moment the race happens,
so that the property says that nothing else makes the page wrong.

## 3. The runs

| run | bounds | distinct states | what it shows |
|---|---|---|---|
| `points` | 1 user, 2 top-ups and 2 edits in flight, 5 requests, 1 upgrade | 3,469,000 | the books agree, every charge is credited once and every deduction is one edit, whatever interleaves; every step is a step of the abstract accounts |
| `progress_runs` | 2 projects, 2 runs, 1 reply each, 1 failing router call | 823,000 | no share is sent twice and no reply lost by overlapping runs |
| `progress_trades` | 2 projects, 1 run, 1 trade, every choice of DAOs | 160,000 | progress follows the market cap; completed projects are locked |
| `progress_stale` | violation | | section 5 |
| `creation` | 2 users, 2 creations in flight, 1 foreign count, 1 failure, 1 upgrade | 53,000 | indices, tokens, pools and canisters have one owner; fees are accounted for; paid creations end in a project |
| `comments` | 2 users, 3 comments of which 2 in flight, 1 foreign count, 1 trade reported, 2 grants, 1 failure | 754,000 | paid once, counted once but for the trade, never overwritten, stored in the end |
| `ownership` | 2 developers, 3 tokens, 3 calls of which 2 in flight, 2 prices, 2 amounts, 1 act of a user at the ledger, 1 failure | 3,209,000 | nobody pays for a removal that was not done; unpaid ones come from a race for the funds, a failing call or a quote that left less than the ledger's fee |
| `adapter` | 2 principals, 2 wallets, 1 canister, 3 clicks in 2 chains, 1 disconnect, 1 reload; 3 dependent steps, the last without `onSuccess`, 2 executes, 3 retries, 2 lost answers | 495,000 | the session agrees with itself, chains settle, a retry repeats nothing that was marked as done |
| `adapter_readme` | violation | | section 5 |
| `trade` | 2 projects, 2 trades, 2 edits, 2 status requests each, 1 failure, 1 closing | 524,000 | what is traded, reported and approved is what the page showed, but for the named races |
| `payments` | 2 flows of 3 kinds, 3 prices, 2 edits, 1 failure, 1 closing | 1,115,000 | each flow is charged from its own approval and prices a quarter apart are covered, but for the named races; buttons are freed unless an approval never answers |
| `pages` | 2 of everything (sorts, projects, comments, quotes, accounts, sends, runs, users of three rows), 3 readings, 1 rejected call in each part | 1,192,000 | the fourteen parts show what was asked; the skeleton ends |

Why the bounds are enough to make the interesting cases happen:

- **Two calls in flight.** Every race here is between a call and what others
  commit during its awaits; a third call adds no new pair. The theorems on
  indices, calls and funds hold for any number.
- **Five requests** register a user, start both top-ups (or both edits) and leave
  two for a grant, a charge or a foreign `count_point`: enough to open an account of
  20 points, to charge it the 6 of a comment and to have two edits of 8 ask for the
  14 that are left, so that the second is refused.
- **Amounts.** A top-up of 9 points is below the minimum, 10 is at it. At 10 USD
  per ICP the quote is 10,010,000 e8s, so the allowance 9,909,899 is just below
  the lower margin, 9,915,000 passes the quote but does not cover the ledger's own
  fee, and 13,000,000 is the 1.3 times the frontend approves. The balance covers
  one charge, not two.
- **Market caps** are none (an oracle error), half, all and more than all of the
  5,000 USD: progress 0, 5000, 10000 and one to cut off.
- **One failure, one upgrade** at every place they may strike.
- **Three clicks** connect somebody, let another connect while the first still waits,
  and leave one to disconnect or to click again after the reload; the cache of actors
  is kept for each canister by itself, so **one canister** has all its cases.
- **Three steps** make a batch whose middle step both gets and gives arguments.
- **Prices** of a tenth of a dollar are 1,000,000, 1,250,000 and 1,286,885 e8s: the second
  is a quarter above the first, the most that always suffices; the third is 28.7% above
  it, inside the 30% of the pages and yet refused for a creation.
- **Amounts of `ownership`**: 19,815,000 e8s pass the quote at the higher price and cannot
  pay the ledger's fee; 41,000,000 cover two charges.
- **Two projects, users, pages or amounts** suffice for a late answer to be for the
  wrong one; **three readings** or rows for a chain to overtake another and leave
  something of each. The two pages of comments differ in whether they are full.
- **One rejected call** in each part strikes at every place in turn.

`CHECK_DEADLOCK FALSE` stands where the bounds on requests end the behaviour and
where a user simply stops; the `LauncherProgress` runs check deadlock. Slots
are interchangeable, so `points`, `progress_runs` and `ownership` use symmetry;
the runs with liveness do not.

## 4. Fairness

Liveness is checked under weak fairness of each call's own progress (`LiveSpec`):
the IC delivers every message and every answer (a reject is an answer), in some
order. Nothing is assumed of users, timers, owners or upgrades. A call that
fails is a fair outcome too, so the liveness properties count it: a paid
creation ends as a project or as one that a failing call ended; a paid comment is
stored or lost to one. `CompletedIsLocked` is checked with a router that does not
fail: what happens when it does is in section 5.

In the browser the same is assumed of answers, intervals and timers, never of the
user: a wallet's window may stay open for ever, which is why `ChainsSettle` counts it
as settled, and a box may never be closed. A status request of a swap is answered,
and the router settles a swap it accepted in the end (`LiveTradeSpec` of `TradeFlow`).
`SkeletonEnds` needs only that a search of the board is answered or rejected.

An upgrade is enabled when no call is in flight: the canister is stopped first,
which waits for open calls. (An upgrade of a running canister would lose its
calls; that is the deployment's business, not this code's.)

## 5. Where the code and its own words disagree

- **`progress_stale`** (`main.rs:372`). `set_buy_or_sell` reads the project, awaits
  the swap's status, the pool, the price and the supply, and writes the whole
  record back. A run of `update_progress` that completes the project in between
  has its `pool_progress_done_time` overwritten with `None`, although the comment
  at `main.rs:351` says the function does not change it. The next run completes
  the project again and sends the DAOs their shares a second time.

- **`adapter_readme`** (`batchTransact.js:44`). `onSuccess` calls the step's own
  `onSuccess` before it records anything. The batch of
  `artemis-web3-adapter/README.md:69-82` has a last step with no callbacks: it is carried
  out, the missing function throws, and the batch ends in `error` although every call
  succeeded.

The launcher and the batches have more disagreements, which the models
contain and which have no run of their own:

- The quote of the launcher accepts what the ledger then refuses: neither the allowance
  nor the balance is asked to cover the ledger's own 10,000 (`main.rs:1240-1262`,
  `itoken.rs:748`). For `ownership_transfer` the controllers are gone by then.
- A reply counted while `set_buy_or_sell` reports a trade is uncounted again
  (`main.rs:235`, `:378`).

- The check that refuses an older swap ("invalid swap_timestamp!", `main.rs:256`)
  precedes three awaits and is not repeated at the write (`main.rs:297`): of two
  calls in flight the older swap may be written last.
- The completion is committed with the first router call; the list of pools to lock
  lives in a local. A rejected `transferLiquidity` (`main.rs:489`) panics and the list
  is gone: the project is complete, its pool never locked, and no later run looks at
  it again. The comment at `main.rs:352` promises both at once.
- The callbacks of a batch's step find it by the place it had before a retry took
  finished steps out of the array (`batchTransact.js:43`, `:79`): the success of a
  second step in a group is never recorded and the next retry makes the call again.
  The frontend of this repository makes batches of single steps and never calls
  `retryExecute`.

The passing runs are stated around these: `ShareSentOnce` and `RepliesCounted` are
checked where no trade is in flight, `CompletedIsLocked` where the router does not
fail, `ExecutedOnce` for groups of one step; `QuoteHolds`, `RepliesAgree` and
`SuccessReported` name the case.

In the browser nothing is promised in words, so there is nothing to contradict; the
models contain what the code does, and the properties name it as their exceptions.

Session (`WalletSession`):

- `getCanisterActor` keeps the actors of an earlier connection
  (`artemis-web3-adapter/src/index.js:100`): after somebody else connected, calls are
  signed by the earlier user, and the default registration of a new profile
  (`header.tsx:418`) overwrites that user's name.
- A wallet that is not detected leaves the adapter's principal as it was: a restore
  with it ends as whoever connected meanwhile (a second restore included, if its
  registration is answered by then), or shows the remembered account with nobody
  connected, so that a page may show a user and have no provider. Restoring somebody who never registered throws; restoring sets `accountId` to the principal
  that was remembered; a balance answered late is the earlier user's.
- The timer of `requestConnect`'s race resolves nothing that is awaited, and a login
  window that is closed leaves the connection pending.

Trading and paying (`TradeFlow`, `PaidFlows`, `StepDialogs`):

- `execute()` of an approval answers nobody when there was no provider or its actor cannot
  be had (`batchTransact.js:12`, `:87`, `:120`, `:150`): the buttons of a trade, a creation
  and a top-up then load for good.
- The lock of the button is `openRightBox`, which closing the box opens. A late answer
  puts an earlier form back. A rejected quote leaves the button loading; a rejected
  `set_buy_or_sell` leaves the steps open. Overlapping status requests report a trade
  twice. Timers of 800 ms reset the steps of the next run. After a top-up that succeeded a profile that cannot be
  read is reported as a failed top-up, with a second timer.
- The margin of 30% is a quarter (section 2). The top-up approves ten times its price; `BigInt("10.5")` throws after the approval;
  without a user the button stays. Giving ownership away goes on after a failed
  approval. Clicks while `btnFomo` waits for a user start several intervals. The load
  of a picture reverts the lock.

Pages:

- Board: the selects are rendered once, with the handlers of the first render; a
  search made on page n keeps its start; paging that changes no parameter, and a
  rejected search, leave the skeleton. Late answers overwrite later ones; a chain of
  an earlier list takes the names of the rows; unreadable cycles are shown as a low
  battery; names are kept by user, so a name that cannot be read for one row is taken from the
  others of that user; the card of the god of wells may mix two projects.
- Project: an answer that comes after the address changed shows the earlier project
  under the new address, adds its icons of ownership, or locks the tab for selling,
  which only an accepted trade of the user opens again. Only the first canister low on
  cycles is marked. Comments are not reset between projects, a page that was not full
  leaves a gap, an empty one ends the reading, a rejected one leaves `loading`. The
  answer to a read made after posting ends the loading of a page that is still on its
  way, so the next scroll asks for that page again: both answers turn the page, and the
  one after is never read. A double click during the upload posts and pays twice; a reference equal to the last
  drops the comment. A rejected quote leaves the spinner.
- Dialogs: a balance that cannot be read after a transfer reports it as failed and frees the
  button while another may be on its way; 10 T of cycles are shown as 1 by "Max" and 10 are
  withdrawn. The one that sends ICP checks the balance of its first opening; neither of
  the two counts the fee; the recipient of an earlier opening stays though its field
  is empty; an answer closes a later opening; fee and decimals may be another token's.
  Blanks in the field of cycles leave the previous amount. A picture read in the
  background reverts a name typed meanwhile; a discarded picture is uploaded by a
  later save; after a disconnect the save throws.
- Feeds: polls are never cleared and overlap; an own trade is announced twice; the page
  of a user without coins never finds later ones; a missing profile leaves it loading.

## 6. What is proved

TLAPS proves these for every value of the constants that the assumptions named in the
modules allow: numbers are natural, `None` is no user, prices are positive, a token has
one developer, the tokens registered are finitely many, an empty field and the default
are among the values a form may hold, and there is a page, a comment or a project to
show. Some theorems have a hypothesis of their own:

- For the shares and the replies of `LauncherProgress` no swap is reported (`NoTrades`),
  because `set_buy_or_sell` may write an older record back (section 5), after which
  neither statement holds.
- For the batches every step gives the next its arguments (`Chain`: groups of one step,
  the only ones the frontend makes): without it a retry may repeat a step (section 5). Any
  of the steps may lack its callbacks.

| theorem | says | argument |
|---|---|---|
| `LauncherPointsProofs!TypeCorrect` | `TypeOK` always, including that no history index is ahead of `point_count` | the inductive invariant is `TypeOK /\ CallsConsistent` |
| `LauncherPointsProofs!CallsAlwaysConsistent` | a segment after an await finds its user registered and, after a deduction, the account opened; an account never falls below its welcome points in total | the same invariant |
| `LauncherPointsProofs!HistoryIsKept` | no step changes or removes a history entry | a new entry goes to `point_count + 1`, past every index in use |
| `LauncherPointsProofs!PaidIsAlwaysCredited` | an ICP charge is a credited top-up or one whose answer is on its way | that invariant and `Credits` of every user |
| `LauncherPointsProofs!EditsAlwaysAccounted` | an 8-point deduction is one edit, applied, abandoned or in flight | that invariant, `UploadsImages` and `Payments` of every user |
| `LauncherPointsProofs!LauncherImplementsAccounts` | the launcher implements `PointsAccount` | that invariant and `AmountsAsked`; every step maps to `Register`, `Earn`, `Spend` or a stutter |
| `LauncherPointsProofs!AccountsAlwaysSolvent` | no account is overdrawn, and an unopened one has spent nothing | the invariant of the refinement: an account never falls below its welcome points in total |
| `LauncherPointsProofs!BooksAlwaysAgree` | what a profile holds and has spent is the sum of its history | the invariant of the refinement and `Totals` of every user (`TInv`) |
| `LauncherCallsProofs!SharesAlwaysSentOnce` | without reported swaps no DAO is sent its share twice, however many runs overlap | `Shapes /\ HeldOnce /\ SentOnce` |
| `LauncherCallsProofs!RepliesAlwaysCounted` | without reported swaps no reply is lost to a run | the same and `RepliesKnown` |
| `LauncherCallsProofs!ProgressAlwaysFollowsCap` | a project shows the progress of the market cap it shows, whichever runs and reported swaps interleave | the types, that a run's maps are about projects there are, and that a report in flight is about one (`CapInv`) |
| `FomoCreationProofs!IndexAlwaysOwned` | one owner per index, none ahead of the counter | `CallsTyped /\ IndexOwned` |
| `FomoCreationProofs!ProjectsAreKept` | a registered project is never overwritten | the call that registers holds an index no project has |
| `FomoCreationProofs!ResourcesAlwaysOwned` | token, pool and canister have one owner; a canister has its project's index | `IndexOwned` and `Owned` of each kind, `CodeOwned` (`RInv`) |
| `FomoCreationProofs!FeesAlwaysAccounted` | fees charged are projects, abandoned creations and those in flight; one reward per project | `IndexOwned`, the types and `Books` of every user (`FInv`) |
| `FomoCommentsProofs!IndexAlwaysOwned` | one owner per comment index | `CallsTyped /\ IndexOwned` |
| `FomoCommentsProofs!CommentsAreKept` | a stored comment is never overwritten | as for projects |
| `FomoCommentsProofs!CommentsAlwaysPaid` | 6 points spent are one comment: stored, in flight, or lost to a failing call | `IndexOwned`, the types and `Paid` of every user (`PInv`) |
| `FomoCommentsProofs!RepliesAlwaysAgree` | the launcher counts no reply that was not answered, and lacks only those counted while a trade was reported, however many reports overlap | the same and `Replied`, which also bounds what each report still has to write back |
| `LauncherCallsProofs!QuoteAlwaysHolds` | a transfer past its quote finds what it was quoted, and the ledger's fee if what it read covered it, unless a race took it | `CallsTyped /\ ReadHolds` |
| `LauncherCallsProofs!RemovalsAlwaysAccounted` | a developer's removals, all tokens summed, are paid, unpaid or about to be charged | the types and `Balanced` of every user (`RInv`) |
| `PaidFlowsProofs!LockAlwaysAgrees` | a project is created with the lock its form showed, unless a picture brought an earlier one back | the types, `FormAgrees` and `Locked` of every flow (`PInv`) |
| `PaidFlowsProofs!AlwaysChargedFromOwn` | a flow that ran alone and approved is charged from its own approval | the same with `Met`, `Untouched` |
| `PaidFlowsProofs!MarginAlwaysSuffices` | such a flow is refused only when the prices are more than a quarter apart | the same, and the arithmetic of 1.3 against the launcher's percent and the ledger's fees (`Band`) |
| `WalletProofs!SessionAlwaysAgrees` | adapter, agent, store and storage agree on who is connected | `Session /\ Signing /\ Chains /\ Rest` (`WInv`) |
| `WalletProofs!SignerAlwaysKnown` | a call is signed by somebody connected since the page was loaded, by the user shown unless several were | the same |
| `WalletProofs!DoneAlwaysMeansAll` | a batch that is done made every call and holds every result; no call is made before its arguments are set | the types, `Places` and `Given` (`BatchInv`) |
| `WalletProofs!ExecutedAlwaysOnce` | each execute makes a call once, and once more only for an answer not seen, or for each retry where no `onSuccess` marks it | `BatchInv` and `Once` |
| `WalletProofs!SuccessAlwaysReported` | a batch whose calls all succeeded reports an error only for a step carried out without an `onSuccess` | the same |
| `WalletProofs!TradesAsShown` | the next trade is for what the page shows, unless a late answer put an earlier form back | the types, `FormKept` (`TradeInv`) |
| `WalletProofs!ReportsAlwaysAgree` | only a swap that succeeded is reported, and no oftener than its status was asked at once | the types and what is known of every trade (`AllFine`) |
| `WalletProofs!ShortAlwaysExplained` | a swap finds too little approved only when the button was freed under it | the same and `LockKept` |
| `FrontendPagesProofs!BoardListsWhatWasAsked` | the board lists what its controls say once all is answered, with the exceptions of `ListAgrees` | the request sent last asks what the controls say or is one of the exceptions (`HomeFits`) |
| `FrontendPagesProofs!QuotesAsAsked` | the amount shown is that of the form, with the exceptions of `QuoteAgrees` | the quote asked last is the form's or is marked, and a spinner has a quote to stop it or a rejected one (`QuoteInv`) |
| `FrontendPagesProofs!CommentsAlwaysAgree` | the comments shown are the project's and leave no gap; a post goes as it was written | until another project is opened all is about the first, and a page is asked for when all before it is there (`LstInv`); uploads are of pictures (`PostInv`) |
| `FrontendPagesProofs!DialogsAlwaysAgree` | the four dialogs send and save what they show, with the exceptions of `DialogsAgree`, and send once at a time until a balance read afterwards is rejected | one invariant for each dialog (`IcpInv`, `TokInv`, `CycInv`, `ProfInv`) |
| `FrontendPagesProofs!StepsAlwaysAgree` | a run shows its own steps, and the dialog is reset after the last unless one was never answered or a rejection is caught nowhere | every flag set has a run or a timer that will reset it, and a run that is alone has the flags of its state (`StInv`) |
| `FrontendPagesProofs!FeedsAlwaysAgree` | header, board and pages show what was read, and blanks where the last reading failed, with the exceptions of the four parts | one for each part (`CtxInv`, `GodInv`, `RowInv`, `CoinInv`, `PgInv`) |

Why the strengthenings are needed:

- `TypeOK` of `LauncherPoints` is not inductive alone. `TopupCredited` and
  `FinishEdit` apply a profile operation after an await: that the user is then
  registered, and that a paid edit's account is open, is a fact about the calls in
  flight and must be carried along (`CallsConsistent`). Numbers stay natural
  because `CanDeduct` is evaluated in the segment that deducts.
- `IndexOwned` speaks of calls that hold an index. The steps before and after
  those need the types of the slots and that an idle slot holds none.
- The accounts (`PaidIsCredited`, `EditsAccounted`, `FeesAccounted`) count sets. That a
  set grows by one when an element is added needs that it was finite and did not hold
  the element: `Credits`, `Payments` and `Books` carry the first, and the second is
  that an index comes from the counter and a slot was in another state. What
  `EditsAccounted` needs besides is that an upload is an image's (`UploadsImages`), for
  an edit without values would change nothing.
- `ResourcesOwned` speaks of registered projects. A project takes over what its call
  held, so the same must be known of every call in flight, and that what is made next
  is nobody's yet (`Owned`, `CodeOwned`).
- `ShareSentOnce` counts what the router did. That two overlapping runs never send the
  same share is because only the run that set the completion time has the project in
  its list (`HeldOnce`), which a later run reads as complete; `SentOnce` ties the
  place in the list of DAOs to what was sent.
- For `ImplementsAccounts` a step that credits must grant an allowed amount, and what a
  top-up credits was asked for several awaits earlier (`AmountsAsked`). That an unopened
  account has spent nothing (`CallsConsistent`) makes the opening a grant and no more.
- `BooksAgree` and `RemovalsAccounted` are about sums. `MapThenSumSet` adds the elements
  in the order of `CHOOSE`; that the sum of a set with one element more is larger by that
  element (`SumAdd`), and of one changed element by the change (`SumChanged`), needs that the order
  does not matter. An induction over the size of the set would take an operator as a
  parameter; instead a smallest set for which the statement failed is taken
  (`SmallestSet`, from the well-foundedness of inclusion), and shown not to exist.
- `ProgressFollowsCap` is inductive once it is known that a run asks about, and a report
  writes, a project that is registered. Where two records meet, each handler computes
  progress from the cap it writes in the same segment, so an older record is written back
  whole.
- `PInv` relates two flows: `Met` says that of two flows under way neither is `alone`, so
  that the allowance of a lone flow is the one it approved (`Untouched`). `LockAgrees` is about the record of
  a flow; `FormAgrees` carries it back to the form, where a click takes it from.
- `SessionAgrees` needs who may be logged in with what: only a detected wallet keeps
  anybody, a chain waits only for one, the storage names a principal and a wallet or
  neither, and a restore captured both. The first version of `RestoreReads` let a wallet that
  is not detected log somebody in; the invariant was not inductive there, and
  the model was corrected by what `verifyConnectionAndAgent` does.
- A batch's loops visit an array from which retries took steps. `FlattenSeq` is the last
  value of a recursive function of which nothing can be proved by induction here;
  `FlattensOne` compares any two functions that satisfy its equations, at the smallest
  place where they differ, `FlattenIs` makes one of them `FlattenSeq`, and `CutQueue` gives the loops' order: the steps after
  the first k. `Places` then says that a running batch has done exactly the k before,
  `Given` that a step has its arguments when the step before is done.
- `ExecutedOnce` compares calls with executes. `Once` adds what is still `Left` of the
  latest execute: one call of each step that is not done.
- `ShortExplained` compares an allowance with a swap several awaits later. While nothing
  has freed the button (`Plain`) there is one trade at a time and what it approved is
  there until its swap is settled (`OneAtATime`); the exceptions are where `Plain` ends.
- The parts of the pages say "unless" by flags, so their invariants say what an answer
  under way will find: `QuoteAgrees` needs that the last quote asked is the form's or
  marked, `CommentsAgree` that what comes before a page is listed when the page is asked
  for (`Reached`), `StepsAgree` that what is set will be reset (`StResets`), `FeedsAgree`
  that the page of a project shows its address or a lookup of it is to come (`PgParts`),
  and that without an overlap one reading of the header is under way (`CtxAlone`). A step of the pages is a step of one part and leaves
  the others alone (`PartsStep`), which is why each part can be proved by itself.
- The proof of `CommentsAgree` failed at first: an answer to a read made after posting
  ends the loading of a page under way, which is then asked for twice and turned twice.
  The code does it (section 5), and the property names it now (`past.twice`).
- `QuoteHolds` begins at the quote, but what makes it true was read up to two awaits
  earlier: `ReadHolds` extends it back to the answers of the balance and of the
  allowance, where `outspent` starts to be counted for each.
- `RepliesAgree` compares with what reports in flight will write back: `Replied` says that
  each of them holds a count that lacks no more than what was counted since it was read.
- Two transfers of one dialog are under way only after a rejected balance: until then
  `IcpInv` and `TokInv` tie the loading button to the one that is.

Each proof has one lemma or step per action, grouped by the part of the state
the actions disturb; a step of one slot leaves the others alone by a lemma cited
for all of them.

Only model-checked, and why. Liveness (`PaidIsCreated`, `PaidIsStored`,
`CompletedIsLocked`, `ChainsSettle`, `ButtonFreed`, `ButtonsFreed`, `SkeletonEnds`) is
outside what the prover handles. Every invariant that a passing run checks is proved,
those of the batches under the hypothesis above.

## 7. Abstractions

- Texts, images and names are flags or left out; cutting a text at a byte
  position (`fomowell-project/src/main.rs:137`) is therefore not modelled.
- `pre_reward_points` and the spent counter are always set in the code once read,
  so `pre` and `spent` are numbers. `changes` counts the overwritings of name, avatar
  and `last_change_time`.
- Times are whether they are set, except the swap's, which is compared. Market
  caps are whole USD.
- A handler that would panic before any change of state is a disabled action, or
  a step back to idle when it had awaited.
- The inner awaits of `itoken.transfer_from` (the ledger's standard and fee) read
  nothing that the callers use again and are merged into the charge.
- `FomoCreation` accepts or refuses the quote; `LauncherPoints` has it in full.
  `OwnershipTransfer` has it in full too, `PaidFlows` what it accepts and charges.
- `FomoComments` has of `set_buy_or_sell` the reply count it writes back; the rest of the
  record is in `LauncherProgress`.
- Marks of canisters low on cycles are kept by the lookups of one render
  (`tempshowaddcylesimg`); `ProjectPage` keeps any marks of lookups of the same project, or
  any at all once one could not read everything, which is more than the code does.
- `BatchTransact` leaves out `activeStep`, which is only shown, and the plug wallet,
  which makes the calls itself.
- In the browser, a callback up to its next await is one step, with the renders and
  effects it causes. Amounts are small numbers in the unit of their field; a field
  that does not parse is one value (`Garbage`, `Blanks`, `Fractions`).
- The three kinds of `PaidFlows` share their actions where their code does the same;
  what differs is a guard on `kind`. The same holds for the three pages of
  `StepDialogs` and the readings of `ProjectPage`, of which a behaviour follows one
  kind (`pgKind`), because they meet only in the lookups.
- What a page renders is an operator (`Overview`, `RowShown`, `GodShown`, `StepsPage`, `CoinCard`, ...)
  of what decides it; layout, texts and styles are left out.
- What other users do (trades, creations, comments, transfers) is an action that
  may happen at any time, within its bound.

## 8. Not modelled

- Generated bindings, the canisters' configuration, the bindings of the API and the
  stores: thin wrappers around single calls, or variables of the modules that fill
  them.
- The Sonic and Kong clients and the ICPSwap launch: sequences of calls that no
  canister of the repository makes.
- `pmm.rs`, `dip20.rs` and `ext.rs` are library code that no canister of the
  repository runs (the pool imports `DIP20` and does not use it); the router that trades
  by the curve and the ledgers of the tokens are elsewhere. `itoken.rs` is a client of
  those ledgers, modelled where it is called.
- The queries of the launcher and of a project canister change no state; the pages
  that read them take any answer the modelled state allows.
- `update_user_holding_list`: its harm needs transfers at the token ledger between two
  pages, that is, a model of the ledger; it is shown and used for nothing else.
- The page of a user is modelled for one address. That it keeps the earlier user when
  the address changes under it (`UserInfo.tsx:296`) is a hazard without a property, and
  the prices of held coins it reads (`UserInfo.tsx:139`) are not shown anywhere.
- The plug wallet's own batches, the differences between stoic, msq and astroxme, and
  the fields of links and texts of a new coin with their checks of form.

## 9. Plan

Done, in this order: the points economy and its abstract specification, market
progress, project creation, comments, ownership transfer, batches; types and index
ownership proved; the wallet session, trading, the paid flows, and the pages; the
accounts of the launcher, its shares and its refinement proved; the sums of the history
and of the removals, the progress shown, the accounts of the comments, the paid flows and
the session proved; the batches, the trades and the fourteen parts of the pages proved.

What would come next:

1. Theorems: what a retry keeps when a group has several steps, up to the steps whose
   success is never recorded.
2. `TokenHolders`: the holders' list read in pages over a small ledger.
3. A composition of `PaidFlows` with `LauncherPoints` and `FomoCreation`, whose quote and
   charge it now restates.
4. `add_token_controllers`, next to `OwnershipTransfer`.
