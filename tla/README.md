# A TLA+ model of Aerarium

Aerarium is a web front end to one Compound v3 ("Comet") lending market on a
Rome EVM chain. It has two *lanes* onto the same market:

* `/evm`: an EVM wallet signs ordinary transactions (wagmi).
* `/solana`: a Solana wallet signs Solana transactions that carry unsigned
  Rome EVM transactions ("DoTxUnsigned"). The wallet key determines a
  *synthetic* EVM address; the synthetic is what Comet sees.

Comet itself, the Rome EVM, both chains' RPC nodes, the wallets and their
adapters, TanStack query, the market indexer and the Next.js server cache are
outside `src/`. They appear in the models only through what the code in `src/`
observes and causes.

Contents: 1 inventory, 2 plan, 3 modules, 4 runs and bounds, 5 fairness, 6 proofs,
7 disagreements, 8 what is not modelled.

## 1. Inventory

### 1.1 Components

| Component | Source | State it keeps | Operations |
|---|---|---|---|
| Solana lane actions | `lib/lane/useSolanaLane.ts`, `lib/solana/syntheticTransientFlows.ts`, `components/aerarium/lane/primitives.tsx` | per flow: locals of an async closure; per lane: signing, step, plan, error, result; on chain: wallet, synthetic and position balances, allowances, token accounts | submitAction and its legs (fund, approve, supply; withdraw, token account, sweep), clearError, disconnect |
| Solana submission | `lib/solana/submit.ts`, `nonce.ts`, `signWithChain.ts`, `persistentAlts.ts`, `lib/lane/useSolanaActions.ts` | nonce, lookup tables, the transaction in flight, the memoised signer | estimate, assemble, choose tables, sign on the chain's cluster, send, poll |
| Activate gate | `lib/lane/useProvisionedCheck.ts`, `useSolanaLane.activate` | provisioned/checked verdicts, activating flag, PDA and token accounts on chain | on-chain check, activation |
| Wallet connection | `lib/lane/useSolanaConnect.ts`, `useEvmConnect.ts` | pending wallet, adapter's selection and status | pick, connect once selected, disconnect |
| EVM lane actions | `lib/lane/useEvmLane.ts` | same lane state as the Solana lane; wallet, allowance and position on chain | submitAction (approve, act), refresh, disconnect |
| Lane screens | `components/aerarium/lane/LaneApp.tsx`, `ActionPanel.tsx`, `AssetTable.tsx` | selected symbol, action tab, amount | select, change tab, type, submit, dismiss |
| Action rules | `lib/lane/laneActions.ts`, `availableLiquidity.ts`, position mappers | none (pure) over the last read | available amount, validation, reasons, consequences |
| Displayed figures | `lib/portal/stats.ts`, `lib/lane/positionStats.ts`, `healthDisplay.ts`, `mapSolanaPosition.ts`, `enrichLiquidatable.ts` | none (pure) | health, capacity, totals, stale-price warning, outlook |
| Asset metadata | `lib/lane/useSolanaLane.ts` (refreshAssetMetas), `solanaMetaCache.ts`, `lib/portal/hooks/useCometMarket.ts`, `lib/portal/marketCache.ts` | a Comet's assets, session caches | enumerate, cache, follow the resolved chain |
| Position query | `lib/lane/usePositionQuery.ts`, the two position fetchers | query cache | read, refetch |
| Activity feed | `lib/lane/laneActivity.ts`, `lib/portal/activity.ts`, the lanes' effects | fetched and optimistic entries, names and prices | fetch, prepend, merge, name, value |
| Liquidate view | `components/aerarium/lane/LiquidateView.tsx`, `app/*/liquidate`, `lib/portal/fetchUnhealthyAccounts.ts`, `enrichLiquidatable.ts` | list, loading, row states, manual state, address, filter | scan, filter, check, absorb, edit the address |
| Per-user lookup tables | `lib/solana/alt.ts`, `altRegistry.ts`, `programs/alt-registry` | local storage entry, on-chain table, registry pointer | ensureAlt, set_alt |
| Operator lookup tables | `lib/solana/persistentAlts.ts` | module-level list from the registry | resolve, fall back |
| Faucets | `programs/native-faucet`, `lib/solana/nativeFaucet.ts`, `app/solana/faucet`, `app/evm/faucet` | claim marker and reserves on chain; page phase, last hash, cached answer | the program's claim; the pages' claims and reads |
| Market cache | `lib/market/cachedMarket.ts`, `app/api/market`, `app/api/revalidate` | cache entries per tier, rate-limit window | read, revalidate |
| Market source and indexer | `lib/market/onchain.ts`, `liveSource.ts`, `indexer/*`, `lib/portal/reads.ts` | none between calls | enumerate, batch, page through the indexer, aggregate |
| Reserve tables | `lib/portal/hooks/useReserveStats.ts`, `lib/market/useMarket.ts`, the two tables | the server's last answer, the tab's list | derive rows |
| Polled market figures | `lib/portal/storefront.ts`, `hooks/useStorefront.ts`, `useProtocolStats.ts` | last figures | poll, follow the Comet |
| Portal preview | `components/CompoundPortal.tsx`, `ActionModal.tsx`, `lib/portal/stats.ts` | modal, status, typed amounts, stats polled | open, type, submit, retry, dismiss, switch |
| Environment boot | `lib/env.ts`, `env-context.tsx`, `app/api/env`, `app/chain-config-gate.tsx`, `lib/config.ts` | loaded environment or error | fetch, validate, gate |
| Registry loader | `lib/registry/*`, `scripts/build-compound-config.ts` | two committed files | build, check, load, resolve |
| RPC proxies | `app/api/rome-rpc`, `app/api/solana-rpc`, `lib/romeRpc.ts`, `solanaRpc.ts` | none | choose an upstream, fall through tiers |
| Harness pages | `app/discovery`, `app/flows`, `scripts/drive-flows.mjs` | busy flags, log, list of transactions, stranded balances; on chain as in the Solana lane | single operations, round trips, sweeps, history |
| Shared EVM reads, nonce tracker, presentation | see 8 | none | |

### 1.2 How they interact

The environment decides the chain (`ChainBoot`), the registry entry the Comets
(`RegistryEntry`), and the Comet the assets a lane lists (`CometShape`).
`LaneApp` renders one screen from the lane object that `useSolanaLane` or
`useEvmLane` returns, and calls its `submitAction`, `activate`, `clearError`
and `disconnect`. A Solana action calls the submission layer once for each leg;
each submission fetches the operator's lookup tables, reads
the nonce from the chain, opens one wallet popup, sends, and polls for
confirmation. Per-user tables (`ensureAlt`) are used only by the harness pages. After
an action the lane refreshes the position query and the
activity feed. Identity lives in the wallet adapter and reaches the lane by
renders: a flow sees either what it captured or, through `ref.current`, what
was rendered last.

### 1.3 What is hard here

* Flows are asynchronous closures with up to four transactions, none of which
  is atomic with the next. Wallet switches, disconnects, a second tab and
  rejected popups fall between any two awaits.
* Values are read before a popup (allowance, base supply, token account,
  destination wallet) and used after it.
* A confirmation can be missed for a transaction that landed.
* Fetches have no cancellation in several places, so an answer about one
  identity, or one Comet, may arrive when another is connected.
* One flag, one phase or one status serves several things that can run at the same
  time: the harness's `busy`, the portal's `status`, the EVM faucet's phase.
* A batch of reads fails in part, and what is missing is defaulted or left out;
  two lists of the same things are then joined by position.
* The chain, the Comet and the asset list become known late, after things began.
* The amount rules and the figures must agree with what Comet accepts and does.

### 1.4 What makes each component correct

* *Solana lane actions*: tokens move and are never lost; success is reported
  only for complete plans; the popup shown is the popup planned; a borrow opens
  the debt that was asked for; tokens return to their owner; signing ends.
* *Submission*: a transaction takes effect at most once; success means it took
  effect for good; "expired" means that nothing changes any more (that it did not
  take effect fails, see 7); a transaction carries all its accounts and asks its fee payer.
* *Activate gate*: nobody acts before the account exists; a verdict belongs to
  the identity it is shown for, and comes.
* *Connection*: a pick is tried, and no wallet is connected that was not picked.
* *EVM lane*: allowances are exact and spent; only the account that started a flow
  moves; success follows the receipt.
* *Lane screens*: an amount is submitted for the asset it was typed for.
* *Action rules, figures*: an accepted amount is one Comet accepts, a refusal has the
  reason it gives, what is said to follow follows, nobody is shown healthy who can be absorbed.
* *Metadata*: a lane works with the assets of its Comet. *Boot, proxies*: what is asked is of the chain the
  deployment names, no chain in use is retired, and another chain answers in known cases only. *Registry*: its
  parts agree on the Comet.
* *Activity*: reads belong to the connected account, no row of before a disconnection comes
  back, a row says what was sent, who stays while the position goes on changing is shown the newest.
* *Liquidate view*: an answer belongs to the account it is shown for; busy labels mean that
  something runs; no popup for an account that was healthy at its check; what was absorbed leaves the list.
* *Lookup tables*: a crash between steps neither loses a table nor uses a wrong one.
* *Faucets*: one claim for each user, complete or not at all; a page never claims twice
  at a time, nor calls a claim successful that has not dropped anything.
* *Market cache and source*: entries are never mixed between chains or older than a
  revalidation; a row has the figures of its own asset as far as the reads can tell, and none are counted twice; what is
  cached of the indexer is whole, and nobody is called liquidatable who is not.
* *Portal*: the status is that of a running flow; the preview tells what Comet will do; a borrow opens debt.
* *Harness pages*: a flow that ended well moved what its button says and left nothing behind.

## 2. Plan

### 2.1 Modules

All are written; the order is that of importance.

| Module | Models |
|---|---|
| `ActionContract` | abstract: what a lane promises about one action |
| `SolanaLane`, `SolanaLaneProofs` | the flows of `/solana`, leg by leg |
| `SolanaSubmit`, `SolanaSubmitProofs` | one submission and its confirmation, against forks and retries |
| `EvmLane`, `EvmLaneProofs` | the flows of `/evm` |
| `Provisioning` | the Activate gate: check, activation, screens |
| `SignedCall` | what goes into a transaction of the Solana lane and who signs it |
| `LaneActions` | which amounts the panel allows, against what Comet executes |
| `LaneForm` | selection, tab and amount against lists and symbols that change |
| `Figures` | health, totals, warnings and outlook against Comet's own view |
| `LiquidateView`, `LiquidateList` | checks and absorbs; scans, filter and the late chain |
| `SolanaFaucet`, `EvmFaucet` | the faucet program and both pages |
| `Portal`, `ModalForm` | the portal's flows behind one status; the form of its modal |
| `AltLifecycle` | create, register, extend and reuse a lookup table, with crashes |
| `ActivityFeed`, `ActivityRow` | whose rows are listed; what a row says |
| `WalletConnect` | the pending pick against the adapter |
| `CometShape` | which assets a lane works with, and its caches |
| `MarketCache`, `MarketRead`, `ReserveRows`, `Storefront` | server cache, one read of the market, the rows made of it, the polled figures |
| `ChainBoot`, `RegistryEntry` | from the registry's files to the chain and the Comets every part uses |
| `MCPagesProofs` | theorems about the parts of `MCPages` |
| `SideClientProofs`, `MCSideProofs` | theorems about the parts of `MCSide`: in the browser; then on the server, the gate and all of them together |
| `SumLemmas` | what sums over finite sets do, for the proofs |
| `DevFlow`, `ProbePage`, `FlowHarness`, `DriveFlows`, `ProbeHistory` | the developer tools: what they share, the probe, the harness, the command line, the probe's list of transactions |
| `MCDevProofs` | theorems about the developer tools |

The lanes come first because everything a user can lose passes through them.
`SolanaLaneProofs`, `SolanaSubmitProofs` and `EvmLaneProofs` hold the theorems of one
component, the others those of a composite instance. No module declares a RECURSIVE
operator, so every one of them can be proved about.

### 2.2 Compositions

`SolanaLane` refines `ActionContract` at the level of flows, `SolanaSubmit` at
the level of one submission, `EvmLane` at the level of flows again. A leg of a Solana flow is
an action of the contract, and the failure the contract leaves open (the action "may have taken
effect, or may take effect later") is what `SolanaLane` has of its legs: `Fail` after a leg has landed, and `Fail` of
a leg that was sent, which is "adrift" from then on and may land at any time, or expire.

`ProbePage`, `FlowHarness` and `DriveFlows` extend `DevFlow`: three programs that
drive the same accounts through the same transactions.

Three modules put parts beside each other into one instance: `MCPages` (what stands beside the
lanes on screen), `MCSide` (what stands beside a flow of funds) and `MCDev` (the developer
tools). Their parts share no state in the code: a page is one of them at a time and
keeps nothing for another. So a behaviour begins in one part and stays there, with the variables of
the others off, and the state space is the sum of theirs.

### 2.3 Theorems

Every invariant and every action property of a passing run is stated by a theorem (6), and so are the
three refinements. Liveness stays with TLC.

## 3. The modules and the code

### 3.1 ActionContract

`phase` is what the lane shows of an action (`signing`, `lastResult` and `error`
of `LaneAdapter` in `types.ts`), `effect` whether it happened on chain. Its
steps: start, take effect (while worked on, or after a failure), report success
(only of an action that took effect), report failure.

### 3.2 SolanaLane

| State | Code |
|---|---|
| `wal`, `ata` | the wallet's SPL token accounts: balance, existence |
| `syn`, `allow` | the synthetic's ERC-20 balances and its allowance to Comet |
| `nonce` | how many transactions the synthetic has executed on the Rome EVM |
| `pos` | the Comet position; negative base is debt |
| `active` | the identity behind `ref.current` |
| `fl[f]` | the locals of one `runAction` closure: action, captured user, `needsApprove`/`needsWalletAta` (`extra`), `baseSupply` (`drained`), the leg, who signs it (`by`), the sweep's destination (`dest`) |
| `ui` | the React state `signing`, `signStep`, `signPlan`, `error`, `lastResult` |

`Submit` is `submitAction` up to its first await, guarded by the panel being on
screen and by the panel's own limits; `ReadPreconditions` and `ReadBaseSupply` are
the reads before the popups; `BuildSweep` captures the destination; `Prompt` opens the popup of
a leg and captures the signer from `ref.current`; `Sign`, `Land` and `Advance`
take the leg to the chain and the flow to the next leg; `Succeed` and `Fail` are
the two ends of `runAction`. `Land` gives each leg the guard and the effect it has on chain:
fund and sweep move tokens between wallet and synthetic, supply spends
allowance, a withdrawal must leave the debt covered. `Fail` is enabled
wherever the code may throw, after `Land` included: a leg may have landed and
still be reported as failed. A leg that was sent and whose poll or send threw (`submit.ts:311`, `:335`) is "adrift":
`Land` may still take it, in the middle of the next flow too, and `Expire` drops it. The nonce of the account
is used by every leg but fund and ata; `since` is a history, the nonce at the flow's last read, and
tells whether anything of the account was executed since. `OtherTab...` moves the same account from elsewhere.

Abstracted: transaction encoding, gas, prices and health factors (one
`CollateralFactor`), interest, the text of errors and toasts.

### 3.3 SolanaSubmit

`tip` and `conf` are the heights of the processed and of the confirmed chain,
`tx[a]` the fate of an attempt's transaction (sent, the block it is in, its
error), `att[a]` the locals of `submitDoTxUnsigned` and `pollConfirmation`:
nonce, the last valid height, verdict. The client reads nonce and blockhash, signs,
sends (with preflight; the send may throw although the transaction was relayed),
then alternates the status read and the height read until one of them decides. The
cluster includes a sent transaction while its blockhash is valid, adds empty
blocks, confirms, and forks back to any block above the confirmed one; a
transaction that executes with a used nonce fails on it.

### 3.4 EvmLane

As `SolanaLane`, without synthetic and sweep: a flow is an optional approve and one
action. `Mine` may execute a transaction in any way Comet would, including a
revert; `MineNothing` is a transaction that the wallet replaced. `mem` holds
transactions that are sent and not mined, and they outlive the flow that failed
to wait for them. Each flow captures its account once.

### 3.5 Provisioning

`pda` and `ata` are the account on chain; `gate` is what `useProvisionedCheck`
and the lane keep (`provisioned`, `checked`, `activating`), with two history
fields: `about`, the account the last verdict is about, and `blind`, whether
that verdict came from a failed read. `check[c]` is one run of the effect,
which nothing cancels, `act[n]` one run of `activate`. `RunEffect` is the effect, and
is part of every action that changes one of its dependencies. `Reload` loads the
page again.

### 3.6 LaneActions

`chain` is an account and a market as they are, `seen` what the lane's last read
returned: `EvmReads` (account whole; reserves and minimum from reads of their own),
`SolanaReads` (a multicall one of whose calls may have failed and left a default),
`Rereads` (the market cache may answer with an earlier entry). `AvailableFor` and
`Validates` are `availableFor` and `validateAction`, limit by limit, with the 0.1%
haircut; dollars are exact fractions where the code has floats with a tolerance.
`Accepts` is the external side: what Comet executes.

### 3.7 LiquidateView

`list` and `loading` are the page's `accounts` and `loading`, `scan[s]` one call of
`refreshList`: candidates from the log window, one probe each, all at once. `row` and
`manual` are `rowState` and `manual`, each with what it was told last. `run[r]` is one call of
`runCheck` or `runAbsorb` with the lane's `onCheck` and `onAbsorb` inlined: `AskComet`,
`Enrich`, `Prepare` (on the EVM lane a gas estimate, which reverts on a healthy account),
`Sign`, then `Succeed` or `Fail`, which `Show` on the row or below the field. `Execute` is
Comet's absorb, `Replace` an EVM wallet's speed-up or cancel (the receipt's status is not
read), `Move` the market. Histories: `left` (the account recovered after the check), `mixed`
(a scan failed, or two were in flight), `crossed` (the field edited under a run). A run that is over and
sent nothing is forgotten. Filter, figures, the connect prompt, and the second scan when
the chain id resolves after the mount are in `LiquidateList`.

### 3.8 SolanaFaucet and EvmFaucet

`SolanaFaucet.Accepts` and `Drop` are `process_instruction`: a marker for the wallet, then every
transfer, or nothing. `phase` and `already` are the page's state; `Effect` is the
effect on `[publicKey, connection, phase]`, whose cleanup cancels the read in flight, and is part of
every action that changes the wallet or the phase. A claim names the wallet it was
clicked for and asks the one connected when `submitRaw` runs.

`EvmFaucet.Render` is a change of account, chain or cached answer together with the
first effect; the effect on the receipt is in `Click` and `Receipt`, the two places where
its condition can become true. The faucet contract, wagmi's cache and its receipt query are external.

### 3.9 SignedCall

`chain` is the lane's configuration, `wallet` the adapter (its kind, account and authorised
accounts), `signTx` the signer that a memo keeps (`useMemo` on wallet, signTransaction and
cluster), `calls[c]` one of `submitCall`, `submitOverAlt` and `submitRaw`. `Read` is the
gas estimate or emulation and decides the format and what the registry's tables hold of it;
`Request` is the popup: a signer that knows the wallet standard names account and cluster,
the bare one neither. `Connect`, `SwitchAccount` and `Resolve` happen at any time.

### 3.10 LaneForm and Figures

`LaneForm` keeps `selSym`, `action` and `amount` as `LaneApp` does: three states that
are set apart. `Read` changes the rows and what they are called. Histories: `typedFor`,
`relisted` (list or symbols changed under an amount), `carried` (the action was on when the row came up).

`Figures` has an account in a market whose prices move and whose feeds stop. `SolanaHealth`
and `EvmHealth` are the two formulas of the two lanes, `PositionStats`, `Warned` and
`HealthAfter` what the panel makes of them, `EnrichedHealth` what the liquidate list says;
`Covered` and `Liquidatable` are Comet's. Health factors are fractions, compared exactly.

### 3.11 Portal and ModalForm

`status` is `useTxStatus`, `flow[f]` one call of `handleSubmit`: `Read` is the allowance
read before the status is touched, `Sign`, `Land` and `Advance` the legs of `doSupply`,
`doLeverage` and the like. `shown` is what the last poll returned, `late` an answer of the previous
account. `Preview`, `Hint` and `Blocked` are the modal's. History: `slipped`, a flow that began behind the status of another.

`ModalForm` has the two inputs, the picked collateral, `phase` (the portal's status) and
the polled screen. `Rows`, `MaxOf`, `Label`, `ThresholdAfter` and `Gauge` are the code's sums, with base units
as dollars.

### 3.12 The faucets' neighbours: AltLifecycle, WalletConnect

`AltLifecycle`: `table` and `pointer` are the chain, `seen` what the node answers (it lags
until `Sync`), `local` each device's storage, `call[t]` one `ensureAlt`: look in the storage, then at
the registry's pointer, reuse or extend, or create and register in one transaction and fill in
chunks. `Reload` closes the tab anywhere; `GiveUp` leaves a transaction that may still land.

`WalletConnect`: `pending` is `pendingRef`, `rendered` what the last render saw; the effect of
`useSolanaConnect` is part of `Render`. Histories: `asked`, `threw`.

### 3.13 LiquidateList

`table` is what `enrichLiquidatableList` made, `scan[s]` a call of `refreshList` for the Comet it began with, `filter` the filter row,
`connected` the connect prompt, `row` and `run` the button. Histories: `mixed` (scans overlapped, or an
absorb outlived its Comet), `told` (nothing happened since a whole scan). `Resolve` is the chain id that comes late and starts
a second scan.

### 3.14 ActivityFeed and ActivityRow

`ActivityFeed`: `ask[a]` is a read, with its answer as of the head when the node was asked;
`Refresh` is what a change of the position or the metadata does, or a success on the EVM lane; there is no timer, and a
position that is read again unchanged asks for nothing. `Refresh`, `Switch` and `Disconnect` cancel a read on the Solana lane and not on the EVM lane. `own` are the
optimistic rows, `Listed` the merged and capped list. `since` is a history.

`ActivityRow`: `lookup` is `activityLookup` (name, decimals and price of an asset, each perhaps a
stand-in), `ownRows` what `recordSuccess` wrote, `rows` what `toLaneActivity` made of the logs with
the lookup of the fetch.

### 3.15 CometShape

`comet` is the lane's Comet, `metas` the assets it works with, `cache` the tab's session
storage, `ask[a]` an enumeration in its two stages with what of each was answered. `Resolve` changes the
Comet: the EVM lane is mounted again (`key`), the Solana lane goes on. `overtaken` is a history.

### 3.16 The server: MarketCache, MarketRead, Storefront, ReserveRows

`MarketCache`: `entry` is `unstable_cache`, `fill[f]` a function that runs outside it, `floor` the
version at the last revalidation, `hits` the rate limit's window. `MarketRead` is one pass of `liveSource` (mode "page") or of one tier of `cachedMarket` ("market", "activity",
"liquidatable"), with each part of a batch answered or not: assets that either enumeration lost, decimals (`bare`), sizes and
prices (`blank`), logs, and the `isLiquidatable` of a candidate (`Probe`: `under` is what Comet would say, `heard` who was answered about). `Storefront` has overlapping loads of two or
more calls, each of the state of its own time. `ReserveRows` joins the server's answer (`raw`) with
the tab's list (`known`) as `deriveReserveStats` does, by position; `down` is the exception nobody catches.

### 3.17 ChainBoot and RegistryEntry

`ChainBoot`: `Build` makes the bundle from the registry's `files`, with what is pinned compiled in,
`Start` validates the server's environment, `ApiEnv` and `EnvProvider` tell the browser, and `read` is the last
read: of which chain it is meant, and which one answers. `Request` and its tiers are `/api/solana-rpc`.

`RegistryEntry`: `entry` is a chain's files, `gen` and `rpcs` the two committed ones, `half` a
build between them, `Check` is `--check`. `SolanaComet`, `CollateralComet`, `PickCollatComet` and `LeverageOpen`
are what each part of the application takes from an entry.

### 3.18 The developer tools

`DevFlow` has the accounts (`acct`: wallet, synthetic, Comet, and an account that can be absorbed), the
transactions in flight, and a handler: a list of transactions, each of one or two instructions, with the
nonce it read (`ahead`) and the ones it used. `Can` and `Does` are what an instruction needs and does on chain. `goal` is what
the button says, computed when the handler begins; `torn` is a history: some flow did not run to its end, or
something landed behind its back. `ProbePage`, `FlowHarness` and `DriveFlows` are the three programs: one action for each button or
command, with its reads and early returns. On the harness one `busy` flag serves the flows and the
position's load, which a wallet that is switched away and back starts in the middle of a flow.
`ProbeHistory` is the probe's log and its list of transactions, in two tabs with one storage.

In `MCDev` the harness is shown twice: with a steady wallet ("harness"), where one handler does for all buttons
(`OneHandler`), and with a wallet that is switched away and back ("switched"), where two run at a time. The order of the
assets (`Listed`), the tabs and the wallets of the history are constants.

## 4. The runs

Each run ends within about three and a half minutes on two workers. The properties themselves are
stated, with their code, in comments at their definitions.

| Run | Question | States |
|---|---|---|
| `solana_steady` | does a user who switches wallets only between flows keep what they own, and does the screen tell the truth? | 1.0M |
| `solana_switch` | with any switch at any await: who can lose what, does the lane still keep its contract, and does every flow end? | 432k |
| `evm_lane` | the same two questions for the EVM lane, with allowances, mempool and replaced transactions | 571k |
| `submit` | what do the verdicts of the poll mean, under forks and retries, and does it end? | 101k |
| `pages` | the screens beside the lanes: does what they allow land, is what they say true, do they do what was asked? | 1.5M |
| `dev_pages` | the developer tools: does a flow that ended well leave nothing behind and move what it promised? | 2.3M |
| `side` | everything around a flow: verdicts, tables, lists, caches, chains, figures, signers, and does what must come come? | 812k |
| `solana_crossed_sweep` | (finding) do swept tokens return to their owner? | |
| `evm_reverted` | (finding) did a successful action take effect? | |
| `submit_expired` | (finding) was an expired transaction not confirmed? | |
| `liquidate_hidden` | (finding) does the liquidate list show what it lists? | |
| `borrow_carried` | (finding) is a borrow submitted for the base? | |

The properties of the three composite runs are conjunctions, one conjunct for each part:

| Property | Part: what it says |
|---|---|
| `PanelIsRight` | panel: an allowed amount lands, a refusal has its cause and reason (up to the haircut, which may refuse an amount that would still land), a stale feed closes no exit, what is said to follow follows. form: what is submitted is the amount typed for the asset shown |
| `LiquidateIsRight` | liquidate: labels, answers, popups and the list are about what they claim. listing: the table lists accounts of the Comet shown, its rows pass the filter, "healthy" is said only of a healthy chain |
| `FaucetsAreRight` | once, complete, one at a time, never a success without a drop; "already claimed" agrees with what is known of the account |
| `PortalIsRight`, `PortalBorrowsOpenDebt` | portal: no spinner without a flow, a success about what was done, the preview is what Comet does, a borrow opens debt. modal: fresh amounts, true label, health, Max and gauge |
| `RestIsClean` | a synthetic at rest holds and allows nothing, the list of stranded tokens is current, the history lists what the log says landed |
| `FlowsEndAsPromised` | a flow that ends well moved what its button says; the driver's withdrawal opens no debt |
| `GateIsRight` | a verdict about the connected account is right, and "activated" is complete |
| `TablesAreRight` | tables: what `ensureAlt` returns is complete, what one device registered another finds. sign: nothing a transaction needs is missing, its payer is asked, on its own cluster |
| `FeedIsRight` | feed: a Solana read is about who is connected, no row of before a disconnection comes back. rows: a row says what was sent, with the names and prices of the position shown |
| `ServerIsRight` | cache: no entry of another chain or older than a revalidation. market: rows have their own figures up to the first asset that was lost and no figures stand in two rows, one picture a page, the
indexer's part of the cache is whole, an open liquidation is one, and who is missing was not heard of. storefront: offers are real, rates fit the utilisation. reserves: no row with another's figures |
| `BootIsRight` | boot: positions are asked of the chain `/api/env` names; another one answers only where an override says so, or where `DEFAULT_CHAIN_ID` alone names the chain and the registry's choice differs; no chain in use is one that a registry the build could load has retired; scans stay off the self-hosted node. registry: what was checked is what is served, and all parts agree on the Comet |
| `ShapeIsRight` | neither lane works with another Comet's assets or stores them under its name |
| `FiguresAreRight` | the lanes agree, who is shown healthy cannot be absorbed, shown capacity is lent, the outlook comes true |
| `SideEnds` | `ensureAlt` ends or waits for the wallet, a connected user gets a verdict, who stays and whose position goes on changing is in the end shown the newest, a pick is tried |

### 4.1 Bounds

Every value named here is a constant of its module, set in the configuration; the theorems hold for
all values of them that the assumptions in 6 admit.

* *Flows* (both lanes): two flows cover every pair that can meet: a flow and the retry of a
  failed one, a flow and one that was left behind by a disconnect. A third meets the same
  chain state that two can produce. Two identities are what one `ref.current` can confuse. Amounts 1 and 2 against
  balances of 1 and 2 give partial, exact and excessive amounts. One move of another tab
  is what makes a value stale. `evm_lane` has two kinds of behaviour: a steady one (one wallet, amounts
  1 and 2, another tab) and a switched one (two wallets, amount 1).
* *Submit*: a window of 2 gives the first and the last valid block, 5 blocks let two
  attempts follow each other and one expire. `submit` and `submit_expired` have no
  deadlock check because the chain stops at the last block of the bound; nor have the composite runs, because
  clicks, reloads and moves run out.
* *Panel*: factors .8 and .3 and prices 2 make the fractions that round; three
  markets (liquid, short of held base, a net of zero), two collaterals, one with a feed that may stop, the
  other with a read that may fail.
* *Form*: two collaterals, one amount, two reads of list and symbols.
* *Liquidate*: two runs are a run and one that overlaps or follows it; two scans in flight; one borrower is
  visible to the scan and moved by the market once, the other is only known by address. *Listing*: four worlds with accounts on,
  above and below each line, two Comets, three scans, one fall of the prices; filter and connection
  change only while nothing is under way, since neither touches what is.
* *Faucets*: two clicks are a claim and its retry, or the claims of two wallets; reserves pay one or two.
* *Portal*: two clicks of one steady position, or one click and one move from elsewhere. Screen and
  connection stand still while a flow runs (they matter at clicks), a history in which a flow
  slipped behind the status is followed to the end of its flows, only the owner's account
  changes, and the other wallet appears only in the instance with a move. *Modal*: two collaterals of which the registry names
  both, one or none; about ten screens, amounts to 2, one poll, two openings.
* *Developer tools*: one base, one collateral, amounts of one unit, one handler (two on the
  switched harness), one transaction in flight behind the handler's back, wallets that are new or set up,
  one reconnect; the driver has five command lines and tables for supply and
  withdraw; the history two tabs, two transactions, one wallet, one reload. One unit of each is
  enough because a property compares what was moved with what was promised, not amounts with limits.
* *Gate*: two accounts, the second one owning no more than the first at the start (they can be
  exchanged), two assets, three checks (in flight, its replacement, and one for an account that comes back), one activation.
* *Tables*: two tabs on two devices, a key with and one without a registry entry, sets of one and two
  accounts, one account in each chunk (so that a set of two has a creation and an extension), two tables, one tab closed.
* *Feed*: two reads, two blocks, one looked back, one row of a read, two listed. *Rows*: an asset of one decimal with two digits typed.
* *Cache*: two chains, two tiers, one fill at a time outside, one change, one window of one admission.
  *Boot*: registries of none or two files, a bundle of two chains, pinned or not, some dozen environments. *Market*, *shape*, *storefront*, *reserves*:
  two collaterals (three for the rows of reserves), two reads or loads at a time, one or two reloads or moves. The Comets of the storefront begin alike.
* *Figures*: prices 1 to 3, up to 2 of each of two collaterals with the deployed factors, debts to 3.
* *Wallet*: two wallets, three picks. *Sign*: two accounts, three chains on two clusters, one call, two tables, two inline keys, three events.
* *Registry*: all entries of up to two Comets, one variation of every other field, one edit.

`solana_steady` and `dev_pages` use symmetry (of users and flows; of handlers, signatures and tabs), which
no property there tells apart; the runs with liveness use none.

## 5. Fairness

* *Flows* (`SolanaLane`, `EvmLane`): weak fairness of each flow's own steps except
  at a popup. Every await of `runAction` settles: a read returns or throws, a sent
  transaction is confirmed or its blockhash expires (`PollTerminates` is that
  claim, checked), `waitForTransactionReceipt` returns or throws. `Fail` is always one of the
  enabled outcomes, so fairness promises an end and never a success. A popup waits for the user: no fairness.
* *Polling* (`SolanaSubmit`): weak fairness of each poll (the loop's timer), weak
  fairness of empty blocks (the cluster goes on), strong fairness of confirmation
  (however often the cluster forks, it confirms again).
* *Checks* (`Provisioning`): weak fairness of a check's read and of its delivery.
* *Tables* (`AltLifecycle`): weak fairness of the node catching up, and of each call's own steps except at a popup.
* *Feed* (`ActivityFeed`): weak fairness of each read's end, by an answer or a failure; strong
  fairness of an answer: an RPC that is asked again and again answers at last. Nothing is assumed of `Refresh`, which has no
  timer behind it: that it happens again and again is the premise of the property (`FeedSettles`), not its fairness.
* *Connection* (`WalletConnect`): weak fairness of rendering.
* Users, wallets, other tabs and the inclusion of a transaction are not fair.

`MCSide.SideFairness` restates the last four for the part that is on.

## 6. What is proved

### 6.1 The theorems

Each holds for every value of the constants that satisfies the named assumptions of its module and
of the modules it extends.

| Theorem | Module | Says |
|---|---|---|
| `TypeCorrect` | `SolanaLaneProofs` | `Spec => []TypeOK` |
| `WorthIsolation` | | no step but a crossed sweep changes what any user owns |
| `AllowanceExact` | | under `SteadySpec` an outstanding allowance is that of an action whose approve landed and whose supply or repay did not, and at most its amount |
| `SuccessSound` | | a reported success had every leg of its plan land |
| `NoReentry` | | one flow at a time |
| `PlanExact` | | the popup is the highlighted row |
| `SyntheticExact` | | what a synthetic holds is the sum of what the landed legs of every flow left there |
| `BorrowExact` | | a borrow that lands, even late, opens the debt that was asked for, unless another transaction of the account executed since `doBorrow` read the base supply |
| `LaneKeepsContract` | | `Spec => ContractSpec` |
| `SubmitTypeCorrect` | `SolanaSubmitProofs` | `Spec => []TypeOK` |
| `SuccessConfirmed` | | a returned signature is executed in a confirmed block |
| `ExpiredSettled` | | after "expired" the transaction's fate never changes |
| `RetriesSettled` | | once a later call succeeded, a failed one that had read no higher nonce never takes effect |
| `ContractKept` | | `Spec => ContractSpec` |
| `EvmTypeCorrect` | `EvmLaneProofs` | `Spec => []TypeOK` |
| `StarterPays` | | no step moves the funds of anybody but the account that started the flow |
| `FlowsExact` | | a success follows the receipts of its whole plan, and no success leaves an idle allowance |
| `EvmPlanExact`, `SteadyKindExact` | | under steady behaviours the popup is the highlighted row |
| `EvmLaneKeepsContract` | | `Spec => ContractSpec` |
| `GateTypeCorrect`, `GateCorrect` | `MCSideProofs` | the Activate gate by itself |
| `GateStaysRight`, `TablesStayRight`, `FeedStaysRight`, `ServerStaysRight`, `BootStaysRight`, `ShapeStaysRight` | | the invariants of `side`, of every part of it |
| `FiguresStayRight` | | `SideSpec => FiguresAreRight`, an action property |
| `SideTypeCorrect` | | the types of all its parts |
| `FaucetsStayRight`, `LiquidateStaysRight`, `PanelStaysRight`, `PortalStaysRight`, `PortalBorrowsStayDebt`, `PagesTypeCorrect` | `MCPagesProofs` | the invariants of `pages`, of every part of it |
| `DevTypeCorrect`, `DevRestIsClean` | `MCDevProofs` | the invariants of `dev_pages`, of every page of it |
| `DevFlowsEndAsPromised` | | `DevSpec => FlowsEndAsPromised`, an action property |
| `DevInvariant` | | `DevSpec => []DevInv`, the inductive invariant of the three |

The lemmas they rest on are in the same modules; those about the parts of `MCSide` are in
`SideClientProofs` and `MCSideProofs`, those about sums in `SumLemmas`.

### 6.2 The assumptions

* *Names*: `NoUser`, `NoFlow`, `NoTable` and "base" are not members of what they stand beside (`IdentityAssumption`,
  `EvmIdentityAssumption`, `ProvisioningAssumption`, `AltAssumption`, `FiguresAssumption`, `LaneActionsAssumption`), nor is
  "none", "idle" or "reads" a wallet or a signature of the probe's list (`NamesAssumption`).
* *Numbers*: amounts are positive, balances, prices, factors and bounds natural, a position's base an integer
  (`AmountAssumption`, `EvmAmountAssumption`, `PortalAssumption`, `ModalAssumption`, `FormAssumption`,
  `ListingAssumption`, `AmountsAssumption`, and those of `MCSide`).
* *Finiteness*: flows (`MCSolanaLane.FlowsAssumption`) and attempts (`SubmitAssumption`), without which the sums and
  counts about them mean nothing; the developer tools' handlers
  (`HandlersAssumption`, `TwoAssumption`), whose shares of what the synthetic holds are added up; collaterals, listed debtors, tabs, tables and the
  account sets these are made for. Nothing else is assumed finite.
* *About the code's surroundings*: a collateral counts no more to borrow against than before a liquidation and a health
  without debt is far above 1.1 (`FiguresAssumption`; the first is a condition of Comet's constructor, the second
  `HEALTH_FACTOR_NO_DEBT`); the activity tier is filled from the market tier's entry (`CacheAssumption`); chain ids
  are positive (`BootAssumption`); a symbol of the registry names one collateral unless it is "asset" (`ModalAssumption`);
  the filter offers the values it starts with (`ListingAssumption`); who is visible to a scan or moved by the market is an
  account (`LiquidateAssumption`); the list of assets a developer tool goes through has each of them, and nothing else
  (`AssetsAssumption`); a wallet begins without an allowance from its synthetic to the Comet (`StartsAssumption`: what a
  failed flow left there belongs to a history that is `torn`, about which the properties say nothing).
* *Arithmetic*: `RowAssumption` says that the powers of ten that occur are positive. The provers know no exponentiation.

TLC evaluates all of them on the instances of the runs.

### 6.3 The lanes

**SolanaLane.** The inductive invariant of the free interleaving is `IInv`: types, and
`IdentityOK`, which says that a flow past its start has a user, that a leg past its
popup has a signer, and that a sweep has a destination. Without it the prover cannot tell that
`wal[fl[f].by]` is a balance at all. `WorthIsolation` is then one case for each leg
that lands: what leaves one map enters another of the same user, unless `by` and `dest`
differ. `PlanInv` says which legs have landed at each point of a flow, and gives
`SuccessSound`. The steady theorems need `SteadyInv`: the flow in
flight is the only one, its user, signer and destination are the connected wallet, the signing
screen is up without an error, and plan and step are the flow's own. It is needed because
"one flow at a time" is not inductive: it holds only because `signing` is set for as long
as a flow is in flight, which in turn holds only because nobody disconnects under it.
The refinement proof maps each action to a step of the contract or to a stutter;
the legs before the last one stutter.

`SyntheticExact` is a sum over all flows: each flow leaves in the synthetic what its landed legs
put there and did not take out (its *residue*). A step changes the residue of one flow and the
synthetic of one user by the same amount, and `SumChanges` carries that to the sum. A fund that was signed and
failed on the client, a sweep that never ran and a borrow that takes out supply are all in it.
`BorrowExact` needs `DrainInv`: the nonce at the read of `baseSupply` is never above the account's, and while the two are the
same the position is what was read, so that `drained` and the amount together are what leaves it. That rests on `PositionFrame`: nonces only grow,
and a position moves only with its account's nonce.
`AllowanceExact` is inductive with the plan (`AllowanceLand`): an approve that lands sets the allowance to its own action's amount, a supply spends it, and
an approve that lands late, after its flow gave up, leaves an action of the kind the property names.

**SolanaSubmit.** `IInv` adds to the types that the confirmed height is below the tip, that a
transaction sits in a block no later than its expiry and the tip, that a block holds
at most one of the account's transactions, that an "expired" verdict was given above the expiry at confirmed
height, and `SuccessIsConfirmed` itself. `ExpiredIsFinal` follows because inclusion
needs a block above the tip, which is above the confirmed height, hence above the
expiry, and because forks stop at the confirmed height. `RetriesSettled` needs `NonceOK`: an executed
transaction used the nonce that counts the executed ones below it. Then a confirmed success leaves a
count that no earlier nonce can meet again, on any fork.

**EvmLane.** `IInv` says for each flow what it has signed and what of that is mined or pending
(`FlowOK`, `PendingOK`), and explains every allowance: it is what is left of an approval whose flow has not
acted (`AllowanceExplained`). `FlowIsExact` is not inductive without the last: a supply spends an allowance that some
flow made, and one has to know which. `StarterPays` is the same argument for each step. The
steady theorem has a `SteadyInv` like that of the Solana lane; the refinement maps a flow that gave up to a
failure that may still take effect as long as its transaction is in `mem`.

### 6.4 The parts beside the lanes

A behaviour of a composite is that of one part, so that `page = "x" => XIInv` is an invariant of the
whole when `XIInv` is one of the part. What the parts need beyond their types and properties:

* *Gate*: what each stage of an activation has put on chain, and that an answer "absent" which is still on its way
  means that there is no account or that an activation of it was begun.
* *Tables*: the node lags behind the chain and never goes beyond it; a registered pointer has a table with keys in it; and there
  are at least as many fresh tables as tabs that still look for one, which is why a creation never runs out of names.
* *Signing*: the memo's signer is of the lane's cluster and, unless that was changed since, of the connected account; a call
  past its read has packed or named every key.
* *Feed*, *rows*: reads in flight are of who is connected unless the identity changed under them (and then the result is
  held back on the Solana lane); every row shown is of a log, by the lookup of its fetch.
* *Shape*: an enumeration that was answered belongs to the Comet it was asked of; both caches are by Comet.
* *Cache*: a fill that is clean is at least as new as the last revalidation, which is never ahead of the chain.
* *Market*: a slice is live only of a read that is complete; both enumerations are in order, so that up to the first loss the i-th asset of each is asset i, and the
  i-th places of two lists without repetition meet once. *Storefront*: a load's items up to where it has got contain whatever was
  for sale all along. *Reserves*: the page is down exactly when a join over these two lists throws.
* *Boot*, *registry*: once the server is up, every chain in use is in the bundle and is named by a variable or is the registry's choice (`InPlay`), the bundle is what the
  files say or the committed one (`FilesOK`), and a read by a lane is of the chain `/api/env` names; the check stays true through the writes of
  later builds until an edit.
* *Figures*: types suffice. Both healths are a weight over a debt; the sum with the lower factors is the lower one (`SumAtMost`), and cutting both off at the same
  ceiling keeps the order. The outlook multiplies the health shown by the old debt and divides by the new: what is cut off can only make the promise smaller.
* *Faucets*: a claim in flight is the one behind the phase; a marker read under way is of the connected wallet. On the EVM
  page a receipt is of a claim that was paid, and the phase agrees with the answer known of the connected account.
* *Liquidate*: what a run's stage says of its transaction and its account (`LiqRunFits`); what stands below the field is about
  the field (`LiqAbout`); while the market rests an account leaves the water by an absorb alone, so that what was once true of it is true or it was absorbed
  here (`LiqResting`); scans do not overlap (`LiqScans`), and what was absorbed is in no scan still under way, nor in the list
  after it (`LiqDropped`). After a whole scan the table is the world's, entry by entry.
* *Form*: `FormInv`: an amount was typed for the selected row or the list changed under it, and the action is one of the row's tabs or was carried to it.
* *Panel*: types suffice, as reads are whole; the proof is about arithmetic. For each action there is a lemma that says which of the
  limits binds, one on what 999/1000 leaves, and one on how `Capacity`, a sum, changes with one balance.
* *Portal*: unless a flow slipped behind another, at most one flow runs, for what the modal is open for, and the modal cannot be
  closed under it (`PortalAlone`). Accounts are solvent. *Modal*: an amount in the field was typed after the modal was opened for its row.

Two proofs that failed have corrected the models. The panel's `RefusedForCause` and `ReasonIsTrue` were true of small amounts only:
the haircut refuses amounts up to a thousandth below the limit, which TLC's amounts never reach; they are now stated with what the haircut takes
(`More`, `Beyond`). And the portal's case distinctions had guards that overlap, which leaves the value open; they are disjoint now, in the order of the code.

### 6.5 The developer tools

What `dev_pages` says of a flow that ends is a statement about all of its transactions: which of
them were skipped, which landed, with whom they shared a nonce, and what was read in between. An invariant has to say the
same of a flow in the middle. What a handler still has to send is a *plan* (`PendOf`: without the
transaction that landed and is not confirmed yet). A relation says what one leg does to some amount, and a
*path* (`Along`) follows a plan from an amount now to an amount at its end. Every step of a handler takes the first
transaction off the plan and the first step off the path (`AlongTail`, `AlongStill`, `AlongCat`); building
a flow is concatenating plans. Four relations serve:

| Invariant | Relation | What it says |
|---|---|---|
| `Promised` | `Moves` | the plan leads from what wallet, synthetic and Comet are worth now to what the button promised, exactly |
| `Closed` | `Owes` | what is allowed to the Comet now is used up by what is still to be executed |
| `Emptied` | `Holds` | so is what the synthetic holds, but for the faucet's gift |
| `Drawn` | `Draws` | the base supply is never below what the rest of a withdrawal takes |

`Closed` and `Emptied` hold while nothing failed. They are stated for all handlers together (`Covered`): on the switched harness two
flows put into the same synthetic, and only the sum of what their plans will take away again bounds what it holds; `SumLemmas` does the rest. A landing that is not
the handler's own empties its `goal`, so that `Promised` claims nothing after it. A plan may be shortened by what is there already
(`Skip`). A reading in its middle (`LookBuy`, `LookBought`), after which the handler knows how much it has to send home, is a leg of the plan too: it stands for
the return of all that it will find. On the probe nothing is sent home, and the flow begins anew with what was found.

Beside these: `Flow` (types, with the shapes of plans and the nonces), `Activating` (each account and table that Activate needs is
there or still in the plan), `Guarded` (until the wallet is switched away, `busy` is up while a flow or a load runs, one
flow runs, and what the last check found is nothing: it ran at a moment at which the synthetic was empty). For the history `TabInv`: a list has each landed
signature once, a line of the log is listed unless the list was cleared, and a transaction still waited for is not listed in its
own tab.

The proof changed the models where they could not be reasoned about: the order of the assets was a CHOOSE of the model and is a constant now, as the
Comet has one; the two instances of the harness became one. It also corrected two properties. `DrawdownOnly` claimed
that no step of a withdrawal opens debt, which the landing of an older transaction does in a larger instance; it is about the
withdrawal's own steps now, as the driver's comment is. `DrivenClean` now says "holds some token" and not "the sum of its holdings is positive".

### 6.6 Sums

The library defines a sum over a finite set by recursion on subsets. `SumLemmas` proves that the recursion has a
solution and no other, by least counterexample on the number of elements, and from that
what the proofs need: a sum is an integer (natural, 0) if its terms are, may be taken in any order, changes by as much as one of its terms, and is
monotone in its terms and, where they are not negative, in its set.

### 6.7 Only model-checked

All liveness (`WaitsOnlyForUser`, `PollTerminates`, `SideEnds`): fairness and ENABLED are out of reach of the provers. Induction over data and RECURSIVE operators are
out of reach too, and no property here needs them: sums are treated in 6.6, the lists of the models are bounded or
sequences whose order is given by position.

The five runs of section 7 refute what they check, so there is nothing to prove.

## 7. Where the code and its words differ

Five disagreements have a run whose counterexample shows them:

1. `solana_crossed_sweep`: the sweep's destination is captured before an await and its
   signer after it (`useSolanaLane.ts:775`); with wallet switches between them one user's tokens go to another's account.
2. `evm_reverted`: the receipt's status is never read (`useEvmLane.ts:485`); a reverted or
   replaced transaction is a "successful action".
3. `submit_expired`: a transaction confirmed between the status read and the height read is reported as
   expired (`submit.ts:343`).
4. `liquidate_hidden`: the health of a listed account is weighed with the factor `absorb` pays and not the one that
   makes it liquidatable (`enrichLiquidatable.ts:128`), so the default filter of "health at most 1" hides accounts between the two.
5. `borrow_carried`: a borrow that is on when a collateral's row is clicked stays on and is submitted
   (`LaneApp.tsx:177`): the amount is priced as collateral and borrowed as base.

Seen while modelling, without a run of their own.

**Solana lane and its transactions**

* A borrow on top of base supply withdraws supply and amount (`useSolanaLane.ts:853`) and sweeps the
  amount; the supply stays in the synthetic, which `syntheticTransientFlows.ts:5` says holds nothing at rest.
* A transaction of the account that executes between the read of the base supply (`useSolanaLane.ts:846`) and a borrow's withdrawal makes
  the debt differ from what was asked, although the comment at :849 has the supply drained "first": a supply of another tab, or
  one that an earlier action gave up on (`submit.ts:311`, `:335`), leaves too little debt, a late withdrawal too much.
* `signPlan` is not cleared after a flow, against `types.ts:207`; the EVM lane clears it (`EvmLane.PlanMatchesPopup`).
* A flow that ends after a disconnect or a switch shows its banner to whoever is connected by then. `lastResult` and the
  optimistic rows survive an account switch.
* A direct account switch leaves the previous account's verdict in place until the new check returns
  (`useProvisionedCheck.ts:73`), so an owner can be sent to Activate meanwhile, against the comment at :86-87. The gate looks at the account's PDA only (`useSolanaLane.ts:551`): one without all of its token accounts counts as activated. A failed activation sets an error that the Activate screen covers (`LaneApp.tsx:98`).
* The memo of the chain-aware signer depends on the wallet and not on its public key: after an account switch inside
  the wallet it still asks for the previous account, and signing fails until the next connection, while `signWithChain.ts` says
  "the connected account is the adapter's publicKey". A standard wallet with no accounts gets an empty list; an unknown cluster throws in render.
* Choosing the wallet that is already selected only stashes the pick, although `useSolanaConnect.ts:50-51` says "connect now".
* The asset list of the build's chain may stay after the deployed chain resolves while connected, until the next
  action (`useSolanaLane.ts:350-356`). A list that a late answer has overtaken stays as long (:340), and is only kept out of the caches. A list that was read in part is cached for the session.
* `ensureAlt` promises a table with all keys and waits for one that has any (`alt.ts:190`, :73-74). Two devices can create
  two tables at a time, and the later one takes over the pointer.

**Action panel and figures**

* The panel has four exceptions to "what it allows lands" (`LaneActions.Unchecked`):
  it compares `baseBorrowMin` with the ceiling and not with the amount typed; on
  the Solana lane it never reads the supply caps; a figure it could not read does not
  limit; and a Solana borrow takes out the supply as well as the amount. With both reserves and minimum
  missing there is no limit at all, while `mapEvmPosition.ts:240` explains why an unknown figure is not an unbounded one.
* A failed `borrowBalanceOf` reads as no debt on either lane (`solanaReads.ts:163`); `walletUnknown` is computed and read by nobody.
* "Below the protocol minimum borrow" is also the reason given for amounts above the minimum that exceed the ceiling.
* On the EVM lane a borrow on top of base supply only withdraws supply; the capacity row overstates what it costs.
* A silent base feed makes the debt worth 0 and the health infinite (`stats.ts:150`), against the comment at `positionStats.ts:79`.
  A first borrow up to the capacity gets no warning of a thin health. The health after is understated where the health shown is clamped.
* Several rows called "asset" share a symbol: a click on the second selects the first. When a symbol resolves, the selection
  falls back to the first row while amount and action stay. The title of the progress card follows row clicks.
* An optimistic row values an asset with a silent feed at $1 a token, the log's row at $0; with stand-in decimals the Solana
  lane sends another amount than the row says. A repayment's log row says "Supplied", a borrow's "Withdrew". The same EVM transaction can be listed twice
  (against `laneActivity.ts:150-158`). The feed of the previous account stays until the next successful read,
  and no timer brings that: the list is read again when the position's data or the metadata change. `useEvmLane.ts:349-352` says that it
  "re-runs each time the position refetches", but data that did not change keeps its identity; on the EVM lane, where a read is not cancelled, the list of another account may
  stay until something changes (:343). A row of an account that still submitted when it left is added to the next one's list (`useSolanaLane.ts:697`).

**Liquidate and faucet pages**

* The answer of a check or an absorb is applied to whatever address the field
  holds by then (`LiquidateView.tsx:175`), and of two overlapping scans the one that returns last
  wins, which may be the older one. The receipt's status of an absorb is not read (`app/evm/liquidate/page.tsx:155`).
* The empty table says "chain is healthy" also before any scan, after a failed one, and when the size filter hides accounts. "Live · 30s tick" has
  no timer. A row's state is kept by address: an account absorbed once has no button when it is under water again. Collateral and debt filters do nothing.
* On both faucet pages the phase outlives the account. The Solana page keeps "Funds dropped" when the
  wallet changes (`page.tsx:50`). The EVM page keeps the hash of its last
  claim: once that is mined, the click of a second account is called successful at once
  (`page.tsx:103`), a claim that reverts stays on "claiming", and an error has no retry.

**Portal**

* The block of a borrow compares the amount with the supply of the last poll (`ActionModal.tsx:180`), which may have moved since.
* The repay preview shows the debt unchanged and base supply raised (against `ActionModal.tsx:18-22`); the leverage preview ignores base
  supply; buttons of the supply table open for nobody connected; late answers of a previous account are not held back; the
  comment that the banner "surfaces after close" (`CompoundPortal.tsx:742-746`) holds only for a flow whose modal was closed unseen (`StatusIsHonest`).
* The leverage preset "PCOL" stays when the registry has none, and the flow then ends in "Unknown collateral symbol". The collateral picked last
  survives closing. Collaterals that are not listed share the entry "asset", and their rows open the modal for the base. Inputs can be edited while a flow
  runs. Max for a borrow ignores capacity, Max for a withdrawal Comet's cash. The gauge says "Safe" of a debt when the threshold is 0 (`stats.ts:152`).
* `CompoundPortal` is mounted by no page.

**Server, boot and registry**

* The proxy's chain is resolved from the build's and the server's environment, the page's from `/api/env` (`romeRpc.ts:15`, comments :9-11 and `env.ts:57-59`): with
  `DEFAULT_CHAIN_ID` alone the page is on the chain it names, and its positions are answered by the registry's choice (`ProxyFollows`). A blank
  `NEXT_PUBLIC_DEFAULT_CHAIN_ID` is chain 0 and closes the gate; an `/api/env` that failed is not asked again; `validateEnv` rejects a chain that is
  pinned only in the build; the landing page and the harness pages use the build's chain.
* Two enumerations of the same assets can lose different ones, and the rows after the first loss then carry another asset's figures (`onchain.ts:129`);
  `cachedMarket.ts:36-41` says that a tier caches nothing "on an RPC failure", but an entry of a batch that fails is cached as 0 (a size, a price, decimals), and a candidate whose
  `isLiquidatable` fails as one who may not be liquidated (:207-217); the landing page makes do with whatever part of the indexer it got; unknown chains use up the revalidation window; a fill that overlaps a revalidation stores older data for its lifetime.
* `useReserveStats.ts:109-112` "must yield null, never crash": an answer that lost a collateral throws, and the page is down until a reload.
* `cachedMarket.ts:81-82` and `config.ts:93-98` claim one Comet for both lanes and the leverage flow; the Solana lane and the driver use the
  primary one, and the parts disagree in the cases that `RegistryEntry.PartsAgree` names. A build takes every failure of the loader for a missing checkout.
* The storefront says "no seized collateral" also when its first load failed; `availableLiquidityRaw` is the physical balance, not what Comet can send (`stats.ts:98-100`).

**Developer tools**

* The harness's load of a position clears the flows' `busy` flag (`app/flows/page.tsx:399`); its Activate takes a PDA and a
  stored table for a whole activation (`:617-621`), also when token accounts are missing. A transaction that a flow gave up on may land during a later one (:816): that history is
  `torn`, its `goal` empty, and the properties claim nothing of it.
* The probe says that no allowance stays; approve and action are separate transactions (`app/discovery/page.tsx:739`, :1368, :1567). Clearing the history is undone
  by the next line of the log; two tabs overwrite each other's list; it is shared by all wallets.
* `drive-flows.mjs:13` lists `all` as supply, withdraw, borrow, repay, sweep; the code runs supply, borrow, repay, withdraw. "Never accidentally open a borrow" can be broken by the transaction of a process killed earlier.

## 8. What is not modelled, and why

* *Shared EVM reads* (`lib/flows`, `lib/hooks`, `lib/portal/reads.ts` outside `MarketRead`): stateless reads; what they return is
  what the models' reads choose from.
* *Nonce tracker*: `SyntheticNonceTracker` has no caller; every submission reads the nonce from the chain.
* *Hooks and components without a caller*: `useWalletBalances`, `useRecentActivity`, `useUnhealthyAccounts`, `HistoryEventList`,
  `HistoryFilterRow`, and the mock wallet and mock lane of the tests.
* *Read-only output of the developer pages*: the panels that print accounts, the look-ahead of the probe, page gates. The driver's
  `selffaucet`, whose contract is not in the repository.
* *Position query*: the key that keeps one identity's answer from another is TanStack's; when the queries run is in `ChainBoot`, what a refetch leaves in `LaneActions`.
* *Transaction encoding*: instruction layouts, ABI, types and constants are data; rates, earnings, rounding and number formatting are left out where no property is about them.
* *Operator scripts* that make tables and registry entries: an operator runs them once, by hand.
* *Presentation*: `components/ui`, `components/landing`, CSS, and `design`, whose pages are not part of the application.
* The wallets', Comet's, the Rome EVM's and TanStack's own code is external.
