# Formal verification of mo-backend

mo-backend is the server of a marketplace where a purchaser and a provider agree
on a project, its milestones, penalties and royalties; the money goes through
three Solidity contracts on the Hedera network and the rest lives in a Postgres
database behind a NestJS service. This directory holds TLA+ models of the parts
where the order of events decides whether money and records stay right, the TLC
configurations that check them on small instances, and proofs checked by TLAPS.

Paths below are relative to the repository; `S` stands for `src/src`.

## 1. Inventory

| Component | State | Operations | Hard behaviour | What makes it correct |
|---|---|---|---|---|
| Escrow, Milestone, Royalty contracts (`S/smart-contract/*.sol`) | balances, milestones, sub-milestones, royalties, owner, fee, allocated totals | add, fund, change state, pay, release | any sequence of calls by any wallet, truncation, refused token transfers, staking rewards, time | nobody is paid twice or more than agreed, royalties only after the payout, one milestone's payout leaves the others their funds, deadlines move by revisions only |
| Escrow deployment (`S/hedera/hedera.service.ts` addEscrow, `S/project/project.service.ts` addEscrow) | row of table Escrow, project state, contracts on the chain | deploy, stake, add milestones in batches, transfer ownership, save | overlapping requests, refused and lost transactions, crashes, retries from a row | the row is true of the chain, the platform hands over what it deployed, a retry is possible, all milestones are deployed |
| Mirror of the contract (`S/project/project.service.ts` getTransactions, updateMilestoneStatus) | tables Milestones, Funds, Transactions, ProjectDetails | apply the events of a transaction, change a status | events applied twice, late, concurrently; read-modify-write of funds | flags and left fund follow the chain, end states are final |
| Project life cycle (`S/project/project.service.ts`, `project.repository.ts`, `project.draft.service.ts`) | Projects.state and editor, members, milestones, Funds, Escrow row, drafts; individual providers, permissions, sub-milestones | create, save, draft, accept, deploy, delete; add, remove and permit individual providers; add sub-milestones; show a project to a member | states read and written in different queries, steps that fail half way, batches half stored, two requests at once | turns alternate, accepted terms were proposed by the other side and stay, an accepted project has its rows; whoever has access has permissions and sees no more than they allow; every sub-milestone has a number and its funds |
| Disputes (`S/dispute/dispute.service.ts`) | row of table Dispute | raise, propose a resolution, agree, close, legal way | two parties answer at the same time, the administrator proposes meanwhile | resolved exactly when both agree, final states final |
| Accounts (`S/auth/auth.service.ts`) | users, verification, reset and invitation tokens, one-time passwords, profile, collaborators | sign up, log in, verify, resend, reset, change password, invite, select role, fill in the profile | a token used twice, replaced while in flight, mails that arrive late, in another order or never, death between user and token | a user can always get verified, only the newest link or code of a kind works, a token works once |
| Drafts, notifications, queue, teams, administration | single rows | single queries | none between them | - |
| Storage, e-mail, configuration, interceptors, controllers | none of their own | input and output | - | - |

How they interact: controllers call services, services call repositories (Prisma)
and HederaService, which sends transactions to the contracts and reads their
events back from a mirror node. The browser sends the contract transactions of
purchaser and provider itself and reports their hashes to `POST
/project/transaction`; the server never hears from the contracts on its own.

## 2. Plan

In this order, the most important first.

1. **Done.** Contracts: `EscrowPlan`, `Ledger`, `MilestoneContract`,
   `RoyaltyContract`, composed by `EscrowContract`, which implements the abstract
   `PaymentPromise`; `EscrowProofs`.
2. **Done.** `EscrowDeployment`, `DeploymentProofs`.
3. **Done.** `MilestoneChain` (what the server can see of the contract) and
   `MilestoneMirror` (the database that follows it); `MirrorProofs`.
4. **Done.** `Dispute`, the protocol of resolutions and answers.
5. **Done.** `ProjectFlow`, which implements the abstract `Agreement`;
   `ProjectFlowProofs`.
6. **Done.** `Accounts`; `AccountsProofs`.
7. **Done.** `ProjectView` and `Delegation`: individual providers, permissions and
   sub-milestones (`addIP`, `modifyIp`, `updatePermissions`, `addSubMilestone`) as
   further requests of `ProjectFlow`, composed with all of its own, and what each
   member is shown; `DelegationProofs`.
8. **Done.** `DisputeProofs`.
9. **Done.** Every safety property and every refinement a run checks is proved:
   sums (`Sums`) and with them the sums of `EscrowProofs`; the whole of
   `MirrorProofs`; the tokens of `AccountsProofs`; ownership and retries in
   `DeploymentProofs`; what `ProjectFlow` promises, proved again of `Delegation`.
   The liveness of a deployment (RequestsSucceed) is the one that stays with TLC.
10. Next, to model: the documents of deliverables (`uploadDeliverables`,
   `uploadWeb3Storage`) beside the mirror, the shortlists of providers; an abstract
   specification of the row `Escrow` that both `ProjectFlow` and `EscrowDeployment`
   follow.

## 3. Modules and the code

| Module | Models | State | Actions |
|---|---|---|---|
| `EscrowPlan` | what the parties agreed on: amounts, dates, revisions, penalties, royalties | none; constants and their assumptions | - |
| `Ledger` | balances of wallets and contracts, the fee, time and staking rewards | `ledger`, `moFeePercent`, `rewarded`, `now` | `PayFrom`, `FundFromPurchaser` for the contracts; `Tick`, `StakingReward` of the network |
| `MilestoneContract` | `Milestone.sol` | `milestoneIds`, `milestones`, sub-milestones | the functions of the contract, as operators `Escrow.sol` calls |
| `RoyaltyContract` | `Royalty.sol` | `royalties` | likewise |
| `EscrowContract` | `Escrow.sol` with the two above | `owner`, allocated totals, token allowance | one action per external function, its caller a parameter |
| `PaymentPromise` | abstract: each milestone is paid once, then its royalty settled once, from pots that were filled | `agreed`, `paid`, `settled`; the pots | `Agree`, `Deposit`, `Pay`, `SettleRoyalty`, `ReturnExcess` |
| `Sums` | lemmas about sums over finite sets | none | - |
| `EscrowProofs` | theorems about `EscrowContract` | | |
| `EscrowDeployment` | `ProjectsService.addEscrow`, `HederaService.addEscrow`, `createTopic` | `escrow` (the row), `project`, `contracts`; per request its program counter and local variables | one action per transaction or query, in which it may also be refused or its receipt lost; crashes |
| `DeploymentProofs` | theorems about it | | |
| `MilestoneChain` | the contract as the mirror node shows it: states, payments, event logs | `chain` | one operator per transaction the browser sends |
| `MilestoneMirror` | `getTransactions`, `updateMilestoneStatus` | rows of Milestones, Funds, Transactions, ProjectDetails; requests in flight; transactions not reported yet | `Send` a transaction, `Report` it, one action per await |
| `MirrorProofs` | theorems about it | | |
| `Dispute` | `createDispute`, `updateDispute` | the row, the update each request is about to write | one action per branch that decides, `Write` |
| `DisputeProofs` | theorems about it | | |
| `Agreement` | abstract: terms are proposed in turns, accepted once, deployed or withdrawn | `stage`, `turn`, `terms` | `Open`, `Propose`, `Accept`, `Deploy`, `Withdraw` |
| `ProjectFlow` | `addProject`, `saveProject`, drafts, `acceptProject`, `addEscrow`, `deleteProject` | the rows of one project, what each request read | one action per query or database transaction |
| `ProjectFlowProofs` | theorems about it | | |
| `ProjectView` | `filterProjectMetadata`, `getAllowedChat`, `getNotes`, the permissions given to new members | none; functions of the rows | - |
| `Delegation` | `ProjectFlow` with `addIP`, `modifyIp`, `createProjectProvider`, `deleteProjectProvider`, `updatePermissions`, `addSubMilestone`, and what saving and deleting a project do to these rows | those of `ProjectFlow`, the individual providers, permissions, sub-milestones and their Funds; what each request carries (`task`) | the requests of `ProjectFlow` with the rows of this module (`Flow`), `Staffing`, `Splitting`; `ChangeStatus` and `StartWork` stand for the mirror |
| `DelegationProofs` | theorems about it | | |
| `Accounts` | `AuthService`, `addToUsedUsers` | one user, the token rows, mails handed over and arrived, the collaborator row, what each request read | one action per query; `Arrive` of the mail service |
| `AccountsProofs` | theorems about it | | |
| `MC...` | small instances of each | | |

Conventions. A handler is cut at every `await` that reads or writes shared state
(database or chain) and at no other; what it read is kept in the record of the
request (`request`, `task`, `body`, `pc` with its locals). Anything between two awaits,
early returns and thrown errors included, is one action. A Solidity transaction is
one action: the network executes it alone and undoes it when it reverts, so that a
reverted transaction is no step. Numbers of the models stand for rows, versions
or tokens that are only compared. Definitions whose names begin with `Faulty` are
plausible bugs of the definition after them; no action uses them, and putting one
in the place of the original must violate the property it was written for.

`Delegation` extends `ProjectFlow` and repeats none of it: each of its requests is
either one of `ProjectFlow`, conjoined with what it does to members, permissions and
sub-milestones (`CreateProjectWithPurchaser`, `SaveProjectWithMembers`,
`DeleteProjectWithMembers`, and `Elsewhere` for those that touch none of these rows),
or one of its own. Two transactions of the repository give up on conflicts that only
the added rows show, and are added as such: a save that names a member again is rolled
back (`RollBackSave`), and a project whose sub-milestones have Funds is not deleted.
A request calls `getMilestone` and `getMilestoneCount` one after the other for every
item; the model merges the two, since of the first only a comparison is kept.
`updatePermissions` is modelled with one permission for all users of its payload,
which are any users: nothing checks that they are members.

Three places of the code give the models more steps than a reader of one function may
expect.

- *Transactions that are not serializable.* `createProjectProvider` and
  `deleteProjectProvider` each send two statements in a transaction whose isolation is
  the default of the database, READ COMMITTED. The first of the additions takes the
  unique keys of the members and the second those of their permissions, so that adding
  is one step. A removal is two (`DeleteMembers`, `DeleteProjectProvider`): between them
  the deleted members are locked (`Locked`), and its second statement deletes what
  others committed meanwhile.
- *Ids the client chooses.* `saveProjectTransaction` and the repository's
  `addSubMilestone` update a milestone by the id in the request and set its project.
  With the fault `anyId`, the project loses a milestone to another one, accepted or not
  (`LoseMilestone`, `TakeAway`), gets one from another with or without its Funds
  (`FundsBrought`, `ForeignIds`), or has a main milestone turned into a
  sub-milestone (`SaveSubMilestone`).
- *Transactions of other contracts.* The server decodes the logs of whatever
  transaction it is told of and compares neither its recipient nor the address of its
  logs with the contract of the project. Scenarios that are `foreign` report any event
  with the ids of the project. Whether a whole project was funded is for the client to
  say (`functionName`, `forProject`), whatever the type of the project.

`MilestoneChain` states the same functions as `MilestoneContract` and `EscrowContract`
in the detail the events show, without amounts; `EscrowContract` keeps amounts and drops
events. In `EscrowContract` the token may refuse any transfer of a transaction and
execute the others (`Refusals`, `Transfers`). `ProjectFlow` keeps of a deployment that
it succeeds or fails and that it needs the row of `Escrow`; `EscrowDeployment` starts
from that row.

## 4. What each run shows

| Run | Instance | Shows |
|---|---|---|
| `milestones` | 2 milestones, HBAR, funded and paid one by one, any state asked for by anyone, a staking reward, a new owner | TypeOK; RoyaltyAfterPayout; AllocationExact (allocated totals are what was added); DrawBounded (a payout draws no more than its own milestone's fund, unless it is the last); KeepsPromise (implements `PaymentPromise`) |
| `work` | 2 milestones, 2 sub-milestones with an individual provider, penalties, a revision, time | IncomeWithinAgreement (nobody earns more than agreed); DeadlineMovedByRevision; DrawBounded |
| `project` | a project funded and paid as a whole in USDC, the fee changed meanwhile | ProjectPaidAsAWhole; KeepsPromise |
| `tokens` | milestones in USDC, any transfer refused without notice | IncomeWithinAgreement: a refused transfer is recorded as made, and never made up for with the money of another payout |
| `sub_payout` | as `work` | finding: a payout leaves sub-milestones unpaid on record |
| `deployment` | 3 milestones in 2 batches, 2 requests, nothing to everything failing | RowTruthful; DeployedIsOwned; RetryPossible; RequestsSucceed (liveness: without faults every project asked for is deployed, with all its milestones) |
| `deployment_batches` | the same, transactions refused | finding: a project is deployed with part of its milestones |
| `mirror` | 8 scenarios: clients that report in order, late or twice, or transactions of other contracts; amounts whole or rounded; requests one by one or overlapping and cut off | TypeOK; FundsTruthful (what the database says of money happened on the chain); EveryReworkCounted (one request at a time, a rework uses up a revision that was left); ProjectStatusCurrent (the status of the project is what its milestones say, if it has any); MirrorExact (orderly clients: an exact copy once everything is reported); EndStatesFinal |
| `mirror_documents` | 2 milestones sent back | finding: the second rework deletes the documents of all |
| `dispute` | 3 resolutions, 2 requests | EndedForAReason; ResolvedWhenAnswered; AnswersCurrent; DisputeEndsOnce |
| `project_life` | 2 providers, 2 milestones, 4 versions, 2 requests; 2 sub-milestones in batches of up to 2, 2 kinds of permissions granted; overlap and death on and off, clients that send what is rejected or name milestones of another project | TurnsKept; AgreementKept; OneProvider; DeployedHasFunds; AcceptedHasRow; FollowsAgreement (implements `Agreement`); MembersHavePermissions; SubMilestonesFunded; NumberedUniquely; NothingInherited; ViewsAgree; ModifiedAsAsked |
| `accounts` | 3 tokens, 2 passwords, 2 requests, overlap or death, mails in any order or lost | AlwaysVerifiable; LatestMailWorks; TokenWorksOnce |

Several properties name the faults under which they hold. That is a result of its
own: without the condition TLC finds the counterexample. In particular

- with two deployment requests in flight DeployedIsOwned fails: the later save
  overwrites the row of the contract that was handed over;
- with a lost receipt or a crash RetryPossible fails: the step was done, the row
  does not know, and every retry is refused by the contract;
- with overlapping reports `leftProjectFund` loses an update, and a status written
  late reopens a milestone that had ended; two reworks that overlap write the same
  count, so that the milestone goes back once more than agreed (the counter itself
  stays within the agreed number, which is why no property is about it);
- with logs of another contract every flag of Funds can be set with no payment on the
  project's own: of FundsTruthful there remains that what is marked as paid is recorded
  as a transaction. In a project funded by milestones whose amounts are no whole
  numbers, `leftProjectFund` may end off zero by a rounding, and `fundTransfered` with it;
- with overlapping saves the later one takes an acceptance back, because it writes
  the state it read, and names a second provider; a deployed project is protected
  from deletion only by its rows of Funds;
- a request that dies inside `acceptProject` leaves a project in ADD_ESCROW without
  Escrow row: `addEscrow` throws on it and nothing creates the row any more;
- a batch of sub-milestones that is rejected at its second item, or dies, leaves the
  first without a row of Funds for ever; two batches at once, or one saved again,
  give two sub-milestones of a milestone the same number;
- with overlapping requests `modifyIp` compares with members that are no longer the ones
  it then changes. With three of them it can remove the provider whose turn it is, or
  who accepted: a save names that provider again between the two steps of a `modifyIp`
  that was to remove them as an individual. Two requests cannot do it, so that the run
  never saw it; the attempt to prove TurnsAlternate of `Delegation` did. Two removals of
  one member that overlap, with an addition of that member between the statements of the
  later one, leave a member without permissions. TurnsKept, AgreementKept and the second
  part of MembersHavePermissions name the exception (`Settled`);
- with ids of milestones that are not the client's to name, an accepted milestone is
  edited, taken away or turned into a sub-milestone by a single request that overlaps
  with nothing: FollowsAgreement, DeployedHasFunds, AcceptedHasRow, NumberedUniquely
  and SubMilestonesFunded except such clients (`OwnIds`);
- a project counts as funded as soon as nothing is left to fund, so before the
  milestones that cost nothing are; MirrorExact, which first said otherwise, could not
  be proved for prices of zero or a project without milestones, and now says so;
- when both parties answer a resolution at once neither sees the other's answer,
  and the dispute is never resolved; a late write reopens an ended dispute;
- when sign-up dies after the user was created, `resendVerifyEmail` finds no token
  row and throws, and the address cannot sign up again; two first requests for a
  link or code create two rows; a link used twice at once changes the password
  twice and reports a failure for the second change;
- `sendEmail` does not wait for the mail service, and nobody learns of a mail that was
  refused: LatestMailWorks therefore speaks of the tokens that were handed over, not
  of what arrived last. A newer mail puts the older out of use even when it is lost.
  The reset link of an account that was made by Google never works, since its
  password to compare with is null: LatestMailWorks excepts it (`NoPassword`).

### Findings

The three violation runs of section 4 are disagreements between the code and what
the repository says of it; PROJECT.json quotes the lines: the sub-milestone payout
written to a copy in memory (`Milestone.sol:632`), the batch that is recorded as all
milestones (`hedera.service.ts:520`), the filter on a column that was not selected
(`project.service.ts:1894`).

Smaller observations, without a run of their own: `Enums.sol:27` says of
FORCE_CLOSED that only the purchaser may ask for it, `checkStateChange` lets anyone;
`schema.prisma:718` says RESOLVED is set "Only by MO", the second answer sets it;
`schema.prisma:723` says `inFavourOf` is filled when resolved, it is filled with the
resolution; `releaseStakingReward` (`Milestone.sol:741`) splits the whole balance, so
that what a second funding of a milestone brought counts as a staking reward;
`deleteProject` relies on a cascade that the required relation of Funds refuses;
`addIP` asks for the role PROVIDER only, which individual providers have too;
`saveProject` says "Purchaser cannot assign an IP" and tests the role the request
carries in its body; an individual provider who is removed keeps the sub-milestones
assigned to them; one to whom only `MilestonesShowAll` is granted is shown all
milestones and no longer their own work, which is nested in none of them then.

## 5. Bounds

- Two requests in flight. Every race of the code is between a read and a write of
  the same row; a third request adds no new pair of
  accesses, but it can add a state the pair starts from (see `modifyIp` in section
  4). The theorems of section 7 hold for any number, and cover every safety property
  of the runs.
- Two milestones, two sub-milestones of one of them: one to act on and one that must
  not change; one that is paid and one that waits. Three milestones in two batches
  where batches matter (`batchSize` is 7 in the code).
- Amounts of two digits with one odd five, so that a fee of 10.5 % (`initialFee`
  1050) truncates: 10, 15, 27; a surplus of 3 so that `msg.value` exceeds the price.
- `UINT32_MAX` 9 and `MaxTime` 3: deadlines before, at and after now, and a grace
  period that ends in between. `calculatePenalty` adds durations to dates in 32
  bits and reverts on overflow, which happens within the bound.
- The runs in USDC have no reward and few funds: there every transfer is a choice.
- `MaxReward` 1: a reward that is odd and must be halved.
- `Scenarios`: what fails and what clients send are chosen together, so that the run
  covers the life of a project under any faults, the requests of `Delegation` with
  nothing that fails, all of them with requests that die, and members who come and go
  while requests overlap and die, and clients that name any milestone. Overlapping
  batches of sub-milestones are left to the proofs: no property speaks of them.
- `Staffable`: these requests start while the terms of a project are discussed or its
  contracts are deployed, the first and the last state that allows them; one milestone
  is divided. `MaxItems` 2: a first item that is stored and a second that is not.
- `MaxTerms` 4: every state of a project is saved by both sides and once more late.
- `MaxResolutions` 3: a resolution answered, one after the legal way, one late.
- `MaxTokens` 3: a token replaced, and one of another kind beside it.
- `LowestLeft` -2: nothing is reported while `leftProjectFund` is below, where double
  reports would take it; `Roundings` -1 to 1: a difference of two doubles is exact or
  off either way, in units that are as small as one likes.
- `ForeignIds`: two ids of milestones of another project, each of which may come
  with its row of Funds. `Grantees`: permissions are given to one user at a time,
  a member or not. The scenario with foreign transactions has one milestone and
  requests that do not overlap.
- `MaxContracts` 3: each of two requests deploys, and one deploys again.

Runs in which the system may stop (a project that is paid, deleted or out of
versions) say CHECK_DEADLOCK FALSE; the contract runs need not.

## 6. Fairness

Only `EscrowDeployment` assumes any: weak fairness of each request that was accepted
(`Continue`). The code justifies it: an accepted HTTP request runs on as long as its
awaits return, and in RequestsSucceed nothing fails. No fairness is assumed for
users, wallets or the network, so that no other liveness property would hold: a
party may never answer, a transaction may never be reported.

## 7. What is proved

All theorems hold for every value of the constants that satisfies the named
assumptions of the modules, which every run evaluates too: any number of milestones,
providers and requests in flight, any prices, dates and penalties. Every invariant,
action property and refinement that a passing run checks is the statement of a
theorem; PROJECT.json lists which.

Below, a property that depends on what cannot be seen between two awaits is proved
from an invariant about each request in flight: what it carries is still true, or
nobody else can have changed it. Conditions such as "where requests do not overlap"
are those of the properties, not added for the proofs.

**`Sums`**. `MapThenSumSet` is a recursive function on the subsets of a set, which
TLAPS can only expand. `MinimalSet` takes the place of induction: of the subsets a
claim fails for, one contains no other. From it follow that the function exists
(`TableExists`) and is unique, what happens to a sum when a set gains an element or a
value changes, sums of smaller values, and sums over two sets.

**`EscrowProofs`** (assumptions `PlanAssumption`, `LedgerAssumption`,
`EscrowAssumption`; there are finitely many milestones). TypeCorrect: one lemma per
helper (`PayFromLedger`: a payment leaves balances natural because it is made only if
covered), then one per group of actions. RoyaltyWaitsForPayout follows from it, because
no action takes a milestone out of the paid ones (`FundKeepsPaid`,
`ChangeStateKeepsPaid`). EscrowKeepsPromise is the refinement: every action maps to a
step of `PaymentPromise` or a stutter. ProjectIsPaidAsAWhole is an action property of
the same steps. DeadlinesMoveByRevision is inductive item by item (`KeepsDeadline`).
AllocationIsExact: each action changes an allocated total by what it adds to the sum.
IncomeIsWithinAgreement: the parts a milestone is paid out in (`PaidParts`) add up to
its amount, each part loses a truncated fee and the fee is taken of the whole
(`FeeOfParts`: truncating the fees of many parts loses at most one unit for each), so
that a step brings the providers no more than it adds to what is paid (`IncomeStep`),
whichever transfers are refused (`PayFromIncome`). DrawIsBounded is an action property
from the type invariant and the same arithmetic.

**`DeploymentProofs`** (`DeploymentAssumption`). RowTruthful is not inductive: what a
request writes at the end depends on the row it read and on what it did since.
`DeploymentInv` adds for each request that its row is truthful (contracts only grow,
`Grows`), that an address is known only after the deployment (`Addressed`), that what
it did is on the chain (`Held`) and that its program counter tells what that is
(`Where`). RowNeverLies follows for any faults and any number of requests.
DeployedProjectsAreOwned adds that a topic is only made when the row says the contract
was handed over (`OwnedInv`). RetryIsPossible needs the converse of RowTruthful while
nothing gets lost: what neither the row nor the request in flight says was done was
not done (`RetryInv`: `Clean`, `Accounted`).

**`MirrorProofs`** (`MirrorAssumption`, `ChainAssumption`; there are finitely many
milestones). `Inv` holds whatever clients send and however reports overlap: every
transaction of the project's contract, sent or half reported, is true of the chain for
good (`Truthful`, `Grows`), every one under way is recorded before its flags are set,
and a request that is about to write a rework holds a count that leaves room for it
(`Sound`). MirrorTypeCorrect and FundsAreTruthful follow. Where requests do not overlap,
`Serial` adds that what the one request read or counted is up to date (`UpToDate`),
which gives ProjectStatusIsCurrent, EndStatesAreFinal and ReworksAreCounted.
MirrorIsExact is the largest: while a transaction is being reported the database is not
a copy of the contract, so `ExactInOrder` says in each state what it is a copy of, less
what the one transaction under way (`Active`) has not yet written: events not in table
Funds (`Owed`), prices not taken off (`Unpaid`, `Counted`), states not written
(`Unwritten`). A row that is not written yet is one the server will accept the change of
(`Coming`), since a client that waits for its reports sends only such changes. When
nothing is under way (`AtRest`) all of these sets are empty.

**`ProjectFlowProofs`** (`ProjectFlowAssumption`). For any faults, `FlowInv` adds that
what a request is about to write names the two sides of the project (`Sides`), from
which `DelegationProofs` takes that turns alternate. For requests that do not overlap,
`UndisturbedInv` adds that one request runs at most, that what it read is still true
(`Current`) and which rows belong to which state (`Books`): OneProviderAlone,
DeployedIsFunded and the refinement AgreementFollowed follow. AcceptedHasItsRow holds
for overlapping requests too, if none dies: of several that accept, whichever creates
the rows of Funds goes on to the row of Escrow (`RowInv`). These theorems are about the
specification of `ProjectFlow` alone; the next module proves the properties again of the
composition, which is what the run checks.

**`DelegationProofs`** (`DelegationAssumption` with those of `ProjectFlow`).
DelegationTypeCorrect uses `FlowTypeStep` for the requests it shares with
`ProjectFlow`; sub-milestones are finitely many, so that their number is a number.
MembersHavePermissionsAlways: that no one but a member has permissions holds for any
faults and any number of requests, because between the two statements of a removal its
members are still there for everyone, and locked. That all members have them holds
where staff requests do not overlap (`MembersInv`).
`FlowSteps` shows that every step of `Delegation` is, for the rows of `ProjectFlow`,
a step of that module, the end of a request, or the removal of a provider. With it
the theorems of `ProjectFlow` are proved again of the composition, from the same
invariants: DelegatedHasItsRow (`RowsInv`), and, because where members are removed
requests do not overlap (`Settled`, `PeopleInv`), TurnsAreKept, AgreementIsKept,
OneProviderRemains, DeployedRemainsFunded and AgreementStillFollowed (`TermsInv`).
For requests that do not overlap, `PeopleInv` says that one request of this module
runs at most, that what it carries still holds (`TaskHeld`), and that an individual
provider is never the CP and has, if nothing was granted, the permissions of a new one
(`Apart`): NothingIsInherited, ViewsAlwaysAgree and ModifiedAlwaysAsAsked.
NumberedAlwaysUniquely counts: no number exceeds that of the sub-milestones of its
milestone, and the one being saved has the next (`NumbersInv`).
SubMilestonesAlwaysFunded: those without a row of Funds are those the one request is
still to pay for (`FundsInv`).

**`DisputeProofs`** (`DisputeAssumption`). AlwaysEndedForAReason, for any overlap,
because the columns of a resolution are never emptied (`ReasonInv`). For requests that
do not overlap, `AloneInv` adds that what an update decided on is still true when it
is written (`Fresh`), and how the columns depend on each other (`Sound`):
AlwaysResolvedWhenAnswered, AlwaysAnswersCurrent and the action property EndsOnce.

**`AccountsProofs`** (`AccountsAssumption`). AccountsTypeCorrect includes that only
requests that sign up run before there is a user (`NobodyYet`). AlwaysVerifiableAlways
holds for any overlap: `VerifiableInv` adds that rows have ids of their own
(`Identified`), that one request at most is about to make the row of a verification, and
then there is none (`Single`), and that no request deletes it (`Harmless`). `LinkInv`
adds for the link of a verification, for any overlap too, that no token that was handed
over, or is about to be, is newer than the one in the row, unless the row has expired
(`Older`, `Sending`). For requests that do not overlap, `TokenInv` adds that there is
one row of a kind (`OneRow`), that the token a request carries is in it or is the next
to be (`Knowing`, `Working`), and that a token with a row was not used yet, unless the
request that used it is about to delete the row (`Unused`): LatestMailWorksAlways and
TokenWorksOnceAlways.

The type invariants of `EscrowDeployment`, `ProjectFlow`, `Delegation`, `Dispute` and
`Accounts` are proved and therefore not repeated by the runs.

## 8. What is only model-checked

- RequestsSucceed: liveness under fairness.
- The three findings: a violation needs one counterexample, which TLC gives.
- What the instances show beyond the statements of the properties, namely that every
  action is taken, and that each property fails when one definition is changed the way
  a plausible bug would (`Faulty...`).

## 9. What is not modelled

- *Contracts*: the 8-bit counters of the loops over milestones (with 256 of them each
  loop reverts), 256-bit overflow (the compiler reverts), the
  parsing of comma separated strings, `receive()`, changes of the fee address;
  wallets of individual providers are one wallet; an id occurs once in a batch.
- *Deployment*: the HCS topic beyond its success; gas and keys.
- *Mirror*: notifications and dates; the event MilestoneForceClosed, which no contract
  emits; RoyaltyReleased, which the server does not handle; HOLD, which no route
  reaches; `eventMapping`, which nothing calls. A mirror node that does not answer is a
  transaction not reported. `PATCH` with REWORK deletes the documents that match and
  then throws, as it carries none itself (`ReworkDocuments`). The order of the events of
  one transaction is left open, and `totalProjectFund` is the sum of the prices. A
  milestone on hold that is resumed resets its sub-milestones on the chain and not in
  the database: `Shows` excepts them.
- *Project*: shortlists, the writing of notes, uploads, `requestFund` (a
  notification), the content of terms and of sub-milestones; `toogleIpInfo` changes
  one flag only the filters of `ProjectView` read, and ViewsAgree quantifies over it. The
  members of a project are read without an order; the order of insertion is assumed.
- *Disputes*: documents, FAQ entries, queries; the two parties are different users,
  which no line of the code requires.
- *Accounts*: wallet address, `updateProfile`, expiry of signed tokens (a link that
  is too old does nothing); two signed tokens of the same second, or two equal
  one-time passwords, are taken to differ.
- *E-mail*: templates; that a mail is handed over, and arrives in any order or never,
  is modelled in `Accounts`.
- *Administration, teams, notifications, queue, storage, framework*: single
  queries or input and output; nothing between them can go wrong in an order.
