# A specification of B2CSM

B2CSM is a prototype, on Hyperledger Fabric 1.2, of a blockchain based
collaborative security monitoring system. Enterprises upload datasets of three
applications (honeypots, NIDS, and GTMW, the mobile-web application) to the
ledger, and clients ask all nodes for the results of analyses that chaincodes
run on these data. This directory holds TLA+ models of the parts that make up
the program's own logic, the TLC runs that check them, and TLAPS proofs.

Paths are relative to `src/`. Abbreviations: `TC`, `RW`, `SV`, `BM`, for
`TempChaincodeID`, `replicationWorker`, `B2csmServiceImpl`, `B2csmManager` under
`b2csm-explorer/src/main/java/b2csm/`; `JS` for
`b2csm-explorer/src/main/resources/static/js/`; `SG` for `SigVerifyServiceImpl`; `NC` for
`nidscc1/main.go`, the nids chaincode kept with the explorer's test fixtures.

## The system

| part | state | operations | meets |
|---|---|---|---|
| REST service (`SV`, `B2csmController`) | none of its own | replicateLedger, the queries, invoke, chain info | obtains a manager for a channel on every call |
| manager registry (`BM`) | static `instance`, its `instanceId` and the class monitor | `obtain` | shared by all request threads |
| replication (`TC.replicate`, `RW`) | per call: list of units, pool of 8 threads, futures | import, manifest, one transaction per unit, join | import, Fabric |
| dataset import (`*DatasetToChain`) | per call: the list of units and the matrices they refer to | `ImportCSV` | called by replication, which writes the units out later |
| Fabric network (external) | world state, transactions on their way | endorse, order, commit, reject | replication and queries |
| analysis chaincodes (Go) | the world state; per query: the graph or lists being built | A1, A2, A3 per application | read the manifest, then the units |
| browser pages (`JS` honeypots, gtmw, nids) | per round: node index, results and verdicts per node | ask nodes in turn, have signatures verified, count, decide | middlewares of all nodes, verification service |
| signature verification service | static paths of the key pair | `signatureVerify` | called once per answer |
| result pages (`JS` honeypots, gtmw, nids) | the graph, registered timeouts, what is highlighted | draw the decision of a round, search the literals of the nids pages, ask for what honeypots Q3 draws | the round over the nodes, the local middleware |
| enrolment store (`TempUser`, `FabricStore`) | properties file with the peer admin | save, look up, restore | used by every manager that is built |
| channel information (`TempChannel`, `FabricManager.getAmount`) | none | heights, blocks, figures | dashboard, tables |
| explorer pages (`JS` dashboard, blocks, transactions, ...) | selected channel, figures, rows | select, request, show | channel information |

What is hard about them: request threads race on the registry's static field;
replication mixes a blocking call, a thread pool, timeouts and transactions that
outlive the call, and it swallows failures; two uploads can write the same keys;
the importer shares one mutable matrix between units; a query round takes
seconds during which ledgers move, any node may answer anything, and exceptions
in callbacks are lost; requests to the verification service share its key paths;
the graph searches read data cut into units, meet cycles, and refill their queue
again and again; pictures are ordered by timers alone and drawn from answers
nobody compared; pages send new requests and cancel none; the store's file is
emptied before each of its many rewrites. `PROJECT.json` lists these hazards by line.

What should be right about them:

- registry: a call that returns gets a manager, bound to the channel it asked for;
- replication: what is reported is stored, manifests announce what is there, the
  pool is bounded, a call is answered, and nothing is sent after the answer;
- import: the units cut the dataset up, and each holds the cells it names;
- query round: behind what is shown stand answers of enough correct nodes, one faulty
  node cannot bring a wrong answer about, prevent the right one or stop the page;
- verification service: a verdict is about the key of the node it was asked for,
  and every request is answered;
- chaincodes: an attack graph is connected, has only alerts of the ledger, each
  once, and all hosts it should have, however the data are cut up; a partly
  replicated graph is refused; a query ends;
- result pages: a picture shows what was accepted, grows from what was asked
  about, and comes to an end;
- explorer pages: at rest they show the selected channel, figures of one ledger, and
  tables without gaps or repetitions;
- enrolment: the stored admin is complete whenever nobody is at work on it.

## Modules

| module | models | source |
|---|---|---|
| `UploadContract` | what ledger and clients may rely on during replication (abstract) | |
| `Replication` | `replicateLedger` from request to answer; implements `UploadContract` | `TC` 388-477, `RW`, `SV` 139-180 |
| `ManagerSwitch` | `obtain` | `BM` 7-39 |
| `QueryRound` | a page's round over the nodes and its decision | `JS` honeypots, gtmw, nids |
| `DatasetSplit` | `ImportCSV` | the three `*DatasetToChain.java` |
| `SigVerify` | concurrent `signatureVerify` | `SG` 22-103 |
| `AttackGraph` | `inferAttackPaths` and `inferDamages` | `NC` 119-162, 190-376, 450-622 |
| `Animation` | timeouts that highlight links and hosts | `JS` honeypots, gtmw, nids |
| `NidsSearch` | the graph searches of nids Q1 and Q3 and the literals they search | `JS` nids 569-1804, 1922-2002, 2119-3263 |
| `ResultPages` | what the nine pages do with a decision; extends the two above | `JS` honeypots, gtmw, nids |
| `ExplorerPages` | dashboard, tables, lists, and the service behind them | `JS` dashboard, blocks, transactions, orderers, peers, cas, channels; `FabricManager` 108-204; `TempChannel` 151-157 |
| `EnrollStore` | the peer admin in the store's file | `TempUser` 32-161, `FabricStore` 33-101, `TempOrg` 70-121 |
| `*_proofs` | theorems about the module of that name | |
| `MC*` | instances for TLC | |

**Replication.** A state `pc[u]` per call; `attempt[u][k]` is the progress of the
invocation that writes key `k` (0 is the manifest, `1..size` are the units);
`tx[u][k]` is the fate of its transaction and belongs to Fabric, like `world`.
`Import` is ImportCSV together with the start of the manifest's invocation,
`StartUnits` the creation of the futures once that invocation is over, however it
ended (`TC` 428 swallows failures), `RunWorker` a pool thread that picks a queued
unit, `Endorsed`, `NotSent`, `FutureDone` and `TimeOut` the ends of the worker's
network calls, `Finish` everything from the last join to the answer. A transaction that
timed out is not recalled, so `Commit` and `Reject` may come at any later time,
after the answer or a crash too. A timeout may also happen although the
transaction already committed. What a unit contains is of no importance here: `world[k]` only
says whose value it is.

**ManagerSwitch.** One action per read or write of the static field, the label and
the monitor. A manager is named after the call that built it. The field is not
volatile, so a repeated unsynchronised read may yield the current value or the
one this thread saw last (`Reread`). `raced` and `disturbed` are history
variables: nothing reads them but the properties.

**QueryRound.** The page walks through `nodesInfo.json`. `Answer` is the success
callback: what it keeps of a reply is a set with one value, or the empty set if it throws, and
there is one such definition per page (`HoneypotsKeeps`, `GtmwAppsKeeps`,
`GtmwVictimsKeeps`, `NidsKeeps`). `Honest` is what a correct middleware may send,
given its ledger: the chaincode's answer, where the GTMW lists come in the
order of a Go map, or "Request failed". A faulty node sends any reply. The
ledgers (`height`) of correct nodes move during the round. `Verdict` may be wrong, as the service's
key path can be switched by another request; `NoVerdict` drops the answer.
`Accepts` is the comparison of the three counters with the literal 3. The pages'
scripts repeat this code; the map names one page's copy for each definition. The
result texts are abstracted to the kind of answer, the ledger state it stems
from and its order; the 28 characters the NIDS page compares keep the kind only.
Answers are compared by `hashOfArray`, the 32-bit hash of the characters of all parts in a
row, so different answers may count as the same. `Hash` is a constant: the theorems
hold for any function. In the runs every honest answer has a made-up one of the same hash
(`madeUp`), which only a faulty node sends, as `["1.1.1.11","2.2.2.2"]` for `["1.1.1.1","12.2.2.2"]`.
So the properties speak of the answers behind the one shown, and of the shown
one itself only if the first node is correct.

**DatasetSplit.** A dataset is its size; a cell is its row and column. Units refer
to matrices by index, as the Java objects do: `AddUnit` allocates one,
`ReuseMatrix` overwrites the last. `SingleUnit` ... `NoneDivides` are the branches
of `ImportCSV`, one step per unit made. The three importers are copies with
renamed fields and constants; the map names one copy for each definition, so
each copy is read somewhere.

**SigVerify.** One action per write or read of the static paths: the two
assignments of the switch (`SetPriv`, `SetPub`), the two log lines, the two file
reads, then the verification. A public path is named after its node. Of the
private path only whether it is set matters, as every key file exists. A
signature is known by the node whose key made it (`NoOne`: forged, malformed or
missing); the code looks at it only when it answers, so `Answer` chooses it
there. `Readable` is the value an unsynchronised read may give: the field's, or
the one this thread had at hand. `AcceptUnknown` is the default branch, which
logs and goes on with the paths of earlier requests; `AcceptNull` the exception
of a switch over null. `disturbed` is a history variable.

**AttackGraph.** The two searches are mirror images: `Paths` says which is running,
`Labels`, `Across`, `Between` and `Order` are all that differs between them besides `Meet`.
One action is one pass through a loop's body: `NextUnit` and `NextHost` move on
in the loops over units and queue, `NoAlert`, `Discover` and `Meet` look at one
cell, `NextGraph` and `NextDay` refill the queue from all hosts found. Every
graph is read unit by unit, so `NoIndex` and `NoUnit` may strike in the middle.
A unit is its labels and the set of pairs whose cell holds an alert; the
alerts of one cell stand as one, known by its day and graph. `Meet` keeps what the
code does with hosts that are already in the graph: paths from outside get
another edge, the internal network and the damages do not, so the edges form
no complete picture of the internal alerts although the hosts do. An
invocation runs against one snapshot of the ledger, as Fabric's simulation does.

**Animation, NidsSearch, ResultPages.** A page registers timeouts (`After` for one
highlight, `Series` for a callback that registers one per link) and the browser
runs them in the order of their dues (`FirstDue`), at most `MaxLate` half seconds
late. `Visualize*` and `visualizeGTMW*` are the scripts: the sequence of timeouts each
registers. The round over the nodes is a single step here (`Accepted`, `Rejected`; `QueryRound` has
its details), because the pages differ in what comes after it: honeypots and
gtmw Q2 draw the accepted answer, gtmw Q1 and Q3 a part of the first node's raw
answer (`FirstAnswers`), nids a literal, for one input each, and honeypots Q3 what
its own requests bring (`AskAttackers`, `AskVictims`) while the round goes on. The
ledgers say which pairs each day holds; the chaincodes' answers are
computed from them, with their repetitions, and `Commit` may change the ledger
between two requests. `Throw` is an exception in a script: what was
registered before still runs. `Visit` is one pass of a search's loop; hosts may
be queued more than once. The nids graph is fetched, so a highlight may come too
early and find nothing (`missed`).

**ExplorerPages.** `Select` sends the requests of a page, `Serve` answers one,
`Receive` runs its callback, `Lose` its error callback, after which the service may still be at work
on the request (`adrift`, `ServeAdrift`). A table's rows are
requested synchronously, so a callback is one step (`FillTable`), in which single blocks may be refused or
lost. A block gives one row of the table of blocks, and one row per envelope of the table of
transactions (`Lines`). `getAmount` is the service; `ReadInfo` one of the three queries of `getBlockchainInfo`.
Each request gets the manager it reads from by `obtain`, from the one static field: `instance` is the
channel it is bound to and the label it has, which may differ. While all requests at the service
are for one channel, a request is given the present manager if its label fits, or a new one. Once a
channel is selected while requests for another are at the service, any of them may be given
any manager of these channels (`racing`), and the last one leaves any of them, with any of their labels;
this is all that `ManagerSwitch` lets happen to overlapping calls, and more.
The history variables say which panel was overtaken by an older answer, which request failed,
what was on its way when the channel was selected and whether a block came in between.

**EnrollStore.** Each builder of a manager has a store object of its own on the one
file. `Look` is the constructor with its swapped branches, `SetMspId`,
`SetEnrollment` and `SaveLast` the setters of `getMember`; each goes through `Open`,
which empties the file, and `Write`. Builders after the first take no lock
(see `ManagerSwitch`), so any number of them interleave; `Crash` leaves only the file.

## Runs

| run | question | bounds |
|---|---|---|
| `replication_concurrent` | safety of two uploads of one dataset name, and the refinement | 2 uploads, 2 units, 1 thread |
| `replication_pool` | the answer comes after the workers and nothing is sent after it, every call is answered | 1 upload, 4 units, 2 threads |
| `replication_success` | *violated*: a success answer means the dataset is stored | 1 upload, 2 units |
| `manager_switch` | what double-checked locking gives; wrong channels and labels need races; calls return | 3 calls, 2 channels |
| `query_round` | what stands behind a shown answer, and when agreement must be shown; rounds end | 4 nodes, 1 faulty, 3 ledger states, 4 pages, made-up answers with an honest hash |
| `query_round_first` | *violated*: one faulty node does not prevent agreement | 4 nodes, 1 page |
| `dataset_split` | cells are labelled once; who shares matrices | units of 2 by 3, up to 8 by 11 cells |
| `sig_verify` | wrong verdicts need overlapping requests; no key is used that nobody asked for; all requests are answered | 3 requests, 2 nodes, unknown and missing ids |
| `attack_graph` | the answers of the two searches, and that they end | 2 days, 3 hosts, 4 units per graph, at most 3 alerts in 16 cells; ledgers that lack an index or a unit |
| `result_pages` | what pictures show, in which order, from whose answers, and that pages come to rest | 9 pages, 7 ledgers of 2 days with up to 4 links a day, 1 change of the ledger, timers up to 1 s late |
| `explorer_pages` | what dashboard and tables show after overlapping selections, failures and commits, through a shared manager | 8 pages, 2 channels, 2 panels, 2 selections or failures, up to 2 blocks of up to 2 transactions |
| `enroll_store` | the admin is in the store when nobody builds | 2 builders, 4 managers, any number of crashes |

Why the bounds are enough: two uploads and two units give every order of
manifests, units, late commits and failures of two writers of one key, and a
pool of one thread makes a unit wait while another is at work; with two
threads and four units workers run in parallel and others queue. Three
calls are two that race plus one that comes later and trusts what they left.
Four nodes, one of them faulty, and the threshold 3 are the deployed numbers; a
third ledger state gives a missing dataset, an empty result and a result, and so blocks that change
an answer between two nodes. Three bands and a remainder either way, and a fourth, reach
every branch of `ImportCSV` and its first, middle and last bands; units that
are not square tell rows from columns. Three requests to the verification service are one that
suffers, one that disturbs it and one whose path was left behind. Three alerts
make a cycle of two hosts plus a way in, a chain over two days, and the same pair on
several graphs; labels cut into two bands either way have each host's alerts in
different units. Two attackers and two hosts on two days give a list with a host twice, an
attacker without victims after a change, days with and without data, and hosts that no graph
shows. Two panels and two selections are the least in which an older answer overtakes
a newer one, or a manager is left behind by a race; the channels start with one and with two blocks, of one
and two transactions, so that the figures of one are not those of the other; `blocks` and `transactions` are the panels that depend on the channel. Two builders interleave all their
writes, and the third and fourth manager find what the first two left. `MaxAlerts`, `LastDay`, `MaxUnits`, `MaxHeight`, `MaxRows`,
`MaxColumns`, `MaxMoves`, `MaxEvents` and `MaxBuilds` are bounds of the model; `PoolSize`, `NodeCount`, `Threshold` and
the units' sizes are parameters of the code.

`MaxLate` is an assumption about the browser: `RoundTwoLast` holds while a timeout runs at
most one second late, and TLC finds it violated when `MaxLate` is 3 (1.5 s), since the
second round is only timed, never told that the first is over.

The two violated properties, with the lines they contradict, are the findings in
`PROJECT.json`:

1. `replicateLedger` answers success whatever became of the units (`SV` 149, `TC` 462).
2. Agreement is measured from the first node's answer, so that one faulty
   first node makes the page reject what three correct ones sign (`honeypots.js` 129).

Other weaknesses of the code are conditions or exceptions in the properties that hold,
which say exactly when they bite:

- a call may get another channel's manager, but only if calls overlap
  (`WrongChannelNeedsRace`, `MislabelNeedsRace`; `BM` 15-29);
- a wrong verdict on a signature needs overlapping requests (`WrongVerdictNeedsOverlap`);
- a page may wait for ever, but only after a reply its callback does not expect
  (`RoundEnds`; `nids.js` 157, `honeypots.js` 109 and 889);
- units share a matrix, and so store the last unit's cells, but only inside one band
  of rows when both dimensions divide (`OwnCells`; `NIDSDatasetToChain.java` 126);
- honeypots Q3 draws hosts the accepted answer does not list, but only if several days
  have data or the ledger moves (`OwnAnswersAgree`), and throws only then (`ThrowsOnlyIfMoved`);
- gtmw Q1 and Q3 may draw what a dishonest first node made up (`PictureIsAccepted`, `honest`);
- a figure may stay that of another channel, if an older answer came last or the
  newest failed (`FiguresOfSelected`), and rows of two channels mix only if selections overlap (`TablesAreWhole`);
- figures and rows are read from another channel's ledger if requests for an earlier channel were still at
  the service when the channel was selected, and ever after if such a race left a manager with a wrong
  label; otherwise not (`FiguresAddUp`, `TablesAreWhole`; `BM` 23-27);
- one faulty node, if it is the first, has the page show a list that no correct node gave, if it has the hash of theirs:
  a correct node vouches for the shown answer only if it is the first, the others for its hash (`AcceptedIsTruthful`,
  `AcceptedIsSigned`; `honeypots.js` 36, 139). With the finding on the first node this is the
  other half of what the repository claims of one malicious node;
- correct nodes that agree are not shown if their list comes in the order of a Go map, or if honeypots has
  nothing to list, as the page keeps null of that (`AgreementIsShown`; `gtmwcc2.go` 380, `honeypots.js` 109);
- the store may be left without the admin, but only by a crash, a failure or a failed
  write among the last builders (`StoreHoldsAdmin`). A user that the constructor finds there is not taken over, whatever the comment
  at `FabricStore.java` 70 says, but overwritten by an empty one (`Look`; `TempUser.java` 39).

**Fairness.** Replication: weak fairness of the steps of the middleware's
threads, as the JVM schedules runnable threads and proposals and futures have
timeouts; none of requests, of the ordering service or of commits. ManagerSwitch: of
each call's steps; building a manager ends one way or the other, and the
monitor is contended by finitely many calls. QueryRound: of the page's next step,
because every request has a timeout of ten minutes; ledgers need not move.
SigVerify: every request thread is scheduled; nothing blocks, since the service holds no locks.
AttackGraph: the peer lets the chaincode run. ResultPages: timers run, a
search goes on, and the chained requests of honeypots Q3 end, as they time out after ten minutes (`Work`); whether a round is
decided is `QueryRound`'s question, so none of decisions. DatasetSplit, ExplorerPages and EnrollStore state safety only.

`CHECK_DEADLOCK FALSE` stands in every configuration, because each model comes to rest when
its calls are over.

## Proofs

All are for every value of the constants that satisfies the named assumptions.

- `Replication_proofs`: type correctness and all invariants of the runs, the action
  property, and that every step of `Replication` is a step of `UploadContract` or a stutter
  (its two specifications are safety properties, so this is the refinement). The
  invariant `IInv` adds to the properties how `pc`, `attempt` and `tx` belong
  together: a call that is not yet at its units has none started, an
  invocation that reported success has its transaction committed, transactions exist only for
  invocations that got past endorsement. Without it `ReportedIsStored` is not inductive, as a
  waiting worker could have no transaction. `PoolBound` (at most `PoolSize` workers, a theorem only) needs that a set
  grows by at most one element when a worker starts.
- `Managers_proofs`, of `ManagerSwitch` and of `EnrollStore`. Of the former: type correctness, the three invariants of the
  run, and that a call that returns has a manager (`ManagerReturned`). The invariant says who
  holds the monitor, which calls have seen a manager (so that no reread yields null) and
  whose manager each thread is about to label while nobody raced. Of the latter: type
  correctness and `StoreHoldsAdmin`, for any number of
  builders and of managers. `Progress` says how complete the admin is that a builder has at
  hand: with the MSP id before its keys are set, whole before its last save. As
  nobody but an interrupted builder rests without a last save, the file is whole
  when all are at rest (`Written`), whoever emptied it in between.
- `QueryRound_proofs`: type correctness and the three invariants of the run, for any hash that tells an
  answer from none (`HashAssumption`; the pages use a string for none). From `NodeCount < 2 * Threshold`
  (`QuorumAssumption`), counting arguments on sets of nodes. `Kept` says that what the page has of a
  correct node was a truthful answer at some state since the round began, also if it is the null whose
  signature was checked; `Grown` that ledgers only grow; `Ahead` that no node is verified before
  its turn, so that an answer cannot come under the verdict of another.
  For `AgreementIsShown`, correct nodes that are verified over one ledger that stands still all have the one answer that
  the page keeps of it, so that all three counters reach `Threshold`.
- `DatasetSplit_proofs`: type correctness, `OwnCells` and `OwnRows` (who shares the matrix of a row). The
  invariant `LastMatrix` says that inside a band of rows the last matrix
  belongs to units of this band, and that a second band of columns implies
  `Shared`; without it `ReuseMatrix` might overwrite another band's cells. For
  `EveryCellOnce`, `CutInv` says that the units made so far are those of the bands that the loops
  passed, one for each, and the lemmas on division that every row and column lies in
  exactly one band, the rest included.
- `SigVerify_proofs`: type correctness and both safety invariants. The invariant
  has three parts: a path that is set was set by a request that named its node
  (also the value a thread has at hand), the private path is never unset
  again, and a request that was not disturbed still sees its own path between
  setting and reading it.
- `AttackGraph_proofs`: type correctness, `Connected`, `EdgesAreAlerts`,
  `SearchedIsClosed` (a theorem only) and `AnswerIsComplete`, for every ledger that fits
  `LedgersAssumption`. The invariant is about the loops: `Progress`
  says that the visited host's neighbours in the units before `unit`, and under
  the labels before `pos`, are in the graph; `Covered` that every graph the loops
  passed was complete; `Loops` that the queue holds hosts of the graph and where
  the inner loops stand between two hosts. Without `Progress`,
  `SearchedIsClosed` would not survive `NextHost`.
  For `AlertsOnce`, `OnceInv` says that no host is queued again, and that whatever is recorded is of a
  graph that was passed or of a cell that the loops have looked at; no two units of a
  graph may share a cell (`CellsAssumption`), which the import ensures (`CellsLandOnce`).
  For `FindsTheHosts`, `FoundInv` says that the hosts found are between `Base`, what the reference has
  before the present graph, and what one pass through this graph reaches from it, and that all of
  `Base` is queued or searched.
- `ExplorerPages_proofs`: `FiguresOfSelected` and `HashesNotOlder`, for any channels
  and panels. `WellAsked` says that no request is of a later selection, `Accounted` that each panel is fresh,
  waits for an answer, or has an excuse on record; the property alone says nothing while answers are
  pending. `InOrder` says that the parts of an answer come in the order of the three queries
  and none is of a higher ledger than the present one, as ledgers only grow. `FiguresAddUp` needs
  that without requests from before the selection the service has to do with one channel only, and while no
  block comes in, answers and figures of this round are what it would say now for the selected channel,
  unless the manager has had a wrong label all the time (`Calm`, in `AddInv`); and that the sum over
  the blocks, a fold, counts the pairs of a block and a transaction. `TablesAreWhole` needs that a table
  that nothing overlapped is asked for, answered and shown once, in this order (`OneByOne`), and
  that the rows of an answer, block by block and envelope by envelope, are ordered and complete (`TableInv`).
- `ResultPages_proofs`: the six invariants of the run, for any ledgers, hosts that are asked about, and
  delays. Each rests on what the scripts are, which the lemmas say of every operator
  on sequences involved: `FlattenSeq`, `SetToSeq`, `FirstSeen`, `Only`, `RemoveAt`.
  `ThrowsOnlyIfMoved` needs that while nothing was imported the answers at hand are those of the
  present ledger (`CallInv`), so that an attacker has a victim. `SearchIsClosure` needs that every link
  found hangs together with the queried host, and that links missing so far leave a host in the
  queue (`SearchInv`). `RoundTwoLast` needs that of two timeouts, the one of the first round is due
  before the other, also as long as one or both are still in a series that has not started
  (`Precedes`, in `RoundInv`). It assumes `MaxLate <= 2`: with 3, TLC finds a counterexample.
  `PictureIsAccepted` and `OwnAnswersAgree` need that what was highlighted and what still waits
  add up to the answer (`DrawnInv`, `TableInv`). `GrowsFromQueried` needs, for each waiting
  highlight, that one it may start from was shown or comes before it (`GrowInv`). It holds for any delay: even if
  both rounds start at once, the l-th link of the second is of one of the first l hosts of
  the first (`InPlace`), as none of these lacks links and none is met twice.

Together the proofs are 10938 obligations.

Type correctness of the modules that have it (`TypeOK`) is proved and is no property of a run.

Where a proof is an induction over data (the search of a graph, a fold, a search by
rounds of days, a filter), it is carried out on sets: the theorem that the natural numbers are
well-founded, together with the one that a non-empty set has a minimal member, yields that a set with 0 and all successors
contains them all (`SetInduction`). The filter `Only` is a recursive function, as the prover cannot look into `SelectSeq`.

Only model-checked: the liveness properties (`EventuallyAnswered`, `CallsReturn`,
`RoundEnds`, `RequestsAnswered`, `QueryEnds`, `PageSettles`), which are beyond the
prover. Every invariant that a run checks, other than those it expects to be violated, is stated by a theorem.

## Not modelled

- Third-party code: the libraries under `static/js/@trust` (cryptography in the
  browser, more than half of all JavaScript), cytoscape, jQuery; `demo.js` and
  `case2Demo.js`, which animate a fixed example.
- Layout, colours and wording of the pages; the result rows shown half a second apart before a decision.
- Cryptography: a signature is a verdict, or the node whose key made it. How the 32-bit hash is computed:
  it is any function, which may give any two answers the same hash; which texts collide is a matter of their characters.
- Unchecked exceptions in a replication worker (`RW` 107-117 catches the checked ones of the network calls). One
  would make the join of its future throw (`TC` 460) and the call be answered while other workers still
  send, which `AnswerAfterJoin` and `NothingSentAfterAnswer` exclude: they hold as far as workers end in one
  of the ways the code provides for.
- The reading of honeypots and gtmw datasets unit by unit. `ResultPages` takes a day as a
  whole, which is what one unit per day, as shipped, gives; gtmw's column index -1 on several units is a
  listed hazard. `identifyZeroDay` of the nids chaincode.
- Enrolment at the CA: the deployed manager sets no password (`BM` 46), so `TempOrg` 99-108 never runs.
- CSV lines of different lengths; installation and upgrade of chaincodes; Spring's dispatch; the
  formatting of a block's envelopes; `ThreadWorker`, which nothing calls.
- Compositions: `SigVerify` would replace the arbitrary verdicts of `QueryRound`, and `QueryRound` the
  one-step rounds of `ResultPages`. Each module is checked with everything its environment can do
  (any verdict, any decision), which includes what the composed one would do. `ExplorerPages` has
  `ManagerSwitch` in the form of `obtain`, which allows more than it; its page is the only caller of
  the middleware, as other browsers or a replication would race with every request. The nodes' managers are
  not composed with `QueryRound`, where a round's requests are for one channel: a node whose middleware serves the
  query by another channel's manager, because requests of other users overlap there, counts as faulty.
