# QxFx0Rust: TLA+ models, checks and proofs

QxFx0Rust is a deterministic dialogue runtime. A command-line binary (`qxfx0-cli`) loads a session
from SQLite (`qxfx0-persistence`), runs one user message through a pipeline of seven stages
(`qxfx0-pipeline`), saves the session and prints the response. The stages consult a graph of
concepts and curated knowledge packs (`qxfx0-semantic`), a self layer of angst, commitment and
grounded opinions (`qxfx0-self`), a morphology runtime (`qxfx0-morphology`), a commitment store and
a guard (`qxfx0-guard`); a code registry (`qxfx0-code`) answers questions about library functions.
This directory holds the TLA+ modules that model that program, the TLC runs over small instances of
it and the TLAPS proofs about it. `PROJECT.json` maps every definition to the lines it models, and
lists runs, mutants, findings, hazards and theorems.

Contents: 1 inventory, 2 modules and how they correspond to the code, 3 runs, bounds and what
they show, 4 fairness, 5 proofs, 6 disagreements found, 7 what is not modelled, 8 plan.

## 1. Inventory

### Components, their state and operations

| Component (crate, file) | State | Operations | Modules |
| --- | --- | --- | --- |
| Session persistence (`qxfx0-persistence/src/lib.rs`) | tables `runtime_sessions`, `session_graphs`, `session_semantic`; SQLite's write lock | `save_state`, `load_state`, `delete_session` (and reports) | `SessionStore`, `SessionLog` |
| Schema migrations (`db/migrations.rs`) | `user_version`, tables, columns | `apply_migrations` | `Migration` |
| Online backup (`backup_database`) | destination file, partial file, SQLite backup cursor | check, create, copy, verify, rename, clean up | `Backup` |
| Command line (`qxfx0-cli`) | one in-memory `SystemState` per process, the `SHUTDOWN` flag | `turn`, its shadow trace, `chat`, `selfplay`, `sessions delete`, `backup`, `code` | `SessionStore`, `CodeRegistry` |
| Turn pipeline (`qxfx0-pipeline/src/lib.rs`, `stages.rs`, `turn_context.rs`, `conversation_fsm.rs`) | the session state, its snapshot, the typed turn context | prepare, route, plan_shadow, render, finalize, guard, persist; rollback; rejection | `TurnPipeline`, `TurnOutcomes` |
| Governance log (`governance.rs`) | bounded list of turn events | append, trim, `replay_check` | `TurnPipeline` |
| Essence, runtime graph, network cache (`qxfx0-self/src/lib.rs`, `atom.rs`, `network.rs`) | trajectory, angst, commitment; atoms, relations; cached network and its edge count | witness, commit, collapse; grow; look up, invalidate | `TurnPipeline`, `GraphSearch` |
| Fact-grounded evidence (`fact_perspective.rs`, `fact_grounded.rs`) | opinions and episodes; the pack fingerprint | `integrate_curated_claims`, validate, render stance | `PerspectiveEvidence` |
| Perspective registry (`qxfx0-self/src/perspective.rs`) | threads of versions, revision records | promote, contest, suspend, roll back, cap, project | `PerspectiveRegistry` |
| Stance provenance (`stance.rs`, `stance_authority.rs`, `stance_request.rs`) | ring of observations | record, verify a signed decision, detect a contradiction, doubt and its shadow | `StanceDecisions` |
| Commitment store (`qxfx0-commitment`) | active claims, quarantine, lineages | commit, quarantine, revise, contradict, promote | `CommitmentStore` |
| Authority map (`qxfx0-governance`) | edges of delegation | delegate with a cycle check, query | `AuthorityMap` |
| Knowledge packs and concept resolution (`knowledge_pack.rs`, fact registry) | the loaded set of a process | load, conflict check, select facts, resolve a phrase | `FactPacks`, `FactRegistry` |
| ResponsePlan V1 (`response_plan.rs`, `argued_topics.rs`) | the audited profile | load, plan, shadow, render | `ContentPlan` |
| ResponsePlan V2 (`response_plan_v2/*`, pipeline `lib.rs`) | typed certificates of one turn; the captured contract; the replay record | propose, verify, authorize, admit, realize, emit, replay | `PlanChain`, `PlanTurn`, `PlanSurface`, `PlanReplay` |
| Morphology (`qxfx0-morphology`) | the lexeme bundle and its index | load or override, look up, lemmatize, inflect | `Morphology` |
| Debate and user-argument observers (pipeline `debate.rs`, `user_argument.rs`, types `user_argument.rs`) | receipts kept with a turn | observe, parse, digest, validate, decode | `Observers`, `ArgumentRules`, `Receipts` |
| Graph search and composition (`pathfinder`, `inference.rs`, `content_selector.rs`) | the network of the turn, the topic of the turn before | activate, select, bridge, rank paths | `GraphSearch` |
| Code registry and orchestrator (`qxfx0-code`) | functions, typed edges | parse a signature, register, match, chain, answer | `CodeTypes`, `CodeRegistry` |
| Guard (`qxfx0-guard`) | none of its own; reads the history | structural checks, heuristics, verdict | `TurnGuard` |
| Deliberation; traces and measurement; operations scripts; static data | none that a later turn reads | | section 7 |

### How they interact

* Operating-system processes share one database file and nothing else. Within a process everything
  is sequential: a turn is a chain of calls on `&mut SystemState`. Concurrency is therefore between
  *commands*, at the granularity of SQL statements and commits.
* `chat` and `selfplay` keep one in-memory copy of the session for the life of the process and save
  it after every turn; `turn` loads, processes, saves and exits.
* A failed stage puts back the snapshot taken at the start of the turn. A turn that the guard refuses
  puts back the semantic and conversation state and keeps its entry in the history, the governance
  log, the turn counter and the decision.
* `save_state` and `load_state` both validate the state, so whatever a turn leaves must pass
  `SystemState::validate` and, for grounded opinions, the pack's validator. A state that does not
  pass can be neither saved nor loaded again.
* The knowledge pack set is a property of the process; the session remembers in its fingerprint
  which set its opinions came from.
* Whether a sentence may be said is decided along a chain: packs are admitted, facts selected, a
  profile or a plan checked against them, a claim authorized, words inflected from the bundle, the
  surface compared with what was realized, and the guard asked. V1, V2 and the legacy composer are
  three such chains in one turn, and the observers read the same plan once more.

### What is hard

* interleavings of SELECTs and commits of several processes; a stale in-memory copy written back;
* crashes and failing statements in the middle of a save, a delete, an upgrade or a backup; lock
  timeouts; a schema version read outside the transaction that upgrades it;
* partial failure of a turn after some stages have mutated the state, and the two different
  restorations (failure and refusal), each with its own list of fields;
* bounds that a later validation enforces by refusing the session: graph limits, history, opinions,
  episodes, versions and records;
* the cached network that is recognised by an edge count alone;
* signed decisions that arrive late, twice or after a restart, and a ring that forgets;
* lineages that are truncated or drained (episodes, revision records) and are validated afterwards;
* pack sets whose order, aliases and conflicts decide what a phrase means;
* a claim that is authorized recursively through a derivation, and V2 authority decided in five places;
* replay under other assets: a drift must be noticed and a faithful record must not be refused;
* homonyms and missing forms in the word list; types read from text by position of punctuation;
* three independent receipts of one plan, and digests over fields that can run into each other;
* repetition that can only be seen through a bounded history which refused turns write to as well.

### What makes each component correct

* Store: the three tables of a session are always parts of one save; a printed response is durable;
  a session is a log of whole turns; no interleaving persists a session that cannot be loaded; the
  commands end.
* Migration and backup: a database that claims a version has all of it; a destination is a
  consistent copy of one version; partial files are private and owned; every backup returns.
* Pipeline: a turn is answered, refused or has not happened; refused turns teach nothing; history,
  log, decision and counter tell one story; every boundary state validates; the cache is fresh.
* Ledgers: what the evidence operators build the validator accepts, and a plan counts whole or not at
  all; one active version per scope and nothing withdrawn returns; a signed decision counts once,
  where it was issued; a claim keeps its history; delegation gains nobody anything.
* Knowledge and plans: the order of packs decides nothing; only curated triples and the conclusions
  of confirmed rules are asserted; V2 speaks only with a whole certificate and what it says reads
  back as the claim; a replay vouches for the turn that was.
* Search, code, guard: nothing better was within reach; an answer follows the declared types; an
  answer seen again and again is noticed.

## 2. Modules and how they correspond to the code

In the modules a definition directly above another one and named after it (`AfterTurnForgetsHistory`
above `AfterTurn`) is a *mutation* of it. It is no part of the specification: it is a plausible bug
that the property listed with it in `PROJECT.json` must notice.

### `SessionLog`, `SessionStore`, `SessionStoreProofs`, `MCStore`, `MCSessionStore`

`SessionStore` models the database, the processes and the CLI loops.

* A session's content is abstracted to its *history*: each of the three parts of the state
  (dialogue, graph, semantic) is the set of turns it has been through. A turn is named by the process
  that ran it, its number and its outcome. This tells apart every mixture of saves.
* `runtime`, `graphs`, `semantics` are the three tables. `runtime` holds the whole state because
  `save_state` embeds it in `state_json`; the split rows are what `load_state` prefers.
* `writer` and `txn` are SQLite's write lock and the uncommitted rows of its holder. The first
  statement of a transaction takes the lock (`SaveRuntime`, `DeleteGraph`), `SaveCommit` and
  `DeleteCommit` publish all rows at once, and any exit of the process rolls them back.
* `stage` is the program counter: one action per SQL statement and one per step of the loops.
  `LoadGraph`, `LoadSemantic`, `LoadRuntime` are three separate reads, since `load_state` opens no
  transaction. `Assemble` is its fallback to the embedded parts of rows written before the split.
* `ProcessTurn` takes a whole turn as one step with an outcome; module `TurnPipeline` justifies this
  (`ImplementsOutcomes`). `ShadowTurn` is the trace mode that never saves.
* `LoopTop`, `Quit`, `EndOfInput`, `EmptyLine`, `IterationsDone`, `Signal` are the chat and
  self-play loops. A closing chat saves twice, as the code does (`purpose` "closing", then "final").
* `Crash` covers killed processes and every fatal error: in each the process exits and the open
  transaction is rolled back. `BusyTimeout` is SQLITE_BUSY after `busy_timeout`.
* `SessionLog` is the abstract promise: a log per session to which whole turns are added once and
  from which nothing disappears before the session is deleted. `LogOf` is the refinement mapping.
* `exclusive` is chosen at the start and stays: an operator who starts a process only when none is
  running, or one who does not care. What holds only for the former says so in its name
  (`WholeWhenAlone`, `AnswersKeptWhenAlone`, `ImplementsLogWhenAlone`): side by side a load may be torn
  (finding 1), and the save of a process that loaded the session earlier, be it a turn or an open chat,
  replaces what another has answered meanwhile: the last save wins. Nothing in the repository promises
  more (README.md:299), so this delimits the property and is no finding. For
  `ImplementsLogWhenAlone` the log of sessions used side by side is not told: its mapping shows an
  empty, unchanging log.
* `MCStore` runs both. Side by side, two processes take turns on and delete one session, three turns
  between them; alone, every command is in play. `MCSessionStore` serves the run `torn_load`.

### `TurnOutcomes`, `TurnPipeline`, `TurnPipelineProofs`, `MCTurnPipeline`

`TurnPipeline` follows one session through turns, one action per stage, with the state mutated in
place, the snapshot kept beside it and the typed turn context in `turn`.

* `Begin` validates, clones and seeds; `Prepare` records the decision and whether the topic is
  known; `Route` moves the conversation machine; `PlanShadow` may come out ready on a curated topic;
  `Render` goes through the network cache unless the V2 or the audited surface answers; `Finalize`
  is the self layer, graph growth, the commitment claim and cache invalidation; `Guard` sets the
  verdict; `FactGrounded` integrates a receipted plan; `Persist` logs, rejects or adjusts, and counts.
* `StageFails` is the error return of each stage that can fail; it restores the snapshot.
* `Restart` is a save and a load by another process: the cache is `serde(skip)` and
  the session may meet another pack set.
* `Validate` is `SystemState::validate`, clause by clause.
* A topic is one of a few names with the attributes that the code tests (seeded, short,
  self-referential). The guard's verdict is a free choice here; what it depends on is `TurnGuard`.
  Angst and the two field components are counted in steps of the increments that the code adds.
* The module has no separate type invariant: `ValidBetweenTurns` is the program's own validator.
* `TurnOutcomes` is the abstract turn: answer, refuse, or nothing. `Boundary` is the refinement
  mapping: while stages run, the snapshot stands for the session.

### `PerspectiveEvidence`, `PerspectiveEvidenceProofs`, `CuratedFacts`, `MCPerspectiveEvidence`

`integrate_curated_claims` with its three transitions as pure operators that return a result and a
perspective: `Establish`, `Ground` (qualify, or contest when the fact contradicts) and the idle case.
`Through` is the perspective after the first so many claims of a plan, a recursive function on their
number. `GroundedTurn` applies them as the pipeline does. `AppendEpisode` drains at the bound.
`Validates` is `validate_perspective_against_pack`; `RenderStance` is `resolve_render_stance`. A fact
is a name with a subject and relations to others. Confidence is left out: no branch reads it.
`CuratedFacts` lays facts out as `build_argued_plan` does (thesis, counterpoint, consequence) and adds
a rival thesis and plans that fail at the first or at a later claim.

### `PerspectiveRegistry`, `PerspectiveRegistryProofs`

The mutations of the registry of endorsed perspectives with both bounds, the cap on active scopes and
the projections. The registry is a library component: at this commit only its own tests call it, so
the module offers it every sequence of calls with a turn number that does not decrease.

* A version is its ordinal; a thread's versions are a function from ordinals to statuses.
* A "Promote" stands for the decisions `PromoteEndorsed` and `ReviseActive`, a "Contest" for
  `Quarantine` and `AcceptBounded`: `apply` treats each pair alike.
* `rollback` does not enforce the cap again, so more than `MaxActive` scopes may be active; the
  projections cut them off. `thread.status` is written and never read, and is left out.

### `DatabaseFile`, `Backup`, `Migration`, `DatabaseProofs`, `MCBackup`, `MCDatabase`

`DatabaseFile` is the version of the live file, `source`: all that backups, openers and writers see of
each other.

One action per step of `backup_database`. A file is the list of source versions that its chunks were
copied from, so a consistent file is one whose chunks agree; `Copy` starts over when the source has
changed, as SQLite's online backup does. The partial file's name consists of the destination's name
and the process id, and an id may be used again once its process is gone.

`Migration` is `Persistence::open` with `apply_migrations`: `ReadVersion` outside the transaction, then
the statements one by one. The transaction is deferred, so it takes the write lock of the WAL at its
first write, and a snapshot that another commit has made stale is refused there (`MayWrite`). A process
that fails or dies loses its draft. Which tables and columns an older build had is a free choice
(`OldTables`, `OldColumns`). `OtherCommit` is a save by a process that has the database open already:
it makes snapshots stale.

`MCDatabase` puts everything that uses the file together. Backups copy while two processes open and
upgrade an old database (each commit, of a migration or of a writer, is a new version of the source, and
a writer waits for the lock a migration holds); and, with the schema in place, two processes run
sessions on it. `focus` says which of these a behaviour is about; the copies and the upgrade see of the
sessions only that they commit.

### `StanceDecisions`

How a stance gets into the session around a turn: affirmed by the turn, explicit, or signed by an
external issuer against the context that `prepare_stance_request_context` hands out. A decision may be
delivered late, twice, for the wrong text, with a defect, after a refusal or after a reload from the
saved copy (`disk`, which lags behind `session` by at most `MaxUnsaved` turns). `decisions` is a history
variable: the whole past the ring may have forgotten. The doubt rule and its shadow are here, since they
read the verdict and the topic the previous turn left. A signature is valid or not; the cryptography
and request parsing are left out.

### `CommitmentStore`, `AuthorityMap`, `LedgerProofs`, `MCLedgers`

`CommitmentStore` has the library's operations on claims, with the check for duplicates that
ignores case and the promotion check that does not, in any order a caller may choose. The pipeline only
commits; that commit, with its bound, is in `TurnPipeline` too. `AuthorityMap` is `delegate` with its
cycle check. Reachability is the least set closed under delegation, so it can be proved about without
recursion. `LedgerProofs` is about these two and `StanceDecisions`. `MCLedgers` puts the five ledgers
(registry, evidence, stances, commitments, authority) side by side; they share no state, so each behaviour
moves one of them.

### `Faults`, `FactRegistry`, `FactPacks`, `FactPacksProofs`

Checks that return at their first failure are lists of named conditions (`FirstFault`), in the code's
order; a check made of another (`CheckOf`) and the checks of each part of a whole (`FaultIn`) come down to
the same. `FactRegistry` is the immutable registry: what may be registered and what `select` gives for a
date. `FactPacks` loads one pack after the other against those before it, with their hashes and the
conflicts over all of them, and resolves phrases by the longest match of alias or lemma, reporting
ambiguity. `Gathered` is the list into which the code pushes what each pack brings. A word is a token;
`Fold` and `LemmaOf` say what normalisation makes of it.

### `PlanChain`, `PlanReplay`, `PlanTurn`, `PlanSurface`, `Morphology`

* `PlanChain` is the chain of types from candidate to authorized claim: form, proposition DAG,
  derivation, projection, alignment and assertion, each boundary with its refusals in order. Propositions
  are numbers in a closed form, an honest step is one whose rule confirms. What the code walks by
  recursion is found level by level here: `Spread` follows links for as many steps as there are nodes,
  `AuthorizedUpTo` judges a node by those judged one level below it. A content is addressed by a hash
  over its children's addresses, so no walk is longer.
* `PlanTurn` is the turn around it: rollout mode, renderer authority, allowlist, one captured contract
  and budget, the emission and its downgrades, and the guard's verdict. A topic says at which boundary
  its attempt stops. It `EXTENDS` `PlanReplay`, the record that such a turn leaves and the three levels of
  its verification after assets were replaced or a field came back wrong. A digest is the value it is
  computed over.
* `Morphology` loads the embedded or an overriding bundle (refused whole at its first fault), indexes it
  and looks words up both ways; `PlanSurface` adds the valency frames and builds the sentence of a claim,
  or says what is missing.

### `ContentPlan`, `Receipts`, `ArgumentRules`, `Observers`

`ContentPlan` reads the audited profile from its table against the facts of the active packs, builds the
plan for a request and renders only what the profile admits. `ArgumentRules` recognises reviewed
formulations and abstains with a reason from all others. `Observers` keeps both receipts beside the reply
and lets a reader decode a copy in which any one field was changed; `Receipts` is the byte encoding that
the digests are computed over, with its length prefixes, counts and tags. `FactPacksProofs` also holds the
theorem about these, that a reply keeps the profile.

### `CodeTypes`, `CodeRegistry`

`CodeTypes` parses a signature, a sequence of tokens, into types, with the code's search for arrows,
brackets and commas, and says which result can be handed on as which argument. `CodeRegistry` registers
the batches and late functions, draws the edges, builds chains and answers a query with match,
alternatives or chain.

### `GraphSearch`, `TurnGuard`, `TurnReplyProofs`, `MCLibrary`

`GraphSearch` builds the weighted network from a graph that learns, spreads activation over it in hops,
selects predicates, finds the bridge from the last topic, and ranks the paths of a definition. Weights
are integers in the code's tenths. `TurnGuard` is the verdict with every heuristic and its threshold and
the history it reads; a text is what the heuristics tell apart of it (length, stems, tokens, bigrams).
`TurnReplyProofs` is about what V2 asserts (`PlanChain`), its words (`PlanSurface`), its speech and replay
record (`PlanTurn`, `PlanReplay`) and the guard.
`MCLibrary` puts the eight parts between a phrase and the sentence that answers it side by side, each
with small data of the shape of the shipped data.

## 3. Runs, bounds and what they show

All runs finish within minutes on two workers.

| Run | Question | Instance |
| --- | --- | --- |
| `store` | can any interleaving break the tables, the durability of a reply or the loadability of a session; and alone, is a session a log of whole turns? | 2 processes, 1 session; side by side turn and delete, answered, grounded and recovered turns, 3 between them; alone every command, answered, blocked and recovered turns, 2 each |
| `torn_load` | "never left in a half-persisted state" with two concurrent turns | violation, finding 1 |
| `turn_boundaries` | does every boundary show a valid session and a whole turn? | 3 turns, 5 topics of every kind, limits that bite, 2 pack sets |
| `turn_doubt` | "unknown topic: valence drifts negative" | violation, finding 2 |
| `perspective_full` | the validator at the documented proportion of bounds | violation, finding 3 |
| `database` | is a backup always whole, is an opened database complete, does every command end? | 3 backups of one name with 2 process ids, 2 chunks, 1 write; 2 openers; 2 sessions' processes; fairness |
| `backup_race` | "existing destinations are never overwritten" | violation, finding 4 |
| `ledgers` | do the five ledgers beside the turn log keep their promises through any sequence of operations? | see below |
| `library` | does what lies between a phrase and its answer say only what it may, find what it should and notice what changed? | see below |
| `canary` | "canary authority fails closed" | violation, finding 5 |
| `typed` | "a fully typed graph" | violation, finding 6 |

Several runs hold parts that share no state and say with a variable `focus` which of them a behaviour
moves: the run explores the sum of their state spaces and not the product, which would show nothing more.

Why the bounds are enough for the interesting cases to happen:

* `store`: the hazards are between two processes and one session; sessions share nothing but the
  write lock, which a second process on the same session contends for just as well. Three turns
  let a process save, be overtaken and save again. Processes are interchangeable and no property of the run
  is a liveness property, so their symmetry is used; no other run uses symmetry. The proofs cover all
  other sizes.
* `turn_boundaries`: with `MaxAtoms = 5` and two seeded atoms, a topic with its world atom and a
  derived atom fill the graph, so growth is refused at the limit; commitment takes two turns of angst and
  collapse three, so three turns reach both; `HistoryCap = 2` trims; `ClaimCap` and `OpinionCap` are
  reached. The mode set holds one mode that reflects and one that reasons, which is enough to reach each
  state of the conversation machine that a proposition can reach.
* `database`: two chunks are enough for a mixed copy; three commands with two process ids let a killed
  run's id, and so its partial file, be met again. The upgrade starts from nothing, from the session
  table alone and from all tables with one of the two added columns or none: the shapes older builds
  left. For the sessions, one turn per process under fairness.
* `ledgers`, registry: two scopes of which one is presented make the cap act on each promotion; four
  versions with two inactive ones retained make the version bound act, three records the record bound.
  Evidence: with two opinions of three concepts the opinion bound refuses a turn; four turns let
  concepts be established, qualified and replayed in either order; `MaxEpisodes = 6` is the smallest
  number that never drains at two opinions, each with at most three facts to rest on (`RoomAssumption`;
  draining is what `perspective_full` is about). Stances:
  three texts on three topics, one of them unfit, a ring of one, one decision issued, one turn unsaved,
  three turns: a decision can be late, repeated, and met after refusal and reload. Commitments: a claim
  in two cases and another one, two active at most, three claims and two events per lineage. Authority:
  three principals are the shortest indirect cycle; the theorem covers every number.
* `library`: six packs with three loaded at once (one shares a word, one contradicts, one replaces, one is
  tampered with); a form of twelve propositions with at most two derivation steps and every binding,
  whole and damaged; eight topics, one for each boundary an attempt can stop at, and one replaced asset;
  four lexemes with a shared genitive, a missing instrumental and an untrusted homonym, under valid and
  faulty bundles; a profile of two topics and one table per fault; eleven signatures in two languages,
  among them one with a closure in a bound; five atoms and at most four edges of which six may be
  learned; eleven renderings, one on each side of every limit, and a history of six.

Deadlock checking is off in every run because each system may stop: turns, commands, operations
or releases come to their bound.

What each property says is stated in the comment above it in its module. The ones worth naming here:

* `TablesAgree`: whatever crashes or interleaves, the split rows are exactly the parts that the
  session row embeds, or there are none.
* `NoSessionBricked`: although a load may mix two commits (finding 1), it never makes a session that
  later loads refuse for a Perspective without its pack fingerprint. The fallback to embedded parts,
  deletes and re-creations are all in play.
* `RefusedTurnsTeachNothing`, `LogTellsTheHistory`: each witness, claim, grown edge and commitment
  between turns comes from a turn whose response reached the user; a failed turn is in neither history,
  log, decision nor counter, a refused one is in all of them.
* `CacheHitIsFresh`: the edge count identifies the graph at every point where the cache could be
  used. It is not obvious: growth that is given back and other growth of the same size lie between.
* `CommitmentEndsInCollapse`: a commitment ends by a recorded collapse and in no other way, whatever was
  refused or failed in between.
* `OpenedMeansComplete`: a database that claims the current version has the whole schema, whoever of
  two openers upgraded it and whoever gave up or died half-way.
* `BackupsEnd`: writers make a copy start over; it returns when they pause.
* `LedgerIsWhole`: the truncated records of a thread connect, although suspensions by the cap and
  rollbacks to nothing leave none, and every bound is kept.
* `HonouredOnceWhereIssued`: a signed decision stands in the past at most once, on the turn that
  follows the state it was issued against. `ReversalIsNoticed`: a contradiction is reported exactly when
  its evidence is among the last decisions of the whole past, reloads included. `ShadowForetells`: the
  shadow, separate code, proposes what the enabled rule would do.
* `ClaimsKeepTheirHistory`: an active entry is what the last event of its lineage left.
* `LoadIsOrderFree`, `AliasesAreNotTakenOver`: no order of packs changes what is accepted or meant, and
  a pack that shares an alias makes it ambiguous rather than its own.
* `OnlyCuratedIsAsserted`: at every depth of an authorized plan stands a curated triple or the
  conclusion of a confirmed rule over such, in its window of validity. It is stated over the meaning of
  the plan and not over the checks of the chain.
* `V2SpeaksCertified`: a V2 surface reaches the user only word for word as realized, with the authority,
  topic, mode and budgets that allow it, and every other V2 turn counts a step down.
* `ReplayTellsTheTurn`: a verification that passes vouches for the record written, and a reproduction
  for the words said, whichever asset or field has changed since.
* `ThesisReadsBack`: a reader of the sentence finds exactly the claim, in spite of homonyms: the subject
  and no other lexeme, and the whole object, in its case and once behind its preposition.
* `ReplyKeepsTheProfile`, `ReceiptsReadBack`: reply, plan and debate receipt tell of the same statements,
  and a receipt reads back exactly when nothing in it has changed.
* `AnswersFollowTheTypes`, `SearchFindsTheBest`: what is answered, activated, bridged or ranked first is
  compared with a declarative definition over everything that was within reach.
* `StuckIsNoticed`: an answer seen three times among the last five is not allowed again, and no other
  answer is warned of.

## 4. Fairness

* `MCDatabase!DatabaseSpec` assumes weak fairness of `Progress(p)` of each session process: a running
  process executes its next statement. A process that waits for the write lock is let in or, after
  `busy_timeout` (a connection setting of the code), gets SQLITE_BUSY, so waiting is bounded by the
  code itself. A turn that is given on the command line or by the self-play list is processed. Nothing
  is assumed of the user at a chat prompt (who may never type), of signals or of crashes.
  `ChatCloses` therefore speaks only of chats that have been told to close.
* It assumes weak fairness of the steps of each backup that is under way: the thread runs. Commits of
  other processes are bounded (`MaxWrites`): a writer that never pauses can make SQLite's backup start
  over for ever, and the code has no limit on it.
* Nothing is assumed of openers: `OpenedMeansComplete` is a safety property. All other modules are
  sequential code without waiting and state no liveness.

## 5. Proofs

TLAPS checks all proofs from nothing; no step is left open.

**`SessionStoreProofs`** proves, from `SessionStoreAssumption` alone (any sets of processes and
sessions, any subset of commands and outcomes, any bound on turns):

* `TypeCorrect`, from `TypeInv`: the type invariant with the fact that a process past its load holds
  a state;
* `TablesAlwaysAgree`, from `StoreInv` = `TypeInv`, `LockInv`, `TxnInv`, `TablesAgree`. `TablesAgree`
  is not inductive: a commit publishes the transaction's rows, so one must know that they are
  built from the committer's memory in order (`TxnInv`) and that a transaction is open exactly for
  the process that holds the lock (`LockInv`);
* `SessionsStayLoadable`, from `GroundInv`: the invariant is not about the tables agreeing (a load
  may be torn) but about *every* dialogue that could be met by a semantic part being grounded once
  any semantic part is, in tables, transactions, memories and half-finished loads alike;
* `RepliesFollowCommits`, from `ReplyInv`: a process about to reply holds a committed dialogue;
* `OneLateTurn`, from `LateInv`: a late turn leads to a save whose return goes to the loop's top,
  where the flag is seen;
* `SessionsAreWhole`, `AnswersStay` and `SessionsAreLogs`, each about an operator who is `exclusive`, from
  `SerialInv` on top of `StoreInv`. `Alone` says that at most one process is under way; then what it has
  read is what is stored (`ViewOf`), what it is about to save is what is stored and at most one new turn
  (`Grown`), and a stored session is coherent, contains what was acknowledged and nothing that was not
  committed (`LogInv`). For `SessionsAreLogs` a commit maps to a creation, a turn or a rewriting of the
  same log, a deletion's commit to a deletion, and each other step to a stutter. Side by side
  the three are false, after a torn load (finding 1) or because the last save wins.

**`TurnPipelineProofs`** is about any topics, bounds and pack sets that satisfy `TopicAssumption` and
`LimitAssumption`. `InvariantHolds` proves `PipelineInv`, which has four parts:

* `TypeInv`: state and snapshot are well-typed, the graph within its limits and closed under its
  relations, and a cached network, if there is one, is of the present graph and carries its edge count
  (`SemanticInv`), which is why each growth must invalidate it;
* `StoryInv`: the books of the snapshot agree (`BooksAgree`), and at each stage so do those that the
  stage has not yet touched;
* `LearnInv`: what the semantic part has learned is from the answered turns of the log, with the turn
  under way once it has been finalized;
* `GrowthInv`: within a turn the session only learns, and a commitment stays as it was unless a recorded
  collapse has cleared it.

`HistoryAndLogAgree`, `OnlyAnswersTeach`, `CacheIsOfTheGraph`, `SessionsStayValid` and `CommitmentKept`
follow. `StagesImplementTurns` proves the refinement of `TurnOutcomes`: while stages run the snapshot
stands for the session, so every stage but the last stutters, and a failure does too.

**`PerspectiveRegistryProofs`** is about all scopes, bounds and sequences of mutations.

* `OneActiveVersion` and `NothingWithdrawnReturns`, from `RegistryInv`: each thread is `Good`, its
  versions were allocated below the next ordinal and the one it holds active is exactly the one marked
  active. The action property needs it since a rollback returns to a version found by status.
  `LargestBelow`, from the well-foundedness of the naturals, says that this version exists.
* `LedgerStaysWhole`, from `LedgerInv`, which adds to `RegistryInv` that each thread is `Whole`: within
  its bounds, with records that connect. A new record connects since it starts from the version that was
  active, to which the newest record led; the bound cuts records off at the far end only. That a thread
  keeps at most `MaxInactive + 1` versions needs `RegistryInv`: just one of them is active.
* `PromotedIsPresented`, for a cap other than 0 (the code's default is 16, and its tests go down to 1):
  the cap suspends the oldest, so the one promoted in a turn of its own survives and sorts first. With a
  cap of 0 nothing is ever presented.

**`DatabaseProofs`** is about the two users of the database file that are not sessions. For backups it
proves `TypeCorrect`, `OnlyWholeBackups`, `PrivatePartials` and `NoLitter` from
`BackupAssumption`, for any number of commands, destinations, chunks and writes. `BackupInv` adds to
`DestinationIsWhole` and the types that a process id belongs to one live process (`PidsInv`), from which
partial files of live runs differ; that a finished copy is whole (`CopyInv`); and that each partial file
has an owner that has not removed it (`OwnerInv`).

For upgrades it proves `UpgradesAreSerial` and `OpenedIsComplete` from `MigrationAssumption`, for
any number of openers, tables and columns. `OpenedMeansComplete` is not inductive: a commit publishes a
draft that was begun long before. `MigrationInv` adds that a holder of the lock has a snapshot nobody has
overtaken (`WriterIsCurrent`) and how much of the schema a draft has at each place (`DraftGrows`).
`OtherCommit` is part of the specification, so snapshots do become stale.

**`PerspectiveEvidenceProofs`** is about any facts, any set of plans of any length and any bounds, from
`FactAssumption` and two assumptions about the pack set:

* `PackAssumption`: no fact both counters and follows from another, and none counters itself. It holds of
  the shipped pack (each of its facts has at most one such condition, 30 of the one kind and 9 of the
  other); the loader does not enforce it, and a pack that breaks it can build an opinion that the
  validator refuses. This is the one hypothesis a new pack has to be checked for.
* `RoomAssumption`: any opinions that may be held at once, with the facts that counter or follow from
  them, are no more than `MaxEpisodes`. So it is whenever the pack has no more facts than the 2048
  episodes that are kept (the shipped one has 69). Without it draining can take an opinion's last episode
  (finding 3).

`EvidenceIsKept` proves `EvidenceInv`: the perspective is `Sound`, which says, beyond what the validator
asks, that each opinion rests on facts of its own `Basis` only and that there are exactly as many
episodes as facts the opinions rest on, so that none is ever drained. `AlwaysLoads` follows.
`ReplaysAreIdle` needs that a fact already taken as grounds leaves every transition idle (`Settled`), and
that what a plan has settled no later claim unsettles (`SettledStays`). `WholePlansOnly` relates a turn to
the plan's claims one by one. All three go through the claims of a plan by the lemma `CountingUp`: a set
of numbers that holds 0 and each successor is all of them. In that form, about a set and not an
operator, induction is within reach; it is proved from the well-foundedness of the naturals, and so is
that the recursive function `Through` exists (`ThroughEquations`).

**`FactPacksProofs`** is about curated content: any packs, with lists of any length, and any phrases, from
`PoolAssumption` alone, which says that lists are lists and that words are folded to words; and any tables
of topics and any turns, from `ProfileAssumption`, which says that a table is a list of rows and that no
turn at all is none of the turns.

* `OrderDecidesNothing` proves `LoadIsOrderFree`. `Load` has a list of checks, most of which depend on
  what stands before: a pack is checked against the packs before it, a fact against the facts before it.
  The argument is that such a check, over all positions, is a check of each pair (`Apart`), so a set of
  packs loads under a condition, `Loads`, that does not name the order (`LoadTells`). What is
  gathered from the packs in another order is a rearrangement of what was: `GatheredIsLaid` gives
  each element of each list its place in the whole, and the places of two orders make a bijection
  (`GatheredRearranged`). Each part of `Loads` is then carried over (`RearrangedConcepts`,
  `RearrangedRegistry`), in both directions, since an order that is rearranged can be arranged back.
  Phrases resolve by the *set* of concepts only (`ResolvesBySet`). Which fault is reported does hang
  on the order; the property is about whether there is one.
* `AliasesOnlyGainOwners` proves the action property `AliasesAreNotTakenOver`. One pack more has the
  concepts of those before it and others, so each span has its owners and perhaps more, and there are
  perhaps more spans (`MoreConceptsMoreSpans`). If the best span stays the best, a single owner
  stays or becomes ambiguous; if it does not, the new one is longer, further left, or found without
  the lemmas. `LongestIsBest` says that a best span exists among any that match.
* `RepliesKeepTheProfile` proves `ReplyKeepsTheProfile`. `ReplyInv` says that what a turn has was made
  of the profile of the table and of that turn. The argument is then about values. An audit that finds no
  fault leaves one row per topic (`AuditedProfile`), so a plan about a topic is the plan of that row, with
  two claims or three, each with its fact and an identifier of its own (`PlansArgue`, `ArguedShape`). The
  renderer, which takes nothing of the plan on trust, accepts each of its claims (`ArguedRenders`). The
  observer, which looks for the thesis among the claims, draws one edge to each of the others
  (`EdgesAre`) and scores the four questions on them (`RubricOfClaims`), and the receipt it makes passes
  every check of its structure (`DebateHolds`), so it is sealed and not refused. `FirstFaultTells` and
  `FaultInTells` carry all of this: a function of checks answers "ok" just when each check passes.

**`LedgerProofs`** is about the two libraries of claims and delegations, and about stances.

* `DelegationsAreAcyclic` and `NobodyGainsByDelegating`, for any principals, permissions and
  delegations. Acyclicity is inductive. The key lemma says what a new edge adds to a least closed set:
  what was reachable before, and, if its source was, what its target reaches; a cycle through it would
  be a path that the check refuses. That a delegator gains nothing follows, since its own delegate never
  reaches it.
* `ClaimsAreAccountedFor`, for any claims and bounds, from `ClaimInv`: an active entry has a lineage
  whose last event left it so. Ids are allocated once, so an event of one lineage touches no other.
* `StancesKeepTheirPast`, for any texts, topics and ring size (`StanceAssumption`), proves `StanceInv`:
  the session's ring is the newest end of its past, its past is in the order of its turns, and each
  honoured decision stands on the turn after the one its attestation was issued for; the same of the
  saved copy, whose past is another one. `SignedOnce` follows since two honoured decisions of one
  attestation would be on the same turn. `ReversalsAreNoticed` compares the code's search in the ring
  with the whole past; `ShadowsForetell` compares the two copies of the rule.

**`TurnReplyProofs`** is about what V2 asserts, how it is put into words, and the end of a turn.

* `OnlyCuratedContentIsAsserted`, for any forms, registry, qualifiers and proposals, from
  `ChainAssumption`: nodes have the children their kinds name, dates are numbers, proposals are
  finite. `ChainInv` says what each certificate stands for. The argument is about depth. A node judged at
  the last level is judged by nodes that are authorized themselves (`AuthorizedToTheBottom`: the
  levels only grow, so one of them is the last). So the nodes that may be asserted are closed under
  what asserting them commits to (`AssertableKids`), and a closed set that holds the stated nodes holds
  whatever spreads from them (`SpreadStays`). A predicate stated at the top is the one exception: it is
  judged by the fact it is bound to.
* `SpokenThesesReadBack`, for any bundles, frames, long prepositions and claims, from `SurfaceAssumption`: the
  embedded bundle loads (the program stops otherwise), a claim has an object, and what is
  there is not `Absent`. `SurfaceInv` ties each thing built to the one before it. That the first word names
  the subject is what the round trip of each form checks; that the head agrees with the gender a *reader*
  finds needs that a loaded bundle has one entry per lemma (`OneEntryPerLemma`), and that the
  object stands in the governed case needs that frames govern cases (`FramesGovernCases`) which have a key
  in the bundle (`KeyOfCase`). `ObjectIsSaid` goes through the kinds of complement.

* `V2SpeechIsCertified`, for any topics, allowlist and limits on the five resources, from `SpeechInv`:
  a plan at hand tells the truth about its topic (`PlanTells`), from the first fault of the attempt on.
* `ReplaysTellTheTurn`, for any assets and releases, from `RecordInv`: a record is the one written but
  for one misread field, so its digest is the written one or its fields are.
* `StuckAnswersAreNoticed`, for any texts and findings of the heuristics, as long as the history keeps
  the five entries the check looks back at (`GuardAssumption`; the code keeps 10 000). `GuardInv` says
  that history and what the user saw end alike (`EndAlike`), as far back as that.

Assumptions on constants are stated in the modules that declare the constants. Each is evaluated by TLC
in a run on the values given there, as an `ASSUME` of its own module or of the MC module of the run.
The properties that theorems state are the very definitions the runs check: the MC modules extend the
modules the theorems are about.

Only model-checked:

* liveness (`CommandsEnd`, `ChatCloses`, `BackupsEnd`), which is out of the prover's reach;
* `AnswersFollowTheTypes`: `CodeTypes` and `CodeRegistry` recurse over types, whose depth is in no set's
  size, and are compared with reference definitions over bounded inputs;
* `ReceiptsReadBack`, about the bytes of a receipt, which are a flattening of lists of any length, and
  `SearchFindsTheBest`, about a recursive search: what either computes for every input is induction over
  data;
* the sentences that the violation runs refute.

## 6. Disagreements between code and documentation

1. **Torn load** (`torn_load`). `load_state` reads three tables without a transaction. A load that
   overlaps another process's commit mixes two saves, and the next save makes the mixture permanent.
2. **Unknown topics do not raise doubt** (`turn_doubt`). The field adjustment looks the topic up in
   the graph that the turn itself has just extended.
3. **Episode eviction** (`perspective_full`). With three episodes per argued concept and two episodes
   of room per opinion, draining leaves an opinion without an episode, and the validator then
   refuses the session. The shipped pack is too small to reach it.
4. **Overwritten backup** (`backup_race`). The destination is looked at before the copy only; a
   backup that finishes meanwhile is replaced by the rename.
5. **Canary falls back to V1** (`canary`). A turn under the canary authority that V2 may not render is
   given to the renderer the caller named; ADR-0034 says that it fails closed and calls no V1 renderer.
6. **Closure in a signature** (`typed`). `parse_signature` takes the first arrow and the first
   parentheses, so a function with a closure type in its generic bounds is registered without its own
   parameters and with the text after the closure's arrow as its result. 17 of the 78 signatures in the shipped tables are of that shape.

Each is a run with `expect: violation` that shows a shortest path, and an entry under "findings".

Oddities that contradict no sentence of the repository are modelled as they are: an empty slot when the
borrowed relation repeats (`content_selector.rs:233`); a V2 text emitted without a record when the
binary cannot be read (`qxfx0-pipeline/src/lib.rs:1200`); a fact count over the whole active set in the
profile's check (`argued_topics.rs:248`); the field passed to the pathfinder's ranking and not used.

## 7. Not modelled, and why

* The staged clarification route (`ClarificationMode`, disabled in all standard callers): it is taken
  when the field's confidence has fallen low, and in a session that grew from a fresh one no branch of
  the code takes it below its start. The conversation machine's Active, Clarifying and Concluding cannot
  be reached otherwise, since no proposition emits their events. The enabled mode of the doubt rule is in
  `StanceDecisions`.
* Deliberation: a choice between two plans by weights that changes nothing the properties tell apart.
* The numeric formulas of conatus and salience, and the vector and conjugate variants of the pipeline.
* Wording: templates, conjugation tables, discourse markers, layout of listings.
* `list_sessions`, `health_check`, `doctor`, metrics, trace printing and the offline gates over recorded
  cases (`response_plan_v2_gate.rs`, measurement, audited corpus, corpus import) only read and report.
* The agent bridge of the code command (JSON in and out) and the operations scripts, which call the
  commands that are modelled, with their rotation of old backups.
* Static data: seed graph, knowledge packs, lexemes, code snippets. The models take small data of the
  same shape.

## 8. Plan

The components are modelled in order of importance: the store; the pipeline; evidence, backup, registry
and authority map; stances, commitments and migration; then what lies between a phrase and its answer,
from packs to the guard. Each safety property outside the library is proved, and in the library what a set
of packs means, what a reply says of its topic, what V2 asserts, how it puts it and when it says it, what
its record vouches for, and what the guard notices. What is left is to share, between the modules, the
lemmas that several proofs state alike (the newest entries of a sequence, least and greatest elements).

A violation run goes once the code or the sentence it contradicts has changed.
