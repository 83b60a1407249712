# A verification development for recall.select

recall.select is a memory service for agents: a FastAPI process that keeps users,
projects, API keys, payments and meters in MongoDB and the memories themselves in
Qdrant, sells tiers through Monobank, and is spoken to over REST and over MCP.
This directory models its core in TLA+, checks the models with TLC and proves
theorems about them with TLAPS. Paths below are relative to `src/` of the
repository.

    tlc -workers 2 -config settle.cfg MCBilling.tla     # a run: its cfg and its MC module
    tlapm BillingProofs.tla                             # the proofs of one component

`PROJECT.json` lists the runs, the theorems, the hazards of the code with their
lines, and for every definition the lines it models.

## 1. Inventory

| Component | State it keeps | Operations | Talks to | Hard behaviours |
|---|---|---|---|---|
| Tiers and payments, `app/services/billing.py` | `users.tier`, `tier_expires_at`, lapse marker; `payments`; `tier_grants` | `record_pending`, `apply_webhook`, `grant_tier`, `list_unsettled`, `reconcile`, `downgrade_expired`, `renewal_state` | MongoDB, Monobank | webhook and sweep race; a claim split from its grant by a failure; read-modify-write of the expiry; stale lists |
| Checkout and webhook, `app/api/payments.py` | a cached public key | `checkout`, `monobank_webhook` | Monobank, billing | messages lost, late, repeated, out of order; a request that dies between two stores |
| Background loop, `app/main.py` | none | `_reconcile_payments_periodically` | billing, in a worker thread | exceptions end a sweep; restarts |
| Monthly meter, `app/services/usage.py` | one `usage` row per user and month | `check_call_allowed`, `record_call` | billing, MongoDB | check-then-act; the month turning over in between |
| Memories, `app/services/memory.py`, `collections.py`, `collection_provisioning.py`, `qdrant_store.py` | a registry row in MongoDB, a collection and its points in Qdrant, two counters | store, recall, delete, register, destroy | both stores, usage, relations | two stores without a transaction; counters refreshed from stale reads; lazy creation |
| Workspaces, `app/services/workspaces.py`, `projects.py`, `api_keys.py` | `projects`, `api_keys`, registry rows | `ensure_default_project`, rotation of the link key, management routes | MongoDB | find-then-insert without a unique index; delete-then-add |
| Declared relations, `app/services/vector_semantics.py` (writing) | `_semantics` in each point's payload | link, unlink, annotate, prune on delete | Qdrant | whole-value read-modify-write; checks that go stale; bounded scans |
| Semantic recall, `app/services/vector_semantics.py` (reading) | none | lenses, `semantic_graph`, `spreading_activation`, `concept_clusters` | Qdrant | relations to memories that are gone; accumulation over parallel links; union-find; window boundaries |
| MCP server, `app/mcp_server.py` | none beyond a request | one tool per service call, in a worker thread | the services above | concurrent calls of one agent |
| Users and sign-in, `app/services/users.py`, `app/auth.py`, `app/api/users.py` | `users`: email, Google subject id; the user in the session cookie | `get_or_create_google_user`, `callback`, `logout`, profile edits | Google, MongoDB | an edit between the lookups and the write; emails that change hands; a session that lives in the cookie only |
| Admin area, `app/api/admin.py`, `app/services/admin.py` | the unlock and its time in the session cookie; failures per client in memory | `unlock`, `lock`, the check before every page, pages | MongoDB (reads) | counts and waits at their boundary; late responses that put an old cookie back; restarts |
| Language, docs, schemas, deployment | none; none; none; files on a server | see section 7 | - | - |

Components interact in four ways, and each shapes a model. Routes and tools call
services in worker threads that share the two stores and no lock, so an action of
a model is one call on a store with the Python up to the next one. The webhook
route is async and never yields once it has read the body, so it is one more
thread, as is the sweep. Monobank is an environment that sends messages at will.
And the two stores know nothing of each other, so a failure may fall between any
two calls.

What makes each component correct:

* billing: an invoice buys its tier once, against money, on top of what the buyer
  holds; a paid invoice is granted even if its webhook is lost; only closed
  windows end; the renewal prompt follows;
* meter: a month is not exceeded by more than the calls that run at once;
* memories: an acknowledged memory stays until it is deleted; registry, collection
  and counters agree again after failures;
* workspaces: default projects and link keys stay bounded by overlap, and the link
  issued last works;
* relations: calls act on one memory at a time, anchors survive, relations go with
  the memories they lead to;
* semantic recall: activation and concepts are what their definitions say, and a
  walk does not stray;
* sign-in and admin area: an identity comes back to its account, keys are braked,
  and no page outlives its unlock.

## 2. Plan

Modules in the order they were written, core first:

1. `Entitlement`, `Renewal` (the arithmetic of a tier and its prompt), `Monobank`
   (environment), `Billing`; abstract specification `TierContract`;
   `BillingProofs`.
2. `UsageMeter`, `UsageMeterProofs`; then `MemoryStore`, which uses a meter
   (`Meter == INSTANCE UsageMeter WITH ...`) and is shown to keep its contract.
3. `Workspace`, `WorkspaceProofs`.
4. `Relations` with abstract specification `RelationGraph`; `RelationsProofs`.
5. `SemanticGraph`; over it `ConnectedRecall` and `Concepts`; composed in
   `SemanticReads`.
   `NeighbourWalk` (the live walk) joined them later.
6. `Identity` and `AdminGate`, composed in `Access` over the session cookie;
   `AccessProofs`.
7. `SumTheorems`, what the sums of the community modules add up, for any finite
   domain; over it `MemoryStoreProofs`: types, the refinement of `UsageMeter`, what is
   kept, and the two meters.
8. In `BillingProofs`, the refinement of `TierContract` while threads do not overlap.
9. `SemanticProofs`: concepts, sessions, where a recall may go and what it adds up to.

Left for later: the incoming side of `relations_of`, and `infer_relation`;
a store beside the live walk; composition of workspace provisioning with first
stores; the language negotiation as a function.

## 3. Modules and how they correspond to the code

**Entitlement, Renewal.** The four fields of a user document that decide a tier,
and the functions that read and write them: `EffectiveTier`, `GrantExpiry` and
`GrantedAccount` (`grant_tier`), `HasLapsed` and `LapsedAccount`
(`downgrade_expired`), `RenewalState` (`renewal_state`). Time is a natural number,
in parts of a second (`SecondLength` of them, `DayLength` to a day): `DaysLeft` rounds
a part of a day up and drops a part of a second, as `billing.py:283` does.

**Monobank.** An invoice moves along `MonobankSteps`; `sent` is every message ever
sent. Messages stay in `sent`, so the handler may receive any of them, late, again,
in any order, or never.

**Billing.** `checkout[i]` follows the route through create, record, reply.
`pc`/`job` follow each thread through `apply_webhook` (`ClaimPaid`, `AlreadyPaid`,
`RecordStatus`: the two conditional updates are atomic in MongoDB) and `grant_tier`
(`GrantRead`, `GrantWrite`, `GrantLog`: read, write and audit row are three calls).
The sweep lists (`ListUnsettled`, oldest first, up to `SweepLimit`), looks each
invoice up, applies what it hears, lists lapsed accounts and downgrades them one
by one. `Abort` is an exception anywhere, `Crash` a restart. `ledger` is
`tier_grants`. History, which the actions keep and no guard reads: `credited`, the
writes of a grant to an account; `reported`, how often a sweep has counted an invoice;
`renewed`, whom a sweep has listed as lapsed and who were granted a tier since; `lost`,
the invoices whose claiming thread failed before its grant.

**TierContract.** The same promises with a grant and a lapse as one step each.

**UsageMeter.** A call asks (period, then tally: two reads of the clock and the
store), is admitted, stamps the period again and adds to it. A month may end
between any two.

**MemoryStore.** One project. `row` is its registry document, `backed` whether the
Qdrant collection exists, `points` what it holds, `acked` and `gone` the ids whose
store or delete was answered. Every call is a path through `pc` with a step per
store call. Relation pruning of a delete is in `Relations`.

**Workspace.** One user. `flagged` are default projects, `label` the keys, `minted`
and `latest` history of the link keys. A request finds or adds the project, flags
it, registers the row and, for a link request, drops and issues a key.

**Relations.** One project. `doc[m]` is the set of facts in a point's `_semantics`:
relations, keyed by target and type, and notes, keyed by name: the anchors (`owner`,
which stands for `stored_at` too) and what clients annotate. A link or an unlink is any
set of relations (`Batches`), of several sources and to several targets; an annotation
is any set of notes (`Annotations`), the anchors' keys included, since the code refuses
only the key `relations`. A request reads a document (`seen`), writes it back whole, and
goes on to its next source. A delete drops the point, then scrolls a window of points
(`Windows`, at most `MaxPoints`) and rewrites those with a relation to it. `Remember`
and `DropCollection` are the other writers.

**RelationGraph.** The same with one step per memory: facts come or change their value
(`Declare`), relations go (`Retract`), a memory goes with the relations to it
(`Forget`). The one exception is `Tear`, a write from a stale read.

**SemanticGraph, ConnectedRecall, Concepts, SemanticReads.** A reading request, but for
the topical walk, computes on the points of one scroll, so the store is a value chosen at
the start: times, entities, relations and cosines per memory. Ids that are not among the
points read (`Ids \ Stored`) are memories that are gone, or beyond the 500 of the scroll.
The four lenses turn the points into edges. The hits of a text come from a search of their
own, so a walk may start at any ids (`WalkInit`). `Hop` is one round of
`spreading_activation`; `Take`, `Halve`, `FoundSource`, `Link` and `Group` are the rounds
of the loops in `concept_clusters`, down to the path halving. Weights are counted in
halves and energies in units small enough for the last hop (`Unit`, with two halvings to
spare for every hop), so what a hop passes on is exact; the nearness of two times is
rounded down to halves, and the floor of `1e-6` of a temporal weight is a weight of 0 that
still conducts. A memory mentions an entity at most once. It may declare any set of
relations.

**NeighbourWalk.** The topical walk (`_activate_ann`) asks Qdrant for the neighbours
of one memory after another (`Ask`; `Closest` is any set of nearest points, ties
broken freely) and turns to the next round when the frontier is done. There is no
snapshot: `Vanish` is a delete by another call, and a query for the neighbours of a
point that is gone raises (`Refuse`). Memories stored meanwhile are left out.

**Identity.** `users` keyed by id, with the two fields a sign-in looks at. A callback
looks by subject id (`FindBySub`, `NoneBySub`), then by email (`FindByEmail`), then
attaches or inserts (`Attach`, `AddUser`, `AddUserFails`: the unique index). It runs
on the event loop, so there is one at a time (`signing`), with `Patch`, the profile
route, in a worker thread beside it. The email an identity brings is any: people
change theirs, and freed ones are used again. `visits` is history.

**AdminGate.** `_failures` per client, and the wait as `_locked_out` computes it, in
whole seconds of a finer clock. `wrong` and `since` are history.

**Access.** `jar` is the cookie of each client: the signed-in user and the time of
the unlock. A request carries the cookie its client had, and its response puts back
what the handler left; one request of each client may be late (`late`: sent, being
handled, answered), the others are answered at once. The handlers of `auth.py`,
`admin.py` and the profile route are one action each, save the callback, which is
`Callback`, `KeepSearching` and `SignIn` or `SignInFails`. While a callback is in
progress the event loop runs no other async handler (`LoopIsFree`). `Restart`
forgets the failures and the requests in hand, and leaves cookies alone.

The definitions whose comment begins with *Faulty* belong to no model. Each is a
plausible slip in the definition that follows it, and a property of the runs is
known to fail with it.

## 4. Runs

Unless noted, a run has all states of its bounds, with deadlock checked.

| Run | Question | Bounds | Result |
|---|---|---|---|
| `settle` | Webhook route and sweep race over two invoices of one buyer, one of which the sweep cannot look up, with a failure or a restart anywhere. Granted once, only against money, only for recorded invoices, no window stretched, none ended early but by a stale lapse, each reported once; and in the end granted, or stranded by a failure and nothing else? | 1 handler, 1 sweep (as deployed), 2 invoices, clock 0..2, 1 failure; fair | holds |
| `recover` | With every status, webhooks lost or stale, a grant by hand and a failure: does the sweep record every end and downgrade every lapse? | 1 invoice, clock 0..3, 1 open-ended gift, 1 failure; fair | holds |
| `renewal` | With one thread, do purchases, lapses and the prompt behave as if each were atomic (`KeepsContract`), and when does the warning begin? | 3 invoices of 2 tiers, clock 0..4 with 2 instants to a second and 4 to a day, windows of 3 instants, 1 failure | holds |
| `stranded` | Is a paid invoice always granted? | as `settle`, 1 invoice; fair | **no**, section 6 |
| `meter` | How far is a monthly budget exceeded? | 3 callers, 3 months, budget 2 | holds |
| `mem_single` | Two stores, one call at a time, two failures: do registry, collection and count stay or come together? | 2 memories, every operation | holds |
| `mem_shared` | Two calls at once over a month boundary, one failing: are acknowledged memories kept, do the meters agree? | 2 memories, 2 months | holds |
| `bare_recall` | Does recall on an empty project answer? | 1 call at a time | **no**, section 6 |
| `workspace` | How many default projects and links, does the newest link work? | 2 requests, 2 projects, 3 keys, 1 failure | holds |
| `relations` | Do links, unlinks, annotations and deletes act on one memory at a time, and who changes an anchor? | 2 calls at once, 3 memories, 1 type, 1 or 2 relations in a call (from one memory or to one), annotations of no key or of the anchor, any number of failures, a prune that looks at 1 point | holds |
| `connected` | Are activation and concepts what their definitions say, over a snapshot and over a store that loses memories meanwhile; do requests end? | every store of 3 memories and one that is gone or not scrolled, up to 2 relations of 2 types to a memory, a walk from a memory or from 2 hits of a text, one of them not scrolled; 2 hops, a fanout of 2 | holds |
| `access` | Do identities come back to their accounts, does each further wrong key cost a wait, does every admin page end with its unlock? | 1 client with a late request, 3 accounts, 2 identities, 3 emails, 4 requests, clock 0..4 of half seconds | holds |

*Why the bounds are enough.* The hazards of billing, meter, memory, workspace and
relations are pairs of threads around one document, so two threads meet all of
them; the third caller of `meter` shows that the overshoot grows with the number of
callers. One failure separates any two calls; `mem_single` takes two, so that the
second falls on the repair of the first, and `relations` any number. The clock of
billing reaches past one window and one reconcile period. In `renewal` two windows
stack to a day and a second, so the warning begins within the clock, with half a second
over when it does, and a single window closes within it. `relations` needs three memories
for a relation that neither end of an overlapping call owns and for a call about two
others, `connected` three for a path of depth two in a union-find and a memory two hops
away; a fanout of two is the least that holds such a store, where an off-by-one in
`neighbors` shows. Three
accounts and emails let an email move on to another account and be used again while
two identities sign in; four requests are an unlock, a lock, a late response and a
page. The theorems below
hold for every value of these bounds.

*Symmetry* is declared over callers, threads, ids, projects, keys, accounts,
identities, emails, and in `renewal` the two invoices that differ in nothing, which the
modules only compare; the runs that have it check invariants, action properties
and refinements, no liveness.

*Deadlock* is not checked in `workspace`, where fresh ids run out, and in
`connected`, where a request ends. The clocks of the other modules stop but their
loops go on.

*Fairness.* `FairSpec` says that a thread that has begun goes on (`WF` of `Apply`
and of `Loop`), that the loop comes round again (`main.py` catches what a sweep
raises and continues), and that time passes. Nothing is assumed of customers,
Monobank, or the delivery of webhooks. A request in `SemanticReads` computes until
it is done.

What is worth knowing of individual properties:

* `GrantedOrStranded`: once Monobank reports an invoice paid that the sweep can look
  up, it is granted, or a failure has fallen on the thread that claimed it. No webhook
  is needed, and an invoice that never answers does not stop the others.
* `NeverMoreThanBought` and `ClaimLeadsToGrant` carry what is left of "exactly once"
  under races and failures: never more, and less only where the very thread that
  claimed the payment failed before its grant. A failure elsewhere excuses nothing.
* `LiveTierIsKept` names the one race that ends a tier in force: an account renewed
  between the query of `downgrade_expired` and its write. That it is the only one is
  what the run and the theorem show, with the webhook route beside the sweep.
* `ReportedOnce` is what remains of an honest report when webhooks race the sweep: the
  count may name a grant another thread made (section 6), never one twice, in this report
  or a later one, and never one that is not paid.
* `WarningIsInTime` is exact to the second: the days left come from whole seconds, so
  the warning begins less than a second before the warning days.
* `KeepsContract` maps `charged` to the invoices Monobank has reported paid. It
  holds while threads do not overlap (section 5) and not beyond (section 6).
* `PromptRunsDown`: between the end of a window and the sweep the page is silent,
  since the tier written down is not in force and nothing is marked as lapsed yet.
* `RoomForPending` and `FutureIsBlank` are what makes `OvershootBounded` inductive:
  a month's overshoot must count the calls that passed the gate in the month before.
* `CountIsRepaired` and `MetersAgree` say what a failure between the two stores or
  the two counters costs and when it is made good.
* `LatestLinkWorks` holds although rotations delete one another's keys, because each
  issues its key after it has deleted.
* `GhostsNeedOverlap` is the best that is true of "deleting a memory cleans up the
  relations pointing at it": undisturbed calls, and a window that holds the store.
* `AnchorIsKept` is about values, not keys alone. An annotation may name the anchors, so
  they do change; a rewrite never leaves a memory without an owner or with two, and what
  it leaves is what was there, what an annotation names, or what a stale read brings back.
* `RecallStaysInConcept` ties the walk to the clusters. Its condition is the point:
  an undirected relation to a memory that is not among the points read conducts back, so
  a walk that comes to it, or begins there with a hit of its text, crosses to memories
  that no lens connects. Expired relations lead nowhere.
* `ActivationIsBestWalks` compares with walks as sequences of links: of what arrives
  at a memory all counts, but only the best goes on. Both implementations of the walk
  are held to it, the live one from a fanout that holds the store.
* `ComesHome` names its one exception: an account found by email takes the identity
  that found it, also where it had another. Then the earlier identity may go on to a
  second account.
* `GuessesBounded` counts in the wait that the truncation to seconds leaves, just over
  a second less than `LOCKOUT_SECONDS`. It is about one run of the process.
* `PagesEndWithUnlock` is what is left to say with a session that lives in the cookie:
  a lock can be undone by a late response, an unlock cannot be prolonged.

## 5. Proofs

Every theorem holds for all values of the constants under the named assumptions
of the modules, which TLC also evaluates in the runs.

**BillingProofs** (`TypeCorrect`, `AtMostOnce`, `PaidFirst`, `RecordedFirst`,
`PaidStaysPaid`, `ClaimsAreHonoured`, `WarnedInTime`, `NoWindowIsStretched`,
`ReportsCountOnce`, `LiveTiersAreKept`), for any number of handlers, sweeps, operators,
failures and restarts, however they interleave. `GrantedAtMostOnce` alone is not
inductive: nothing in it says that a thread about to write a grant is the only one. `IInv`
adds `ClaimInv`, that at most one thread holds the claim on an invoice and that nothing
was credited before it; `WorkInv`, that threads and sweeps carry recorded invoices and
statuses that were sent; and `CheckoutInv`, that money and messages come after the record.
Each action gets its step; failures only drop claims, so they are one lemma, and where the
claim was not yet granted the invoice goes into `lost`: `ClaimsAreHonoured` has no other
excuse. `WarnedInTime` is about a division of whole seconds rounded up to days and rests
on `FreeIsOpen`, that a free account has no end. `NoWindowIsStretched` rests on
`BoughtInv`: an expiry that was computed and not yet written counts as one more purchase,
so it stays within the sum of the purchases whatever is written before it; the clock and
the purchases only grow. `ReportsCountOnce` rests on `CountInv`: an invoice is listed
while its payment is unpaid and counted when it is paid, for good, so what a sweep has
counted it never lists again, whoever settled it. `LiveTiersAreKept` rests on `LapseInv`:
an account on a sweep's list has lapsed, is free already, or was granted a tier since it
was listed.

*The contract*, in the same module (`ContractIsKept`, `LoneThreadKeepsContract`,
`PromptsRunDown`), carries what `renewal` shows for one thread to any number of them, on
one hypothesis: `[]Alone`, that no two threads are at work at the same time. The deployed
process keeps it as long as no webhook arrives during a sweep; a webhook while the loop
sleeps, and any failure or restart, is covered. The hypothesis cannot be dropped, section
6. `FreshInv` says that what a thread has read is still so when it writes: an expiry
computed is one the account of this moment would get and an account listed as lapsed still
is. With it every `GrantWrite` is a grant of the contract, every `Downgrade` a lapse, and
every other step a stutter, a charge or the clock. `LoneThreadKeepsContract` is the same
without the hypothesis where there is but one thread. `PromptsRunDown` assumes besides
that nothing is given by hand (`GiftDays = {}`, as in `renewal`): a gift moves a window as
a purchase does and leaves `credited` alone.

**UsageMeterProofs** (`TypeCorrect`, `BudgetHolds`). `Pending(m)` are the calls that
can still add to month `m` without passing a gate that reads `m`. The invariant
`calls[m] + |Pending(m)| <= Allowance + |Callers| - 1` survives the gate because
the caller that asks was not pending, and the turn of a month because the month to
come is blank.

**WorkspaceProofs** (`TypeCorrect`, `DefaultsAreBounded`, `LinksAreBounded`,
`LatestLinkStands`). Default projects and the requests about to add one are counted
together, as are live links and requests about to issue one; a step moves one from
the second set to the first or leaves both. The step that finds no default project,
and the one that drops all links, start from an empty first set.

**RelationsProofs** (`TypeCorrect`, `AnchorsSurvive`, `GraphIsKept`,
`NoGhostsUndisturbed`).
`AnchorsSurvive` rests on `AnchorInv`: what a call has read of a memory still stored
holds the anchors once, an annotation names them at most once, and ids never come back.
`GraphIsKept` is the whole refinement `Spec => KeepsGraph`, step by step, for any batches
and annotations: with `GraphInv`, that no document, read or batch mentions an id not
drawn yet, every write is a `Declare`, a `Retract` or, from a stale read, a `Tear`, and
every delete a `Forget`.

`NoGhostsUndisturbed` rests on `GhostInv`: while nothing has been disturbed either no
call is under way and no relation leads to a memory that is gone, or exactly one call
is, what it has read is what is there, and if it is a delete the only such relations
are those it is about to take away.

**MemoryStoreProofs** (`TypeCorrect`, `MeterIsKept`, `MemoriesAreKept`,
`MetersStayTogether`, and, one call at a time, `StoresStayInStep`, `RestRecovers`,
`CountsAreRepaired`), for any threads, ids, months and failures. `OpInv` says which
operation may stand at which step. `MeterIsKept` is the whole refinement `Spec =>
KeepsMeter`: every step is an `Ask`, `Admit`, `Stamp`, `Record` or `Drop` of `UsageMeter`
or nothing to it, so what `BudgetHolds` says of every behaviour of `UsageMeter` is true of
these calls. `MemoriesAreKept` follows a store from its row to its answer (`KeptInv`):
without a teardown no step takes back the row, the collection, or the id other than into
`gone`. `MetersStayTogether` counts the calls between the two increments; a call that
counts has found the row or made it (`RowedInv`). It takes the months and the calls at
once to be finitely many, so that the sum and the count mean something, and rests on
`SumGrows` of `SumTheorems`. The theorems for one call at a time share `AloneInv`, what a
call that is alone knows of the two stores at each step.

**SumTheorems** is what the two proofs with sums in them need, for every finite domain:
a sum is a natural number (`SumIsNatural`), any member can be taken out
(`SumTakesOne`), members that add nothing can be left out (`SumSkipsZeros`), and it
grows with its members (`SumGrows`, `SumMonotone`). `SumFunction` is a fold that takes
its members in an order chosen by `CHOOSE`. That the order does not matter
(`AnyMemberFirst`) is proved from the definition, by an induction over the members of a
family of sets (`SubsetsBySmaller`), which needs no operator as a parameter.

**AccessProofs** (`IdentitiesComeHome`, `KeysAreBraked`, `PagesEnd`, `TypeCorrect`), for
any clients, accounts, identities, emails and lockout. Each step is a move on the users
collection, on the failure counts and on the cookies, and each has its invariant: an
account holds the identity it was visited by unless a second was let in; of a client's
count, the wrong keys past the limit were each paid for by a wait; no unlock in a cookie,
a late request or a response is newer than the last right key.

**SemanticProofs** (`LinksFollowEdges`, `ConceptsAreTheComponents`, `SessionsAreConcepts`,
`RecallStaysInside`, `ActivationIsOfBestWalks`), for every store, lenses, order of edges,
number of hops and fanout.
A reading request never changes its snapshot (`SnapshotStands`). Union-find is handled
without a word of paths: a set of memories is closed under links if it holds, with a
memory, its parent and its children. Halving a path changes no closed set; a link leaves
those that hold both its ends or neither. `ConceptInv` says that the sets closed under the
edges are closed under links, and the other way round for the edges looked at, so in the
end they are the same sets; two roots are never joined (`RootsApart`), as the memories
below one of them are a closed set. `SessionsAreConcepts` takes, in a closed set, the
latest time inside a span at which one of its memories was stored: no gap of the span can
begin there. `RecallStaysInside` needs to know where an edge may end (`EdgeEnds`): at one of
the points read, or at another memory that a relation in force names. Nothing is assumed of
the seeds but that they are ids.

`ActivationIsOfBestWalks` compares a computation that forgets all but the best energy of
each memory with maxima over all sequences of links. `ActivationIsBestWalks` is not
inductive: it says nothing of the frontier the next hop starts from. `EnergyInv` adds that
the frontier holds, for every memory walks of that many links come to, the best that comes
(`Leads`). As rounding keeps the order of energies (`ThroughGrows`), what a frontier passes
on over a link is then the best walk over it (`BestFromFrontier`), and a hop adds one term
to what a memory is due (`DueGrows`). The live walk makes its hop one query at a time:
`GivenBy` is what of that term is due from the memories asked about, and one query adds the
one link from the memory it asks about (`GivenGrows`). Where neighbours are left out or
deleted, each equation is an upper bound. That energies are finite sums needs
`EntitiesAssumption`: a snapshot names finitely many entities.

*Only model-checked:* liveness (`EndIsRecorded`, `LapsedIsDowngraded`,
`GrantedOrStranded`, `RequestEnds`), which is out of the prover's reach. Every invariant
and action property of the runs that pass is a theorem, and so are the refinements of
`TierContract`, `UsageMeter` and `RelationGraph`; some carry a hypothesis, named above
with each: threads that do not overlap, one call at a time, finitely many months. The
types of `Access` are proved and not a property of its run.

## 6. Findings and limits of the code

Two runs refute what the repository says of itself:

* `stranded`: a thread lost between the claim (`billing.py:435`) and the grant
  leaves a payment recorded as paid and nothing granted, and no sweep looks at it
  again, since it is settled.
* `bare_recall`: the registry row exists from the moment a memory link is made, the
  collection from the first store; recall tests for the row only (`memory.py:119`)
  and the search raises, where its docstring promises an empty list.

Other limits, seen while modelling. They have no run of their own: each shows when
a run is widened as described, or follows from the lines named.

* *A lost month.* With a webhook thread beside the sweep, two purchases of one
  buyer can be granted from the same read of the account (`billing.py:175`): both
  extend the same expiry. `KeepsContract` fails in `renewal` with a handler.
* *A stale lapse.* `downgrade_expired` overwrites an account that a webhook has renewed
  after its query (`billing.py:234`): the renewed tier is gone. `settle` has this race;
  `LiveTierIsKept` excepts it by name.
* The sweep counts an invoice as granted when Monobank reports it paid and its update
  did not raise, also where a webhook made the grant in between; the comment at
  `billing.py:534-535` thinks of earlier deliveries only.
* `tier_grants` may miss the row of a grant whose thread dies before it.
* A late status replaces a terminal one other than success, until the sweep or
  another message corrects it. A purchase of a tier held without end cuts it to a
  month. Invoices whose lookups never succeed fill the sweep's window from the
  front, once there are as many as its limit.
* `CountIsRepaired` and `BackedIsRegistered` fail with two calls at once: a count may
  be written after a newer one, and a teardown overtakes a registration. Of two first
  stores at once one is refused.
* The monthly budget is not strict, `meter`.
* *Relations to memories that are gone.* A link that has checked its endpoints
  writes its relation after a delete has pruned (`vector_semantics.py:183`), and it
  stays for good, against the text of `unlink_memories`
  (`mcp_server.py:199-200`). The same follows from a prune that fails half way, and
  from stores beyond the 500 points it looks at. `connected` shows what a recall
  makes of such a relation: it lists the memory that is gone with no text, and may
  route through it.
* The texts of `recall_connected` and `spreading_activation` say that a memory two
  links away ranks below its closer connectors. With several connectors it may rank
  above them, as all that arrives is added up (`ActivationIsBestWalks` says how): three
  connectors of full strength are enough, 3 x 0.25 against 0.5 each.
* The topical walk raises, and its recall with it, when a memory it has reached is
  deleted before its own query (`Refuse`); a walk over a snapshot does not.
* The profile route stores a null email before its answer fails to validate
  (`api/users.py:24-32`), and the unique index then refuses the next one.
* An annotation may carry the keys `owner` or `stored_at` and so replace an anchor
  (`vector_semantics.py:139`). `relations` has this; `AnchorIsKept` says that, but for
  writes from a stale read, nothing else changes one.
* The hits a text recall starts from need not be among the points it has scrolled
  (`vector_semantics.py:595`): such a memory is listed with an empty text, as one that is
  gone would be, and so are targets of relations beyond the scroll.

## 7. Not modelled

| Part | Why |
|---|---|
| Vectors, embeddings, ranking, representatives, `related_memories`, `infer_relation`, `relations_of` | geometry and reads; a cosine is a number chosen freely |
| `layer_weights`, `limit` | parameters left at their defaults |
| Webhook signature and key cache | they decide only whether a message is handled, which the model leaves open; with a key that is out of date no message is, and the sweep does its work |
| The redirect to Google and its handshake state, `GET` of a user | a library's protocol; a read |
| The admin pages' contents, an admin area switched off | joins that change nothing |
| Leaving relations, projects' rows and collections behind (`projects.py:58`) | nothing reads them again |
| Names and timestamps (`update_project`, `last_used_at`) | no property tells them apart |
| Account page, docs, templates, schemas, `api/connect.py`, language negotiation, MCP transport | formatting or stateless reads |
| Index creation, dependency container, deployment scripts | start-up; the unique indexes appear as refused inserts, a restart as `Crash` or `Fail` |

External code is modelled from its use in `app/`: Monobank as above, MongoDB as
single-document atomic operations, Qdrant as atomic calls per point. A scroll of
several pages counts as one read. A selector of `unlink` without a type stands for the
relations of every type between its two memories.
