# A TLA+ development of the diamond chatbot

The repository is a chatbot for diamond dealers: a customer talks to a language
model in a web widget, the model calls tools, the tools call the dealer's own
inventory system (the ERP) over HTTP. This directory models the parts in which
order, failure and concurrency matter, checks them with TLC on small instances,
and proves with TLAPS what can be proved for every instance.

Paths below are relative to the repository.

## 1. Inventory of the system

| Component | State it keeps | Operations | Interacts with |
|---|---|---|---|
| Dealer ERP (`apps/erp-mock/src/inventory`) | stock status per diamond, open holds, orders, one reference counter, all in memory | search, detail, availability, compare, hold, release, quotation, order, order status, reload | called over HTTP by the ERP client; should POST webhooks |
| ERP client (`apps/api/src/erp/erp.service.ts`) | none per call; one limiter registry | one method per endpoint, all through `request`: up to 4 attempts, 15 s timeout each, 429/5xx/network errors retried, 4xx final | tools, holds, catalog; rate limiter; tenants for credentials |
| Rate limiter (`apps/api/src/erp/rate-limiter.ts`) | tokens and last refill per tenant and limit | `acquire`, `for` | ERP client |
| Committing tools (`apps/api/src/chat/tool-executor.ts`) | none | hold_diamond, release_hold, create_quotation, place_order, and the browsing tools | agent loop, holds, ERP client, catalog |
| Hold mirror (`apps/api/src/holds`) | `holds` table (Postgres), expiry jobs (BullMQ on Redis) | createHold, releaseHold, the expiry worker, activeHoldsFor | ERP client, tools, admin API |
| Agent loop (`apps/api/src/chat/chat.service.ts`, `chat.controller.ts`) | conversations and chat_messages (Postgres); local message list of each running turn | start/get conversation, streamTurn | language model, tools, widget (SSE) |
| Catalog cache (`apps/api/src/catalog`) | search pages and details in Redis with TTLs, an index set of search keys per tenant | search, getDiamond, webhook invalidation | ERP client, browsing tools, ERP webhook |
| Tenants and admin API (`apps/api/src/tenant`, `admin`) | tenant rows with encrypted credentials | create, update (find, merge, TypeORM's save), connection test, lists | every component reads credentials and limits |
| Widget (`apps/widget/src`) | displayed bubbles, `busy`, conversation id, bytes of a cut frame | send, read the stream, apply each event | `POST /chat/message`, whose answer is a stream of events |
| Admin panel (`apps/admin/src`) | inputs of the form | load, create, save a tenant; test its connection | admin API |
| Legacy mock ERP (`apps/api/tools/mock-erp.mjs`) | as the dealer ERP | as the dealer ERP | the earlier version of `apps/erp-mock` |

What is hard here:

* **Check and commit are two requests.** `place_order` and `createHold` check
  availability and commit in a later request; every await in between is a point
  at which another customer acts.
* **Requests are lost, late and repeated.** An attempt that timed out may still
  be handled by the ERP, and POSTs are retried without an idempotency key.
* **One fact lives in three places.** A hold is in the ERP, in a Postgres row
  and in a Redis job, written one after another with no transaction.
* **The worker races the tools.** The expiry job reads a row, then updates it.
* **The conversation is replayed from storage.** A reply and the results of its
  tool calls are stored separately; turns can overlap and the process can die.
* **Caches race invalidation.** A fill is get, ask the ERP, set, sadd; the
  webhook is del, smembers, del, del; each command is an await.
* **Lists move while they are paged.** Every page is cut from the list of the
  moment, and stones leave it and come back.
* **Limits change under way.** A bucket belongs to a limit, not to a tenant, and
  a call keeps the bucket it began with.
* **The admin API is read-modify-write, twice over.** A form saves every input it
  shows, `update` merges them into the row it has found, TypeORM compares that
  with the row of a moment later; two windows can be anywhere in this, while turns
  and connection tests read the row.
* **The answer is a stream over one request.** Frames arrive cut anywhere; the
  connection can break or the server die at any byte; the server does not notice
  that the reader has gone, and its turn runs on.

What would make each component correct: one hold or order per diamond, and
all-or-nothing orders (ERP); no receipt without a hold and a row, no row that
claims a release the ERP did not make, rows that settle (mirror); tool calls
that always come back (client); histories the model accepts and turns that end
(agent loop); no entry older than an answered webhook, and every page within the
webhook's reach (catalog); no more requests than the configured rate allows, and
sleeps that are long enough (limiter); pages that together show what matches,
once (search); no key sent to a system that did not issue it, and no change undone
by somebody who has not seen it (tenants); each answer shown in order, once, and
as far as it came, one turn at a time, and never a bubble that stays busy (widget).

## 2. Modules

    DiamondLedger              abstract: one cell per diamond
       ^ implements
    DealerErp                  the dealer's system          MCDealerErp, DealerErpProofs
       ^ EXTENDS
    Reservations               tools + client + network +   MCReservations
                               mirror + jobs + ERP          ReservationsProofs
    ChatTurn                   agent loop and history       MCChatTurn, ChatTurnProofs
    EventStream                abstract: one answer, seen as it was sent
       ^ implements
    ChatSession                widget, stream, controller   MCChatSession, ChatSessionProofs
    CatalogCache               cache fills and webhooks     MCCatalogCache, CatalogCacheProofs
    RateLimiter                token buckets and attempts   MCRateLimiter, RateLimiterProofs
    TenantAdmin                settings, forms, requests    MCTenantAdmin, TenantAdminProofs
    InventorySearch            search and paging            MCInventorySearch,
                                                            InventorySearchProofs

**`DiamondLedger`** says what the dealer's system promises about its stock: a
diamond is one cell with a status and the references it was taken under;
`Reserve`, `Return`, `Sell` (all or none) and `Reopen` (a reload). `Mislay` is what a
release does that names one diamond and the hold of another: the second is then
reserved for nobody, the first is `Unaccounted`, and no other cell changes.

**`DealerErp`** is `InventoryService`. `stock`, `holds`, `orders`, `sequence` are
its four fields, `Hold`, `Release`, `Quote`, `Order`, `Load` its methods,
`Restart` a new process. A method is synchronous JavaScript, so one step. Where
the code throws (404, 409), `Can...` is false and there is no step. Prices,
totals, dates and contact data are left out; the customer and the basket of an
order are kept although the service forgets them, because the properties speak
of them. Callers may pass anything: a release may pair any diamond with any open hold,
because `release` compares neither. The observer `crossed`, which no guard reads, holds
the diamonds that were put back in stock under another one's hold; the properties hold
of every diamond that is not in it, those held or sold later and the one whose hold was
ended by mistake included.

**`Reservations`** composes one tool call per customer at a time, the retry
loop, the network, the mirror and the worker with `DealerErp`. The model calls
any tool with any arguments: `ReleaseHold(c, d, n)` takes every diamond with
every hold number, drawn or not, of this customer or of another, as the executor
and `releaseHold` do. `call[c]` is where the tool call of customer `c` stands
(one step per await of `dispatch`, `createHold`, `releaseHold`), `ask[c]` its
ERP request with the attempt number and the answer on its way back, `late` the
requests whose sender gave up on them, `records` the holds table, `jobs` and
`worker` the queue and its one consumer, `receipts` what customers were shown.
`Acquire` is the wait for a token before each attempt, which may last for ever;
`Serve` is the ERP acting on a request, `AttemptFails` any failure of an attempt
before or after that, `ServeLate` an abandoned request arriving after all. (A
late availability request changes nothing and has no reader left, so it is
dropped.) Time is order only: an expiry job may run any time after it was added,
which covers every duration. The row's generated id is represented by the hold
number it was made from, in a name space of its own (`RowJob`); `releaseHold`
removes `HoldJob`, a name no job has, so `CancelExpiry` removes nothing, as in
the code. Three constants say what may fail: `StorageFaults` the tools' own
queries, `JobFaults` the worker's, and `QueueTakesColons` whether the queue's
library takes the job ids of `createHold` (section 4).

**`ChatTurn`** is one conversation. `rows` is chat_messages, `turn[t]` the local
variables of one `streamTurn`, `out[t]` how its event stream ended. The model is
free: it replies with text, tool calls or a pause, refuses, or its API fails; it
must fail when the messages are not well-formed (`WellFormed`: a message with
tool calls is followed by the message that answers exactly these). That the
client goes away is not an action, because nothing tells the generator.
`overlap` is chosen once, in the first state: whether a turn may start while
another runs. `ChatSession` says when that happens. `faults` counts crashes and
failing queries. `ToolsBound` gives the bound on tool calls in a reply separately
for the two cases, which keeps the run small; the theorems hold for all bounds.

**`EventStream`** says what the widget promises of an answer: what is seen is a
beginning of what was sent, all of it unless the stream failed. **`ChatSession`**
is `useChat`, the composer's guard, the bytes on the wire and
`ChatController.sendMessage`. An event is a frame of two parts, which is what it
takes to be cut; `Read` takes any number of parts that are there, `Frames` and
`Rest` are the split of the buffer. `Break` is an exception of `fetch` or `read`,
with the request lost or arriving all the same; `Refuse` an error response. The
turns of `ChatTurn` are represented by the events they emit. `failed` is an
observer. A refusal and its answer are one step, because the widget does nothing
else with a request until it is answered.

**`TenantAdmin`** is one dealer's row, `update` as its two awaits (`FindAndMerge`;
`Compare` and `Write`, which are TypeORM's save: a second read, then one UPDATE of
the columns that differ), the form of each window and the users of the row. Three
columns stand for all: one that every save sends, one that is write-only, one that
is left out when empty. A key is represented by the system that issued it. Admins
are assumed careful (`Careful`): a new url is typed together with a key of its
system, unless an answer that came while they typed replaced part of it (a
`muddled` form). That assumption makes `KeysGoToTheirSystem` a statement about the
code: what is left to go wrong is what the code makes of careful input. A
connection that breaks under way, the process dying over the request and a lost
answer are all `SaveFails`. One tenant is modelled, so the page of a second one is
not opened.

**`CatalogCache`** is the cache of one tenant. `entry` and `index` are Redis,
`fill[r]` a request between its awaits (`Miss`, `ErpAnswers`, `Store`, `Track`),
`hook[w]` a webhook request (`Receive`, `ClearDetail`, `ReadIndex`, `ClearPages`,
`ClearIndex`). The content of an answer is the number of changes each diamond had
seen when it was given, which is all that staleness needs. A command may fail,
carried out or not. The ERP posts changes and may repeat, lose or reorder calls.
The field `suspect` is an observer: no guard reads it.

**`RateLimiter`** is the registry for one tenant (its keys start with the tenant,
so tenants share nothing) and the attempts of the ERP client. `Acquire` is one
pass of the loop in `acquire`, which has no await inside; `Request`, `Wake` and
`Retry` are the three places it starts from. Tokens are counted in units of
1/Minute so that refills are exact integers; the code adds floating point
numbers, so a real sleep may end a rounding error short and sleep 25 ms more.
The clock does not go backwards.

**`InventorySearch`** is `search` as the tool calls it (stock status fixed to In
Stock) and a customer who walks its pages. `COLOR_SCALE`, `CLARITY_SCALE`,
`IndexOf` and `GradeIndex` are the code's, with -1 for what is on no scale;
`Passes` is the chain of filters, `Slice` the page. `Results` is sorted by
place: the i-th stone is the one with i - 1 others before it, by price and then
by the order of the inventory (the code's sort is stable). Between two pages
stones are held, sold or released, the same ones as often as it happens; `takes`
and `returns` count how often. `Matches` says what a filter means without
indexes, for the properties.

## 3. Runs

| Run | Instance | What it shows |
|---|---|---|
| `dealer_erp` | 4 diamonds (2 in stock, 1 reserved elsewhere, 1 on memo), 2 customers, references below 5, releases of any pair | type invariant; references drawn once; one hold per reserved diamond and sold once, but for diamonds released under another one's hold; implements `DiamondLedger` |
| `reservations` | 2 diamonds, 1 customer, 1 retry, 2 references, 1 crash, failing queries of the tools | every hold and order follows a full check by the same call; a receipt has its row; every tool call returns unless it waits for a token for ever; every hold a customer was told of settles |
| `reservations_shared` | 1 diamond, 2 customers, 1 retry, 1 late request, 2 references, failing jobs | rows and receipts describe the hold the ERP has; a released row has no hold; a settled row is not overwritten; a hold ends only by an order or by a release that names its number |
| `chat_turn` | 2 turns, one after the other (2 tool calls a reply) or overlapping (1), 2 iterations, 1 crash or failing query | not overlapping: stored history = sent history, well-formed unless there was a fault, contact details stay; in every case: results follow their calls and are stored once, a turn that is done is closed, every turn ends |
| `chat_session` | 2 messages, 2 events between the first and the last of an answer, 1 crash | turns overlap only after a failed stream; messages stay in their conversation; no silent failure; implements `EventStream`; the widget becomes idle |
| `catalog_cache` | 2 diamonds, 1 search, 2 readers, 2 webhook requests, 1 change of each diamond, failing commands | an entry older than an answered webhook was filled while a webhook was being handled, or could not be tracked; every other page is in the index or about to be |
| `rate_limiter` | limits 1 and 2, a minute of 3 ticks, 2 calls of 2 attempts, 2 minutes | a bucket lets n requests through at once and n a minute after that; a sleeping call wakes to a token unless another call took it |
| `tenant_admin` | 2 windows, 1 user, 2 systems, 1 company, 2 writes | a key goes to a system that did not issue it only after a save from a stale or muddled form; an up-to-date form undoes nothing |
| `inventory_search` | 5 diamonds (2 pairs of equal prices, grades at both ends and off the scale), 5 filters, page sizes 1 to 3, a stone taken 2 times and returned 2 times, the same one or another | an undisturbed walk is exact; skips are at most how often a stone was taken, repeats how often one came back |

Bounds. Every conflict in the code is between two parties over one diamond, or
between two diamonds of one basket. `reservations` has two diamonds, so baskets,
releases of the wrong diamond, a crash and failing queries in the life of one
customer's holds; `reservations_shared` has two customers over one diamond. Each
asks what its instance can break; two customers with two diamonds and every
fault are too many states for TLC, and there the theorems of section 5 say of
every invariant and action property of both runs that it holds for all of them
at once. One retry gives an attempt that may be repeated and a last one; the
four attempts of the code only repeat the first kind more often (`orphan_hold`
has the code's four). Two references let two holds, or a hold and an order,
exist (`MaxSequence` bounds only steps that draw one). One late request and one
crash are what a single fault needs; two crashes of one call do not compose,
since a crash ends the call. Two iterations of the agent loop give one that goes
on and a last one; besides the messages only `refusalRetried` is carried from
one to the next, and the second refusal needs two. Two messages are what it
takes to overlap, and four events give frames that are cut, whole and several in
one read. Two windows and two writes are one save that comes between the read
and the write of another. A race in the cache needs a fill, a clearing handler
and a second of either kind. A minute of 3 ticks is prime to both limits'
refills, so sleeps have to be rounded. Five diamonds on pages of 1 to 3 give
full, partial and exactly full last pages. Symmetry is used only in runs without
liveness.

Fairness. `Advance(c)` is weakly fair for every customer: an await on a query
returns or throws, an attempt that has its token ends with its answer or with its 15 s
timer. `Work` is weakly fair: BullMQ delivers due jobs while the process runs. Nothing
is assumed of customers, the network (`Serve` is not fair), crashes, or the rate
limiter (`Acquire` is not fair): tokens go to whoever asks first, so a call may wait
for ever, and `CallsReturn` says that this is the only way not to return.
`ToldHoldsSettle` is checked with a worker whose queries succeed: a job that fails is
not tried again, and its row stays held.
`ChatTurn` assumes the same of each turn: queries and model calls return, and so do
tools, but for one that waits for a token for ever.
`ChatSession` assumes that bytes that have arrived are read and the end of a body
is noticed (the browser's event loop), that the server answers every request and
ends every turn (`TurnsEnd`), and that the sockets of a dead process are closed
(the operating system). It assumes nothing of broken connections: a connection
that is silently gone leaves the widget busy, which no code prevents (section 4).

## 4. Where the code and what is said of it disagree

Each of these has a run whose counterexample is the shortest way there.

* `held_stone_sold_to_another`: a stone held after another customer's check and
  before their order is sold to them; `heldForThisCustomer` looks at no customer.
* `orphan_hold`: the answer to a hold is lost, the ERP refuses the retry (409) because
  the stone is now reserved, and the call ends with that refusal; the ERP has a hold
  that no row, job or receipt tells of, although `hold.entity.ts:7` keeps rows "so the
  dealer can see holds the chatbot created".
* `expiry_job_refused`: `holds.service.ts:75` adds its job under the id
  `hold-expiry:<row id>`. `pnpm-lock.yaml` pins bullmq 5.81.3, whose `add` rejects a
  custom id with a colon unless it has three parts. The library is not part of the
  repository, so `QueueTakesColons` stands for it. If it rejects the id, every
  `createHold` saves its row, throws, and leaves the row held with no job and no
  receipt; `README.md:128` says "a BullMQ job is scheduled for exactly that moment so
  the local record stays honest". The other runs have a queue that takes the id.

Seen while modelling, with no run of their own:

* A crash, or a failing query, after a reply with tool calls was stored and before
  its results were, leaves a history that cannot be replayed
  (`message.entity.ts` says it can be "replayed to the model verbatim"); every later
  message of that conversation fails. So do overlapping turns. `HistoryIsReplayable`
  and its theorem show that nothing else does this.
* `release` in the ERP does not compare the diamond with the hold, nor the hold with
  the customer, and the chatbot passes on whatever the model gives. A mixed-up pair
  puts another diamond, even a sold one, back in stock, where it can be held or sold
  a second time; a wrong number ends somebody else's hold. `HoldsReserveTheirDiamond`,
  `SoldOnce`, `ImplementsLedger` and `HoldsEndByRequest` show how far that goes: to the
  diamond and to the hold that were named, and no further.
* The holder of a stone cannot order it: `place_order` wants it In Stock, a held
  stone is Reserved. The ERP itself (`heldForThisCustomer`) would take the order.
* A refusal in the last iteration of the agent loop ends the turn with `done`,
  neither retried nor reported.
* A search answer read before a sale and stored after the webhook has cleared the
  cache shows the sold stone until its TTL ends, although
  `catalog.service.ts:59` says "a sold stone must not keep appearing in results".
  `OnlyRacesLeaveStaleEntries` shows that such overlaps are the only way.
* The index of search keys has no TTL: without webhooks it only grows.
* `rate-limiter.ts:4` speaks of staying under about 60 requests a minute; a full
  bucket lets 60 through at once and 60 more in the minute that follows
  (`RateIsBounded` is that bound), and a changed limit starts with a full bucket
  of its own beside the old one.
* A stone whose colour or clarity is on no scale has index -1: colour N to Z, which
  `diamond.ts:41` allows, meets `color_max` "H"; a bound off the scale is ignored.
* `create_quotation` makes no availability check (only the tool's description asks
  the model for one) although `erp.service.ts:71` wants one before every quotation.
* Nothing in `apps/erp-mock` ends a hold at its expiry, which `erp-api.ts:68` and
  `hold.entity.ts:6` say the ERP does.
* A crash or a failing query between saving a row and adding its job leaves the row
  held for ever (`HeldRowsHaveTheirJob` fails with `MaxCrashes = 1` as well).
  `ToldHoldsSettle` shows that no customer has been told of such a hold.
* A tool call that waits for a token may wait for ever while others take them: the
  bucket has no queue (`rate-limiter.ts:28`), and the wait has no timeout.
* No code sets the status `converted` of `hold.entity.ts:40`.
* A stale form undoes what others saved: every input is sent (`TenantFormPage.tsx:50`).
  "Leave blank to keep current key" (`TenantFormPage.tsx:134`, `tenant.service.ts:18`)
  keeps the key that `update` read, which is not the current one if another save came
  between, and then writes it back.
* Emptying the company id or the brand instructions does not clear them: the form
  leaves an empty input out and `update` keeps what was there.
* A form whose loading failed looks like a blank one, and saving it stores its
  defaults. An answer to a save empties the key input, with the key that was typed
  meanwhile. If the answer to a create is lost, saving again makes a second tenant.
* The cache is keyed by the tenant alone: after a change of the url, pages of the old
  system are served until their TTL ends, and holds of the old system are released
  at the new one.
* The connection test asks with the saved row, not with what the form shows, and its
  result stays on the screen when the inputs change.
* The panel says that the chatbot "never stores" the inventory
  (`TenantFormPage.tsx:91`); the cache keeps pages for a minute.
* The widget's `fetch` has no timeout: a half-open connection leaves it busy for ever.
* An error event is hidden when the bubble already has text (`useChat.ts:103`); the
  text of a reply that is then refused stays in the bubble and is not in the history;
  a turn that is done without text leaves an empty bubble. What a turn does after its
  stream broke, orders included, is never shown.

## 5. Theorems

`DealerErpProofs` proves, for every `Diamond`, `Customer`, `Fixture` and
`MaxSequence` that satisfy the two assumptions of `DealerErp`:

* `ErpSafety`: `ErpSpec => []ErpInv`, and from it `ErpTyping`, `DrawsOnce`,
  `HoldsReserve` and `SellsOnce`, with nothing assumed of what callers pass. `ErpInv`
  is the conjunction of the four invariants the run checks and is inductive. None of
  its parts would do alone: that a released diamond had no other hold needs one hold
  per diamond, that a release does not return a sold diamond, unless it names one with
  another's hold, needs holds to be on reserved diamonds and ordered diamonds to be
  sold, that a new hold is not confused with an old one needs all numbers to be below
  the counter. One lemma per handler.
* `LedgerRefinement`: `ErpSpec => ImplementsLedger`. From `ErpInv`, a diamond in
  stock carries no reference and the next number is on no diamond; then `Hold`
  is `Reserve`, `Release` is `Return`, or `Mislay` if diamond and hold do not belong
  together, `Order` is `Sell`, `Load` and `Restart` are `Reopen`, and `Quote` changes
  no cell.

`RateLimiterProofs` proves, for every set of limits, length of a minute and
number of calls and retries:

* `RateSafety`: `Spec => []RateInv`, and from it `RateTyping` and
  `NeverFasterThanTheLimit`. `RateIsBounded` is not inductive, because whether the
  next token may be given out depends on what the bucket holds now.
  `EveryTokenIsEarned` adds that: for every earlier request, the tokens given out
  since and those left are at most a full bucket and what came in since. A refill
  carries that account forward in time, a grant moves one token from "left" to
  "given out" (`AccountAfterRefill`, `AccountAfterGrant`).
* `SleepsAreLongEnough`: `Spec => []WakesToAToken`. `SleepersAreServed` adds that a
  sleeper's bucket exists and that it never counts fewer tokens than the sleeper
  saw. A new sleeper is served because a quotient rounded up is enough
  (`SleepIsEnough`), an old one because refilling in two steps is refilling in one
  (`RefillsCompose`) and because waiting loses nothing (`TokensGrow`).

`ReservationsProofs` proves, for every set of customers, finite set of diamonds and
every number of retries, late requests and crashes, with queries and jobs that may
fail, a queue that takes the job ids or does not, and tools called with any arguments:

* `MirrorSafety`: `Spec => []ResInv`, and from it `ReservationsTyping`,
  `MirrorsReceipts`, `ReleasesInErpFirst`, `MirrorAgrees` and `CommitsVerified`.
  None of these is inductive. `ResInv` says of every number in a row, a receipt, or a
  call that makes a hold, its answer included, what is known of it: `Agrees` (the
  number has been drawn, and a hold of that number, if there still is one, is of this
  diamond and customer). A release may name any number, and what is learnt from its
  acceptance is only `Gone` (drawn, and no hold any more). Both stay true whatever the
  ERP does, because numbers are drawn once (`AgreesStays`, `GoneStays`). No row is lost
  or comes to speak of another hold (`KeepsRows`). One lemma per step of a tool call,
  of the worker and of the network.
* `ChatbotKeepsLedger`: the composed system implements `DiamondLedger`. Every step is a
  step of `ErpSpec` or leaves the ERP alone, and `LedgerRefinement` does the rest.
* `SettlesOnce` (a released row stays so, an expired one at most becomes released) and
  `EndsByRequest` (a hold ends by an order or by a release of its number, never by a
  job, a crash or a request about another hold), the two action properties.
* `CallsStayShort` and `EveryStepReturns`, the part of `CallsReturn` that needs no
  fairness: a call has at most (its diamonds + 1) * (MaxRetries + 1) + 2 steps left
  (`CallLeft`), none exactly when it has returned; every step of `Advance` leaves fewer, and
  no token, answer, other customer, worker or crash leaves more. A check about a diamond of the
  call (`ChecksItsOwn`) is what makes `place_order` run out of diamonds to check. This
  counts diamonds, and so assumes that the inventory is finite.

`ChatTurnProofs` proves, for every number of turns, iterations, tool calls and
faults:

* `TurnSafety`: `Spec => []TurnInv`, and from it `TurnTyping`, `AnswersFollow` and
  `DoneIsClosed`. `TurnInv` adds what each turn has stored: nothing of its present
  round before it stores the reply (`RowsAreClosed`), that reply alone unanswered
  while its tools run (`RowsAreOpen`). Calls carry the turn and the round, the round
  grows with each stored reply, and so what other turns store is about other calls.
* `AloneSafety`: `Spec => [](TurnInv /\ AloneInv)`, and from it `HistoriesReplay` and
  `ContactStays`. Without overlap one turn runs at a time, what it has read is what is
  stored (`ReadIsTrue`), and the rows are well-formed but for the calls it is running
  (`RowsAreFormed`). The second needs that there was no fault, the first does not.
* `TurnsAreBounded` and `EveryStepCounts`, the part of `TurnsEnd` that needs no
  fairness: a turn has at most MaxRounds * (2 * MaxTools + 3) + 4 steps left
  (`StepsLeft`), none exactly when it is over, and every step it takes leaves fewer. An
  iteration is worth 2 * MaxTools + 3 steps: the model's reply, storing it, two steps per
  tool call, storing the results. So the loop's bound on iterations bounds
  the turn, whether the model calls tools, pauses or refuses.

`ChatSessionProofs` proves, for every number of messages, events and crashes:

* `SessionSafety`: `Spec => []SessionInv`, and from it `TurnsOverlapForAReason`: a
  running turn is the one being read or its stream has failed, and a body ends with
  its turn.
* `StreamSafety`: `Spec => []StreamInv`, and from it `SessionTypes`. `StreamInv` says
  where the answer is: what is shown is a beginning of what the turn has sent, and
  the bytes in the buffer and on the wire, in this order, are the parts of the rest.
  `Read` may cut the stream anywhere; that the buffer then holds less than a frame,
  and the frames it gave are the next events, is a lemma about `Frames` and `Rest`.
* `StreamRefinement`: `Spec => ImplementsStream`. Sending the message opens the stream
  of `EventStream`, an event the turn writes is emitted, reading is seeing, and the
  end of the body closes it: by `StreamInv` nothing is left unseen then unless the
  stream failed.
* `ToldSafety`: `Spec => []ToldInv`, and from it `OneConversation` and
  `NoSilentFailures`. `ToldInv` adds that an answer that ended well has shown its last
  event, and that the widget knows the conversation from the first event on.
* `AnswersStayBounded` and `EveryStepAnswers`, the part of `AnswersComplete` that needs
  no fairness: at most 3 * (MaxEvents + 2) writes and parts are left of an answer that
  is being read (`AnswerLeft`), and every step that touches it leaves fewer, however
  the stream is cut into reads.

`InventorySearchProofs` proves `WalkSafety`: `Spec => []WalkInv`, and from it
`WalkTypes`, `WalksAreExact`, `FewAreSkipped` and `FewAreRepeated`, for every
inventory, every set of filters and page sizes and stones that move any number of
times, the same ones again and again.
The argument is about places in the sorted list (`ResultsAreSorted`): after page p the
customer has walked its first `p * limit` places. A stone that leaves lets at most one
stone nobody has seen slip into them, and one that comes back pushes at most one
stone that was seen out of them, where a later page shows it again (`OneMore`). A page
shows exactly the next `limit` places (`PageOfList`). So `FewSkipped` and `FewRepeated`
count how often stones moved, at every step, which the two bounds at the end of the
walk do not. `PassesWhatMatches` is a result of its own: comparing indexes on the
grade scales, -1 included, is what the filters mean. Besides the bounds it uses that
the inventory lists each diamond once, that prices are whole numbers (the code sorts
numbers; only their order is used), and that the sign for "not given" is no grade.

`CatalogCacheProofs` proves `CacheSafety`: `Spec => []CacheInv`, and from it
`CacheTyping`, `PagesStayInReach` and `OnlyRacesGoStale`, for every number of
diamonds, searches, readers, handlers and changes, with commands that may fail.
`CacheInv` says that while a webhook is handled every fill under way is suspect
(`RacesAreNoticed`), that a handler has no entry behind it that was filled without a
race (`HandlersClear`), and that the answer of a fill without a race is as new as the
webhooks that were answered (`AnswersAreFresh`).

`TenantAdminProofs` proves `AdminSafety`: `Spec => []AdminInv`, and from it
`AdminTyping`, `KeysStayHome` and `StaleFormsAloneUndo`, for every number of windows,
users, systems and writes. `AdminInv` follows a form through its request: an
up-to-date form differs from the row only in what was typed (`FormIsTrue`), and so
does its request, before the merge, after it and after the comparison
(`RequestIsTrue`), because whoever writes in between makes both stale.

Before they were proved, `ResInv`, `TurnInv`, `AloneInv`, `AdminInv`, `StreamInv`,
`ToldInv`, `WalkInv` and the bounds and measures of the last three lists (`StepsAreLeft`,
`TurnsRunDown`, `AnswersAreBounded`, `AnswersRunDown`, `CallsAreShort`, `CallsRunDown`)
were checked by TLC on the instances of the runs.

With these every invariant, action property and refinement that a passing run checks
is a theorem. Only model-checked are the four liveness properties (`CallsReturn`,
`ToldHoldsSettle`, `TurnsEnd`, `AnswersComplete`): they need the fairness of `Spec`, and
so ENABLED, which is out of the prover's reach. Of three of them the rest is proved,
that there is no infinite way to go on. What TLC adds is that a call, a turn or an
answer that is not over always has a next step, which fairness then takes, or is a
call that waits for a token. `ToldHoldsSettle` is TLC's alone.

## 6. What is not modelled

Wiring, configuration, styles, prompts and tool schemas (the models let the
language model call any tool at any time); the admin panel's list page and the
result line of its connection test, which only show what they read; the legacy
mock ERP, the earlier version of the one that is modelled; authentication. Whether
BullMQ takes a job id with a colon in it is a constant: the two passing runs of
`Reservations` assume that it does, `expiry_job_refused` that it does not, the
theorems neither. Compare, detail and order-status reads
change nothing. Webhook signatures and tenants that are unknown end a webhook
before any state is touched. The cache is not under the search walk: a page may be
up to a minute older than `InventorySearch` has it. A change of `APP_SECRET`, which
makes the stored keys unreadable, is not an action. In `Reservations` the ERP does
not restart: after a restart its numbers begin again and say nothing of the rows.

## 7. What could follow

1. The ERP restarting under `Reservations`, with a run that shows which rows then
   name somebody else's hold.
2. `ChatSession` over `ChatTurn` itself in place of the events that represent it.
3. Two tenants that share a process, for the keys of the cache and of the buckets.
