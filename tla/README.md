# CommercePilot in TLA+

Specifications, model-checking runs and machine-checked proofs of the parts of
CommercePilot that decide something: what is sold, to whom and how often; who may
decide it; and whether those who must act learn of it. They cover the backend
(`src/backend`) from the webhook to the store, and the parts of the dashboard
(`src/frontend`) that race with it. Source paths below are relative to
`src/backend/src/modules/` unless they start with `src/`.

## The system

A tenant's customers write to a WhatsApp number. `whatsapp` stores each message,
keeps a conversation (`conversations`: a row in PostgreSQL and a session in
Redis) and runs the AI pipeline (`ai-engine`), which searches the catalogue
(`products`) and may create a *draft order*. The owner approves, rejects or
corrects drafts in `orders`, from a dashboard page that an event stream keeps up
to date; drafts with a very high confidence can be approved automatically. An
approval creates an *order* and emits `order.approved`, an in-memory event.
`integrations` handles it: it creates the order in WooCommerce and takes the items
off the stock and its mirror. `notifications` and `whatsapp` tell owner and
customer. `auth` and `users` say who may do all this, by tokens the browser's tabs
share.

Everything runs in one Node process: handlers interleave at every `await`, and
in-memory events and background jobs are lost on a restart. The database runs at
PostgreSQL's default READ COMMITTED, and Redis has no locks. In the browser every
answer, frame and timer may come between any two others.

### Inventory

| Component | State | Operations | Interacts through | Hard behaviour | What makes it correct | Modelled in |
|---|---|---|---|---|---|---|
| Order review (`orders`) | drafts and their items, orders, `totalOrders`, audit log | `approveDraft`, `rejectDraft`, `saveDraftCorrections`, auto-approval, event stream | database; emits `order.approved`, `order.rejected` | status read outside the transaction that uses it; number counted on another connection; the transaction fails half way; restart between commit and event | one order per draft; an APPROVED draft has its order; the log agrees with the orders; orders do not change | `OrderLifecycle`, `OrderContract`, `ReviewQueue` |
| Order synchronisation (`integrations/services/order-sync`) | order status, external id, stock | `handleOrderApproved` | event; HTTP to the store; database | the answer is lost after the store created the order; the success transaction rolls back; the failure handler fails | the store has an order at most once; stock counts each synchronised order once; every order settles | `OrderLifecycle`, `OrderContract`, `Catalogue` |
| Store adapter (`integrations/adapters`) | none | `createOrder`, `getProducts` | HTTP | time-outs after the effect | as above | outcomes in `OrderLifecycle` and `Catalogue` |
| Catalogue and variant mirror (`products`, `integrations/services/product-sync`) | product stock, variant rows, embedding column | product CRUD, variant CRUD, sync, backfill, mirror decrement, embedding jobs | database; called from order synchronisation; embedding HTTP | two writes that are not one transaction; look-up then insert; background jobs that overlap | mirror and product agree but for known reasons; one row per combination; a vector is of the current text | `Catalogue`, `Retrieval` |
| Intake and conversations (`whatsapp`, `conversations`) | messages, customer, conversation rows, Redis session, Bull job | webhook, dedupe, session read–modify–write, confirmation, handoff, abandonment | Redis, database, messenger, queue | redelivery while the first delivery runs; unlocked sessions; deleted sessions written back; TTL; restart; job racing a message | one draft per message; confirmation and handoff only after the turns they need; closed conversations stay closed | `Conversation` (partly: contents of messages and the customer row are abstracted) |
| AI pipeline (`ai-engine`) | drafts, unfulfilled demand | `processMessage`, `createDraftFromContext`, scoring, retrieval, duplicate detection | LLM and embedding HTTP; emits `draft.created`, `draft.auto_approve` | fallbacks and retries; thresholds; two equal drafts at once | nobody's first order passes without review; repeats are flagged; a product on the shelf is found | `Pipeline`, `Retrieval` (partly: stage logs are left out) |
| Notifications (`notifications`, `whatsapp/whatsapp-notification.listener`) | notification rows | listeners, `sendEmail` | events, e-mail and WhatsApp HTTP | send fails after the row was written; failures reported by value | a row's status is what happened | `ReviewQueue` (partly: the mail of a handoff is not told apart) |
| Accounts and sessions (`auth`, `users`, guards) | users, roles, refresh-token hash | register, login, refresh, logout, team CRUD, the role guard | database; tokens | count-then-write on the last owner; roles cached in tokens; rotation racing refresh and logout | a tenant keeps an active owner; authority was held and fades; nobody is signed out unasked | `Team`, `Session` |
| Tenant administration and settings | one row per tenant | single-row updates | database | read by others at any time | – | `Team` (`SetTenantStatus`), `Pipeline` (`ChangeSettings`); partly: credentials and statistics are left out |
| AI, embedding and messaging adapters | none | HTTP with retries and fallbacks | libraries | retries, refusals, answers that are no answers | – | what their callers see, in `Pipeline`, `Retrieval`, `ReviewQueue`, `Conversation` |
| Dashboard (`src/frontend`) | browser state, local storage | pages, API client with refresh queue, event stream | HTTP | answers and frames out of order; tabs that share tokens; optimistic updates | the page shows what awaits the owner; what a queued request waits for is known; dialogs show the rows | `ReviewQueue`, `Session`, `Catalogue` (partly: pages that only show what they fetch are left out) |
| Metrics, audit-log reads, customers, health | none of their own | queries | database | none | – | not modelled |
| Evaluation harness (`src/backend/eval`) | none | offline scoring of a data set | HTTP to the models | none | – | not modelled |
| Filters, interceptors, encryption | none | formatting, cryptography | libraries | none | – | not modelled |

The hazards of this code, each at its line with the properties that would catch
it, are listed in `PROJECT.json`.

## The modules

Each model `M` that is run has a module `MCM` with the values of its constants for TLC and,
where there are theorems, a module `MProofs`.

| Module | What it is | Theorems in |
|---|---|---|
| `OrderContract` | What approving and synchronising promise: an order is placed once for a draft, then settled (its units leave the stock) or given up (they do not). | |
| `OrderLifecycle` | Order review and synchronisation, one step per awaited database or store access. Its `ImplementsContract` is the refinement of `OrderContract`. | `OrderLifecycleProofs` |
| `Conversation` | From the webhook to the reply, one step per access to Redis, database or messenger, and the abandonment job. | `ConversationProofs` |
| `Pipeline` | The stages of the AI pipeline over the messages of one customer, beside the owner and the clock. | `PipelineProofs` |
| `Retrieval` | The search of the catalogue for a message, and the jobs that make the vectors it searches by. | `RetrievalProofs` |
| `Catalogue` | Products, their variants and the mirror of their stock, from forms, dialogs, the store, sales and the backfill script. | `CatalogueProofs` |
| `ReviewQueue` | How a draft and its decision reach people: list, stream, panel, mail, notices. | `ReviewQueueProofs` |
| `Team` | Registration, sign-in, team management and what the route guards admit. | `TeamProofs` |
| `Session` | One account's sign-in between the tabs of a browser and the service. | `SessionProofs` |

The modules meet at the tables they share and are checked apart: each leaves to the
others' actions what they may do to its tables. `Conversation` takes from the
pipeline any result it can give (`RunPipeline`) and ends with a draft
(`drafts[h]`); `Pipeline` is what runs inside, with `Retrieval` as its `Retrieve`;
`OrderLifecycle` begins with a draft (`CreateDraft`) and `Catalogue` takes an order's
synchronisation as one step (`Sell`); `ReviewQueue` takes a decision as one step
whose races `OrderLifecycle` has (a decision taken over an approval).

### OrderLifecycle and the code

* `draft`, `order`, `stock`, `totalOrders`, `audit` are the tables of the same
  name. An order's id is a fresh uuid, so an order is named by the request that
  creates it.
* `request[r]` is a call: its program counter and what it has read. `approveDraft`
  is `ApproveRead`, `ApproveValidate`, `ApproveNumber`, `ApproveCommit` (or
  `ApproveRollback`), `ApproveEmit`; `rejectDraft` and `saveDraftCorrections` have
  steps of their own. A `$transaction` is one step at its commit, except that the
  reads that another transaction can overtake (`findFirst`, `deleteMany`'s
  snapshot, the count of the order number) are steps before it.
* `sync[o]` is the handler of `order.approved`; `inStore[o]` counts how often the
  store created the order. `StoreFails` may leave the order in the store.
* `Crash` is a restart: requests, open transactions and undelivered events are
  gone. `HandlerLost` is a database failure that no `catch` of the handler covers.
* An item row remembers who wrote it (`Writers`), which tells the rows of two
  concurrent corrections apart.

Abstractions. A database failure in a request is a request that never takes its
next step. `handleOrderApproved` is not entered for an order that is SYNCED
already, because one event is emitted per order: its early return does not occur.
`validateStock`'s "Product not found" is left out (products are not deleted in
this module). Prices, addresses and the text of notifications play no part in any
decision and are left out. The order list and analytics only read.

### Conversation and the code

* `handler[h]` is one run of `processIncomingText`: `entry` is the session as
  `findOrCreateConversation` returned it (stage and items of a Yes come from it),
  `held` the copy between a `getSession` and its `saveSession`.
* `session` is the Redis key. Every change is a read step and a write step; a
  write after another handler's delete brings the session back, as in the code.
* `rows` are the conversations with the unique index on tenant, number and status;
  `StartFails`, `CompleteFails` and the failing branch of `AbandonRow` are its
  refusals. `updateMany` changes whatever is ACTIVE.
* `drafts[h]` is the draft a handler stored, `extracted` by the pipeline or
  `confirmed` by a Yes, and the handlers whose extraction its items come from.
* `RunPipeline` is the whole AI pipeline; its result is any of `Results`: intent,
  missing fields, confidence in percent, and whether alternatives were found.
* `job[c]` is the Bull job `abandoned:c`; a second `add` with the same id is
  ignored. Time is not modelled: the check may find any silence long enough.
* `Fail` is an awaited access that throws (the webhook answers 200 all the same),
  `Expire` the loss of the session, `Crash` a restart; Bull runs an interrupted
  job again.

Abstractions. A message is named by its first delivery. Message history, merged
attributes and the wording of replies are left out; the read–modify–write of the
session they cause is kept. Only one number of one tenant is modelled: keys,
index and look-ups are all scoped to it. The handoff is enabled, as by default.
Several messages in one webhook are handled one after the other, which is one of
the interleavings of separate deliveries.

### Catalogue and the code

* `product` is the stock of a row of `products`; `rows` is `product_variants` in the
  order of insertion, with the unique index on product and `attributeKey`. The row
  for no options is the mirror. Options are sets of name, value and *style* (case
  and white space), so that what `AttributeKey` normalises away is in the model.
* `call[c]` is one request, synchronisation or script run. The product form is
  `OpenForm`, `SaveForm`, `CheckProduct`, `WriteProduct`; `FindMirror` and
  `WriteMirror` are `ensureDefaultVariant`, whose insert, update and revival follow
  what the look-up found. `Sell` is the transaction of an order, with
  `decrementDefaultStock` in it: its swallowed error would still abort the
  transaction, so it is one step that happens or does not.
* `SyncFind`/`SyncWrite` go through the store's answer (`Offered`) product by product;
  `BackfillQuery`, `BackfillOne` and `BackfillBatchEnds` are `backfillDefaults` with
  its page size, its failures and its exits.
* `dialog` is the variants dialog of one browser: its load on opening, which may fail and
  leave an empty list (`Load`, `LoadFails`), the optimistic change of a stock (`StartSet`), and
  the reload after an addition, a removal or a change that was refused or failed (`loading`,
  `Reload`), during which list and form are not there (`Ready`). Other clients add, change,
  rename and remove variants at any time (`StartOther`). `raced` is a history variable: the list
  has a reason to differ, because its last load failed, changes of its own overlapped, or another
  client changed a variant of its product since. `DialogShowsVariants` says there is no other.
* `drifted` is a history variable: the known reasons for a mirror to differ, which
  are a hand-made default row, a failure between the two writes, and an overtaken
  call. `MirrorAgrees` says there is no other.

Abstractions. A product is identified with its SKU; prices, names and descriptions
play no part. A failed access (`Fail`) ends its call where it stands.

### Team and the code

* `user` is the tenant's part of `users`; `claims[u]` are the roles in the unexpired
  access tokens of `u`, `session` the users with a refresh-token hash; `grant` is a
  sign-in between its read of the row and its tokens. Any number of tokens of one
  role count as one.
* A change of a member is `Start` (the route's guard and the read of the member),
  `AssertNotLastOwner` (the count) and `WriteUpdate` or `WriteRemove`; `raced` records
  that another request wrote between. `locksOut` is a request that would deactivate its own sender,
  refused after the count.
* `Routes` is the table of the controllers' `@Roles`, which `CanActivate` decides on;
  nothing there looks at the row again.

A removed member's e-mail cannot be used again (the look-up skips deleted rows, the
unique index does not), which is why a user is an e-mail address. `Register` makes the
tenant's first owner; two registrations with one company name make two tenants,
which is outside a model of one. `SetTenantStatus` changes nothing else: only the
webhook reads it.

### Session and the code

* `store` is local storage, shared by the tabs; `tab[t]` is what a page load holds: its
  user, whether it shows a form or the dashboard, and `isRefreshing`. A redirect or a
  `Reload` loses all of it; the router's `Move` (Back and Forward) keeps it. `req[t][r]`
  are its requests, `queued` in `failedQueue`.
* `auth[c]` is a call of `/auth/login` or `/auth/refresh`: posted, read
  (`ReadAccount`), answered with tokens (`IssueTokens`, which writes the hash) or
  refused; `page` is the page that waits for it, if that is still there.
* `GiveUp` and `RefreshRefused` redirect from the dashboard only. On a form `GiveUp`
  leaves `isRefreshing` set (`src/frontend/src/lib/api.ts:80` and the return at `:92`, outside
  the `try`): `stuck` records it. A 401 after a sign-in on that page is queued with no refresh to
  come; `QueueIsServed` names this exception, and `SessionQueueServed.cfg` shows it.
* `Serve` is the service's answer to a request; the request of the sign-out button
  clears the hash and, in the client, the store whatever the answer.
* Faults: `LoseAnswer`, `LoseRequest`, `Reload`, `Move`, `Elsewhere` (another device signs
  in or out), `Revoke` (the account is deactivated or removed), `Rekey` (a deployment with
  another secret: every access token is refused). `excuses` records what the client
  cannot know of, and `overlap` when two calls for tokens, or one and a sign-out, are
  under way at once: two tabs that refresh together do sign each other out, and a refresh
  that overlaps a logout does bring the hash back, so the two properties exclude them.

A refresh has no time-out in the client (`src/frontend/src/lib/api.ts`, a bare `axios.post`),
so a call that is never answered keeps its page's queue waiting: `QueueIsServed`
says that the queue waits for a call under way, not that the call ends.

### Pipeline and the code

* `handler[m]` is one `processMessage`: which stage it awaits, the attempts of the
  provider's retry loop, and what the stages before gave it. `Detect…`, `Normalize`,
  `Retrieve`, `Extract`, `RecordDemand`, `Score`, `CheckDuplicate`, `CreateDraft` and `Mark`
  are the stages; `ExtractFails` and `CheckFails` are their fallbacks, `Fail` an
  exception that ends the message.
* Confidences are hundredths and the composite ten-thousandths, computed exactly where
  the code adds floats; `Route` compares with the thresholds as the code does. What a
  model claims is taken as it is: any integer, as the code checks no range.
  `plausible` is a history variable: the claims a draft was scored on were between
  0 and 1.
* `Mocked` is a deployment without a usable key, whose canned answers are `Canned`.
* `draft` is the customer's drafts in the order of `createdAt`, `aged` how many the
  duplicate window has left behind; `Approve`, `Reject`, `Correct`, `ChangeSettings`
  and `ChangeCatalogue` are the owner, at any time.
* `Candidates` are the drafts that a look-up for duplicates takes: the `MaxCandidates` (10)
  newest live ones in the window. `known` and `searched` are history variables: the drafts the
  customer already had when the message came, those of them the look-up took, and
  whether it was made and succeeded.
* A quantity is null (`NoQuantity`) or any number; `Quantity` supposes one for null.
* `ConfirmContext` is `createDraftFromContext`, which looks for no duplicate.

What a message says is abstracted to what the model may extract from it, invented
products included (the insert of a row that names one fails). The log of each stage and
token counts are left out; `ConflictResolverService` is called by nothing.

### Retrieval and the code

* A text is a version number; `Named` and `Similar` say which versions the query's
  words and its vector meet. `vector[p]` is the version that the stored vector was
  made of.
* `job[j]` is a request that writes a product and the `generateAndStoreEmbedding` it
  leaves in the background: `WriteProduct` writes the row, the default variant and the
  audit entry are awaited (in a synchronisation, all its other products), `StartJob`
  starts the job, then `ReadProduct`, `EmbedProduct` with the provider's retries,
  `StoreVector`. `DropJob` is every end that leaves the column alone: the request throws
  before it starts the job, the read outside the `try` throws, there is no embedding, or
  the write fails. `Crash` loses them.
* `search` is `retrieve`: `EmbedQuery` or `QueryNotEmbedded`, `Rank` or `RankFails`, the
  fall-back `Match`, then `Offer` and `QuoteStock` of the alternatives. `Shown` is a
  `LIMIT`: any selection of the allowed size.
* `steady` (products listed and named ever since the search began) and `lagging`
  (products whose last write or job failed, was lost or overlapped another) are history
  variables for the properties. The code does leave stale vectors in those ways;
  `VectorFollowsText` says that there is no other.

### ReviewQueue and the code

* `status[d]` is the draft's; `announced[d]` the emission of `draft.created` to the
  stream; `frames` are what the stream still carries. `Connect` and `Disconnect` are
  `src/frontend/src/lib/sse.ts`, which does not reconnect.
* `list`, `fetch`, `loading` and `panel` are the page's state; an answer is computed
  (`AnswerFetch`) and shown (`ShowAnswer`) at different times and replaces the list.
* `letter[l]` is a mail or notice: row, send, mark, audit entry, each awaited.
  `SendRefused` is an exception for mails and a result nobody reads for notices; either
  may come although the other side took the message, when its answer is lost or times
  out. So a row that says FAILED does not say that nothing was delivered: `failed`
  records that an access to the database failed or the process died, and
  `RowsTellTheTruth` says what each value of a row leaves open.
* `missed`, `dropped` and `overwritten` name the three ways a draft can be missing from a
  connected page: announced while the page was not connected, an announcement that
  failed (the catch at `orders.service.ts:88`), a late answer over its frame. The code
  does lose drafts in these ways; `PendingIsShown` says that there is no fourth.

There is an active owner to write to. A draft gets at most one letter of each kind; what is
sent for a second decision taken over a first is the same kind of row again.

## The runs

Passing runs:

| Run | Question | Bounds |
|---|---|---|
| `orders` | Do orders, stock, order numbers, audit log and store stay consistent, and do the steps refine the contract, under every interleaving of reviews and handlers? | 3 calls on 2 drafts, one product with stock 2, lists of one or two lines, one restart; about 590 000 states |
| `orders_settle` | Does every approved order end SYNCED or FAILED unless something stopped its handler? | 2 calls on 1 draft, one restart, a list with an unmatched line |
| `conversation` | Do drafts, rows, questions and handoffs stay in step under overlapping deliveries? | 3 deliveries, 2 at once, any redelivered; no fault; about 1.4 million states |
| `conversation_turns` | What holds when deliveries do not overlap but anything may fail once? | 4 deliveries, one at a time, one failed access, expiry or restart |
| `pipeline` | Are repeats flagged and first orders reviewed, whatever the providers answer, the owner does and the clock says meanwhile? | 2 messages at once or a third after two confirmed contexts, 1 product, four readings (one with a confidence above 1), two attempts, look-ups of one draft, 1 change by the owner beside reviews; about 960 000 states |
| `retrieval` | Does a search find what is on the shelf, and is a stored vector of the current text? | 2 products, 2 jobs, 2 writes, 2 attempts, limits of 1 row; about 310 000 states |
| `catalogue` | When can the mirror of the stock, the uniqueness of combinations, the backfill's report and the dialog be relied on? | 2 products, 2 calls, stocks 1 and 2, 1 sale, 1 failed access, pages of 1; about 1.2 million states |
| `review_queue` | Does the page show what awaits the owner, and do the rows of letters say what happened? | 1 draft, 2 requests, 1 letter at a time, 2 failures or restarts; about 1.6 million states |
| `team` | Does the tenant keep an owner, and does what a token opens follow from a row and end with it? | 2 people, 1 team-management request at a time, 2 sign-ins; about 180 000 states |
| `session` | Do browser and service agree on who is signed in, and what does a queued request wait for? | 2 tabs, 1 request and the sign-out, 2 calls for tokens, 1 expiry, 5 tokens, and either calls that overlap or 2 faults; about 1.3 million states |

The bounds reach the interesting cases. Three calls allow two approvals of one
draft that race, with a rejection or correction between the steps of either, and two
orders with their own handlers; two lines of two units in total exceed the
stock of two, so validation both accepts and refuses. In `conversation`, three deliveries are what a confirmation
needs (ask, answer, Yes), and two at once give every pair of overlapping session
updates; `MaxClarifications` is 1 so that a handoff needs only two. In
`conversation_turns` the fourth delivery is the second Yes. In `pipeline`, two messages
are a draft and its repeat, in sequence and at once, the third is a repeat of one that the
look-up no longer takes (`MaxCandidates` is 1), and the change by the owner can come at any
stage of either message. In `retrieval` two jobs overlap on one product and two
writes are the one a job read and the one it did not. In `catalogue` two calls are a write
and what overtakes it, or a change of the dialog beside another client's; pages of one make the backfill
need several. A second stock is what makes an optimistic change visible; to keep the run small (`MCBound`) it is
written only by changes of a variant's stock, and no synchronisation runs while the dialog is
open (the form, the backfill and sales do). In
`review_queue` one draft is enough, because what the page does with a draft does not look
at another (an answer replaces the whole list), and two requests give the late answer.
In `session` two tabs are a refresh and its rival; five tokens are one more than can be
in use, and two faults are a page that goes back to the form and a storage that another fault
emptied; behaviours with both overlapping calls and faults are left to the proofs (`MCBound`). `team` has one request at a time, so that its liveness property stays in reach:
requests that overlap set `raced`, which excuses `OwnerKept`; what they do is in
`TeamLastOwner.cfg`, and `OwnerStays` is proved for any number of them.

Each passing property has a mutant in `PROJECT.json`: a plausible bug in the code
the model translates, kept in the modules under "Plausible faults" or beside the
definition it mutates, with which the property fails.

Runs that refute what the repository says of the program:

| Run | What it shows |
|---|---|
| `review_is_final` | A rejection or correction that checked the status before an approval committed overwrites APPROVED. |
| `stock_checked` | `validateStock` looks at lines one by one; two lines of one product pass together beyond the stock. |

Nine more configurations refute a statement of the repository each; run them with
`tlc -config X.cfg MCM`:

| Configuration | Module | Property | What it shows |
|---|---|---|---|
| `OrderEveryApprovalSettles.cfg` | `MCOrderLifecycle` | `EveryApprovalSettles` | A restart after the commit leaves an order APPROVED for ever; nothing re-emits the event. |
| `ConversationCompleted.cfg` | `MCConversation` | `CompletionIsRecorded` | A customer's second conversation cannot be marked COMPLETED (unique index on number and status), and its session is deleted by then. |
| `ConversationCancelled.cfg` | `MCConversation` | `CancelledMeansNoDraft` | After a No the customer is told the draft is cancelled; the draft the pipeline stored on the turn before stays PENDING. |
| `CatalogueBackfillEnds.cfg` | `MCCatalogue` | `BackfillEnds` | Once a row was created, a page of rows that cannot be inserted is queried for ever. |
| `TeamLastOwner.cfg` | `MCTeam` | `LastOwner` | Two owners who demote, deactivate or remove each other at once leave none. |
| `PipelineFirstOrder.cfg` | `MCPipeline` | `EveryFirstOrderIsReviewed` | A confidence above 1 in the model's answer, which nothing checks, approves the order of a customer without orders automatically. |
| `PipelineDuplicates.cfg` | `MCPipeline` | `DuplicatesWaitForOwner` | A flagged repeat of a regular customer is approved automatically. |
| `SessionQueueServed.cfg` | `MCSession` | `EveryQueueIsServed` | A page that gave up while it showed the sign-in form queues the next 401 for a refresh that nobody runs ("Queue this request until refresh completes", `src/frontend/src/lib/api.ts:67`). |
| `ReviewQueueCaughtUp.cfg` | `MCReviewQueue` | `AllCaughtUp` | A late answer takes a draft off the list again, and the page says "All caught up!". |

Also met while modelling, and listed as findings where the repository says otherwise:
a draft the owner corrected whose approval then failed is REVIEWED and in no list
(`orders/orders.service.ts:102`); the daily series never has today's entry
(`ai-engine/ai-metrics.service.ts:361`); unfulfilled demand is cut off before it is
sorted (`ai-engine/unfulfilled-demand.service.ts:128`); refresh tokens never expire
(`auth/auth.service.ts:28`); an update that cannot be embedded keeps the vector of the old
text (`ai-engine/pipeline/product-retriever.service.ts:161`).

And without a finding: overlapping deliveries break
`StaysEscalated` (a stale copy clears the mark, and two handlers can both notify
the owner) and `ConfirmedOnce` (two overlapping Yes each store a draft); two
overlapping corrections leave a draft with both item lists (`OneItemListPerDraft` would
be false);
alternatives and confirmation prompts are sent after a handoff
(`whatsapp.service.ts:346`, against the comment at line 368); a first message with
confidence 0.60–0.79 and nothing required missing gets neither a draft nor a
reply; a second abandoned conversation of a number fails on the same unique index
as a second completed one; and the "periodic cleanup job" of
`conversation-state.service.ts:9` does not exist, only the check scheduled by a
clarifying question.

Deadlock checking is off: calls, deliveries, edits and faults are finitely many, and when
all are done the modelled system is at rest.

### Fairness

Three properties are about what must happen.

* `SyncSettles`: `FairSpec` of `OrderLifecycle` assumes weak fairness of one
  order's own steps: the event loop resumes a handler whose awaited access is
  over, the store's client answers or gives up by its time-out, and the database
  commits or fails. Nothing is assumed of owners, customers or restarts.
  `EveryApprovalSettles` is refuted under the same fairness, so what refutes it is the
  restart and not a handler that idles.
* `AuthorityFades`: `FairSpec` of `Team` assumes that a sign-in that has read its row
  issues its tokens (the event loop again) and that access tokens expire, which they do
  by their own time. Nothing is assumed of people.
* `BackfillEnds` is refuted under weak fairness of the script's own steps: what never ends
  is the script, not the wait for it.

Safety runs assume no fairness.

## The proofs

TLAPS checks these theorems for every value of the constants that satisfies the
assumption of the module (`OrderAssumption` and so on: the sets that are counted are finite,
null values are no members of the sets they complete, bounds are naturals, and
constant functions are of the right kind):

| Module | Theorem | States |
|---|---|---|
| `OrderLifecycleProofs` | `TypeCorrect` | `Spec => []TypeOK` |
| | `DraftGivesOneOrder` | `Spec => []OneOrderPerDraft` |
| | `StoreAndOrdersAgree` | `Spec => []StoreAgrees` |
| | `OrdersNeverChange` | `Spec => OrdersAreFrozen` (an action property) |
| | `ApprovedDraftsHaveOrders` | `Spec => []ApprovedDraftHasOrder` |
| | `StockIsAccounted` | `Spec => []StockAccounting` |
| | `LaterCountsAreLarger` | `Spec => []NumbersFollowCommits` |
| | `DecisionsHaveRecords` | `Spec => []DecisionsAreRecorded` |
| | `LifecycleImplementsContract` | `Spec => ImplementsContract` (refinement of `OrderContract`) |
| `ConversationProofs` | `TypeCorrect` | `Spec => []TypeOK` |
| | `OneDraft` | `Spec => []OneDraftPerMessage` |
| | `TwoTurnsTaken` | `Spec => []ConfirmationTakesTwoTurns` |
| | `QuestionsComeFirst` | `Spec => []QuestionsBeforeHandoff` |
| | `RepliesMatch` | `Spec => []RepliesMatchDrafts` |
| | `ClosedStay` | `Spec => ClosedConversationsStay` (an action property) |
| | `ConfirmsOnce` | `MaxLive = 1` implies `Spec => []ConfirmedOnce` |
| | `EscalationStays` | `MaxLive = 1` implies `Spec => StaysEscalated` (an action property) |
| `PipelineProofs` | `TypeCorrect` | `Spec => []TypeOK` |
| | `FirstReviewed` | `Spec => []FirstOrderIsReviewed` |
| | `RepeatsFlagged` | `Spec => []RepeatsAreFlagged` |
| `RetrievalProofs` | `TypeCorrect` | `Spec => []TypeOK` |
| | `MatchFound` | `Spec => []MatchIsFound` |
| | `VectorsFollow` | `Spec => []VectorFollowsText` |
| `ReviewQueueProofs` | `TypeCorrect` | `Spec => []TypeOK` |
| | `PendingShown` | `Spec => []PendingIsShown` |
| | `RowsTrue` | `Spec => []RowsTellTheTruth` |
| `TeamProofs` | `TypeCorrect` | `Spec => []TypeOK` |
| | `OwnerStays` | `Spec => []OwnerKept` |
| | `AuthorityHeld` | `Spec => []AuthorityWasHeld` |
| `SessionProofs` | `TypeCorrect` | `Spec => []TypeOK` |
| | `QueueServed` | `Spec => []QueueIsServed` |
| | `SignInHolds` | `Spec => []StaysSignedIn` |
| | `SignOutHolds` | `Spec => []StaysSignedOut` |
| `CatalogueProofs` | `TypeCorrect` | `Spec => []TypeOK` |
| | `RowsAreUnique` | `Spec => []OneRowPerCombination` |
| | `MirrorsAgree` | `Spec => []MirrorAgrees` |
| | `BackfillFills` | `Spec => []BackfillFillsGaps` |
| | `DialogShows` | `Spec => []DialogShowsVariants` |

TLC checks each of these properties on the small instance of its run as well, and it
checked each strengthening below on that instance before the proof was begun. With them every safety and
action property that a passing run checks is a theorem.

**OrderLifecycle.** The inductive invariant is
`IInv == TypeOK /\ CallsNameDrafts /\ OrdersProgress /\ OneOrderPerDraft`.
`OneOrderPerDraft` is not inductive alone: a step that creates an order must know
that the order did not exist and which draft its call works on
(`CallsNameDrafts`). `StoreAgrees` needs to know where the handler is:
`OrdersProgress` ties the order's status, the call's and the handler's program
counters and the store together, so that a handler runs only while its order is
APPROVED and meets the store at most once. `OrdersAreFrozen` follows from it
action by action (`OrdersStay`, `OrdersSettle`): only `SyncCommit` and
`SyncMarkFailed` write an existing order. `ApprovedDraftHasOrder` and
`StockAccounting` are proved on top of `IInv`; the latter counts units as the
cardinality of a finite set of (order, row, unit) triples, so that settling one
order adds a disjoint set (`UnitsDisjoint`). `NumbersFollowCommits` needs that what a
call has counted is closed (`CountsAreClosed`): with an order it holds every order counted
for that one, so of two orders the later count is a strict superset and its cardinality is
larger. `DecisionsAreRecorded` needs that a call whose rejection is in the log has started
(`LoggedCallsStarted`), because only a call that has not started may still be given
another draft. The refinement
maps `ApproveCommit`, `SyncCommit` and `SyncMarkFailed` to `Place`, `Settle` and
`GiveUp`, and every other step to a stutter.

**Conversation.** `IInv == Data /\ RowsFit`. Its heart is `Fits`: whatever a session,
the copy a handler holds or the one it entered with says is true of the handlers
themselves (which messages were read, how many questions were asked). What handlers
have done is never taken back (`Grows`), so a stale copy that is written over a newer
session says less than it could, but nothing false: lost updates are harmless for exactly the
properties proved. `Sound` says what a handler at each step has drafted and sent, `Backed`
what a confirmed draft rests on. The argument of a step is one lemma per group of
actions that changes one handler, session and draft, and the count of questions is
monotone by the cardinality of finite subsets. `RowsFit` adds that rows are made by
their own handler only, from which `RowMoves` gives `ClosedConversationsStay`.
`ConfirmedOnce` and `StaysEscalated` are false of deliveries that overlap and are proved for
those that do not: `TurnInv` says that at most one handler is live, that the session is the one it read
or has been lost meanwhile (`Alone`), and that a session some of whose items were confirmed
is in PENDING_ORDER, from which no update leads back to CONFIRMING (`Unspent`). Failures, expiries,
restarts and the abandonment job still come anywhere.

**Pipeline.** `IInv == OutsideTyped /\ DraftsRight /\ HandlersRight`. Without earlier
orders, and on confidences between 0 and 1 (`Plausible`), the weights leave the composite
at 9000 of 10 000 at most, below the 9500 that no threshold of a tenant undercuts; a
handler routed to auto-approval on such confidences therefore belongs to a customer with
orders, and orders are not taken back while it waits. That a repeat points at an
earlier draft needs that the duplicate found is the greatest of a finite set.
`RepeatsAreFlagged` needs that signatures are complete: two lists of lines that are the
same order, with the quantity supposed where none was given, have one signature
(`SameOrderSameSignature`). `RepeatsKnown` then says that a handler's `known` drafts are
still in the window, that it has a draft of its own only once that is stored, and that a
handler whose look-up succeeded and found nothing has none among those it took that its
message repeats.

**Retrieval.** Beside types, `JobsKnow` (a job that is alone holds its product's
current text once it has read it) for `VectorFollowsText`, and `SearchKnows` (what the
search counts on is still listed and named, and past the matching something was
found) for `MatchIsFound`.

**ReviewQueue.** The page and the letters are independent but for the decisions, so each
has an invariant of its own. Every step moves each letter by one of the few moves of
its state machine, and `LetterOK` is kept by each move; `PageOK` holds
`PendingIsShown` and that nothing is shown that was never stored.

**Team.** `OwnerKept` needs `WritesSafe`: as long as nothing was raced, a request that is
about to write either takes no owner away or counted another one who is still there.
`Held` ties tokens, issued or about to be, to rows and to who was ever an owner; the
routes are then a case distinction over the guard's table.

**Session.** `PagesServe`: a page that is not stuck refreshes only while a call for tokens
of its own is under way, and only then do its requests wait. It is inductive because each end of the
call (answer, refusal, lost answer) and each end of the page (reload, redirect) empties
the queue. `StaysSignedIn` and `StaysSignedOut` rest on `TokenInv`, which holds whatever happens and says
something while nothing excuses it (`Calm`): the one call for tokens that may then be under way knows at
each of its states how the hash in the database and the store of the browser stand to the token it
carries (`CallFollows`), the request of the sign-out button likewise (`LeaveFollows`), and
where neither is between its two sides the two agree (`Agree`).

**Catalogue.** `IInv` is `TypeOK` with what a call and the dialog know (`CallsFit`,
`DialogFits`): the rows they point at are rows of the table and of their product. On top of it
`MirrorInv` has three parts: the unique index (`OneRow`); that a call between its two writes
which nobody overtook holds the product's stock (`HoldsStock`); and that a default row in use shows
its product's stock, unless a call will yet write it or a reason has been noted
(`MirrorKept`). `BackfillFillsGaps` is inductive relative to `IInv`, in terms of the products a
script has yet to see. `DialogKept`: while nothing has marked the list, at most one call of the dialog
is under way, and a list that is not about to be loaded shows what the table holds or what that call
has yet to write. Every other step leaves the product's rows for options alone or marks the list
(`DefaultOnly`).

Only model-checked: the liveness properties `SyncSettles` and `AuthorityFades`, because liveness
under fairness and `ENABLED` are out of the prover's reach; and what the violation runs
refute, which TLC's counterexamples show. Nothing here needed an induction over data: sequences are
handled through their domains, and sums through cardinalities.

## Not modelled

* Read models (`ai-metrics`, audit-log reads, customers, health) and the pages that only
  show what they fetch: they change nothing and nothing is decided by them.
* HTTP plumbing, encryption, password hashing, signature verification: library calls
  around the handlers, without state of their own.
* `ConflictResolverService` and the listener for `order.sync_failed`: nothing calls the
  one or emits the other.
* The content of messages, histories and merged attributes; prices and addresses: no
  modelled decision depends on them beyond what the abstractions keep.
* Storage of credentials in settings, and the evaluation harness (`src/backend/eval`), an
  offline script. A message of the simulator is one more delivery of `Conversation`.

## What is left

1. A composition of `Conversation`, `Pipeline` and `OrderLifecycle` through one table of
   drafts, in place of the interfaces named above.
2. The mail of a handoff, told apart from that of a new draft.
3. Contracts like `OrderContract` for other components, with the refinement proved: a message
   that is drafted, confirmed or dropped once (`Conversation`), and a letter that is stored, sent
   and marked (`ReviewQueue`).
