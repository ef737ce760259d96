# backbone-notification in TLA+

A TLA+ model of the notification module, the TLC runs that check it on small
instances, and theorems about it that TLAPS proves for every instance.
Source paths are relative to the repository; line numbers are those of the
modelled commit.

## 1. The system

The module is a bounded context that a composing service links in. It keeps
two tables of its own and calls out to a channel gateway.

| Component | State | Operations | Talks to |
|---|---|---|---|
| Write engine (`application/service/notification_write_service.rs`, `infrastructure/persistence/notification_repository.rs`) | `notification.notifications`, `notification.outbox_events` | `notify`, `dispatch_pending`, `record_delivery`, `create_template`, `render_template_by_id` | templates (reads), `CommunicationPort` (calls), event sink (publishes), ambient org scope (reads) |
| Templates (`notification_template_repository.rs`, template entity, DTO, row rules, handler) | `notification.notification_templates` | `create_template`, CRUD create / update / patch / soft delete / restore / purge, `find_active`, `find_by_id` | read by `notify` |
| Communication port (`application/service/notification_ports.rs`) | none; the gateway behind it keeps the accepted messages | `dispatch` | the channel gateway, another system |
| Queue gateway (`infrastructure/gateway/queue_communication_port.rs`) | the e-mail and sms queues of backbone-mails / backbone-sms | `dispatch` by channel | the two queue crates |
| Address normalization and rendering (in the write service) | none | `normalize_recipient_address`, `render`, `json_scalar` | called by `notify`, `render_template_by_id` |
| Notification CRUD and row rules (`notification_service.rs`, handler, DTO, `lib.rs`) | the same `notifications` rows | reads always; writes only with `all_crud_routes` | Postgres CHECKs |
| HTTP routes (`lib.rs`, the two handlers) | none: one of three sets of routes, chosen when the service is composed | the generic routes, each behind one permission | the two CRUD services |
| Migrations | the schema: CHECKs, the dedup index, the tenancy strip | up / down | |
| Seeders | the tables; their seed files insert nothing | seed, rollback | the tables |
| Exports, repository traits, error mapping | none | | |

How they interact. A domain-event subscription calls `notify(event)`. The
template of (event type, channel) is looked up once. Then, for each recipient
in turn: the address is normalized, the text rendered, the slot
(event_id, address) claimed by `INSERT .. ON CONFLICT DO NOTHING` in a
statement that commits by itself, the message handed to the port, and the
outcome written back together with an outbox event in one transaction; after
that commit the event is published in-process. A scheduled reaper calls
`dispatch_pending`, which does the second half again for rows still `pending`.
A receipt subscription calls `record_delivery` with the provider's outcome.
Nothing locks a row across these steps, there is no claim on a row being
dispatched, and each caller may be one of several processes.

What is hard to get right, and hard to test:

* the window between the claim and the outcome, in which a crash leaves a row
  nobody but the reaper can finish, and in which the reaper may meet a row
  that is not stranded at all but in flight;
* guarded `UPDATE`s whose `rows_affected` nobody reads, so the loser of a race
  stages its event against a state another caller chose;
* receipts that come early, late, twice, or against each other;
* errors that end a call in the middle of a list, and the retry that meets
  the same error again;
* the company scope, needed only when the outcome is written, long after the
  message has gone.

What makes each component correct:

* Write engine: one message per event and recipient where the transport
  dedups; outbox and rows never disagree; a message id belongs to its row; a
  status never goes back; `Ok` means every recipient is on record; every
  recipient is eventually resolved.
* Templates: what `notify` may be served is renderable; one active template
  per topic (which the module's own table does not give).
* Queue gateway: an acknowledged id is that of a staged row with the very
  content asked for, no two notifications share one, and a text dispatched
  again gets the id it had (the idempotency key reaches the sms queue only).
* Normalization: one key exactly for the spellings of one address.
* Rendering: a placeholder becomes its value, once, and all other text stays.
* HTTP routes: without the notification write routes only the engine writes.
* CRUD, where `all_crud_routes` is mounted: it frees dedup slots and rewrites
  rows, so the engine's promises cannot all survive it. What must: rows CRUD
  did not write stay faithful, but for what a message id written into another
  row takes from them; a repeat needs a freed slot; and the engine itself
  still moves rows only onward.

PROJECT.json lists the hazards one by one with their lines.

## 2. The modules

| Module | What it is | Extends / instantiates |
|---|---|---|
| `HttpRoutes` | the three sets of generic routes | |
| `NotificationTemplates` | the templates table, its writers and readers | extends `HttpRoutes` |
| `NotificationWrite` | the engine with its callers, the gateway and the faults | instantiates `NotificationTemplates` as `Table`, `NotificationLifecycle` as `Lifecycle` |
| `NotificationLifecycle` | the abstract specification of a slot | |
| `NotificationCrud` | the engine beside the generic routes over its rows | extends `NotificationWrite`, `HttpRoutes` |
| `NotifChannel` | the channels, and which the queue gateway has a queue for | |
| `ChannelGateway` | the abstract specification of what the engine relies on behind `CommunicationPort` | |
| `QueueCommunicationPort` | the queue gateway with its two queues | extends `NotifChannel`, instantiates `ChannelGateway` as `Gateway` |
| `Characters`, `RecipientAddress`, `TemplateRendering` | `trim`, `normalize_recipient_address` and `render`, as operators | the latter two extend the first |
| `AddressSpelling` | two callers who spell addresses every way | extends `RecipientAddress` |
| `TemplateDrafting` | an author who composes a template, stores it, and a host that renders it by id | extends `TemplateRendering`, instantiates `NotificationTemplates` as `Table` |
| `MCNotificationWrite` | instances of the engine; addresses are normalized by `RecipientAddress`, the queue's channels are those of `NotifChannel` | |
| `MCNotificationTemplates`, `MCNotificationCrud`, `MCText`, `MCQueueCommunicationPort` | instances of the others; `MCText` runs `AddressSpelling` and `TemplateDrafting` | |
| `NotificationWriteProofs`, `NotificationLifecycleProofs`, `NotificationTemplatesProofs`, `NotificationCrudProofs`, `QueueCommunicationPortProofs`, `CharactersProofs`, `AddressSpellingProofs`, `TemplateDraftingProofs` | theorems and proofs; `CharactersProofs` holds the lemmas on texts that the last two share | the modules they name |

### NotificationWrite

State to code:

| Variable | Code |
|---|---|
| `rows` | `notification.notifications`; a row is named by its rank of creation, which is also its `created_at` order. `req` and `body` stand for the columns that follow from the request and the template (event_id, event_type, channel, subject, body) |
| `outbox` | `notification.outbox_events`, in commit order |
| `templates`, `writes` | the templates table, through `NotificationTemplates` |
| `messages`, `reports` | external: what the gateway accepted, and what the provider said of it |
| `published` | events given to the in-process sink |
| `completed`, `skipped` | requests for which a `notify` answered Ok, with and without a template; the broker stops redelivering them |
| `faults` | how many crashes, failed statements and lost answers were used up |
| `pc`, `req`, `tmpl`, `todo`, `batch`, `cur`, `answer`, `event` | the stack frame of each caller: the request, the template read, the recipients left, the rows of the sweep left, the row in hand, the port's answer, the staged event |

Actions to code. A step is what the database, the gateway or the sink sees at
one instant: a statement that commits by itself, a transaction, a call, a
publish.

| Action | Code |
|---|---|
| `NotifySkip`, `NotifyBegin` | `find_active` and the early `Ok` without a template |
| `ClaimRefused` | `?` on an address that normalizes to nothing, and on an INSERT a CHECK refuses (`RowRefused`) |
| `ClaimConflict`, `ClaimInsert` | `claim_recipient` returning no row, or the new one |
| `NotifyEnd` | `Ok(outcome)` |
| `SweepBegin` | `list_pending(limit)`; a sweep over nothing changes nothing |
| `DispatchAccepted`, `DispatchRejected`, `DispatchLost` | `port.dispatch`: accepted, rejected, or accepted with the answer lost |
| `CommitDispatched`, `CommitFailed` | `commit_dispatched`, `commit_failed`: the guarded UPDATE and the staged event, whether or not the UPDATE matched |
| `CommitRefused` | the transaction rolled back: no company scope, or a `failure_reason` its CHECK refuses |
| `Publish` | the publish after the commit, then the next recipient or row, or the return |
| `RecordDelivery` | `record_delivery` when its WHERE clause matches: every row it matches is moved and one of them announced, as the code stages one event for the row `RETURNING` gives first; matching nothing is `Ok(false)` and no change. By itself the engine gives no two rows one message id, so it is one row there |
| `Crash` | a caller dies, or a statement fails, between any two steps |
| `Report`, `TemplateWrite` | the provider, and the writers of the templates table |

Abstractions. Texts are model values. `Normalize` says which spellings are
one address (in the instances, what `RecipientAddress` makes of them), `Unstorable` which rendered rows break a CHECK, `Overlong` which
reasons do. The company of a row is not modelled; whether a caller has a scope
is (`Scoped`). The unused `mark_sent` and `mark_failed` (outside a
transaction) have no caller and no action. Time is left out: `list_pending`
has no age limit, so nothing depends on it but the order of creation.

### HttpRoutes and NotificationTemplates

`Surface` is what the composing service mounts: `all_crud_routes`,
`readonly_routes` or `guarded_routes`. Every generic action asks `Mounted` for
the permission its route stands behind.

`CreateTemplate` is the write service's `create_template`, which needs no
generic route; `CrudCreate`, `CrudUpdate` (PUT), `CrudPatch`, `SoftDelete`,
`Restore`, `Purge` and `EmptyTrash` are the generic routes with the row rules
attached. A patch names some fields and leaves the others; a body is checked
only when it changes. `FindActive` is the set of texts `find_active` may
return: `LIMIT 1` without `ORDER BY` picks any of them. `FindById` is what
`find_by_id` finds, whatever the status. `UniqueTopic` is the unique index a
composing service may add.

### NotificationCrud

The state of `NotificationWrite`, and `touched` (the rows whose content CRUD
has written), `given` (the message ids it has put into rows that had another
or none), `edits` (how many writes it has made) and `taken`: with CRUD
around, a row may change between being listed or claimed and being dispatched,
so each caller carries the copies it read, as the code does in its locals.

| Action | Code |
|---|---|
| `EngineNext` | every step of the engine; a dispatch sends the copy in hand (`InHand`) |
| `CrudCreate` | POST, bulk create and upsert of a new id: the row rules, then an INSERT under the unique index |
| `CrudPut`, `CrudPatch` | `apply_update` (every field is the caller's) and `apply_patch` (a field not named stands) on a live row, both through `Overwrite`: the row rules on what changes, the unique index |
| `CrudDelete`, `CrudRestore` | `metadata.deleted_at` set and cleared |
| `CrudPurge`, `EmptyTrash` | rows removed from the trash |
| `SeederRollback` | `DELETE FROM notification.notifications` |

Each needs its route to be mounted, except the rollback, which is a command of
the composing service. A removed row is "gone" rather than cut out of the sequence: it keeps its
number, which stands for a uuid nobody else gets, and holds no slot. The
framework's handlers are not in this repository; they are taken to read only
live rows on update and delete, and only deleted ones on restore and purge, as
the route table in the handler says. A caller may give any request, address,
body, status, message id and reason: the DTOs take them all, the row rules look
only at their form, and `message_id` has no unique index. The ids worth giving
are those of the messages there are (`MessageId`): any other correlates with
no receipt, as none does. So a row may be given the message id of another, and
then one receipt moves both and announces one. The engine never writes the
status "skipped"; CRUD can.

### Characters, RecipientAddress, AddressSpelling

`NormalizeAddress` over sequences of characters: trim, then lower case for
e-mail, an optional leading plus and the digits for the phone channels, and
nothing at all for a lone character; `DigitsIn` is the filter that keeps a
number's digits. In `AddressSpelling` two callers start
from canonical addresses and respell them: white space around, capitals in a
mailbox, punctuation among digits. A number's plus stays first: `(+62) 812`
loses it and is by the documented contract another number.

### TemplateRendering, TemplateDrafting

`Render` is `render`: the leftmost opening pair of braces, the first closing
pair after it, the trimmed key between them looked up in the data, and on from
there; a recursive function over the position, so that nothing a value brings
in is read again. In `TemplateDrafting` an author composes a template of known
meaning (plain text, placeholders with or without blanks, an opening pair
never closed), `Save` stores it through `create_template`, `Retire` deletes
it, and `RenderTemplateById` is what a host gets at any moment. `AsWritten` is
the text of the draft and `AsMeant` what its author expects of it: both join
the segments up, and neither knows of `Render`.

### ChannelGateway, QueueCommunicationPort

`ChannelGateway` is what the engine assumes of a gateway: each call is told
the id of a row that is staged with the content it asked for, new or old, or a
rejection; a rejection may have staged a row all the same, when the answer was
lost. `QueueCommunicationPort` is the code, one call per `Caller`:

| Action | Code |
|---|---|
| `Dispatch` | the call of `dispatch` |
| `NotComposed` | the last arm of the match: no queue for the channel |
| `PostMail`, `PostWithoutMail` | `message_post`, which answers with the mail it staged or, having honoured no recipient, without one |
| `Enqueue` | `enqueue` with the parsed id of the notification: a new row, or the one that id has |
| `StageFailed`, `StageLost` | the queue's call failed, or staged its row and failed to say so |
| `Answer` | `ok_or_else`: an id is acknowledged, none is the rejection `stage_failed` |
| `Return`, `Die` | the call ends, or its task dies |

`mails` and `texts` are the queues' tables (external); `acks` keeps which ids
were acknowledged to whom. `SmsDedups` says whether the sms queue keeps one row
per notification id, which is the other crate's business. `Gateway` is the
refinement mapping: a row id becomes an answer when the queue's call returns.
`QueueAssumption` says that a key has one request; the engine gives that, by
`RepeatsAreCopies`.

### NotificationLifecycle

One slot: absent, pending, sent or failed, delivered or undelivered; each move
announces itself in the same step. `Repeat` is the one liberty: a caller that
lost the race for a row may announce its own outcome again, never before the
row has left pending. `NotificationWrite!ImplementsLifecycle` is the
refinement, through `HolderOf` (the row that holds a slot).

## 3. The runs

All `pass` runs search their state space to the end.

| Run | Question | Instance |
|---|---|---|
| `write_race` | does an event reach a recipient once, and is `Ok` true? | two notifiers with one event spelled two ways, the second time beside an address that is none, a reaper, two faults; 80k states |
| `write_receipts` | do rows, outbox and the lifecycle agree, is a repeat an exact copy whatever becomes of the template, does a row keep its own message, and what do the error paths leave behind? | one event over two phone channels, one of which ignores the key; two texts and two template writes, a row a CHECK refuses, an overlong rejection, a fault, two reports that may disagree; template ids and texts are symmetric; 364k states |
| `write_live` | is everybody resolved in the end, and do two rows of one batch keep their own messages and reports? | two recipients, a batch of two, an unscoped notifier, one crash, one report, under `FairSpec`; 32k states |
| `templates` | is what `notify` is served renderable? | three ids, one topic, two bodies, five writes; 298 states |
| `crud` | what can generic CRUD spoil, and when is the engine still itself? | one process that notifies, sweeps and relays, one fault, one report, two CRUD writes at any moment, with any message id; 771k states |
| `text` | is the dedup key one per person; does a template render to what is meant? | two recipients of up to three characters in spellings of up to five; templates of up to three segments with five kinds of data; 1.7M states |
| `queue_port` | does the queue gateway give the engine what it relies on? | two tasks, five notifications (an e-mail, two texts that read the same, one without a notification id, a WhatsApp message), four calls, one lost answer or death; 58k states |

Five runs show a disagreement between the code and what the repository says:

| Run | What the repository says | What the code does |
|---|---|---|
| `two_active_templates` | create_template defines *or replaces* the active template | a second INSERT leaves two, either may be served; on the read-only surface, where nothing else writes |
| `queue_email` | re-driving is safe because the dispatch carries the key | the e-mail branch drops it, and the mail is staged twice |
| `failed_yet_sent` | failed = the gateway rejected the hand-off | reaper and notifier both dispatch a row; one is rejected first and wins |
| `verbose_rejection` | a permanently failing dispatch does not loop | a rejection over 300 characters breaks `failure_reason`'s CHECK, the row stays pending and is dispatched by every sweep |
| `poisoned_fan_out` | an event notifies each recipient exactly once | a blank address ends the call, on each redelivery, before those after it are claimed |

Bounds and why they suffice. Two callers of a kind are what a race needs, and
a third caller does what one of the two could; the reaper adds the third
party. One or two recipients distinguish "the rest of the list" from "this
one". Two faults allow a crash and the loss of an answer in one behaviour. Two
reports allow them to disagree. A sweep of `Limit` 2 in `write_live` makes a
batch, of 1 in the others a row for each sweep. `MaxTemplateWrites` is 1 where
the template matters only by being there and 2 for two channels; five in
`templates` fill a table of three rows and still leave two writes, an edit and
what undoes it. Two CRUD writes are a delete and a purge or a restore, or an
edit and what follows it; one process suffices there because the second party
is the administrator; two writes are also enough for one that frees a slot,
whereupon a redelivery makes a second row of it, and one that gives this row
the message id of the first, so that a receipt moves both; the status and
reason a write gives are "pending" and none, or what the row holds; the one
report there is a delivery, two that disagree are in `write_receipts`. Four
calls of the queue port let a text be dispatched, lost and dispatched again
between two others. Spellings two characters longer than the canonical form
hold a character on each side, or two in the middle. Three segments put a
placeholder between any two others. Properties that hold in several runs are
checked where the case that could break them arises: `CompletedIsRecorded`
with an address that is none and a dedup conflict in `write_race`, with a
refused row and a second channel in `write_receipts`. The theorems below need
none of these bounds. Deadlock is checked in the write and CRUD runs, where
the broker, the reaper or the provider can always go on; the template, text
and queue runs stop when their bounds are used up.

Fairness, in `FairSpec`:

* weak fairness of each caller's `Step`: the async runtime polls a task that
  can run;
* strong fairness of delivering a request not yet answered Ok: the
  at-least-once bus that `notify`'s documentation assumes; strong, because the
  notifier is busy again and again;
* weak fairness of `SweepBegin`: the reaper is run on a schedule, and in
  `write_live` with a scope, as the operator's duty in
  `dispatch_pending`'s comment.

Nothing is assumed of receipts. One that comes before the message id is stored
matches no row, `record_delivery` answers `Ok(false)`, and whether it is
relayed again is the composing service's matter; the code alone loses it. No
property claims that a report is recorded in the end, only that what is
recorded is true.

Crashes are not fair and are bounded by `MaxFaults`. Liveness is about
behaviours in which the faults have an end.

## 4. The theorems

All are proved by TLAPS for any callers, requests, channels, limits and
bounds, from the named assumptions `RequestAssumption`, `AddressAssumption`,
`GatewayAssumption`, `BoundAssumption`, `TemplateAssumption`,
`QueueAssumption`, `CrudAssumption`, `SpellingAssumption`
and `DraftingAssumption`. They say that the constants have their types and that
the "none" values are outside them. Three say more:

* `QueueAssumption`: one key stands for one request;
* `SpellingAssumption`: digits, the plus, white space and punctuation are
  different characters, and the lower case of a letter is a character of a
  mailbox that is neither a capital nor white space;
* `DraftingAssumption`: plain text has no opening brace, white space has no
  brace, a key has neither braces nor white space around it (an author who
  writes another key does not get that one), and a value's text is a text,
  braces or not.

A theorem about a channel that dedups says so by `Keyed` or `SmsDedups`.

The engine (`NotificationWriteProofs`, `NotificationLifecycleProofs`):

| Theorem | Shows | Inductive invariant |
|---|---|---|
| `TypeCorrect` | `TypeOK` | `TypeInv`: `TypeOK` and `FramesHold`, what a frame holds at each label (a caller at "dispatch" has a row that exists, at "publish" an event about it) |
| `NotifiedOnce` | `NoDoubleNotify` | `NotifyInv`: no two rows hold one slot; a message is the envelope of the row its key names; a keyed channel has one message per key. Two messages of one slot then have one key and are one |
| `RepeatedAreCopies` | `RepeatsAreCopies` | the same: two messages of one slot are envelopes of one row |
| `OutboxIsFaithful` | `OutboxCoversState` | `OutboxInv`: the events are about rows there are; on top of `CorrelateInv`, by which a receipt matches one row and the one announced is the one moved |
| `PublishedAreStaged` | `PublishedIsDurable` | `PublishInv`: the event in a frame at "publish" is already in the outbox |
| `MessageIdsCorrelate` | `MessageIdCorrelates` | `CorrelateInv`: the answer in a frame, and the id in a row, are a message with that row's key. Different rows have different keys, so no id is shared |
| `CompletedAreRecorded` | `CompletedIsRecorded` | `RecordInv`: at "claim" the recipients no longer in `todo` are on record; rows are never removed and never change slot |
| `EngineImplementsLifecycle` | `ImplementsLifecycle` | step simulation under the invariants above, `CorrelateInv` among them, since one slot moves at a time: a claim maps to `Claim`, a commit or receipt to a move or `Repeat`, all else to a stutter |

The lemmas `StoreChanges` and `StoreSteps` carry most of these proofs: any step
leaves rows and outbox alone, or inserts a row nobody holds, or advances one
row and stages one event about it.

The templates (`NotificationTemplatesProofs`):

| Theorem | Shows | Inductive invariant |
|---|---|---|
| `TableTyped` | `TemplatesTypeOK`, on every surface, with or without the unique index | itself |
| `ServedAreWellFormed` | `ServedBodiesWellFormed` | every live row's body is well formed (an update that leaves the body alone keeps a good one) |

The queue gateway (`QueueCommunicationPortProofs`):

| Theorem | Shows | Inductive invariant |
|---|---|---|
| `PortTypeCorrect` | `PortTypeOK` | `PortInv`, below |
| `AcksAreApart` | `AcksCorrelate` | `PortInv`, with `ClaimsAreStaged` and `ClaimsAreApart`: a row id a call holds or has acknowledged is a row with that content, and no other request's |
| `TextsStaySingle` | `OneTextPerNotification` | `PortInv`, with `TextsServe`: a text that serves a notification is the one it asked for, and where the queue dedups the only one |
| `QueuesImplementGateway` | `ImplementsGateway` | step simulation under the invariants above: staging maps to staging, the return of the queue's call to the answer |

Addresses (`AddressSpellingProofs`), for texts of every length over any
alphabet:

| Theorem | Shows | Argument |
|---|---|---|
| `KeysAreCanonical` | the key of a spelling is the address meant, character by character | `SpellingInv`: padding, capitals and punctuation leave what normalization makes of a spelling |
| `OneRecipientOneKey` | `SpellingsCollapse` | the theorem above |
| `OneKeyOneRecipient` | `RecipientsStayApart` | the same |
| `NormalizationIsIdempotent` | normalizing what was normalized changes nothing, for every channel and every raw text, canonical or not | what normalization returns is a text in lower case without white space around it, or digits with or without a plus, or nothing |

Rendering (`TemplateDraftingProofs`), for templates and data of every size:

| Theorem | Shows | Inductive invariant |
|---|---|---|
| `RenderingIsFaithful` | `RendersAsMeant` | `DraftInv`: the draft is well formed (braces left open come last), and every stored body is its text. `RenderUpTo` follows `render` along the segments, one lemma for each kind: text before the next pair of braces is copied, a placeholder is closed by the first pair after it, and an unclosed pair copies the rest |

The prover has no induction over numbers that it can use, so the lemmas
about texts argue by the least counterexample (`LeastNatural`, from the
library's theorem that the order on the naturals is well founded): if some
length or position fails, the first one does, and the step to it is refuted. A
recursive function is defined as a solution of its equation; that there is one,
for every text, is proved too (`JoinedExist` and its like).

The generic routes (`NotificationCrudProofs`):

| Theorem | Shows | Argument |
|---|---|---|
| `AloneUntilEdited` | `EngineAloneUntilEdited` | until the first foreign write the copy in a caller's hand says what the row says |
| `GuardedDeploymentIsEngine` | on the read-only or guarded surface, without seeder rollbacks, every behaviour is one of `NotificationWrite!Spec` | no foreign write is enabled, so the theorem above holds throughout |
| `GuardedDeploymentKeepsPromises` | the engine's six safety properties hold of that deployment | the two before it |
| `CrudTypeCorrect` | `CrudTypeOK` | `CrudTypeInv`: with it, what a frame and the copies in it hold at each label |
| `EngineOnlyMovesOnward` | `EngineMovesOnward`, with rows that share a message id because CRUD wrote it | `EngineStores`: what an engine step can do to the rows, whatever they hold; `Owned` for the last conjunct: two rows have one id only if it is a given one |
| `RepeatsTakeAFreedSlot` | `RepeatsNeedAFreedSlot` | `OneHolder`: two rows share a slot only if both have been purged; `OneMessage`: a message is of a row, one per key where the transport dedups |
| `UntouchedStayFaithful` | `UntouchedRowsFaithful` | `Owned`: the id of a row is that of one of its own messages or one CRUD has given, and an answer in a frame is of the row in hand; `KeptInv`: copies and messages of an untouched row equal the row, and the outbox tells how far it is |

`ForeignWrites` says what any foreign write does (it adds a row, rewrites one,
or moves rows to or from the trash), and `EngineStores` and `EngineSends` what
an engine step does; the invariants are preserved by these few shapes rather
than by each action anew.

Only `EveryRecipientResolved` is model-checked and no more: liveness under
fairness is beyond this prover. Every safety property that a
passing run checks is a theorem.

## 5. Plan

The order of work was by importance of the behaviour; all of it is done.

1. `NotificationTemplates`, `NotificationWrite` and its runs.
2. `NotificationLifecycle`, the refinement, the safety theorems.
3. `HttpRoutes`, `NotificationCrud`: what is left of the promises when the
   generic routes may write, and the proof that they are whole when they may
   not.
4. `RecipientAddress`, `TemplateRendering` over texts, and the instances that
   put them under the engine and the templates table.
5. `ChannelGateway`, `QueueCommunicationPort` and its refinement.
6. The theorems about 3 to 5.

What may follow:

* the tenancy strip's guard and drop, should the migration ever be run beside
  a version of the module that still writes rows;
* the age of a pending row, should `list_pending` come to look at it;
* a relay that reads the outbox, should the module get one.

## 6. Not modelled

* Migrations. They are SQL run once, outside the program. The CHECKs and the
  unique index they install are in `NotificationWrite` and `NotificationCrud`;
  the strip's guard counts uncovered rows and the drop follows without a lock,
  and the row it could miss would be written by a version of the module that
  is not in this repository.
* The row rules on columns other than the body and the failure reason
  (`Misfit` and `Overlong` in `NotificationCrud`, `Malformed` in
  `NotificationTemplates`).
* The seeding itself: the seed files insert nothing. Only the rollback acts.
* Authentication in front of the routes, and the mapping of errors to HTTP
  statuses: neither touches a table.
* The generic repository, service and handlers of the framework, which are
  another crate; what the module's use of them fixes is modelled and marked
  external.
* The paging of the list routes. They are the framework's; the pagination types
  and list responses this repository generates are used by none of its routes.
* `mark_sent` and `mark_failed` outside a transaction: nothing calls them.
* The generated part of the entities and DTOs (builders, getters, conversions
  field by field), repository traits and exports: no behaviour to be wrong in.
* Consumption of the outbox: a relay of the composing service.
