# Speedtunbot: TLA+ models, checks and proofs

This directory models the Telegram bot under `src/app`: one asyncio process that
sells access to a single 3x-ui VPN panel. The bot owns identities, access status,
payments and settings in SQLite; the panel owns the clients, their `enable` flag
and their expiry. Nearly every interesting failure lives between the two: a
handler reads one, awaits, writes the other, and anything may happen at the await.

Run everything from this directory: `tlc -workers 2 -config X.cfg M` for a run,
`tlapm M_proofs.tla` for the proofs. `PROJECT.json` lists the runs, the lines each
definition stands for, the hazards, the mutants and the theorems.

## 1. The system

Handlers are coroutines of one event loop. Two of them interleave only at
`await`s: panel requests (seconds, with a `wait_for` timeout), database
transactions (SQLite serialises them) and Telegram calls. There is no thread
shared state, but all handlers share the gateway's cache, its lock, the database
and the panel.

| Component | State it keeps | Operations | Talks to |
|---|---|---|---|
| `services/panel.py` PanelGateway | client cache with a 30 s TTL, one `asyncio.Lock` | `get_client`, `list_clients`, `get_traffic` (unlocked, cached), `mutate` and its callers, `reset_traffic`, `ensure_client`, `regenerate_sub_id`, `delete_client` (locked: read, write, re-read) | the panel |
| `services/subscriptions.py` | none | expiry arithmetic, `grant_days`, `set_expiry`, `freeze` | PanelGateway |
| `services/payments.py`, its repository and handlers | `payments` rows: status, `expiry_after_ms`, `applied_at` | create, submit, receipt, cancel, approve, decline, apply, retry, `expire_stale`, startup reconcile | Subscriptions, PanelGateway, Notifier |
| `services/users.py`, `/start`, `/ban`, review cards | `users.status` | request, approve, decide, ban, unban | PanelGateway, Notifier, Invites |
| `services/invites.py` | invite rows with a use counter | create, redeem, revoke | `/start` |
| `services/admins.py`, `permissions.py` | role cache over the `admins` table | get_role; no handler changes the table | every handler |
| `services/settings_service.py` | per-key cache over `settings` | get, set | every handler |
| `callbacks.py`, `handlers/confirm.py` | single-use confirmation tokens | mint, peek, consume, cancel | destructive admin actions |
| `services/notifier.py` | `admin_cards`: every sent copy of a card | send, fan out, sync | Telegram |
| `middlewares/*` | in-flight locks, notice timestamps, maintenance flag | gate an update before its handler | everything |
| `handlers/broadcast.py` | a send loop | start, progress | Notifier |
| `services/legacy_import.py`, `cli.py` | none | one-off idempotent import | panel, database |
| `app.py` | the process | migrate, expire, reconcile, poll, shut down | everything |
| admin screens, profile, support | an FSM prompt per chat | navigation and rendering | services above |
| audit, storage, texts, ui, logging | append-only log, sessions | plumbing | - |

What is hard, and what must hold nevertheless:

* **The gateway.** Every write replaces a *whole* client, so a read-modify-write
  outside the lock, or one based on a cached read, silently reverts somebody
  else's change. A request may fail before, during or after its effect. Required:
  exclusion, current reads under the lock, no lost update, no silent success, no
  handler stuck at the lock, a cache that does not lie.
* **Payments.** `applied_at`, `expiry_after_ms` and the panel's expiry are three
  records of one fact, written at three moments with awaits, failures, retries
  and crashes between. Required: one decision per payment, no payment forgotten,
  no day granted twice, none lost.
* **Access.** approve, ban and unban write the row first and bring the panel into
  line afterwards; `/start` reads a status and writes one some awaits later.
  Required: one reviewer wins, refusals and bans stand, a banned client is off,
  nobody gets a perpetual client by accident.
* **Gates and settings.** A value loaded across an await is put into a cache that
  somebody else has refreshed meanwhile; the throttle's lock is taken for leaked after
  30 s. Required: a setting is never older than the TTL, maintenance keeps everybody
  out, one handler per account unless one was slow, no account locked out for good.
* **The desk.** Prompts share one slot per account, cards stay on the screen for ever
  and the send loop outlives the lock of its update. Required: what is typed goes
  where it was asked for, an action runs once per card, nobody gets a text twice.
* **Cards.** A decision edits every stored copy of a card, while copies are still being
  sent, stored, edited and re-sent by others. Required: no live card of a decided
  payment, a retry button for every payment that needs one, nobody told two things.
* **Admission.** Rows come from an import, from links and from requests, with crashes
  in each. Required: imported bans hold, a link admits no more than it says, an
  import undoes nobody's decision.

## 2. The modules

```
Expiry <- PanelData <- PanelGateway <- GatewayClients <- MCGateway
                            |              |-- Atomic == AtomicPanel (refinement)
                            |<- Payments <- MCPayments
                            |      |-- Lifecycle == PaymentLifecycle (refinement)
                            |<- Access <- MCAccess
SettingsCache <- Gates <- MCGates
Cards <- MCCards
LegacyImport, Invites <- Admission <- MCAdmission
Confirmations <- Desk <- MCDesk -> Lists, Standing (pure)
```

| Module | Models |
|---|---|
| `Expiry` | the pure arithmetic of `subscriptions.py` |
| `PanelData` | a client's fields, what each method asks of it (`Applied`), what its verification accepts (`Persisted`) |
| `PanelGateway` | the gateway: cache, lock, stages of a call, timeouts, the panel's side. It has no `Next`; a module that calls it includes `GatewayStep` |
| `GatewayClients` | the gateway alone, under arbitrary callers |
| `AtomicPanel` | what its callers may believe: every call takes effect at one moment on the panel, or raises |
| `Payments` | the payment service, its table, its handlers, crash and startup, and an editor with a user card |
| `PaymentLifecycle` | what the table promises: at most one open payment per user, one decision, one application |
| `Access` | users' status, `/start`, invites, review, ban and unban, at every await of theirs |
| `Cards` | one payment's review cards: fan-out, copies, syncs, re-sends, notices, the startup alert; every Telegram call may fail |
| `SettingsCache` | `SettingsService` over its table, and the buttons that step a setting |
| `Gates` | the middlewares in their order over `SettingsCache`: context, maintenance, access, throttle, with a second process that writes the table |
| `Invites`, `LegacyImport` | invite links with the wizard that mints them; the import of the old bot's clients and bans |
| `Admission` | how an account gets its row: both of them with `/start`, staff's acts, crashes and the startup guard |
| `Confirmations` | single-use tokens and their dispatcher |
| `Desk` | an account's prompts, its broadcast, what it confirms, the renewal of its own link |
| `Lists`, `Standing` | pure: pages of a list and their buttons; what each screen calls one and the same user |

**State and code.** `panel` is `inbound.settings.clients`; `cache` is
`self._clients` while fresh; `queue` is `self._lock` with its FIFO waiters;
`request`, `stage`, `answer`, `object` are the locals of the gateway call a task is
inside; `late` holds the requests that `wait_for` abandoned and the panel may still
carry out; `now` is the clock. In `Payments`, `status`/`target`/`applied` are the
columns, `row` and `seen` the handler's *own copies* of them (stale by design),
`offered` the payments somebody holds a retry button for. In `Access`, `status` is
the column and `pc`/`job`/`subject` are the handler's position; `warned` records the
`panel_error` an admin was shown.

In `Gates`, `cache` is `_cache` with its deadlines, `inFlight` and `recent` are the
throttle's two dictionaries, `pc` is how far telebot has brought an update and `user`
is the row Context handed on. In `Cards`, `copies` is `admin_cards`, `shows` is what a
message on somebody's screen shows, `held` is a message sent whose copy is not stored
yet. In `Desk`, `slot` is telebot's state storage for the account (`set_state` keeps
the data, `delete_state` drops it), `audiences` and `previews` are cards still on the
screen, `locked` is the throttle's lock, `renewing` and `cooling` are a renewal under
way and `_last_regen`. In `Confirmations`, `pending` is the store, each live token with the
action and the arguments it would run, and `card` is what the message with its buttons
shows, for good: two variables, because the store may be purged, emptied or wrong. In `Admission`, `row` and `client` are the two stores, `invite`
the table of links, `snap` the panel as the import listed it. A variable whose comment
ends in "for the properties" is history: no guard reads it.

**Steps.** An action is what a coroutine does between two awaits. A panel request
is two or three steps: it is sent by the step before, the panel answers or commits
(`PanelAnswers`, `PanelCommits`), the task resumes (`...Resumes`). `RequestFails`
may happen before or after the commit, so the caller never knows. A database
transaction is one step, because SQLite serialises writers and the code's claims are
single guarded UPDATEs.

**Abstractions.** Time is counted in days, since only the order of `now` and the
expiries matters, and a grant is a number of days. A client has `enable`, `expiry`,
one field for the limits and one for `sub_id`; a fresh `sub_id` is one the client
never had. Traffic counters are not modelled, so the re-read after a reset may
reject it (`Verdicts`), as happens when bytes flow meanwhile. `Payments` and `Access`
assume that cards arrive, which `Cards` drops; that only `PanelError` is raised, which
`Cards` drops too; and that an account has one handler at a time, which `Gates` proves
of every account none of whose handlers took 30 s. In `Gates` a database call is short
beside a tick of the clock; in `Desk` every handler but the send loop and the renewal
is one step. `Admission` makes a handler's work on the panel one step: its
interleavings are the business of `Access`. A definition whose
comment says `Mutant:` is a plausible bug in the definition that follows it; no
specification uses one, they serve to test the properties.

## 3. The runs

`CHECK_DEADLOCK FALSE` everywhere: calls, edits, payments, updates, tokens and days are
bounded, so every behaviour legitimately ends.

| Run | Instance | Shows |
|---|---|---|
| `gateway_safety` | 1 client (live, perpetual, placeholder or absent), 3 handlers of one call each out of all eight writes and `get_client`, every request may fail, a day may pass | type, lock, current reads, no lost update, no silent success, granted days kept, refinement of `AtomicPanel` |
| `payments_safety` | 1 user, 2 payments, 1 reviewer, 1 editor granting a day, failing writes and re-reads, 1 crash | lifecycle refinement, nothing forgotten, nothing granted twice, recorded targets stable |
| `payments_delivery` | 2 users (dated, perpetual), 1 payment each, failing reads around the write, 1 crash, 3 days | applied means reached on the panel; days delivered, once, also when a retry comes days later |
| `payments_liveness` | 1 payment, a reviewer who may retry for ever, every request may fail, late writes, an editor who may delete the client, 1 day passing | an approval ends applied or offered for retry; no call waits for the lock for ever |
| `access_safety` | 1 user of every status and kind of client, 2 reviewers, 2 admins who ban and unban, 1 invite use, 4 updates in all, every request may fail and land late | refusals stand, a ban that nobody crossed is carried out or reported, nobody becomes perpetual |
| `gates_safety` | 3 updates of a customer of any status, 1 of the owner who toggles maintenance, 1 write by another process, a clock of 4 ticks against a TTL of 2, a lock of 2 and a cap of 2 per window | settings recent, maintenance kept, one handler at a time, no orphaned lock, the rate cap |
| `cards_safety` | 1 payment, 2 staff, 2 messages per chat, every send, edit and store may fail, 1 crash | cards tell the truth, a retry is held, the payer is told one thing |
| `desk_safety` | 1 account, 2 users, 2 loops, 2 texts and tokens in all (`MCBound`), 4 actions, restarts | typed messages, one copy each, confirmations, bank details, spaced links |
| `admission_safety` | 3 users (banned, customer, stranger), 1 link, 2 process starts, 3 acts of staff, 1 day | imported bans, uses of a link, gentleness of imports |

`MCDesk` also evaluates an assumption about the pure modules: for lists of up to 41
rows, every row is on one page and the buttons lead to the pages beside it; for every
kind of row at every expiry around the two windows, the list, the card, the dashboard
and the audiences agree, and the list's filters are disjoint.

**Why the bounds suffice.** The hazards are races of two parties over one client, one
row, one slot or one lock. Three handlers give the gateway a holder, a waiter and an
unlocked reader at once; the second payment of a user gives the first one's leftovers
something to damage; one crash reaches every prefix of a handler, since the startup
after it brings no new kind of state; two reviewers exhaust the claim races, and two admins
who ban and unban every order of two rows and two panel writes, with a third and a fourth
update to meet what they left. (At most one of those four is the user's own; the clock of
`Access` stands still, since no property of it speaks of days that pass.) The liveness
run has no crash: one clears everything that waits, and its startup offers what was
approved. Clients of one inbound interact only through the lock and the cache snapshot,
which one client and a reader already exercise. Three updates of one account are a lock that leaked, the
update that took it over and a third that meets the wrong release; the clock runs twice
past each limit. Two staff make a fan-out that is half stored when the decision comes,
and two messages per chat a re-send. Two texts, two loops and two tokens give every
old card something newer to be confused with; accounts do not share any variable but
`bank`, so one suffices. Two process starts are a first import, cut short or not, and
whatever follows it. The bounds (`MaxCalls`, `MaxActs`, `MaxEdits`, `MaxCrash`,
`MaxNow`, `MaxInvites`, `MaxOutside`, `MaxMessages`, `MaxRuns`, `MaxToday`, `MaxUses`,
`Loops`, `Tokens`, `MCBound`, `MCFew`) only stop counters.

**Fairness.** `Resumes`, `Handles` and `Returns` are weakly fair: the event loop
runs every ready coroutine. `RequestFails` is weakly fair: each request is wrapped in
`wait_for`, so one the panel ignores raises. Nothing else is: the panel need not
answer, no user or admin need press anything, nobody need restart the process.
`EveryCallEnds` is checked where it is hardest: in `payments_liveness` the reviewer's
retries never run out, so nothing but the order of the lock bounds how often a waiting
call is overtaken.
(`MCGateway_liveness.cfg` checks it of three tasks with one call each, by hand.)

### Where the code and its documents disagree

Three runs must fail; each checks one property that the repository states.

* `payments_double_grant`: `apply_approved` decides from a row copy read before
  several awaits. Two retries (two reviewers) both see no target; the second counts
  from the expiry the first has extended.
* `access_two_admins`: users.py:8 says that blocking a user also disables his client. Ban
  and unban each write the row, then the panel; two admins who do both at once can leave
  the user blocked with a live client, without any failure and with nobody warned. What
  does hold, with every failure, is `BanIsCarriedOut`: a ban that no other update about
  its user and no abandoned write crossed, and that reported no error.
* `admission_rerun`: legacy_import.py:14 calls the import idempotent. A perpetual
  client on the ban list is disabled by the first one (0 and disabled), which the
  second one takes for a placeholder and dates.

Seven more configurations show further disagreements; they are run by hand.

| Configuration | Property | What happens |
|---|---|---|
| `MCGateway_unlocked_reads.cfg` | `CacheIsCurrent` | DECISIONS.md:123 says reads share the lock. `_index` does not take it: a read answered before a write stores the old index after that write dropped the cache |
| `MCGateway_late_write.cfg` | `GrantsKept` | `wait_for` gives up, the lock passes on, a second handler's grant is acknowledged, then the abandoned whole-client update lands and takes the days back. This is why the gateway theorems assume `~LateWrites` |
| `MCPayments_dirty_cache.cfg` | `AppliedIsLive` | `mutate` edits the very object the cache holds. If the write fails the cache keeps the unwritten expiry, and the retry sees the target reached |
| `MCPayments_placeholder.cfg` | `NobodyBecomesPerpetual` | the first attempt enables a client with expiry 0, then fails; the retry sees 0 and enabled, which means perpetual |
| `MCAccess_ban_lost.cfg` | `BanStands` | `/start` reads *approved*, an admin bans, `approve` writes *approved*; start.py:108 says a status is "never overwritten" |
| `MCGates_stale_toggle.cfg` | `ToggleIsImmediate` | maintenance.py:5 says a toggle applies to the very next update; a read under way puts the old value back for the TTL |
| `MCDesk_old_preview.cfg` | `SentAsPreviewed` | Send takes the text from the slot: on an older preview it sends the newer text |

Further limits met while modelling, without a configuration:

* If the update after `add` fails, `ensure_client` leaves the new client *enabled*,
  though expired, and the next call returns it as it is (panel.py:416, :399). A user who
  was banned while the bot made his client can keep such a one.
* The review card of a user's second payment reads the panel while the first is being
  applied; `_apply` then computes the second target from that stale cache, and two
  payments yield the days of one. `MCPayments_delivery.cfg` with both payments given
  to `u1` (`Owner <- MCOneOwner`, a live client) violates `DaysDelivered` through it.
* A perpetual client that was banned is not switched on by unban, since 0 and
  disabled reads as a placeholder (accepted in DECISIONS.md:702).
* A crash between a ban's row and its panel write is repaired by nothing; nor is a
  crash inside the first import, after which the guard finds the table filled and lets
  the bot start without the remaining bans. An unreadable ban list imports none.
* A listed user without a panel client is never imported, so his ban is not either.
* `AdminService.invalidate` and `SettingsService.invalidate` are called by nothing: a
  role is what it was when first asked for, until the process ends.
* broadcast.py:146 says the audience "active" is the green icon and "soon" the yellow
  one; "active" is both icons, "soon" looks seven days ahead where the icon looks three,
  and at clients switched off too.
* An approved user who opens a link again uses it up once more. repositories/invites.py
  says an invite without `expires_at` never expires, where its UPDATE finds none; the
  wizard never makes one.
* Deleting a client removes it from the panel first and marks the row afterwards, best
  effort: if that fails the user stays approved and `/start` gives him a new client.
* The previous and next buttons of the users list carry no filter (`_route`), so they
  lead to a page of the whole list.

## 4. The proofs

TLAPS proves these for all values of the constants: any number of clients, users,
handlers, calls, failures and crashes. Every invariant and every action property that a
passing run checks is stated by one of these theorems, but for those of
`payments_delivery`; the two liveness properties are not (see the end of this section).

| Module | Theorem | Inductive invariant and argument |
|---|---|---|
| `PanelGateway_proofs` | lemmas cited by the others | one lemma per gateway action; what a call may find, send and leave behind |
| `GatewayClients_proofs` | `TypeCorrect`, `LockCorrect` | type and what each stage says of its call, with: a locked or waiting stage holds iff its task is in `queue`, once, the holder first |
| | `ReadsAreCurrent`, `NoUpdateIsLost`, `SuccessIsNeverSilent` (assume `~LateWrites`) | adds, for the holder: an answered read equals `panel`; an unanswered mutation is `Applied` of the panel's client; after the acknowledged write the panel holds its object |
| | `CallsAtomic`: the gateway implements `AtomicPanel` (assumes `~LateWrites`) | every step is mapped: the commit of the holder's write is the abstract step, all others keep the call's phase; at the commit the object is the panel's client with the caller's own change |
| | `GrantsAreKept` (assumes `~LateWrites`) | from the same invariant: what is committed counts from the panel's present expiry |
| `Payments_proofs` | `RowsAreCorrect` (refinement of `PaymentLifecycle`), `NoPaymentIsForgotten` | a handler past the claim works on an approved row; approved and unapplied means worked on, offered, or down |
| | `OnlyApprovedApplied`, `OneActive`, `DecisionsAreFinal` | of the lifecycle itself: at most one active row per user; applied rows are approved |
| | `PaymentsTypeCorrect`, `PaymentsLockCorrect` | ties each handler label to the stages its gateway call can be in, so no call starts inside another |
| | `PaymentsLoseNoUpdate`, `PaymentsSucceedTruly` (assume `~LateWrites`) | `Current`: the lemmas of `PanelGateway_proofs` about the gateway's own steps, under the handlers, crashes and restarts of this module |
| | `CopiesAreCurrent` (assumes `[]ApplyApart`) | `CopyInv`, its own invariant: the copy of the row that `_apply` decides from has the row's target, and the payment is not applied under it |
| | `TargetsAreStable` (assumes `[]ApplyApart`, `DatedOrEndless`, `NoZeroByHand`) | `ExpiriesIn`: see below |
| | `DaysAreNotGrantedTwice` (assumes `[]ApplyApart`, `DatedOrEndless`, `NoDatesByHand`, finite sets of tasks and payments) | `RoomInv`: see below |
| | `OneReviewerIsEnough`: one reviewer gives `[]ApplyApart` | only reviewers are at a label of `_apply` |
| `Access_proofs` | `AccessTypeCorrect`, `RefusalsStand` | what a handler read before its write may since have become a ban, never again a request or a refusal; only the user himself inserts his row |
| | `NoneBecomesPerpetualHolds` | `DatesInv`: whatever was read, cached or sent has the expiry the panel holds, so no write changes one; a client is only sent switched on if it has not lapsed |
| | `BansAreCarriedOut`, for any staff, failures and late writes | `MissingInv`, `LastBanInv`: see below |
| `Gates_proofs` | `OneHandlerAtATimeHolds`, `LockIsHeldHolds` | `OwnsLock`: while no handler of its account has been slow, the lock is that of the running handler, and as old |
| | `SettingIsRecentHolds`, `MaintenanceIsKept` | `CacheInv`: an entry's deadline is at most a TTL after the table last held its value, and what a task carries over an await is in the table at that moment |
| | `RateIsCappedHolds`, `GatesTypeCorrect` | `RateInv`: the deque is the whole history of an account without a prefix that is older than the window, both are in order, and any `RateLimit` + 1 updates in a row span more than a window |
| `Admission_proofs` | `AdmissionTypeCorrect`, `LegacyBansHoldAlways` | `BanInv`: under an imported ban no `/start` of the account is under way, and none is while a process imports |
| | `InviteHoldsAlways` | `UsesInv`: those let in and those who have paid a use and are about to be are together no more than `uses`; the cap is what the button's packed integer said |
| | `ImportIsGentleAlways` | `SnapInv`: the clients an import has still to take are as its snapshot has them |
| `Cards_proofs` | `CardsTypeCorrect` | `SeenInv`: stored copies, rows in hand and held messages were all sent, and rows in hand are distinct |
| | `NoticesAreTrue` | `DecisionInv`: whoever writes or tells a verdict tells the row's, and "approved" only once it is applied |
| | `RetryIsAlwaysHeld` | `RetryInv`, `ApprovalInv`: approved and unapplied, there is a retry button, or a task about to write one, or the process is down, or an offer reached nobody |
| | `CardsAreTrue` | `TruthInv`: unless a step was torn, each copy shows what is due, is excused, or is still in the hand of a sync that brings it there |
| `Desk_proofs` | `DeskTypeCorrect`, `PromptsAreHonest` | a slot's state and data are those of the last prompt; staying in a state keeps both |
| | `OneCopyOnly`, `LinksAreRare` | `JobsInv`: one broadcast and one renewal per account unless one outlived its lock, and a renewal only by an account that is not cooling; the recipients a loop has left have not got its text |
| | `TokensAreConsumed`, `BankIsWhatWasShown` | a live token has not run; the entry of a live token is what its card shows, whatever is minted, purged or cancelled beside it |

**Why the invariants are needed.** The checked properties are not inductive.
`ReadIsCurrent` says nothing about the write that will follow the read, `NoOrphan`
nothing about which row a handler at `load` works on, `SettingIsRecent` nothing about a
value on its way into the cache, `InviteHolds` nothing about a use paid for by an account
whose row is not written, `CardsTellTheTruth` nothing while somebody is at work,
`RateIsCapped` nothing about what was pruned. The strengthenings are that missing link
between a handler's position, its own copies and the shared state. Each module proves
that it holds at first, that each action keeps it, and that it implies the property.

**Expiries and days in `Payments`.** The properties of the target and of the days
granted relate a handler's old copies to the panel, so two invariants follow every expiry.

* `ExpiriesIn(D)`: let D give, for each user, a set of expiries. If every expiry in the
  panel is in the set of its client, so is every expiry in the cache, in an answer, in an
  object on its way to the panel, in an abandoned write and in a target; and a handler's
  copy of a row is the row's target. With it goes what editors leave alone: the client of
  a `Lasting` user is never gone, that of an `Endless` one (perpetual at first) stays
  enabled. `NextExpiriesIn` proves that each step keeps this, provided D admits what a
  grant or a new target computes. With D = 0 for the perpetual, the other numbers for the
  rest, it follows that a target is recorded once and never changed: `SetTarget` only
  writes where the handler's copy, hence the row, has none.
* `RoomInv` takes a D that does not exceed `Room(u)`: the client's first expiry or now,
  and the days of the payments that have a target, and the days editors asked for, less
  those of grants not computed yet. A step that computes an expiry adds days and raises
  the room by as many; every other step keeps or raises it. As targets belong to approved
  payments, the room is within the bound of `NoOverGrant`. D has a floor too: a lasting
  client is never earlier than where it started. The sums run over finite sets; their
  lemmas (`TotalAny`, `TotalChange`, `TotalMono`, ...) are proved from the library's
  theorem on well-founded relations, by induction on sets instead of operators.

The hypotheses of the theorems about `Payments` mark off what the code gets wrong or what a property does not speak of;
without any one of them TLC finds the property violated.

* `ApplyApart`: no two handlers apply one payment at a time; `payments_double_grant` is
  two reviewers who do. Several reviewers on different payments are within the theorems,
  and one reviewer is always (`OneReviewerIsEnough`, whose hypothesis is on a constant).
* `DatedOrEndless`: a client that starts without a date is perpetual, and no editor
  deletes it, disables it or dates it. A placeholder that the first attempt enabled is
  perpetual for the second one, which then records 0 over the target (the instance of
  `MCPayments_placeholder.cfg` violates `TargetIsStable`; with late writes and a crash
  `NoOverGrant` too). `NoZeroByHand`: no editor makes another client perpetual, which
  comes to the same.
* `NoDatesByHand`: editors grant, disable, delete and limit but set no expiry, since
  `NoOverGrant` counts only what was granted.

Crashes, restarts, failed, timed out and late requests, users with several payments and
the editors' other requests are within all of them.

**Bans in `Access`.** `BansAreCarriedOut` has no hypothesis. A task that bans looks first,
through a cache that others fill and that a failed write leaves wrong, so it goes by one
thing it read only: that there is no client. `MissingInv` says that a user whom a
snapshot lacks, in the cache or in an answer, has no client now either, or has got one
since, which the bot makes expired. Otherwise `set_enabled` is sent, and the gateway
raises or finds a client switched off when it re-reads. `LastBanInv` follows the last
update about a user: while nobody else was at work on him and no abandoned write of his
landed, nothing but the ban wrote his client, so what it did is still so when it returns,
and until the next update. A crossed ban promises nothing, and that is all the code gives
(`access_two_admins`, `MCAccess_ban_lost.cfg`).

**Assumptions** are the named `ASSUME`s of the modules: the marker values (`NoClient`,
`NoCache`, ...) are not data, bounds are naturals, users and staff are tasks. The
theorems that need more say so: `~LateWrites` (`MCGateway_late_write.cfg` shows that it
cannot be dropped) and the hypotheses above.

**Only model-checked.** `EveryCallEnds` and `ApprovalEnds`: liveness under fairness is
out of the prover's reach. `DaysDelivered` and `AppliedIsLive`: the code keeps them only
where no client write fails and nobody has two payments (`MCPayments_dirty_cache.cfg`, and
the second card of section 3), which leaves too little to a theorem about every instance;
the run shows them for retries, failed reads and a crash. The agreement of the screens is
an assumption that TLC evaluates, since `Lists` and `Standing` compute over finite data.
What a violation run checks is false.

## 5. What is not modelled

* Wording, rendering, QR codes, logging, schema and migrations, the audit log (nothing
  reads it), server status, the error reporter (it decides nothing but whether to send
  one more alert).
* `Access` and `Payments` together. Approving or retrying a payment enables the client
  of a user banned meanwhile, and nothing guards against it. Each of the two is a chain
  of panel steps that fills a run by itself; their product is out of TLC's reach.
* The permission table. It is a constant that each handler looks up; with a role cached
  for the life of the process no step can change an answer.
* In `Notifier`, marking users who blocked the bot and waiting out a flood limit: they
  delay a message or drop one, and `Cards` and `Desk` let any message be lost.
* An import beside the running bot (cli.py says the bot *may* stay stopped): `Admission`
  stops it first.
* A submit between the read and the claim of one `cancel` (payments.py:203-211). Both are
  updates of the paying user, and the throttle handles one of them at a time, so
  `Cards.Cancel` reads and claims in one step.
* Receipt files, tariffs, statistics, profile fields, the stored panel uuid: no decision
  reads them.

What would add most next: the composition of `Access` and `Payments` with both halves cut
down to one step per panel call; the delivery of days for users with several payments,
once `_apply` reads the client under the lock; `BannedIsOff` as a theorem, once ban and
unban of one user exclude each other.
