# A TLA+ development of the Intern Trading Game exchange

The Intern Trading Game is a simulated options exchange: trading bots send
orders over HTTP, a chain of threads validates, matches, publishes and books
them, and the bots hear of the results over the HTTP answer and a WebSocket.
This directory holds TLA+ modules of its core, the TLC configurations that check
them on small instances, and proofs that TLAPS checks for every instance.

Paths below are relative to `src/intern_trading_game/` of the repository.

## 1. Inventory

| Component | State | Operations | Talks to |
|---|---|---|---|
| **Order response coordinator** `domain/exchange/response/coordinator.py` | `_pending_requests`, `_completion_results`, the event of every request, `_shutdown` | `register_request`, `wait_for_completion`, `notify_completion`, `update_status`, cleanup thread, `shutdown` | called by API calls (register, wait) and by the validator thread (notify) |
| **Order book and continuous matching** `components/orderbook/book.py`, `matching_engine.py` | price levels with queues and totals, `order_price_map`, `order_ids`, trades | `add_order`, `cancel_order`, matching loop | called by the venue |
| **Exchange venue** `domain/exchange/venue.py`, `phase/` | `all_order_ids`, cached phase, last phase, batch of pre-open orders | `submit_order`, `cancel_order`, opening auction, `cancel_all_orders`, `check_phase_transitions` | matching thread (submissions, phase checks), validator thread (cancellations) |
| **Pipeline** `threads_v2.py`, `positions/threads.py`, `communication/threads.py`, `api/` | the order, match, trade, position and websocket queues; positions | validator, matcher, publisher, position tracker, WebSocket thread; startup and shutdown | queues, one consumer each |
| **Order constraints, rate limit** `validation/order_validator.py`, `services/order_validation.py` | rate-limit windows | position limit, portfolio limit, order size, rate, price range, roles | validator thread |
| **WebSocket manager** `infrastructure/messaging/` | connections, sequence numbers, an asyncio lock | connect, disconnect, `send_to_team`, routing of message types | WebSocket thread, HTTP event loop |
| **Fees, trade processing** `positions/fee_service.py`, `trade_processor.py` | none | fee per fill | publisher |
| **Auction pricing** `batch_auction_strategies.py` | none | clearing price and volume of a set of orders | nothing at this commit; here the venue's auction is compared with it |
| **Game, authentication, configuration, factories, signals, events** | one dictionary of teams, configuration values | look-ups and construction | startup, API |

What is hard here:

* *Concurrency.* Five pipeline threads, the cleanup thread, one pool thread per
  waiting call and two event loops share the coordinator (under its lock, which
  `wait_for_completion` releases while it waits), the positions (under a lock) and
  the exchange (under no lock at all).
* *Stale reads.* Limits are checked against positions that two queues have yet to
  update; the venue acts on a phase cached by the last check.
* *No lock on the book.* The validator thread cancels in the lists into which the
  matching thread inserts and against which it matches.
* *Ordering.* Cancellations leave the queue of their orders half way; shutdown puts
  sentinels behind or in front of work that is still being forwarded.
* *Timeouts.* A call that gives up, a cleaner that removes what it finds expired,
  and a notification may arrive in any order.
* *Bookkeeping.* The book keeps four redundant structures through four paths.

What makes each component correct is stated by the properties of section 4.
`PROJECT.json` lists every hazard at its line with the properties that cover it.

## 2. Modules

| Module | Kind | Models |
|---|---|---|
| `RequestReply` | abstract | what the order API promises about a call |
| `ResponseCoordinator` | detailed | the coordinator; implements `RequestReply` |
| `PriorityBook` | abstract | price-time priority over a set of resting orders |
| `OrderBook` | detailed | book and continuous engine; implements `PriorityBook` |
| `BookRace` | detailed | one side of the book, list operation by list operation, on two threads |
| `AuctionPricing` | operators | the maximum-volume price of a batch |
| `ExchangeVenue` | composed | extends `OrderBook` with phases, batch engine, auction and close; uses `AuctionPricing` |
| `TradingPipeline` | composed | API calls, four threads, their queues, positions, shutdown |
| `OrderValidation` | detailed | the validator: constraints of a role and rate-limit windows |
| `WebSocketManager` | detailed | connections and delivery on two event loops |
| `MC...` | model checking | symmetry sets and constant definitions for TLC |
| `DataLemmas` | proofs | lemmas about queues, ranges, sums and look-up tables that the proofs share |
| `ResponseCoordinatorProofs`, `OrderBookProofs`, `BookRaceProofs`, `ExchangeVenueProofs`, `TradingPipelineProofs`, `OrderValidationProofs`, `WebSocketManagerProofs` | proofs | theorems about the module each is named for (section 5) |

Operators whose comment starts with *Mutant* are plausible bugs of the definition
that follows them. They are used by no specification: each is put in the place of
its definition to see that a property notices.

### ResponseCoordinator

One element of `Requests` is one API call, its request id and its `PendingRequest`.
`pending` and `results` are the two dictionaries; `status` and `event` belong to the
`PendingRequest` object, which the waiting thread keeps when its entry is gone. `pc`
is the place of the call in `process_order_submission` and `wait_for_completion`:

    idle -> registered -> enqueued -> waiting -> woken    -> done
                                             \-> timedOut /

One action is one section under the lock, or one step between two sections.
`woken` and `timedOut` are the two places where a thread has left `event.wait` and
does not hold the lock yet; most of what is
surprising in the coordinator begins there or in the cleanup. `VALIDATING`, `MATCHING` and
`SETTLING` are one status, `PROCESSING`: no guard tells them apart. `UpdateStatus` stores any
status, a terminal one too, as the code does. Time is `age`, in
ticks since registration, which stops counting when no guard can change any more.
`wait_for_completion` waits at least 100 ms even for a request that has expired;
a call that begins to wait is never told of a timeout before its own one, so the
model's `WaitTimesOut` needs no lower bound.

### OrderBook and PriorityBook

The sorted lists of levels have no duplicate prices, so a side is a set of prices
(`level`) with a queue and a total for each; the front of the list is the best price
of the set. `Submit` enters `add_order`, `MatchStep` is one iteration of the matching
loop, `MatchDone` leaves it, inserts the remainder and sets the status that
`ContinuousMatchingEngine` derives. `Cancel` finds the side of an order as the code
does, from its price. Prices are natural numbers and 0 stands for `None`; the code's
floats are only compared and copied. The `deque` of the last 100 trades is a
sequence of all trades.

### BookRace

`OrderBook` takes each call as atomic. The threads take no lock around it, so `BookRace`
takes `cancel_order`, `_insert_order`, `_match_order`, `PriceLevel.add_order`,
`PriceLevel.remove_order` and `cancel_all_orders` apart. `th` holds the place and the
local variables of each thread; one action is what lies between two points at which
CPython 3.10 or later may switch threads (a call, or the jump back of a loop), and steps
that commute with all of the other thread's are joined to a neighbour. The look-ups with
which `ExchangeVenue.cancel_order` and `OrderBook.cancel_order` begin are one step,
because the same order and the same side come of them wherever the other thread stands.

A `PriceLevel` object is named by the order it was created for, so that a level which a
thread still holds, though another object of the same price has taken its place, is
another value. `PriceLevel` is a dataclass, whose equality compares the fields (`Equal`);
`list.remove` uses it. `fresh` is whether an iterator over a deque is still valid. The two
deletions from the tables, `list.remove`, `pop(0)` and indexing raise where Python does,
and `Raise` follows the exception to the handler that catches it. The side is that of the
bids: the code of the asks is the same, with its prices not negated.

`raced` and `raised` record that calls have overlapped and that one has raised:
`SerialCallsAgree` says that without an overlap the lists are what `OrderBook` makes of
them, which is what justifies its atomic calls.

### ExchangeVenue

`phase` is what the schedule gives now, `cached` what the venue acts on, `last` what
the transition handler saw last; both begin with the phase in which the venue is made. The auction is done in steps (`StartAuction`,
`CrossStep`, `CrossDone`, `AddLeftover` and the book's own steps, `FinishAuction`), and
the clock may move between any two. Randomisation of orders of one price is a choice
among all sorted sequences. `published` is the set of trades whose results were put on
the trade queue. Phases and rules are those of `config/default.yaml`. `Prompt` says
whether the matching thread checks at least once in every phase; the checks run every
100 ms and the shortest phase takes 30 s, so the runs have it TRUE.

`AuctionPricing` is `MaximumVolumePricingStrategy` as operators; prices to clear at are
doubled so that the midpoint of two is a number. The engine does not use it (each crossing
pair trades at the price of its sell order), so it serves as the reference:
`AuctionTradesAll` compares what `CrossStep` and the hand-over to continuous matching trade
with the volume the strategy computes, and that volume with the one at every price.

### TradingPipeline

The queues are sequences of records. The validator's forwarding of an order and its
answer are two actions, as are the two halves of booking a trade. Orders are of one
contract at one price, so the book is a FIFO of orders of one side, and an order trades once.

The exchange has no lock, so a match is not atomic: `StartMatch` picks the order at the front
(`maker`), and `FinishTrade`, `FinishRest` or `MatchRaises` ends the call. `ValidateCancel` may
come in between and take the picked order away. `race` remembers that a cancellation has
met this match (`"now"`) or an earlier one (`"past"`), which is what allows the outcomes that
only a race has: either call may raise, a match may raise after its trade is made (`dropped`)
and leave the order in the book with nothing left (`Spent`), and an order may be put into a
level that is being taken out. These are the outcomes of `BookRace`, which has the race operation
by operation; here are its consequences for the threads behind. A call that no
longer waits gets no answer. `StopCoordinator` is the coordinator's shutdown as the
calls see it, then `PutSentinel` puts one sentinel after the other.

### OrderValidation

`validate_new_order` is taken apart where other threads or the clock can come between:
`ReadPositions`, `ReadOrderCount`, the check (`Reject` or `Accept`) and
`IncrementOrderCount`, which reads the clock again. `window` holds the `RateLimitWindow`
of a team, with its second in place of its time stamp and a count of 0 for no window.
`Rules` is the list of constraints of a role in configured order; `Result` names the
first one violated, as `validate_order` returns. An accepted order trades and is booked
one partial fill at a time (`UpdatePosition`), or ends (`Ends`), while other orders are
validated. The rejected order's answer and WebSocket message are in the other modules.

### WebSocketManager

`pc` is where the handler of a connection is in `websocket_endpoint`, `sending` where the
one sender is in `websocket_async_loop`. One action is what a coroutine does between two
awaits; where the coroutine only asks for a free lock or goes on without waiting, both
sides are one action, such as the release of the lock and the snapshot of `Accept`.

The manager's `asyncio.Lock` is external and modelled as Python 3.10 and later define
it: not reentrant, waiters served in order, bound to the first event loop on which
somebody had to wait, an error for a waiter on another loop, and a release that completes the
first waiter's future with `call_soon`, which does not wake the event loop of another thread.
Handlers run on the HTTP loop and the sender on its own. The HTTP server (uvicorn) ticks
every 0.1 s, so a handler soon notices that it is its turn; the sender's loop has nothing else
scheduled while the sender waits, so it may sleep on (`TellsSender`, `sending = "asleep"`). The lock's own test-and-set is taken as atomic. A message
is its kind and its team; whether it can be delivered follows from the route of its kind
and from the keys of its data compared with the parameters of the broadcast method
(`Deliverable`). Left out are the shutdown sentinel of this queue, and the
broadcasts nobody calls: market data, signals, events and quotes.

## 3. Runs

| Run | Instance | Distinct states | Shows |
|---|---|---|---|
| `coord_safety` | 2 calls with different timeouts, 1 slot, retention 1 | 51 502 | safety of the coordinator; every call returns; implements `RequestReply` |
| `book_safety` | 4 orders, 2 prices and market orders, quantities 1 and 2 | 277 951 | safety of the book; implements `PriorityBook` |
| `book_race` | 3 resting orders of quantity 2, 2 prices, an incoming order of 3, a close, 2 cancellations | 508 287 | what survives every race on the book |
| `book_race_agrees` | the same | | a disagreement: `BookStaysConsistent` |
| `venue_days` | 3 orders, 2 prices, quantities 1 and 2 | 1 371 696 | safety of the venue over repeated days; the auction keeps price priority and trades the maximum; every batch is executed |
| `venue_published` | 2 orders | | a disagreement: `TradesPublished` |
| `pipeline_trading` | 4 orders, 2 teams, limit 1, one call queued at a time, 2 cancellations | 2 678 404 | positions, limit, cancellations in the middle of a match |
| `pipeline_shutdown` | 2 orders, a cancellation, timeouts and shutdown | 677 568 | confirmed orders, bookings |
| `ws_delivery` | 3 connections of one team, one message of a trading thread | 860 163 | numbering, registration, no handler waits for ever |
| `ws_one_connection` | 3 connections of one team | | a disagreement: `OneConnectionPerTeam` |
| `ws_blocked` | 2 connections of one team, one message | | a disagreement: `QueueNotBlocked` |
| `validation_limits` | 1 team, 3 orders, 2 instruments, 2 seconds, all constraints | 403 032 | rate and limits |

*Bounds.* Two calls for one slot give a full table, a refusal and a slot that is used
again, with the calls racing each other, the cleaner and shutdown; the proofs cover every
number of calls and slots. Four orders
at two prices give an incoming order that sweeps two levels, a partial fill on either
side, two orders queued at one price and a cancellation from the middle. Three orders
in the venue give an auction with a partial fill, a left-over and an order of the next
phase. In `BookRace` three orders at two prices give a level of two orders, a level between
the search and the removal of another, and an insertion beside either; an incoming order
of three fills one order and part of the next; `MaxIncoming`, `MaxCloses` and `MaxCancels`
bound how often each call is made. A team exceeds a limit of one with two of its own orders and two
counterparties, hence four orders in the pipeline; `MaxQueued` bounds the calls that
wait in the order queue, `MaxCancels` the cancellations (two, for a match to be raced by one
while another has already been), and `MayFail` switches timeouts and shutdown off where the
question is another one. Teams share nothing in the manager but the lock and the sender,
so three connections of one team (one replaced, one replacing, one after both) with a
snapshot each are enough to meet every race for the lock. A rate of two per second, three
orders and two seconds give a refusal, a new window and a validation that spans the
boundary; quantities of one and two against limits of two and three reach each limit with
a partial fill between two orders.

*Fairness.* `ResponseCoordinator!Spec`: weak fairness of an API thread's own next step
and of time; nothing of the pipeline, the cleaner or shutdown, so calls return even if
nobody notifies them. `ExchangeVenue!VenueSpec`: the clock runs and the matching thread,
which does not block, goes on with its order, auction and checks.
`TradingPipeline!Spec`: each thread goes on taking messages, as its loop does with every
exception caught; nothing is assumed of clients, and `TradesAreBooked` promises nothing
once shutdown has begun. `BookRace!Spec`: a thread goes on with the call it is in; nothing
makes a call begin. `WebSocketManager!Spec`: the event loops run every coroutine that
they know can go on, which a sender to whom a handler of the other loop hands the lock may
not be; nothing is assumed of clients or of the threads that put messages.

*Deadlock* is checked for the venue, whose clock never stops. The other systems may
come to rest: every call has returned, every order is processed, every thread stopped,
every client gone.

## 4. Properties

*Coordinator.* `CapacityRespected`, `DoneHoldsNoSlot` (no path leaks a slot),
`PendingConsistent` (for a tracked request the event is set exactly when a result is
stored, and then its status is terminal),
`CollectFindsEntry` (the unguarded deletions are safe), `VerdictIsFirst`,
`FailsOnlyWhenLate`, `ClearedStaysEmpty`, `EveryCallReturns`,
`ImplementsContract`.

*Book.* `Uncrossed`; `BookConsistent` (the parts `IndexAgrees`, `RestingIsOpen`,
`TotalsAgree` and `RestingCanBeFound`); `TradesAccountForFills` (`FillsAccounted`, and
`TradesAreFair`: both parties accepted the price, and the maker was there first);
`ImplementsPriority`.

*Book on two threads.* `SerialCallsAgree` (only an overlap can damage the book or raise),
`QueuedOnceAndMapped` (an order that may still trade can be looked up), `ConfirmedHasLeft`
(an order whose cancellation is confirmed is in no queue; a match that has picked it before
may still fill it), `CallsEnd` (no loop spins in a damaged book).

*Venue.* `NothingCarriedOver` (`BatchOnlyBeforeAuction`, `ClosedIsClean`),
`AuctionKeepsPriority` (`AuctionPricePriority` when the auction finishes),
`AuctionTradesAll` (`AuctionTradesMaximum`, likewise), `OpenOrdersAreKept` (the book the auction
hands over is uncrossed, and an order with something left is where a cancellation finds it
or in the batch), `BatchIsExecuted`.

*Pipeline.* `PositionsFollowTrades` (at every step of the booking; a team that trades
with itself is off by exactly those trades), `SequentialTeamsWithinLimit`,
`CancelledIsNotPicked` (once its cancellation is confirmed, an order is never in the book again,
and its only trade can be that of the match that had picked it), `ConfirmedIsMatched`,
`TradesAreBooked`.

*Validation.* `RateNeverExceeded` (by the time of the check and by the time of the
count), `RefusedOnlyAtLimit`, `LimitsKeptInTurn` (for teams that wait for their
bookings).

*WebSocket.* `NumbersConsecutive` (a client sees 1, 2, 3, ...), `SendsToRegistered`,
`HandlersGoOn` (no handler waits for the lock, or holds it, for ever, also when the sender waits
for itself or sleeps).

### Where the code and its documentation disagree

Four disagreements have a run that ends in a counterexample; `PROJECT.json` quotes
the line of the documentation that says otherwise.

1. `TradesPublished` (`venue_published`): the opening auction's trades are neither
   published nor booked.
2. `OneConnectionPerTeam` (`ws_one_connection`): the handler of a replaced connection
   unregisters its successor, which stays open; the next connection closes nothing.
3. `BookStaysConsistent` (`book_race_agrees`): a cancellation takes a level out of the
   list after the matching thread has put an order into it.
4. `QueueNotBlocked` (`ws_blocked`): when a send fails, because the client has just gone, the
   sender asks for the lock it holds and waits for itself for ever (`SendFails`); when the lock
   belongs to the HTTP loop it gets an error instead and goes on. The property also fails
   where a handler leaves the lock to a waiting sender whose event loop is not woken
   (`TellsSender`).

The models also show these behaviours, which no run is spent on:

* a woken call may find no result and fail with the error that "shouldn't happen"
  (`coordinator.py:288`), because cleanup or shutdown took the lock between the event
  and the look-up (`Wake`, then `Removed` or `ShutdownClear`, then `Collect`);
* `update_status` with a terminal status sets no event and stores no result, although
  `coordinator.py:447-449` says that terminal statuses trigger the completion event: the
  notification that follows is refused, and the call sleeps until its timeout (`UpdateStatus`,
  `Notifiable`). No thread of the program calls it so at this commit;
* two orders validated before either is booked take a team past its position limit
  (`WithinLimit` reads the booked position), hence the restriction to sequential teams
  in `SequentialTeamsWithinLimit` and `LimitsKeptInTurn`;
* a cancellation overtakes its own order between the validator and the matching thread,
  fails, and the order goes on to rest (`ValidateCancel` before `StartMatch`);
* acknowledgements of new orders and execution reports are never delivered: the data the
  threads queue does not fit the parameters of the methods they are routed to (`AckKeys`
  has a status and no order type, `ReportKeys` has the fields of a trade and no trade), the
  call raises, and the loop goes on; the publisher would report a fill to the incoming
  order's team only;
* cancellation messages are queued as `cancel_ack` and `cancel_reject`, which the router
  does not know (`Route`), and are skipped;
* a result notified while its call times out stays in `_completion_results` for ever
  (`TimeoutRemove` leaves `results` alone, `Cleanup` only visits tracked requests), and
  the notification is accepted although the client is told of a timeout;
* cleanup removes a completed response nobody collected yet when the timeout of its
  request passes, inside the retention window (`ExpiredRequests` has no status guard);
* a market order without a match is reported as "new" and is in no book (`Rests`,
  `Outcome`);
* pre-open orders cannot be cancelled (`CancelOrder` looks in the book only), the
  auction drops a market buy that a limit sell of the same auction could fill
  (`Crossing`), and one auction trades at several prices (`CrossStep`);
* a team that trades with itself is booked on one side only (`CounterpartyPosition`);
  `PositionsFollowTrades` says by how much its position is off, and a team whose orders
  come one at a time, as in `SequentialTeamsWithinLimit`, cannot trade with itself;
* an order whose client was told of a timeout goes on through the pipeline and may trade
  (`TimeOut`, then `ValidateAccept`).

Races on the book (`BookRace`) have these consequences, each of which TLC reaches in the
instance of `book_race` or in one with a second incoming order:

* an order is in both tables and in a level that is no longer in the list: it can neither
  trade nor be cancelled (`Drop` after `AppendOrder`);
* both threads delete one order from the tables, and the `KeyError` of the second leaves
  an empty level in the list: every later match that comes to it raises `IndexError`
  (`Forget` and `Unlist`, then `Pick`);
* a filled order stays at the front of its queue, because the iterator of `remove_order`
  was invalidated (`Search`), and every later match raises `ValueError` (`Fill`);
* levels lose their order, because the place found by `bisect_left` is out of date when the
  level is inserted (`Position`, `InsertLevel`), and totals drift from their queues;
* `_match_order` raises after it has made trades: the result is dropped, and no thread
  publishes or books them;
* the matching thread fills the order that it has picked although its cancellation has been
  confirmed since (`Pick`, then `Finish`, then `Fill`, though `order-types.md:188` says
  "Cancellations immediate"); when the fill is partial nothing raises, and the trade is
  published and booked (`FinishTrade` in `TradingPipeline`);
* an exception in `cancel_all_orders` leaves `check_phase_transitions`, which is called
  outside the `try` of the loop, and the matching thread is dead (`Raise` while `closing`);
* when both threads empty a level, `list.remove` raises `ValueError` after the order is gone,
  and the client is told "not found" (`Drop`); other cancellations that have taken their
  order out are answered with an internal error;
* `cancel_all_orders` misses a level, and its orders stay for the next day (`Collect`).

## 5. Proofs

The theorems hold for every value of the constants that the modules' named assumptions
allow; TLC evaluates the assumptions in every run. They say little: names such as "none"
and `NoOrder` are no orders, prices and quantities are positive (`Order` refuses a quantity
that is not), limits and bounds are natural numbers, calls and instruments are finitely
many, `Rules` is a sequence of constraints of the seven kinds.

Every safety property of a passing run is a theorem. Each proof module defines an
inductive invariant, one lemma per action that the action keeps it, and the theorems
from it. TLC checked each invariant on the instances of section 3 before it was proved.
`NeverRevived` (a terminal status never becomes active again) is proved only: no run checks
it, because no action of the code changes a terminal status: `UpdateStatus` and
`NotifyCompletion` refuse to, and a request that is no longer tracked is never changed.

What the properties lack to be inductive is named in the conjuncts:

| Module | Theorems | What the invariant adds, and why it is needed |
|---|---|---|
| `ResponseCoordinatorProofs` | `TypeCorrect`, `Capacity`, `NoSlotLeak`, `Consistent`, `CollectSafe`, `FirstVerdict`, `LateFailures`, `StaysEmpty`, `Terminated`, `Refinement` | `StoredResults`: a stored verdict is the first one; `NoOrphanWhileWaiting`: a result without an entry belongs to a call that left `event.wait` by its timeout; `LostEntriesAreLate`: an open call without an entry is late already |
| `OrderBookProofs` | `TypeCorrect`, `NeverCrossed`, `BookStaysConsistent`, `EveryFillHasAFairTrade`, `BookImplementsPriority` | `OrdersExist`: resting orders were submitted and the incoming one does not rest, otherwise it could meet itself; `ArrivalOrder`: every queue is in order of arrival, which is what its front needs to have priority |
| `BookRaceProofs` | `TypeCorrect`, `NoOrderIsLost`, `ConfirmedOrdersHaveLeft`, `SerialCallsKeepTheBook` | `Located`: what a thread at each place knows (`Fits`); `Apart`: nobody cancels the order being inserted; `QueuedIsMapped`, `Submitted`, `TablesAgree`: queues, tables and answers agree but for the one order a thread is moving. `Serial`, as long as no calls have overlapped: the book is whole but for what the one running thread is putting in or taking out (`WholeBut`), and what that thread relies on at each place holds (`Relies`) |
| `ExchangeVenueProofs` | `VenueTypeCorrect`, `VenueBookStaysConsistent`, `OpenOrdersStay`, `NothingIsCarriedOver`, `AuctionHasPriority`, `AuctionTradesTheMaximum` | `BookKept`: the book's own invariant, under the auction's fills and the close; `BatchKept`: the auction takes each order of the batch once, and what is left of those it took is in the book; `KnownKept`: what is known and not in the batch is in the book; `Checked`: the phase the venue acts on is at most one behind the clock; `PriorityKept`: each side is taken in order of price, and what was taken is filled while the sides cross; `OwnBook`: the book of an auction holds orders of its batch only; `VolumeKept`: both sides traded the same amount, what traded could have traded with one another, and after the crossing no open orders cross |
| `TradingPipelineProofs` | `TypeCorrect`, `CancelledOrdersAreNotPicked`, `ConfirmedOrdersAreMatched`, `PositionsAreThoseTraded`, `OneAtATimeIsWithinLimit` | `Stages`: where an order may be, and that a queue holds it once; `Trades`: an order trades at most once; `Matching`: what is known of the order being matched, the one picked for it and the trades of calls that raised; `Results`: a result under way is not booked; `Replies` and `InFront`: an accepted order is in front of the sentinel; `InTurn`: the team's one live order leaves it within the limit |
| `OrderValidationProofs` | `TypeCorrect`, `RateIsKept`, `RefusalsAreDue`, `OneAtATimeIsWithinLimits` | `WindowsCount`, `CountIsRead`, `PassedAreCounted`: window, the count that was read and the orders accepted agree, with a second boundary between reading and counting; `InTurn`: within the limits now and when the order is filled |
| `WebSocketManagerProofs` | `TypeCorrect`, `NumbersHaveNoGap`, `SenderUsesTheRegistered` | `LockHeld`: the lock is held by exactly who is in one of its sections; `Registered`, `Sending`: what the sender works with; `Numbered`: the next number is the count of what the open connection received, plus one that is on its way |

Along these lines:

* *The book* (`OrderBook`). Each action keeps each part of `Book` by a lemma of its own;
  `TotalsAgree` follows from facts about one summand more or less. Refinement: the head
  of the best level has priority over every resting order of its side (`HeadHasPriority`),
  and where no level is acceptable no resting order is (`NoLevelNoMatch`), so each step is
  one of `PriorityBook` or a stutter.
* *The races.* Most steps only move a thread. `Moving` and `Losing` say what such a step
  has to show, so the interleavings need no case distinction over pairs of places. A call
  that runs alone is followed from place to place by `Serial`: `WholeBut` names at most one
  filled order, one level and one order for which the lists, the queues and the tables may
  disagree, and each step either moves these names on or settles one of them.
* *The venue.* It uses the lemmas about the book, whose steps are among its own, and adds
  the auction and the close. `NothingIsCarriedOver` and `AuctionTradesTheMaximum`
  assume `Prompt`; the other theorems do not: however late the matching thread looks at the
  phase, no open order is misplaced, and the auction keeps price priority. Without
  `Prompt`, orders of the day before could be in the book, and the hand-over would trade
  with them.
* *The volume of the auction.* After the auction no open orders of the batch cross, so at
  every price one of the two sides has all its eligible orders filled, and no price trades
  more than the auction did (`TradedAtLeast`). Conversely every buy that traded accepts the
  worst sell price that traded, so all that traded is eligible at that price
  (`TradedAtMost`). With both, the amount is the strategy's (`VolumeIsTheStrategys`). That
  no price trades more than the strategy's volume (`NoPriceTradesMore`), and that its price,
  which may lie between those of two orders, trades all of it (`ClearingPriceTradesAll`), are
  lemmas about the operators of `AuctionPricing` for any two finite sets of orders. A market
  order may fill a limit order that the strategy would leave, so with market orders the
  theorem says that the auction trades at least the strategy's volume.
* *Positions.* A position is the sum over all trades made less the sum of what is under
  way. The lemmas about sums take the smallest subset on which a claim fails, since an
  induction theorem with an operator as its parameter cannot be used here. A team in
  `overlapped` has had two live orders at a time; every other team is within the limit.
* *Limits.* `WithinIsConvex`: if an order would be within the limits unfilled and filled,
  it is so at each partial fill between.
* *Numbers.* While a message is sent the lock is held, so no connection can reset the
  number between its increment and the message.

Three things in the models have the form they have for the proofs: sums (the totals of the
levels, positions, the quantities of a set of offers, what a side traded) are written with
`SumFunctionOnSet`, an order leaves its queue by `RemoveFirst`, and
`RefusedOnlyAtLimit` compares a count with every limit of the rules by a set, `Limit`.

Only model-checked is liveness: `EveryCallReturns`, the fairness part of
`ImplementsContract`, `BatchIsExecuted`, `TradesAreBooked`, `HandlersGoOn` and `CallsEnd`. The
prover handles neither fairness nor `ENABLED`.

The disagreements of section 4 are counterexamples, so there is nothing to prove.

## 6. Not modelled, and what is left

Not modelled: HTTP and JSON, logging, metrics, configuration files and factories,
authentication, market data and history queries, signals and events (data classes at
this commit), the unused `TradeProcessingService`, and the fees: the publisher computes
one per fill for the execution report, and nothing stores or charges it.

Partly modelled: of the pipeline, the other constraints (they are in `OrderValidation`) and
exceptions of the threads (those that races on the book cause are there, and in `BookRace`); of the WebSocket manager,
the broadcasts that nothing calls.

What a continuation would begin with: exceptions of the pipeline's threads, with what each
`except` of their loops drops or leaves half done; the broadcasts, once something calls
them; and two orders of one team in validation at once, which today can pass a limit
(section 4), once the code reserves what it has checked.
