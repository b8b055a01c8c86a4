# soii--labs in TLA+

This directory holds a TLA+ description of the concurrent programs of the
repository, the TLC runs that check it on small instances and the TLAPS proofs of
its main properties for every instance. Paths are relative to the repository;
three prefixes are abbreviated:

| here | directory |
|---|---|
| `market/` | `newworld-manugcr/` (Go, Fiber, GORM, Postgres) |
| `refuge/` | `h-p-cpp-hope-programming-cpp-manugcr/` (C++, threads, httplib, RocksDB) |
| `lab1/` | `lab1_-manugcr/` (C, one process with `select()`, two forked producers) |

## 1. The system

The three programs are three stages of one exercise: a shelter (*refuge*) that keeps
a summary of its supplies, counts infection alerts and announces emergencies to the
clients connected to it, and later a *market* that sells what the refuge has.

| component | state | operations | interacts with |
|---|---|---|---|
| market checkout (`offer_repository.go`, `offer_service.go`, `offer_controller.go`) | tables offers, orders, order items | `CreateOrder`, `CreateOffer`, listings | Postgres transactions; the balance |
| market administration (`admin_*.go`) | `marketBalance` in memory behind `mu` | `UpdateMarketBalance`, dashboard, order status | offers, orders |
| market start-up (`cmd/main.go`, `database.go`) | the schema | `ResetDatabase`, `InitDB`, `fetchData`, `saveSuppliesToDB` | `GET /supplies` of the refuge server, once |
| market accounts (`user_*.go`, `jwt.go`) | table users | register, login, `ValidateJWT` | Postgres |
| refuge state store (`lib/libsta/src/supplies.cpp`) | one JSON document under one RocksDB key | `create_state_summary`, `modify_supplies`, `modify_alerts`, `modify_emergencies`, `show_state_summary` | called by every thread of the server, no lock |
| refuge TCP server (`src/server.cpp`) | vector `connected_clients`, one detached thread per client, two FIFOs | accept, `handle_client`, `handle_alerts`, `handle_emergency`, `disconnect_all_clients`, `send_zip_file` | the store, the producers |
| refuge HTTP front end (`http_functions`) | global flag `user` | `/login`, `/modify`, four `GET`s | the store |
| refuge producers (`alerts.cpp`, `emergency.cpp`) | none | write a line to a FIFO after a random sleep | TCP server |
| refuge client (`client.cpp`) | a received zip file | commands, `receive_compressed_file`, `decompress_file` | TCP server |
| canny edge filter (`cannyEdgeFilter.cpp`) | image matrices shared by OpenMP threads | four filter passes, run once before the server's loop | writes the image that is zipped |
| lab1 server (`src/server.c`) | array `connected_clients`, its count, the `fd_set` of the round | the round of `main` | clients, FIFOs, state summary |
| lab1 state summary (`supplies.c`) | a cJSON tree, one thread | as above | lab1 server |
| lab1 producers and client | none | FIFO writes; credentials and commands | lab1 server |

What is hard in them: transactions that read, decide and write without locking what
they read; a whole document rewritten by threads that do not know of each other;
restarts that overwrite what was kept; a process-memory balance next to a database;
descriptors closed by one party and reused for another; a table whose rows move while
it is scanned; loops bounded by the wrong number; one blocking read in an event loop;
byte streams read as if they were messages. `PROJECT.json` lists each hazard at its line
with the properties aimed at it.

What makes each component correct:

* **checkout** – no unit of stock is lost or sold twice; what a client was answered agrees
  with what is stored; a checkout ends.
* **administration** – the balance follows the orders; the dashboard is consistent with itself.
* **store** – an operation changes its field and nothing else; counts are exact; it persists.
* **lab1 server** – the table describes exactly the open connections, roles included; no
  descriptor is leaked or confused; an emergency reaches and disconnects everyone; main
  never blocks.
* **refuge TCP server** – the same for the vector and its threads: every open descriptor has a
  thread that will close it, every served client is listed, a thread serves its own client,
  and an emergency disconnects everyone.
* **image transfer** – the client ends up with the file that was sent, or at least with
  a beginning of it, and stops waiting.
* **edge filter** – what the suppression keeps does not depend on the order of the threads, the
  linking loses no strong edge and invents none, and its recursion stays inside the image.

## 2. Modules

| module | what it is |
|---|---|
| `Market` | checkout, administration and start-up of the market |
| `MCMarket` | carts, stocks and prices for TLC |
| `AtomicMarket` | what the transaction promises: a checkout is one step, or none |
| `Sums` | the sums over items and orders the properties of `Market` speak of |
| `SumLemmas` | lemmas: induction over finite sets, and what adding, removing or renaming a member does to a sum |
| `MarketProofs` | inductive invariants of `Market` (stock, books, dashboard, undisturbed products), refinement of `AtomicMarket` |
| `AtomicStore` | what the interface of the state summary promises: one step per operation |
| `RefugeStore` | the read-modify-writes of the document by the threads of the C++ server |
| `MCRefugeStore` | texts for TLC |
| `RefugeStoreProofs` | inductive invariant of `RefugeStore`, refinement of `AtomicStore` |
| `Hub` | what a server that clients connect to promises: who is let in, with which rights, and until when |
| `LabServer` | the C server: table, descriptors, round of `main`, clients, producers |
| `MCLabServer` | the symmetry of the clients for TLC |
| `LabServerProofs` | inductive invariant of `LabServer`, its consequences, refinement of `Hub` |
| `RefugeServer` | the TCP side of the C++ server: `main`, one thread per client, the vector they share |
| `MCRefugeServer` | a client that may log in and one that is silent, for TLC |
| `RefugeServerProofs` | inductive invariant of `RefugeServer` and its consequences |
| `EdgeFilter` | the suppression and linking passes of the canny filter |
| `EdgeFilterProofs` | inductive invariant of `EdgeFilter` |
| `ImageTransfer` | compression, `send_zip_file`, and the client's loop with `receive_compressed_file` |
| `ImageTransferProofs` | lemmas: each step of the transfer preserves its invariant |
| `ImagePipeline` | `EdgeFilter` and `ImageTransfer` in the order of the server's start-up |
| `MCImagePipeline` | small images and zip files for TLC |
| `ImagePipelineProofs` | the invariant of the composition, and what a client gets |

In every module an action is one step between two points at which another party can
interfere: a database call, a `Get` or a `Put`, a system call that may block. History
variables (`seed`, `sold`, `taken`; `handled`, `counted`, `stale`, `submitted`; `cred`)
only record what properties speak of. Definitions marked
*Mutant* are altered copies of the definition after them; no specification uses them:
they are the errors with which each property is shown to be able to fail.

### Market

`pc[r]` is the place of request `r` in `CreateOrder`:

| `pc` | code | action |
|---|---|---|
| idle | `DB.Begin()` (35) | `Begin` |
| check | first loop (41-66) | `CheckItem`, `RefuseItem`, and after the last item `CreateRow` (75) |
| read | `tx.First` of the second loop (83) | `ReadOffer`; after the last item `ChargeMarket` (95) |
| save | `tx.Save` (88) | `SaveOffer`, which needs the row lock |
| commit | `tx.Commit` (101) | `Commit` |
| done | answered | |

Postgres is external: READ COMMITTED, a row lock per `UPDATE` held to the end of the
transaction, a deadlock broken by failing one waiter, and any call may fail
(`DBError`). An error of `Commit` leaves open whether the transaction was committed:
`result = "unknown"`. `Crash` may come at any time; every start (`Boot`,
`BootFails`) drops the schema and starts the balance at 5000, as `main` does. A cart is a
sequence of product and quantity; the listings, which change nothing, are left out.

`AtomicMarket` is the market without statements, locks and transactions. `Place` puts an
order with all the items of its cart, at the listed prices, and the new stock, in one step;
`Fail` ends any number of requests without an effect. Of what the stock becomes it promises
what the code keeps: products the cart does not name are not touched, of a product only this
cart names exactly the ordered units are deducted, and no unit is ever lost. `Market` maps
`result` to the answer and the stock put on sale (`seed`) to `put`.

### RefugeStore and AtomicStore

Each `modify_*` is two steps, `Get` and `Put`, in the thread that runs it: `mpc`/`mdoc` for
the main thread, `tpc`/`tdoc` for client threads and HTTP workers. The document keeps
the alert counts, the supplies and the last emergency. Values sent by clients are classes
of text, as `std::stoi` tells them apart: a number, not a number, out of range. `stale`
becomes true when a `Put` replaces a document that is not the one its thread had read.
`AtomicStore` is the same document with one step per operation, and promises nothing
once `intact` is lost.

### LabServer

The rounds of `main` in order of `pc`: `select` (watch and wait), `accept`, `auth`,
`scan` (index `i`), `alerts`, `emergency`. `owner` says what each descriptor designates, so
that closing, reuse of the lowest free descriptor and the closing of descriptor 0 are as in
the kernel. `Row(k)` is `connected_clients[k]` also past the end of the array, where the
loops of `main` do go when the table is full: zeros in the Release build the scripts make
(`CMAKE_BUILD_TYPE=Release`), whose linker places the array last among the zeroed data. A
build without optimisation places other globals there; it is not modelled. `Bound` is `max_socket_fd` after its loop, computed
by a bound that moves while the loop runs (`Reached`). A read on a connection takes all
that waits in it. The kernel's part is external: when a descriptor is readable, what
sending to a closed or reset connection does, when `getpeername` fails. Uninitialised
strings (`NoCredentials`, `ReadError`) are a choice between the outcomes they can have.
Numbers are scaled: four descriptors of the process itself and a few rows instead of
seven and 100.

`Hub` is the server without descriptors, rows, rounds and messages: a client that has shown
its credentials is let in once (`Admit`) or refused, is dropped only after it has left
(`Lose`) or with all others (`Evacuate`), and the supplies are changed only by a member with the
rights of root. `LabServer` maps the clients whose descriptor is in a row to `members`, those
in a row of role 1 to `roots`, and `intact` to descriptor 0 being stdin's.

### RefugeServer

`mpc` is where `main` is: in its round of `select()` and the four tests (`ready` holds the
part of `select()`'s answer that is still to be tested), in the loop of `handle_alerts`, or in
that of `disconnect_all_clients`. `tpc[c]` is where the thread of client `c` is:

| `tpc` | code | actions |
|---|---|---|
| start | `handle_client` 291-328 | `NoName` (early return), `Push` |
| loop | `recv` 332 and the commands | `Receive`, `LeaveLoop`, `ExitCommand`, `Command` |
| username, password | `client_login_with_bool_return` | `Receive`, `Username`, `Password`, `PromptFails` |
| supply | `set_supplies` 48-69 | `Receive`, `Supply`, `PromptFails` |
| erasing | 399 | `Erase` |
| closing | 406 | `Close` |

A thread has a number (`client_socket`), not a connection: `owner` says what the number
designates now. An emergency closes the number under the thread, `accept()` may hand it out
again, and the thread then receives from, and in the end closes, another client's
connection. A thread blocked in `recv()` keeps the connection it waits on (`held`), as in the
kernel. The vector is the set of its entries: no code depends on their order, and a number
that is listed twice, as a reused one may be, counts once, since an erase takes out both
entries and closing a closed number changes nothing. Two accesses that overlap are undefined behaviour: from
then on (`torn`) an access may lose entries and the process may fail (`Fault`). A loop of
`main` counts as one access from its first entry to its last. Replies change nothing and are left
out; the process ignores SIGPIPE, which httplib arranges.

### EdgeFilter, ImageTransfer, ImagePipeline

`EdgeFilter` takes what the Gaussian blur and the Sobel operator deliver as its input and
follows `nonMaximumSuppression` (one `Suppress` per pixel in any order: the four
threads; each reads `m_magnitude` and writes `m_cannyEdges`) and
`applyLinkingAndHysteresis`: `Scan` is its second loop, and a member of `calls` is a call of
`checkContours` that has not returned. A pixel is a byte (`Byte`): a magnitude above 255, of
which Sobel's operator delivers many, is converted from `float`, which the standard leaves
undefined and the x86 build does modulo 256.

`ImageTransfer` has the connection as a sequence of bytes (`line`). Every `recv()` returns any
beginning of it that fits the buffer. The bytes of the zip file are its positions, so
`file = Whole` says that the client's file is the server's; of their values only the letters
E, O and F are kept (`zip.look`), because `receive_compressed_file` looks for them. Replies,
alerts and `exit` are other bytes in the same stream, sent between any two bytes of the
file when its `write()` has to wait. The client's round reads once without waiting
(`ShowText`, and `Take` in the others), sends a line the user typed (`Type`), and for `get_image` stays in
`receive_compressed_file` until it meets the marker (`ReceiveMarker`), reaches the end of the
stream (`ReceiveEnd`), fails to write (`FileFails`), or compares fewer than three bytes with
what lies before its buffer (`ReceiveGuess`: undefined, a choice). `clean` is history: since
the image was asked for nothing else has been on the connection.

`ImagePipeline` puts both in the order of `main`: filter, save, compress, and then the loop.

## 3. Runs

| run | instance | shows |
|---|---|---|
| `market_admin` | 2 requests, 2 seeds and a third offer an administrator may add, five carts (empty, a product twice, a quantity of zero, two crossing ones), an offer out of stock, failing calls, crashes, restarts, fairness | the inductive invariants `GoodsInv`, `BooksInv`, `DashInv`, `AloneInv`, and the parts that matter: `SoldIsOrdered`, `BalanceBooked`, `AnsweredOrders`, `DashboardCharged`, `DashboardStock`, `ExactWhenAlone`; `CheckoutsEnd`, `ImplementsAtomicMarket` |
| `market_oversold_race` | one unit, two requests | `NeverOversold` fails |
| `store_safety` | 2 entries, a client thread and an HTTP worker, four kinds of text, two starts, failing calls | `StoreInv`, `ExactUntilStale`, `ImplementsAtomicStore` |
| `store_lost_alert` | one client thread | `AlertsKept` fails |
| `lab_table` | 3 clients, 2 rows, resets, one emergency, no alerts | the table, the descriptors, the roles and the evictions: `TableInv`, `RolesEarned`, `SuppliesByRoot`, `EveryClientWatched`, `ScanNeverBlocks`, `EmergencyEvicts`; `ImplementsHub` |
| `lab_live` | 2 clients, one row, resets, an alert, an emergency, fairness | `EmergencyHandled`, `CommandsAreRead`, and `LabInv`, the inductive invariant, at a full table and with stdin closed |
| `refuge_server` | 2 clients on the two listening sockets, 2 numbers, one emergency, any alerts | `ServerInv`, the inductive invariant, and its parts that matter: `NumbersMatch`, `EntriesHaveThreads`, `NoClientOverlooked`, `RightConnection`, `RolesEarned`; `OnlyNewcomersSurvive` |
| `image_pipeline` | an image of 4 by 4 with magnitudes on every side of the thresholds and above 255, zip files of 3 bytes with a part and with all of the marker, writes of 2 and reads of 4 bytes, two typed lines, one alert or emergency, fairness | `EdgesAreMaxima`, `StaysInside`, `ReceivedInOrder`, `NoByteLost`, `ImageExact`, `EdgesDelivered`, `ReceiptEnds` |
| `image_weak_edges` | the same image with two weak pixels and no strong one | `WeakEdgesConnected` fails |
| `lab_silent`, `lab_reset` | one client | the finding of that name |
| `lab_full` | 3 clients, 2 rows | the finding of that name |

**Bounds and why they are enough.** Two transactions are enough for a lost update and
for a deadlock, two products for opposite orders; a chain of three waits and a stale write
over two others are left to the proofs, which have any number of requests. The store needs one main thread and
two others, a client thread and an HTTP worker, because nothing distinguishes a third; two
starts make one restart. Three clients and two rows let the table fill, refuse, shift a
row, free a descriptor in the middle and hand it to someone new; a client that connects
again is the same as another client. `lab_live` has one row, so that the second client is
refused, stdin is closed, and the next client gets descriptor 0. In the C++ server two clients and two numbers are
enough for an emergency to close a number, for the other client to get it, and for the first
thread to close it again, and for a push, an erase and a loop of `main` to overlap in
pairs; only a client that sends all four words and one that sends none are distinguished.
An image of 4 by 4 has four pixels with neighbours on all sides, which are one another's
neighbours along each of the directions that are used; a file longer than a write and shorter than a read lets both cut it, and the
marker, at every place. Proofs remove the bounds for the properties listed
below.

**Deadlock** is checked in the market (crash and start-up make sure that something can
always happen). It is not in the store, whose starts are bounded, nor in the two servers,
which may exit and may wait for ever for input, nor in the pipeline, whose client ends.

**Fairness.** `market_admin`: weak fairness of each request's own steps and of Postgres'
deadlock detector; nothing is assumed of clients, administrators, crashes or failing calls.
It is what the Go scheduler and Postgres guarantee. `lab_live`: weak fairness of `main`,
and that a client sends its credentials, which `client.c` does as the statement after
`connect`; `lab_silent` drops the second and fails. Strong fairness of `AlertsDone` says that
`main` finds the pipe of the alerts empty at some time: the producer sleeps for seconds
after each alert (`alerts.c:71`), and without it alerts that arrive without pause would keep
`main` in the loop of `handle_alerts` for ever. `image_pipeline`: weak
fairness of the sending thread, and of the client's `recv()` (what was sent arrives, and the
end of a connection is noticed); nothing is assumed of the user, of alerts or of the filter.
`refuge_server` states no liveness: `main` calls `send()` on blocking sockets for every entry, so
one client that does not read may hold it for ever, and the threads wait for their
clients.

## 4. What the violations say

| run | finding |
|---|---|
| `market_oversold_race` | `offer_repository.go:55` checks stock that nothing locks |
| `store_lost_alert` | `supplies.cpp:157` writes back a document read before another change |
| `lab_silent` | `server.c:260` blocks the event loop on a client that says nothing |
| `lab_full` | `server.c:85` closes descriptor 0 when the table is full; a ghost client follows |
| `image_weak_edges` | `cannyEdgeFilter.cpp:275` keeps weak pixels with no strong one near |
| `lab_reset` | `server.c:323` exits when the peer of a departed client has no address |

Each checks a sentence of the repository's documents or comments, quoted in `PROJECT.json`.
Other behaviour of the code is part of the models and has no run of its own, because
no document speaks of it: a cart that names a product twice passes the
check for each item by itself; every start of the refuge creates the document anew
(`server.cpp:135`); alerts written close together are read together and counted once
(`server.c:333`). The image adds these:

* When the zip file cannot be opened `send_zip_file` returns without a word
  (`server.cpp:613`), and the client waits in `recv()` for ever, `exit` of an emergency
  included, which it takes for a part of the file until the connection is closed.
  `ReceiptEnds` therefore asks for a file. Its third alternative is a marker cut in two by
  the reads, which is not recognised (`client.cpp:17`) and goes into the file.
* A file that ended with the connection is unpacked and reported as *Image received*
  (`client.cpp:36`, `143`), however short it is: `ReceivedInOrder` is all it satisfies.
* Alerts and replies during the transfer become bytes of the file; `clean` excludes them
  from `ReceivedInOrder` and `ImageExact`. `NoByteLost` says what is still true with them: the
  bytes of the file are all there and in order, with others between them.
* The upper threshold of the filter, 150, has no effect: `checkContours` marks every weak pixel as
  strong (`image_weak_edges`). The properties of the passing runs, `EdgesAreMaxima` and
  `EdgesDelivered`, leave open which weak pixels are kept.
* A magnitude of 300 becomes the byte 44, below both thresholds (`cannyEdgeFilter.cpp:247`).
* `exit` as the very first message of a client is compared before its terminator is written
  (`server.cpp:337`), so what lies in the uninitialised buffer decides whether it is a command.
* After an emergency `RightConnection` and `RolesEarned` no longer hold: a thread whose number
  was closed may serve the next client as the previous one, login included
  (`server.cpp:423`). Both are stated up to the first emergency (`~cut`).

## 5. Proofs

`tlapm` checks every theorem from the modules' definitions and the assumptions they name.

*Market* (`MarketProofs`). `StockNeverVanishes`: `Spec => []GoodsInv`. The claim is
`GoodsAccounted`: stock plus committed sales is at least what was put on sale. It is not
inductive: `SaveOffer` writes a quantity that was read earlier, and `Commit` installs a
quantity written earlier. The parts of `GoodsInv` carry the claim along that way:
`SeenAccounted` for what a request has read and is about to save, `DirtyAccounted` for the
uncommitted row, `LocksOwned` and `ItemsChecked` (positive quantities only) so that the row
in question exists and only grows more accounted, `DownIsQuiet` for crashes. The inequality
is all that holds: stale reads make it strict. Assumptions: those on the constants, none
on stocks or carts beyond their type. `GoodsStayAccounted` is the corollary.

The other invariants of the market are about sums over the committed orders.

* `BooksStayInOrder`: `Spec => []BooksInv`, from which `OrdersAreDeducted` (`SoldIsOrdered`),
  `BalanceAddsUp` and `AnswersAreTrue` follow. What was deducted is kept by the second loop one item at a
  time (`LoopsOf`), and it is only the deduction of the whole cart because the loop finds a row
  for every item it checked. The balance is the opening balance less the orders, less what
  is charged and not yet committed, less what a failed `Commit` left charged. A request has at
  most one order (`Current`, and order ids that are never given twice), so an order is
  added to a sum that did not have it.
* `DashboardConsistent`: `[]DashInv`. An order the dashboard shows was charged before the
  orders were read, and the balance is read after them; the offers are read before them, so every
  deduction in the stock it shows is of an order it shows.
* `AloneStaysExact`: `[]AloneInv`, and `NoOverlapNoLoss` (`ExactWhenAlone`). For a product that
  only one request names, the stored quantity, the one in the locked row and the one that was read
  differ by exactly what the request has deducted so far. Nothing else can hold the row's lock
  (`LocksAsked`), and what the first loop found in stock is in stock until it is saved
  (`InStockAlone`).

The sums are folds over finite sets. The library's induction over finite sets takes an operator and
cannot be used; `FiniteSetInduction` states it with a *set* of subsets, and is proved from a
subset of least cardinality that the set does not contain. From it come `SumRemove`
(a sum is a member's part plus the rest, whichever member the fold takes) and
`SumImage` (renaming the members, as an `UPDATE` of the status of an order does).

`CheckoutIsAtomic`: `Spec => ImplementsAtomicMarket`. Of the steps of a transaction only
`Commit` (and a `Commit` whose answer is lost) changes what others see, and it maps to
`Place`: the items are those of the cart, all listed and positive (`ItemsChecked`), the id is new
(`BooksInv`), the total is that of the listed prices, the stock of what the cart does not name
has no lock of this request (`LocksAsked`), of what only it names is exact (`AloneInv`), and
of the rest is accounted for (`GoodsInv` and `SoldIsOrdered`). All other steps are `Fail`,
`Ask`, an administrator's or a start, or stutter; a crash is a `Fail` of all requests at once.

*RefugeStore* (`RefugeStoreProofs`). `StoreIsSound`: `Spec => []StoreInv`, where the
documents *in flight* are part of the invariant, since any of them may become the stored
one. `CountsAreExact` needs in addition that a thread whose document differs from the
stored one makes its own put stale. `StoreImplementsAtomic`: `Spec => Atomic!Spec`; each
action is shown to be an operation, a `Clobber` or a stutter.

*LabServer* (`LabServerProofs`). `LabServerIsSound`: `Spec => []LabInv`, for any clients, any
size of the table and any number of descriptors above it. Next to the properties, `LabInv`
says what they rest on: a connection is queued or has one descriptor (`Queued`, `Apart`),
only its credentials wait in it until the server answers (`Introduced`), the process's own
descriptors are never closed (`Standing`), rows past the end hold no socket (`Packed`),
`client_socket` is no row's while a connection is accepted (`Seated`), and `read_fds` tells
the truth about the rows that are still to be scanned (`Fresh`). `Seated` needs an argument
about numbers: at a full table the loop's bound lies past the array, because as many
distinct descriptors above the process's own reach that far (`HighDescriptor`, a
pigeonhole; `RowsReached`, `FullBound`). The same argument gives `NoClientIsOverlooked`. What is
said of the table, the roles and the scan holds *until stdin is closed* (`Intact`): `lab_full`
shows what happens after. So does `CommandsAreRead`: a client with descriptor 0 is served and
never read. `EmergencyReachesAll` is the action property. `LabServerIsTyped`, `TableDescribesConnections`,
`RolesAreEarned` and `SuppliesAreRoots` are consequences of `LabInv`.
`LabServerIsAHub`: `Spec => ImplementsHub`. A step that leaves the table alone leaves the members
alone (`MembersStay`: no descriptor passes from one client to another in one step,
`OwnerStays`, and a row's descriptor is open before and after). Of the others, the end of
`auth_client` is `Admit` because the guest is in no row (`GuestIsNew`), a removed row is `Lose`
because the other rows are all still there, in other places (`OtherRows`), and the loop of
`disconnect_all_clients` is `Evacuate` because the rows are the audience of the message.

*RefugeServer* (`RefugeServerProofs`). `ServerIsSound`: `Spec => []ServerInv`, for any clients,
numbers and emergencies. `NumbersMatch` holds even after races and emergencies: `owner` of a
number is a client whose live thread has that number, since only `accept()` sets it and only
to a free number. `NoClientOverlooked` needs the clause `BeingClosed`: after an emergency
two threads may have the same number, the first one erases the entry of both, and is then
about to close the number. `PassedAreClosed` carries what the loop of
`disconnect_all_clients` has done to its end, from which, with `NoClientOverlooked`,
`EmergencyDisconnects` follows. What is said of the vector holds until two accesses overlap
(`torn`): nothing can be said of a program after a data race.

*EdgeFilter* (`EdgeFilterProofs`). `EdgesComeFromMaxima` (`EdgesAreMaxima`) and
`RecursionStaysInside`, for images of any size. `Thinned` says that a handled pixel has its final value, whatever the order of the
threads. `Linked` says that what the scan has passed and no call works on is strong or
cleared. From it follows that the neighbour a call goes to, above and to the left, is settled, so the
recursion ends there; the border has no weak pixel, so the neighbour exists.

*ImageTransfer*, *ImagePipeline* (`ImageTransferProofs`, `ImagePipelineProofs`). `InTransit` is the
strengthening: what is on the way continues what has arrived, byte by byte, and the marker
comes last. Each step of the transfer preserves `TransferInv` (lemmas); `PipelineIsSound`
adds the filter and that nothing of the image changes once it was saved. `FileIsInOrder`,
`FileIsExact` and `EdgesAreDelivered` are its consequences. `FileKeepsItsBytes` (`NoByteLost`) is
about files that are not clean, and rests on `MixedInv` next to them: what has arrived and what
is on the way behind it are in order together (`Underway`), and end with the last byte the
thread has sent (`UpToSent`), so the next one continues them, whatever texts lie between. The
client only moves the border between the two (`RestMixes`, `FileMixes`).

Model-checked only: liveness (`CheckoutsEnd`, `EmergencyHandled`, `CommandsAreRead`,
`ReceiptEnds`), which is out of the prover's reach under fairness. Every other
property of a passing run is a theorem; what the runs add is that the states it speaks of are
reached, and that it fails when the code is changed (`mutants` in `PROJECT.json`).

## 6. Not modelled, and why

* Market accounts and tokens: one row inserted or looked up per request, no state shared
  between requests beyond a unique index.
* Generated API documentation, HTML pages, build and coverage scripts, tests.
* The Gaussian blur and the Sobel operator: sequential loops over floating-point numbers. Their
  results are inputs of `EdgeFilter`, fractions left out. The stand-alone filter program and its
  image wrapper.
* What zlib does: an unpacked file is the image if every byte of the zip file is there.
* Refuge: a number that is reused while `send_zip_file` writes to it (`RefugeServer` has the
  reuse, `ImageTransfer` the file, of one client); an `exit` that two reads cut; the value of the
  client's `errno`: a round that reads nothing from a closed connection, or after a file was
  received, may end the client or go on, and does end it when `open()` has just failed
  (`AskInVain`); log files; the pipe of the alerts and whose entry an alert is for; the HTTP workers' `GET`s.
* Overflow of Go and C integers: stocks and counts would have to come near 2^31 or 2^63.
* lab1: the length of messages (a full buffer is terminated one byte too far,
  `server.c:266`), the wording of log lines, shared memory, which is mapped and never used.
* The cJSON document of lab1 beyond the author of the last change of the supplies: one thread
  writes it, and the threaded version of it is `RefugeStore`.

## 7. Plan

Done, in the order of their importance: the market with its atomic specification, the state
store, the C server as a hub; then the
threads and descriptors of the C++ server, the image transfer, and the linking of the edge
filter composed with it.

Left, in this order:

1. `Hub` for `RefugeServer`, as far as no accesses overlap: there a client joins before it logs
   in, and an emergency misses those who are not listed yet, so `Hub` has to be weakened first.
2. `RefugeServer` with the document of `RefugeStore` and the file of `ImageTransfer` in one
   composition, for a file that goes to the next owner of a number.
3. The blur and the Sobel operator over integers scaled from their kernels.
