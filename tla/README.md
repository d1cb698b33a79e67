# Universenfants: a verification project in TLA+

Universenfants is a toy shop: a NestJS API on PostgreSQL (`src/apps/api`), with
Redis and Meilisearch beside it, a Next.js shop (`src/apps/web`), a Next.js
back-office (`src/apps/admin`) and a package of shared enums and schemas
(`src/packages/shared`). Everything that can go wrong in a way a unit test would
hardly reach happens in two places. In the API, HTTP requests run concurrently
against one database at isolation level READ COMMITTED, take row locks
(`SELECT ... FOR UPDATE`) and advisory locks, rely on unique constraints, and
write in systems no transaction covers (the search engine, the object storage).
In the browsers, tabs share one storage, components render many times, answers
overtake each other or never come. The models are about both.

Line numbers are those of `src/apps/api/src` unless a path says otherwise;
`PROJECT.json` maps every definition to its lines.

## 1. Inventory

| Component | State | Operations | What makes it hard | What makes it correct |
|---|---|---|---|---|
| Checkout (`orders/orders.service.ts` 48-256) | Order, OrderLine, the counter `order_seq_<year>` | `checkout` | reads cart, coupon and points without a lock, then locks cart, products, coupon, counter and loyalty account one after the other; deadlocks, timeouts | no oversell, coupon limits, no negative balance, one order per activation of a cart, an order all or nothing |
| Order desk (same file, 358-397, 488-580, 683-702) | Order.status, history, payments | `updateStatus`, `cancelByCustomer`, `recordPayment` | clerks and the customer act on one order at once; two orders share products | status flow, stock released or deducted once, points credited once, payments add up |
| Stock (`catalog/products/products.service.ts` 645-766) | stock, reservedStock, StockMovement | `reserveStock`, `releaseReservation`, `deductOnDelivery`, `adjustStock`, forms, import | read-compute-write under a lock here, blind writes there | movements explain the stock; the stock covers the reservations |
| Cart (`cart/cart.service.ts`) | Cart, CartLine, share token | `resolveCart`, `addLine`, `updateLine`, `removeLine`, `applyCoupon`, `share`, `joinShared` | first visits in parallel, double clicks, another tab, a guest, the reopening of an ordered cart | one line per product, no acknowledged piece lost |
| Prices and amounts (`catalog/pricing`, `marketing/coupons`, `orders/order-pricing.util.ts`) | none | pure functions | rounding, ties, several offers | the best offer wins, offers never add up, points pay for products only |
| Offers (`marketing/coupons`, `marketing/promotions`) | Coupon, Promotion | create, edit, expire | an offer changes while an order uses it | limits hold when the order is written |
| Customer identity (`orders.service.ts` 258-314, `auth/customer-auth.service.ts`) | Customer, LoyaltyAccount, Wishlist | `resolveCustomer`, `register`, `confirmEmailChange` | several statements without a transaction, unique constraints that fail in the middle | one person has one record (the customer of the cart, else the email), each has an account and a wishlist |
| Sessions (`auth/*-auth.service.ts`, `web/src/lib/cart-client.ts`, `admin/src/lib/api-client.ts`) | RefreshToken; tokens in the browser | login, `refresh`, logout, password change, deactivation and reactivation, clean-up | single-use tokens, replays, lost answers, several tabs on one storage | one live token per login, who is logged out stays so, a token that a browser keeps works |
| Staff (`staff-users`, `auth/guards`) | StaffUser, Role, RolePermission | create, update, deactivate; create, save and remove a role | counts read before unconditional writes, delete-and-insert | an active administrator remains, a role is its last save |
| Catalogue (`catalog/products`) | Product | create, update, archive, Excel import, lists with filters, sorts and pages | two services decide what a list holds and in which order | every match is on one page, once |
| Search (`search/search.service.ts`, `products.service.ts` 616-643) | the Meilisearch index | index, remove, reindex | unordered writes after each commit, failures swallowed, an engine that is away | the index catches up with the catalogue |
| Pictures (`storage/image.service.ts`, the images of `products.service.ts`, `hero-banners`) | ProductImage, HeroBanner; files | upload, remove, reorder, replace | a file and a row written in two systems | no row without its file, no file without a reason |
| Favourites (`wishlist`, `web/src/hooks/use-wishlist.ts`) | WishlistLine; a list in `localStorage` | toggle, merge at login, share | many hearts in many tabs render the login at once | nothing marked is lost, nothing is posted twice |
| Birthday lists (`birthday-list`) | BirthdayListItem | add, remove, reserve | guests act on pages of any age | a gift is promised to one guest |
| Routes and guards (`*.controller.ts`, `auth/guards`, `admin/src/components/admin-shell.tsx`) | the permissions of a session and of a role | 24 controllers; the menu, the shell, the pages | the browser goes by the rights of the last sign-in, the guards by those of now | no screen makes a call that is bound to be refused |
| Screens (`web/src`, `admin/src`) | what a component shows, what it has sent | load, ask, post, leave | answers overtake each other, double clicks, a handler that does not give its button back | a screen at rest shows the truth, a form is carried out once |
| Order tracking (`orders/order-tracking.service.ts`) | OrderTrackingOtp | request and verify a code | counters read before writes, windows of time | a code is used once |
| Staff lockout and throttling | counters in Redis | count, lock, expire | windows of time | - |
| Content, settings, audit, analytics, landing pages, reviews, brands, categories | single rows | forms, reports | nothing between actors, except the quick order (see Order desk) and their screens | - |
| Email, WhatsApp, Redis, health | outside | best effort | failures | the shop's state does not depend on them |

How they interact: every request on a cart goes through `resolveCart`; a
checkout reads the cart through `getFullCart` (which prices it), resolves its
customer, computes its amounts and then writes orders, stock, coupon, points,
customer and cart in one transaction; the desk later moves the order, and its
transitions change stock and points. Back-office forms write products directly;
each such write is followed by a call to the search engine (an import by one
reindexing at its end), whose failure is only logged. The two sites call all of this through one
client each, which adds the access token and refreshes it when it is refused.
Emails are sent after the commits and never awaited.

## 2. Modules

| Module | What it is |
|---|---|
| `Pricing` | The amounts as pure operators: `resolveEffectivePrice`, `calculateCouponDiscount`, `calculateLoyaltyRedemption`, `calculateVat`, `checkoutAmounts`. Amounts are in cents, rates in tenths of a percent. |
| `ShopData` | The data `Checkout` and `OrderBook` share: carts, products, customers, orders as records. |
| `OrderBook` | **Abstract.** What the shop promises: placing, delivering, cancelling and reopening are atomic and guarded. |
| `Checkout` | **Detailed.** Requests on carts, one action per statement and row lock. Implements `OrderBook`. |
| `Tally` | Sums of natural numbers without recursion: the size of a set of pieces. The ledger equations of `Checkout` and `OrderDesk` use them. |
| `DeskData`, `OrderFlow` | The data and the **abstract** flow of orders: one atomic step per transition. |
| `OrderDesk` | **Detailed.** Clerks and customers moving orders, recording payments, adjusting stock, saving forms. Implements `OrderFlow`. |
| `CartLines` | One cart from inside: first visit, adds, changes, removals, share link. |
| `Customers` | Guest checkouts, registrations and changes of address on the same records. |
| `Sessions` | The refresh tokens of one account in the API, in the tabs and in their storage. |
| `Favourites` | The hearts of a visitor, the guest's list, the merge at login. |
| `GiftList` | The birthday list of a child, its owner and its guests. |
| `StaffTeam` | Accounts and roles of the back-office, statement by statement. |
| `Catalogue` | Products and the documents of the search engine that follow them. |
| `Pictures` | Rows and files of product pictures and banners. |
| `Quotes` | One question asked of `Pricing`: what a price or a checkout may be given, and what the answer must be. |
| `Listing` | A visitor or a clerk leafs through a list of products. |
| `Routes` | What the guards of every route ask for. |
| `ScreenParts`, `ShopScreens`, `AdminScreens` | The components of the two sites as data: what each loads, keeps, posts, disables and frees. |
| `Screens` | One such component at work: questions, loads, clicks, answers. |
| `Access` | The shell, the menu and the pages against the guards. Uses `Routes` and the screens. |
| `People` | The six modules on what visitors, customers and the team keep (cart, identity, sessions, favourites, birthday lists, team) as one specification. |
| `BackOffice` | The same for what the team edits and what is computed from it: `Catalogue`, `Pictures`, `Quotes`. |
| `Sites` | The same for the two sites: `Screens`, `Access`, `Listing`. |
| `MC*` | Small instances of these for TLC. |
| `CheckoutProofs`, `OrderDeskProofs` | The theorems about these two modules. |
| `TallyProofs` | The lemmas on sums they share. |
| `SessionsProofs`, `StaffTeamProofs` | The inductive invariants and theorems of these modules. |
| `PeopleProofs` | The same for carts, customers, favourites and birthday lists, and the theorems of `People`. |
| `BackOfficeProofs`, `SitesProofs` | The inductive invariants of the parts of these modules, and their theorems. |

### Checkout

A request is `idle`, then runs through labels that name its next statement:
`wipe`, `reopen` (`resolveCart` 55-61), `add` (`addLine`), `read`, `offers`
(what `checkout` reads before its transaction, 51-126, kept in `snap`), then the
transaction: `lockCart` (142), `lockStock` (`reserveStock`, once per line in any
order), `lockCoupon` (155-167), `counter` and `number` (`nextOrderNumber`,
325-340), `lockPoints` (211-230), `commit`. `held` is the set of rows its
transaction has locked. Under READ COMMITTED nobody sees what a transaction
writes before it commits, and it holds a lock on every row it writes, so all its
writes are in `Commit`; a transaction that stops writes nothing. `Abort` stands
for timeouts, lost connections and crashes at any point, `DeadlockAbort` for
PostgreSQL's detector, which aborts a member of a cycle of waiting
transactions. The coupon may expire at any moment. Deliveries and cancellations
are atomic here.

What is abstracted: prices are a constant `Subtotal` of the lines, in whole
dirhams; VAT, email and shipping do not appear; the customer of a cart is known
(`resolveCustomer` is module `Customers`); a coupon has one flag `valid` for
status and dates and a smallest amount (which every cart of the run `campaign` that
carries it reaches); `fill` (a history variable) counts the reopenings of a cart.
The cart and its lines are read in one step. Locks that cannot close a
cycle (the key-share locks of foreign keys, the customer row locked last) are
left out. `adjustStock` and the forms are not in this module: its no-oversell
theorem is about checkouts, deliveries and cancellations; what an adjustment
may do to a reservation is the run `negative` of `OrderDesk`.

### OrderDesk

Clerks take tasks, again and again: a transition, a cancellation by the
customer, a payment, an adjustment, a form. Each locks what the code locks, in
the code's order (order, then products in any order, then loyalty account), and
`todo`, `aim`, `seen`, `read` are the local variables of the handler. Orders are
placed by one atomic `PlaceOrder` (a checkout or a landing page's quick order).
A form reads a stock without a lock and writes it back later, as
`updateVariant` and `update` do. The Excel import writes a stock of its own in the
same way, but without the validation of the forms (`Number(row.Stock)`, negative or
not, `products.service.ts` 433): that is not in this module, where a stock a form
writes is a natural number.

### CartLines and Customers

In `CartLines`, `advisory` is the advisory lock of `addLine`, `owed` what the
requests were told, `covered` the products whose quantity was typed in between
the two statements of an add, where `updateLine`, which takes no lock, is
covered by it: a limit of the code that `AddsAddUp` names. `Customers` is a
table with two unique columns; a create that meets one of them goes where the
`catch` goes, the email's index being the first to refuse (it is the older of
the two). A checkout on a cart that has a customer (`Bound`, the
`existingCustomerId` of `resolveCustomer`) is that customer's, whatever email was
typed (`FindBound`). So whom a request is from (`PersonOf`) is the customer of its
cart, else whoever the email names, else nobody known; `OneRecordPerPerson` says
that two requests are given one record exactly when they are from one person,
though each looks up, inserts, meets a unique index and retries on its own, and
the guests share a phone number. A customer who moves to another address meanwhile
leaves the old one to others, who may then be a person of their own (`Moved`).
Profile changes and password resets are not in it.

### Sessions

`rows` is the table of refresh tokens, a token being named after the call that
issued it and remembering the login it comes from. `refresh` is two or three
statements (`Consume`, then `IssueTokens`, or `Purge` when the token had been
consumed before), which the API works off whether or not the tab still waits.
A tab sends one refresh at a time (`refreshInFlight` is per tab), gives up after
ten seconds (`GiveUp`), stores what it is granted and erases the storage when
it is refused; tabs of a browser share `store`. Customers and staff have twin
implementations; `kind` tells them apart where they differ. A staff account is
deactivated and made active again (`SetActive`), which leaves its rows as they are.

Four variables are history. `late` and `closed` are the exceptions of
`StoredTokenWorks`. `OutForGood` says of which logouts and closings one may be sure,
and the code is not sure of all: `logout` revokes the token it is given and
`updateMany` the rows there are, so a refresh that has consumed its token and not
yet issued the next one escapes both, and issues a token that works. `parted` are
the logouts sent while no tab of the browser was refreshing and none had given up
on an answer; `swept` the logins of which no refresh was in that state when all
sessions were closed. Their logins have no live token ever after, whatever is
retried or comes late, and though the account is made active again: a session
that was only cut off by a deactivation is in neither, and does come back.

### Favourites and GiftList

A heart is an instance of `useWishlist` and renders its effects when it likes.
The first to see the login takes the guest's list out of `localStorage` (`flag`
is `guestMergeInFlight`), and posts it line by line; a tab may be closed in
between, a call may fail, and hearts show lists of any age. A click on a heart of an account is one step of
which the answer may be lost; that the answer of an older click covers that of a
newer one is left out (`use-wishlist.ts` 98), as it changes what a heart shows and not
what is saved. In `GiftList` the
reservation is the one conditional update of `reserveItem`; everything else is
what pages of any age make people click.

### StaffTeam, Catalogue, Pictures

Each request is a few statements with a label each. `StaffTeam.Admit` is
`PermissionsGuard`, which reads role and account at the start of a request;
`ReadMember`, `CountAdmins` and `WriteMember` are separate, `WipeCodes` and
`InsertCodes` one transaction that sees what others committed. A role is its
row: one that is created is a new one, and its code (`NameOf`) is unique. The
history variable `raced` says that an administrator was written off who was none
when the request read him, so that nobody was counted, or while another request
went by a count that included him. In `Catalogue` the call to the
engine is a step of its own (`Sync`, then `IndexProduct` or `RemoveProduct`),
which may be refused; `available` is `SearchService.available`, which is set when
the API starts; `Restart` ends all requests. `dirty` says of which products the
document is allowed to differ, and a reindexing takes them out again. In
`Pictures`, `files` and `order` (the rows) change in different steps, and an
upload that fails goes through `Undo`, which removes the full picture only, as
the code does.

### Listing

A page is a request that computes the filter again; `engine` says whether
Meilisearch answers the words; ranked lists (best sellers, ratings) are cut in memory,
the others by the database, which is free in what the ORDER BY does not say.
`Before` is the order of a list; rows it does not tell apart come anew in every
request (`Tied` when there are some). The category and what is below it are
collected level by level, as the loop of `products.service.ts` 244 does; that
loop ends only when a level is empty (`Ends`), so no page of a category that is
its own ancestor ever comes. The engine and the sales rank answer with
`MaxRanked` products at most (200 in the code). What the visitor meant
(`Wanted`, `Below`) is stated without any of this. In particular "in stock" means
that something can be ordered (`available`: pieces of the best variant, or of a
product without variants, less the reserved ones), as the comments of
`products.service.ts` 196-202 and 311-318 have it, while the filter of line 103 asks
the field `stock`, which nobody keeps for a product with variants. Where the two
differ (`StaleStock`) `EveryMatchOnce` leaves open whether a list of those in stock
has the product; every other product is in it exactly when it fits.

### Screens, Access and Routes

Some sixty components of the two sites differ in little: what they wait for,
which routes they read, whether an older answer is dropped, which buttons they
have, what disables and frees a button, and what they do with an answer. These
are the fields of a part (`ScreenParts`), read off each component one by one
(`ShopScreens`, `AdminScreens`); `Screens` is what any of them does with the
API, and the API is a set of accepted changes. The routes a part names are looked
up in `Routes`, where `Access` asks whether the guards let the call through: the
shell preloads, the menu hides, the page mounts, by the rights in the session;
the guards go by the rights the role has now.

Abstracted: every write has a flag of its own (where the code shares one
between several, fewer of them overlap); pages are opened one at a time; a
SUPER_ADMIN has all codes; the extra and denied permissions of one account are
left out, as no route writes them. Layout, texts and local form state are not
in the parts.

### The composed instances

`People` puts six modules into one specification, for every value of their
constants, and `MCPeople` gives these values for TLC; `BackOffice` and `Sites` do
the same with three modules each, and have `MCBackOffice` and `MCScreens`.
The parts have no state in common, so they are not interleaved: a behaviour picks
a part at the start and is a behaviour of that module; the variables of the
others are `Off`. A property of the run is the property of its part, under the
same name. Nothing is lost by this, and nothing is claimed about parts acting on
each other: where they do share rows (a checkout and the desk on one product),
one module holds both.

## 3. Runs

| Run | Module | Bounds | States | Shows |
|---|---|---|---|---|
| `rivals` | MCCheckout | 2 carts of 1 customer, 3 checkouts, 2 of them a double click, another tab's add, the last piece of one product, any order of locks | 42 498 | types, one order per activation, no oversell, exact reservations, the refinement of `OrderBook`, every checkout answered |
| `campaign` | MCCheckout | 4 carts, 3 customers, 4 checkouts, a coupon with two uses, 3 points | 68 268 | coupon limits, balances |
| `flow` | MCOrderDesk | 2 orders, 2 products, 2 clerks, all transitions | 38 668 | history, reservations, points, every task ends |
| `shelf` | MCOrderDesk | 1 order, 2 products, 2 clerks, payments, adjustments, forms | 64 048 | payments, movements, the refinement of `OrderFlow` |
| `people` | MCPeople | see below | 1 063 778 | what visitors, customers and the team keep: cart, identity, sessions, favourites, gifts, accounts and roles |
| `backoffice` | MCBackOffice | see below | 205 039 | what the team edits: catalogue and index, pictures, prices |
| `screens` | MCScreens | see below | 512 581 | every component of the two sites, who may load what, every listing |
| `twice` | MCCheckout | 1 cart, a double click, a reload, another tab's add | violation | two orders from one filling of a cart |
| `number` | MCCheckout | 2 carts, 2 checkouts, no order yet | violation | no row to lock, one number twice |
| `negative` | MCOrderDesk | 2 orders, 1 product, 1 clerk | violation | a negative stock |
| `refund` | MCOrderDesk | 2 orders, 1 clerk | violation | cancelling keeps the points |
| `lastAdmin` | MCPeople | as `people` | violation | two administrators deactivate each other |

The parts of the composed runs (the first six are those of `people`):

| Part | Bounds |
|---|---|
| cart | 1 product, 6 requests: a double click on the first visit, a removal, a share, a guest's add through the link, a typed quantity |
| identity | 6 requests (4 guests, one of them on the cart of a customer, a registration, a change of address), 2 emails, 2 phone numbers, 1 customer to begin with |
| sessions | 2 tabs of 1 browser, 3 calls, 1 expiry; logins, refreshes, logouts, closings, deactivations and reactivations in any order |
| favourites | 3 hearts in 2 tabs, 2 products, 2 clicks, 1 login |
| birthday | 2 guests, 2 gifts, 1 lost answer |
| team | 1 administrator, a clerk who may manage the team, a newcomer; 9 requests: the clerk's promotion, two deactivations, two saves of a role, a temporary role, its member, its removal, another role of the same code |
| goods | 2 products, 4 requests in 2 mixes (update, archive, create, import, reindex), 1 refused call, 1 restart, an engine that is there or not |
| image | 7 requests on a product's pictures and a banner, 1 failed call |
| amount | 25 920 inputs of the price engine and of the amounts, each an initial state |
| screen | every component, 1 further question, 2 clicks, 1 call without an answer |
| door | every role of the start, every page, 1 change of rights |
| list | 3 catalogues of 3 products, two of which have a stale stock, in 3 levels of categories, a category that is its own parent, 2 ranked products at most, pages of 1 product, all combinations of the filters and sorts listed in `MCScreens` |

Why the bounds are enough. Every hazard here is a conflict between two or
three actors on one or two rows: two clicks and the reload that reopens the cart
between them; two transactions and two rows for a deadlock; a third customer for
a coupon with two uses; a replayed token needs its first use, its second and one
more call; two hearts of one tab and one of another are all the ways hearts can
share a flag or a storage; an answer is overtaken by one other answer, a click
doubled by one other click. The runs have these and, where it is affordable, one
actor more. `MaxQty` bounds the quantity of a line, `MaxMoves` how often clerks
adjust a stock (the status flow and the totals bound the other tasks),
`MaxCalls`, `MaxExpired`, `MaxToggles`, `MaxLogins`, `MaxItems`, `MaxLost`,
`MaxFailures`, `MaxLosses`, `MaxRestarts`, `MaxAsks`, `MaxClicks` and `MaxChanges` say what
their names say; `MaxRanked` is a limit of the code itself (200), small here so that
lists exceed it; every request with a name is sent once (a retry is another
request). No symmetry is used: the instances are small, and liveness is checked
in some. `screens` is checked without deadlock detection, because a page that has
been left, a session nobody uses, a list seen to its end and the list of a
category without end rest for good; in the other runs a state
without a step would be an error, and the end of all requests is an explicit
stutter.

Every property of a passing run has a mutant in `PROJECT.json`: a plausible bug
(a lock not taken, a re-check dropped, a flag not set, a rounding changed) with
which the run fails.

### What the violations say

- `twice` (`cart.service.ts` 55): the reopening of an ordered cart is decided on
  a status read earlier and is not tied to what a checkout read. A second click
  that has read the lines, then waits while the first order commits and another
  request reopens the cart, finds it ACTIVE and orders the same lines again.
  OPERATIONS.md 89 says a double click never makes two orders of one cart. What
  does hold, and is proved, is `OneOrderPerActivation`.
- `number` (`orders.service.ts` 330): the counter is locked only from the second
  order of the year on. The unique index turns the race into an error for one of
  the two customers.
- `negative` (`products.service.ts` 658): an adjustment is compared with zero,
  not with what is reserved; deliveries do not check at all.
- `refund` (`orders.service.ts` 514): no path gives back redeemed points.
- `lastAdmin` (`staff-users.service.ts` 56): the active administrators are
  counted, then one is written off without a condition. Two who deactivate each
  other are both counted and both written off, though the message of line 58
  says that the last one cannot be. What holds is `AdminsGoOneByOne`.

### Met while modelling, without a run of their own

They are in the model, so the properties name them as exceptions, or they are
listed as hazards without a property:

- two concurrent `share` calls, of a cart or of a wishlist, replace each other's
  link (`cart.service.ts` 213, `wishlist.service.ts` 75);
- two guests with one email and a taken phone number, of whom one gets an error
  (`orders.service.ts` 306); two registrations of one record that are both
  accepted (`customer-auth.service.ts` 57);
- a percentage coupon on a subtotal that is not in whole dirhams may round above
  it, by half a dirham at most, and a negative total is then clamped at zero
  (`Excess` in `Quotes`), though the comment of `coupon-discount.util.ts` says
  "Jamais négative, jamais > subtotal"; instalments are added as floats, and 0.1 + 0.2
  is more than 0.3 (`orders.service.ts` 692);
- two tabs that refresh at once: the refusal of one erases the tokens the other
  was granted, and the browser is logged out, which `StoredTokenWorks` does not
  exclude;
- a refresh in flight at a logout stores tokens again (`cart-client.ts` 48, 68), and
  they work: the API revokes the token that was consumed already. The same holds
  of a refresh that has consumed its token when a replay or a new password closes
  all sessions (`customer-auth.service.ts` 136, 147). `OutForGood` excepts both
  (`parted`, `swept`);
- a staff account that is made active again (`staff-users.service.ts` 69) has its old
  sessions back: nothing revokes them at the deactivation;
- whoever checks out a cart that has a customer orders as that customer, whatever
  email he types (`orders.service.ts` 262): the family on a shared cart, or the next
  visitor of a browser whose owner has logged out. The comment of line 266 speaks of
  the exact email as the only thing that may attach an order (`FindBound`);
- two saves of one role leave the codes of both, or one fails; a role change may
  take the last administrator his role, which `update` checks for deactivations
  only; and a clerk who is promoted between the two statements of his own
  deactivation is never counted (`Demoted` and `raced` in `StaffTeam`);
- a reindexing (the import's too) only adds, and a refused call is only logged
  (`dirty` in `Catalogue`);
- the filter of what is in stock asks `Product.stock` (`products.service.ts` 103), though
  the comments of lines 196 and 311 say that this field is stale for products with
  variants and counts reserved pieces: sold-out products are listed, available ones
  missed (`StaleStock` in `Listing`);
- a form or an import that was opened before a sale undoes it (`products.service.ts`
  462, 927), and the import takes negative numbers;
- the picture of a replaced or removed banner is never deleted, and a failed
  upload leaves its thumbnail (`OrphansExplained`);
- three pages load more than their menu entry asks for: the dashboard (orders and
  products), promotions (categories and brands), landing pages (products), though
  the comment of `admin-shell.tsx` 37-42 says the menu reflects exactly the
  guards (`Overreaching` in `Access`);
- with the engine there, the words of a search are lost in the list of the best
  sellers: line 156 of `products.service.ts` overwrites the ids of line 119; and
  what the engine places after its 200 first hits is in no list (`LosesWords` in
  `Listing`); rows that an ORDER BY does not tell apart may show on two pages or
  on none (`Tied`);
- `categories.service.ts` 60 accepts any parent, also a category below the one
  that is saved; the loop of `products.service.ts` 244 then never ends (`Ends`);
- nothing refuses a range of ages that ends before it begins, and what matches it
  is no longer an overlap (`Reversed`);
- components that show whatever answer comes (`keeps = "any"`) may end on an
  older one (`stale` and `Ordered` in `Screens`).

### Fairness

`Checkout`: weak fairness of each request's next statement or deadlock abort.
Node.js runs a request to its end, PostgreSQL's detector breaks cycles, and as
requests are finite in number no lock is taken for ever by others. `OrderDesk`:
strong fairness of each clerk's statements, because clerks come back for ever and
could take a lock again and again; PostgreSQL serves the queue of a row lock in
order, which is what strong fairness says. `Abort`, `Begin`, `PlaceOrder`,
deliveries and expiry have no fairness: nothing obliges them to happen. The other
modules state safety only: a lost answer, a closed tab or an engine that stays
away is never made up for by the code.

## 4. Proofs

Everything here is proved for every value of the constants: any set of carts,
customers, products, orders, clerks, requests, tabs, guests or roles, any stock,
any balance, any bound.

| Module | Theorem | States |
|---|---|---|
| `CheckoutProofs` | `TypeCorrect` | `[]TypeOK` |
| | `NeverOversold` | `[]NoOversell` |
| | `CouponLimitsKept` | `[]CouponWithinLimits` |
| | `PointsNeverOverdrawn` | `[]NeverOverdrawn` |
| | `OneOrderEach` | `[]OneOrderPerActivation` |
| | `ReservationsExact` | `[]ReservedIsOpenOrders` |
| | `BalancesExact` | `[]BalanceIsLedger` |
| | `Refinement` | the checkout implements `OrderBook` |
| `OrderDeskProofs` | `TypeCorrect` | `[]TypeOK` |
| | `StatusesFollowTheFlow` | `[]HistoryIsAFlow` |
| | `PaymentsCorrect` | `[]PaymentsAddUp` |
| | `MovementsExplainStock` | `[]StockIsItsMovements` |
| | `ReservationsCorrect` | `[]ReservedIsOrdersInHand` |
| | `PointsCorrect` | `[]PointsAreLedger` |
| | `Refinement` | the desk implements `OrderFlow` |
| `PeopleProofs` | `TablesKeepTheirTypes` | `[]TypeOK` |
| | `ProductHasOneLine`, `AddedPiecesCount` | `[]OneLinePerProduct`, `[]AddsAddUp` |
| | `ServedCustomersAreComplete` | `[]AccountsComplete` |
| | `PersonHasOneRecord` | `[]OneRecordPerPerson` |
| | `OneLoginOneToken`, `BrowserTokenWorks` | `[]OneTokenPerLogin`, `[]StoredTokenWorks` |
| | `WhoLeavesStaysOut` | `[]OutForGood` |
| | `FavouritesMoveOnce` | `[]NoFavouriteLost` |
| | `GiftsArePromisedOnce` | `[]PromiseKept` |
| | `OneAdminIsLeft`, `RoleIsOneSave` | `[]AdminsGoOneByOne`, `[]RoleIsLastSave` |
| `BackOfficeProofs` | `BackOfficeKeepsItsTypes` | `[]TypeOK` |
| | `EngineFollowsTheProducts` | `[]IndexCatchesUp` |
| | `ShownPicturesHaveFiles`, `FilesHaveAReason` | `[]RowsHaveFiles`, `[]OrphansExplained` |
| | `BestOfferAlwaysWins`, `AmountsAlwaysAddUp` | `[]BestOfferWins`, `[]TotalAddsUp` |
| `SitesProofs` | `SitesKeepTheirTypes` | `[]TypeOK` |
| | `ScreensShowTheTruth`, `FormsCreateOnce` | `[]ShownIsCurrent`, `[]CreatedOnce` |
| | `OnlyStaleRightsAreRefused` | `[]RefusedOnlyIfStale` |
| | `EveryMatchIsShownOnce` | `[]EveryMatchOnce` |

Every safety property of every passing run is among them.

### The inductive invariants

None of these properties is inductive. What makes them so is, each time, what a
request may rely on between two of its statements.

**Checkout.** A transaction that is about to commit could have stale stock. `IInv`
says what each lock lets its holder rely on until it commits. `LockInv`: row
locks are exclusive. `CartInv`: past its first lock, a transaction holds its cart
and it is ACTIVE. `StockInv`: a locked product covers the line, and when all
lines are done every product of the order is locked. `CouponInv`, `PointsInv`:
past their lock, the limits and the balance are as they were checked.
`NumberInv`: a number computed under the lock is the next one. `ActivationInv`:
an order belongs to an activation of its cart that is over. The argument of the
step: a statement changes only its own request's labels (`OthersKeep`), and a
commit changes only rows it holds, which by exclusiveness are not those another
transaction relies on (`OthersGood`); deliveries and cancellations wait for
locked rows and only increase what is left (`SettleGood`). With `IInv` at hand a
commit meets the guard of `OrderBook!Place` (`CommitRefines`), every other
statement is a stutter or a `Reopen`.

**Order desk.** `Good(w)` is the same idea for a clerk: while he holds his order,
it has the status and the payments he saw and the task is not refused; while he
holds a row of stock, it is as he read it; when he writes, he holds every row he
writes. `Exclusive` says that locks are. On top of these, the history of each
order is a path of the flow, its payments and the movements of the stock add up,
and each delivered order is credited once (`CreditedOnce`: the credit is written
with the status, and no delivered order is delivered again). The refinement maps
a task to the one step that writes; reading, locking, waiting and aborting
stutter, and `OrderFlow`'s guard is what `Good` says at that step.

**Ledgers.** `LedgerInv` of both modules: what is reserved is the sum over the
open orders, a balance is what it began with, less what was redeemed, plus what
was earned. Sums are sizes of sets of pieces (`Tally`), so no recursion is
needed: `TallyProofs` shows what a sum becomes when one order joins, leaves or
keeps the set. That `Tally` is the usual sum is the assumption `TallyIsSum` of
`MCCheckout` and `MCOrderDesk`, which TLC evaluates on functions of small range; no
proof uses it.

**Cart** (`PeopleProofs`). `LockInv`: whoever is about to write a line holds
the advisory lock of its product. `ReadInv`: what he read is still so, the line
he found is there with the quantity he saw, or gone, or typed in (`covered`).
`PathInv`: nobody gets past the cart before there is one. `UniqueInv` is then
kept, as only a holder of the lock adds a line, and `AddsAddUp` with it.

**Customers** (`PeopleProofs`). `OpenInv`: a record without a wishlist has a
request that is about to open it, or the account first; so the request that
fails on the unique index leaves the rest to another, and when all are done
nothing is missing. No lock is involved: the invariant is about who is still
under way. `AddressInv`: no two records have one address, and a record of the start
keeps its own until its customer moves. `PersonInv`: what a request works on, or was
answered with, is the record of its person: of the cart's customer, of its email, or,
without one, the record it wrote itself; unless that customer moved. Two requests
answered with one record are then of one person and the other way round
(`OneRecord`).

**Sessions** (`SessionsProofs`). `OneInv`: one live token per login, where a
refresh that has consumed a token and not yet issued the next counts as one.
`CallInv`, `RowInv`: a call presents a token of its own login and browser, and
rows are tokens that were granted. `WaitInv`, `HeldInv`, `RevokedInv`: a token
whose answer is awaited has been presented by nobody; the token a browser keeps
was presented, if at all, by refreshes that are still awaited; only a call that
presents a token revokes it, until all are. So a kept token that nobody awaits
anything about is alive or expired. `TipInv`: a token that no refresh has presented is the
only live one of its login. So a logout at rest revokes the last token there is
(`PartInv`: of such a logout the token is never presented to a refresh, and once it
is worked off its login has none), and a login that was swept has none and is
issued none (`SweptInv`), as only a refresh with a live token issues another.

**Team** (`StaffTeamProofs`). `AdminInv`: unless requests crossed, there is an
active administrator, and two of them while some request goes by a count.
`StageInv` ties requests to their statements, `FreshInv` keeps a role that is to
be created out of everybody's sight, `SaveInv`: a save that nobody crossed knows
the codes it replaces, and is the only one under way.

**Favourites and birthday lists** (`PeopleProofs`). `NoFavouriteLost` is
inductive, its second half (one login posts a favourite once) is not: `PostsInv`
counts the posts made, the hearts that have one still to make, and the guest's
list, which is worth one more post while logged in; their sum never exceeds the
logins. `ClaimInv`: two guests never claim one gift, where a claim is what a guest
was told or is about to be told; a gift of the list is reserved for its claimer
and for nobody else, unless an answer was lost.

**Catalogue** (`BackOfficeProofs`). `IndexCatchesUp` speaks of products nobody has
open; what it needs is what an open request is about to send. `GoodsPathInv`,
`GoodsOpenInv`: the step a request is at says which products it has open. `MixInv`:
two requests that have one product open both know it. `SendInv`: what a request
that nobody disturbed is about to send is the product as it is. `ReadInv`: a
reindexing is disturbed by every request, so it has a rule of its own, product by
product: of one that nobody else changes (`Quiet`) it has read what is there.
`IndexInv` is then kept by a call that is carried out, and a call that is refused
marks its product.

**Pictures** (`BackOfficeProofs`). `UploadInv` says which files each step of an
upload accounts for, and that its row or banner comes last. `RemovalInv`: a
request deletes files only of a picture whose row is gone and that nobody can
show again, which is why `RowsHaveFiles` is kept whatever overlaps. `OrphanInv` is
`OrphansExplained` with what the removals are about to delete. `PlacesInv`: the
places of a list are bounded, so an addition finds the last one.

**Amounts** (`BackOfficeProofs`). There is nothing to keep: a behaviour is one
question, and the theorems are about every one of them. `Rounding`: Math.round is
within half a unit. `FirstCheapestIs`: a sequence of offers has a cheapest one that
is the first of its kind, by the order of the naturals. `CandidatesAre`: which
offers there are, of which source and in which order; `NothingCumulates` compares
them with each offer alone. `DiscountIs`, `RedemptionIs`, `VatIs` bound the three
amounts, and the total adds them up.

**Screens** (`SitesProofs`). `ScreenInv` is one invariant for any component that
keeps to `PartsAssumption`. `LoadInv`, `MarkInv`, `PostInv`, `BusyInv` tie calls to
their questions, their clicks and their buttons. `CountInv`: of a form that ends
with its page, the changes made are no more than the calls that got no answer,
plus one, and no more than these while its button may be pressed again. `LastInv`:
the last load, once served, has every change the screen was told of. `GuessInv`:
what a screen shows before the API has it comes off again if it is refused.
`AskInv`, `SeenInv`, `ToldInv`: the question asked is answered or will be, only
what is made or guessed is shown, and what the screen was told of is shown or
will be; they hold on the screens on which no answer overtook another
(`InOrder`).

**Access** (`SitesProofs`). `DoorInv`: each call under way needs what the screen
went by when it made it, or is one of the three pages that ask for too much. Which
pages call which routes is data, and the lemmas `PagesAsk`, `AdminPagesAsk` and
`ShopIsServed` go through all of it: 24 controllers, every page, every component.
They fail if a page is given a call its menu entry does not cover.

**Listing** (`SitesProofs`). `ListInv`: the pages seen so far are the first of one
arrangement of what fits. `OneArrangement`: when the order tells all rows apart
there is only one, so requests agree. `PagesJoin`, `LastPage`: the slices of
consecutive pages make a longer beginning of it, and after the last one all of it,
whatever the number of products and the size of a page. `FilterIsExpected`: the
where of `list()`, with or without the engine, is what the visitor asked for,
filter by filter. `CategoriesBelow`: the levels of the loop are exactly the
categories below. The levels are a recursive function; that there is one
(`LevelsAre`) is proved without the induction theorems, by the least number for
which it would fail (`Least`).

**The composed modules.** `PeopleInv`, `BackOfficeInv` and `SitesInv` are the
invariant of whichever part a behaviour picked. `StepOfPart`: a step of the whole
is a step of that part or leaves its variables alone, so the lemmas on the steps of
the parts carry it on. `People` instantiates two modules of proofs (`SessionsProofs`,
`StaffTeamProofs`), whose lemmas come under the part's name, with the part's
constants and variables in place of the module's.

### Assumptions

All are named, in the modules that declare the constants, and TLC evaluates them
in the runs: the initial tables are typed and hold what their columns allow
(`InitialTablesAssumption`, `DeskTablesAssumption`), requests and tasks are of
the kinds the routes accept (`RequestAssumption`, `TaskAssumption`), the data is
typed (`DataAssumption`, `SubtotalAssumption`, `DeskAssumption`: an order has a
line, its amounts are not negative), and `PeopleAssumption`, the conjunction of
`CartAssumption`, `CustomersAssumption`, `SessionsAssumption`,
`FavouritesAssumption`, `GiftListAssumption` and `StaffTeamAssumption`;
`BackOfficeAssumption`, that of `CatalogueAssumption`, `PicturesAssumption` and
`QuotesAssumption` (prices and amounts are not negative, a percentage coupon takes
off 100 % at most, as `assertValidValue` checks); and `SitesAssumption`, that of
`ScreensAssumption` (every component keeps to the rules of `PartsAssumption`, which
TLC evaluates on every component of both sites), `AccessAssumption` (a route has one
need) and `ListingAssumption` (a page has a row, categories and products are
finitely many). Where a sum or a count needs it (`IsFiniteSet(Heart)`) a set is
finite; nothing else is.

### What the proofs corrected

Some of what the runs accepted could not be proved, and was wrong or too weak:

- `AdminsGoOneByOne` blamed too little: an administrator who is promoted between
  the two reads of his own deactivation is not counted. `raced` names it, and
  the run `people` has the promotion.
- A role's code is unique (`NameOf`), which the creation of a role relies on.
- `StoredTokenWorks` had been stated for a browser with one refreshing tab; it
  holds with any number.
- That records go by persons had been stated of the records alone: a customer who
  changes the address afterwards leaves his to another person. `Moved` names him.
- A coupon was held never to exceed the subtotal, as the comment of the code says;
  it does on centimes. `Excess` is by how much, and `TotalAddsUp` says so.
- What the components of the sites have in common was in nobody's sight: the
  proofs of `Screens` need five rules (`PartsAssumption`), and all components keep
  them.
- `Listing` knew two levels of categories, no limit to the hits of the engine and
  no reversed range of ages, and its loop always ended; the order by rating and
  date was one number. None of this could be proved for other catalogues.

### Only model-checked

Liveness: `EveryRequestAnswered` (`rivals`) and `EveryTaskEnds` (`flow`). Both need
fairness and ENABLED, which are out of the prover's reach, so they are checked on
the bounds of section 3 only. That `Tally` is the usual sum is evaluated by TLC
as well, being an induction over data. Deadlock is TLC's too.

## 5. Not modelled

- Staff lockout, throttling and the one-time codes of order tracking: counters
  with a time to live; their rules are windows of time.
- Email, WhatsApp, Redis and health: input and output that no state of the shop
  depends on.
- Settings, cities, pages, reports, audit, brands, categories, bundles, upsells,
  reviews and the editing of offers: single writes without a condition between
  actors. Their routes and screens are modelled, their services are not.
- The block editor of landing pages, guides, translations, carousels and the local
  state of forms: nothing but layout and text.
- The migrations, and of the seed all but the first roles and accounts.

## 6. Plan

Done: the checkout and the desk over their abstract specifications, with proofs
of all their safety properties and of both refinements; prices; carts,
customers, sessions, favourites, birthday lists and the team, with proofs of all
their properties; the catalogue, its index, its pictures and its lists; routes,
rights and the screens of both sites.

Proved since: the index, the pictures, prices and amounts, the screens, the
rights and the lists, for every value of their constants.

Left, the most important first:

1. Offers as rows that the team edits while orders use them (`marketing/coupons`,
   `marketing/promotions`): today they are a flag in `Checkout` and data in `Quotes`.
2. Order tracking and the lockout of the team: counters with windows of time, which
   need a clock in the model.
3. A run in which a category is moved below itself while a visitor leafs through it
   (`Ends` has the consequence, not the request that causes it).
4. Reviews and their averages, bundles and upsells.
