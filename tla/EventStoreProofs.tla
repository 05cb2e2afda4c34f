-------------------------- MODULE EventStoreProofs --------------------------
(***************************************************************************)
(* Theorems about EventStore, for any writers, payloads, tables and bounds: *)
(* types; and, when the clocks of the writers agree, that the hash chain    *)
(* verifies, that the facts kept twice agree, that the transactions         *)
(* implement EventLog, and that the replay gives what the projections say,  *)
(* but for staffing, items added as inactive and stock without a level.     *)
(***************************************************************************)
EXTENDS EventStore, FiniteSetTheorems, SequenceTheorems, TLAPS

(***************************************************************************)
(* The inductive invariants.                                               *)
(***************************************************************************)
\* The hosts of the writers show the same time.  EventStoreSkew shows what
\* happens otherwise.
ClocksAgree == \A v, w \in Writers : Skew[v] = Skew[w]

\* A transaction carries the payload and source it was called with.
ArgsAreGiven ==
    \A w \in Writers :
        pc[w] # "idle" => args[w].payload \in Payloads /\ args[w].source \in Sources

TInv == TypeOK /\ ArgsAreGiven

\* The row lock covers everything between the read of the latest event and the
\* commit.
LockIsHeld == \A w \in Writers : pc[w] \in {"read", "stamp", "insert"} => locked = w

\* What is committed lies in the past of every clock.
CommittedBefore(t) ==
    /\ \A e \in events : e.timestamp <= t
    /\ \A h \in projection.prices : h.effective_at <= t

PastIsPast == \A w \in Writers : CommittedBefore(now + Skew[w])

\* A stamp that is not committed yet is a reading of the writer's clock, taken
\* after everything that is committed.
StampsAreNew ==
    \A w \in Writers : pc[w] = "insert" =>
        /\ stamp[w] - Skew[w] \in 1..now
        /\ CommittedBefore(stamp[w] - 1)

\* What was read as the latest event still is it.
PreviousIsLatest ==
    \A w \in Writers : pc[w] \in {"stamp", "insert"} => previous[w] = LatestHash(events)

LatestIsLast ==
    events # {} =>
        Latest(events) \in events /\ \A e \in events : e.timestamp <= Latest(events).timestamp

SInv == LockIsHeld /\ PastIsPast /\ StampsAreNew /\ PreviousIsLatest /\ LatestIsLast

\* Every position of the order belongs to one event.
Rank(E, e) == Cardinality({f \in E : Before(f, e)})

Ranked(E) ==
    /\ IsFiniteSet(E)
    /\ \A e \in E : Rank(E, e) \in 0..Cardinality(E) - 1
    /\ \A i \in 1..Cardinality(E) : \E e \in E : Rank(E, e) = i - 1
    /\ \A e, f \in E : Rank(E, e) = Rank(E, f) => e = f

\* g[n] is the state after the first n events of E.
Replays(E, g) ==
    g = [n \in 0..Cardinality(E) |->
            IF n = 0 THEN Unknown ELSE ReplayEvent(g[n - 1], InOrder(E)[n])]

\* There is one replay.  It is not a matter of course: a recursive definition
\* has a value when there is a function that satisfies it.
Replayable(E) == \E g : Replays(E, g) /\ \A h : Replays(E, h) => h = g

\* Groups of tables that an event leaves alone.
SameSupply(s, t) == t.cost = s.cost /\ t.prices = s.prices /\ t.supplier = s.supplier
SameStock(s, t) == t.level = s.level /\ t.stock = s.stock
SameRecords(s, t) == t.waste = s.waste /\ t.orders = s.orders /\ t.invoices = s.invoices

LEMMA PriceChange ==
  ASSUME NEW s \in Tables, NEW p \in Payloads, NEW at \in Nat,
         NEW t \in ApplySupplierPriceChange(s, p, at)
  PROVE  /\ t \in Tables
         /\ SameStock(s, t) /\ SameRecords(s, t) /\ t.menu = s.menu /\ t.supplier = s.supplier
         /\ p.on \in Skus /\ p.n \in Nat
         /\ t.prices = s.prices \cup {[sku |-> p.on, price |-> p.n, effective_at |-> at]}
         /\ t.cost = [s.cost EXCEPT ![SkuIngredient[p.on]] = p.n]
<1>1. p.on \in Skus /\ p.n \in Nat /\ SkuIngredient[p.on] \in Ingredients
  BY EventStoreAssumption DEF ApplySupplierPriceChange, EventStoreAssumption, PayloadAssumption
<1>2. t = [s EXCEPT !.prices = @ \cup {[sku |-> p.on, price |-> p.n, effective_at |-> at]},
                    !.cost = [@ EXCEPT ![SkuIngredient[p.on]] = p.n]]
  BY <1>1 DEF ApplySupplierPriceChange
<1> DEFINE h == [sku |-> p.on, price |-> p.n, effective_at |-> at]
           prices == s.prices \cup {h}
           cost == [s.cost EXCEPT ![SkuIngredient[p.on]] = p.n]
<1>3. t = [s EXCEPT !.prices = prices, !.cost = cost]
  BY <1>2
<1>4. h \in [sku: Skus, price: Nat, effective_at: Nat]
  BY <1>1
<1>5. prices \in SUBSET [sku: Skus, price: Nat, effective_at: Nat]
  BY <1>4 DEF Tables
<1>6. cost \in [Ingredients -> Nat]
  BY <1>1 DEF Tables
<1> HIDE DEF h, prices, cost
<1>7. /\ t \in Tables /\ SameStock(s, t) /\ SameRecords(s, t)
      /\ t.menu = s.menu /\ t.supplier = s.supplier
      /\ t.prices = prices /\ t.cost = cost
  BY <1>3, <1>5, <1>6 DEF Tables, SameStock, SameRecords
<1> QED BY <1>1, <1>7 DEF prices, cost, h

LEMMA Stock ==
  ASSUME NEW s \in Tables, NEW i \in Ingredients, NEW q \in Int, NEW t \in SetStock(s, i, q)
  PROVE  /\ t \in Tables /\ q \in Nat
         /\ t.level = [s.level EXCEPT ![i] = q] /\ t.stock = [s.stock EXCEPT ![i] = q]
         /\ SameSupply(s, t) /\ SameRecords(s, t) /\ t.menu = s.menu
<1>1. /\ t = [s EXCEPT !.level = [@ EXCEPT ![i] = q], !.stock = [@ EXCEPT ![i] = q]]
      /\ q \in Nat
  BY DEF SetStock
<1> QED BY <1>1 DEF Tables, SameSupply, SameRecords

LEMMA SupplierSwitch ==
  ASSUME NEW s \in Tables, NEW p \in Payloads, NEW t \in ApplySupplierSwitch(s, p)
  PROVE  /\ p.on \in Ingredients /\ p.with \in Suppliers
         /\ t \in Tables
         /\ t.supplier = [s.supplier EXCEPT ![p.on] = p.with]
         /\ t.cost = s.cost /\ t.prices = s.prices
         /\ SameStock(s, t) /\ SameRecords(s, t) /\ t.menu = s.menu
<1>1. /\ p.on \in Ingredients /\ p.with \in Suppliers
      /\ t = [s EXCEPT !.supplier = [@ EXCEPT ![p.on] = p.with]]
  BY DEF ApplySupplierSwitch
<1> QED BY <1>1 DEF Tables, SameStock, SameRecords

LEMMA Current ==
  ASSUME NEW s \in Tables, NEW i \in Ingredients
  PROVE  /\ CurrentQuantity(s, i) \in Nat
         /\ StockAgrees(s) => CurrentQuantity(s, i) = s.stock[i]
BY DEF Tables, CurrentQuantity, StockAgrees

\* What ApplyWaste leaves, when it accepts.
Wasted(s, p, at, t) ==
    LET n == CurrentQuantity(s, p.on) - p.n
    IN  /\ p.on \in Ingredients /\ n \in Nat
        /\ t \in Tables
        /\ t.level = [s.level EXCEPT ![p.on] = n] /\ t.stock = [s.stock EXCEPT ![p.on] = n]
        /\ t.waste = s.waste \cup {[ingredient |-> p.on, quantity |-> p.n, recorded_at |-> at]}
        /\ SameSupply(s, t) /\ t.menu = s.menu /\ t.orders = s.orders /\ t.invoices = s.invoices

LEMMA Waste ==
  ASSUME NEW s \in Tables, NEW p \in Payloads, NEW at \in Nat, NEW t \in ApplyWaste(s, p, at)
  PROVE  Wasted(s, p, at, t)
<1>1. p.on \in Ingredients /\ p.n \in Nat
  BY EventStoreAssumption DEF ApplyWaste, EventStoreAssumption, PayloadAssumption
<1> DEFINE q == CurrentQuantity(s, p.on) - p.n
           entry == [ingredient |-> p.on, quantity |-> p.n, recorded_at |-> at]
<1>2. q \in Int
  BY <1>1, Current
<1>3. PICK u \in SetStock(s, p.on, q) : t = [u EXCEPT !.waste = @ \cup {entry}]
  BY <1>1 DEF ApplyWaste
<1>4. /\ u \in Tables /\ q \in Nat
      /\ u.level = [s.level EXCEPT ![p.on] = q] /\ u.stock = [s.stock EXCEPT ![p.on] = q]
      /\ SameSupply(s, u) /\ SameRecords(s, u) /\ u.menu = s.menu
  BY <1>1, <1>2, Stock
<1>5. entry \in [ingredient: Ingredients, quantity: Nat, recorded_at: Nat]
  BY <1>1
<1> HIDE DEF q, entry
<1>6. t \in Tables
  BY <1>3, <1>4, <1>5 DEF Tables
<1>7. /\ t.level = u.level /\ t.stock = u.stock /\ t.waste = u.waste \cup {entry}
      /\ SameSupply(u, t) /\ t.menu = u.menu /\ t.orders = u.orders /\ t.invoices = u.invoices
  BY <1>3, <1>4 DEF Tables, SameSupply
<1>8. /\ t.level = [s.level EXCEPT ![p.on] = q] /\ t.stock = [s.stock EXCEPT ![p.on] = q]
      /\ t.waste = s.waste \cup {entry}
      /\ SameSupply(s, t) /\ t.menu = s.menu /\ t.orders = s.orders /\ t.invoices = s.invoices
  BY <1>4, <1>7 DEF SameSupply, SameRecords
<1> QED BY <1>1, <1>4, <1>6, <1>8 DEF q, entry, Wasted

LEMMA MenuPriceChange ==
  ASSUME NEW s \in Tables, NEW p \in Payloads, NEW t \in ApplyMenuPriceChange(s, p)
  PROVE  /\ p.on \in MenuItems /\ s.menu[p.on] \in [price: Nat, active: BOOLEAN] /\ p.n \in Nat
         /\ t \in Tables
         /\ t.menu = [s.menu EXCEPT ![p.on] = [price |-> p.n, active |-> s.menu[p.on].active]]
         /\ SameSupply(s, t) /\ SameStock(s, t) /\ SameRecords(s, t)
<1>1. p.on \in MenuItems /\ s.menu[p.on] # None /\ p.n \in Nat
  BY EventStoreAssumption DEF ApplyMenuPriceChange, OnMenu, EventStoreAssumption, PayloadAssumption
<1>2. s.menu[p.on] \in [price: Nat, active: BOOLEAN]
  BY <1>1 DEF Tables
<1>3. t = [s EXCEPT !.menu[p.on].price = p.n]
  BY <1>1 DEF ApplyMenuPriceChange, OnMenu
<1>4. [s.menu[p.on] EXCEPT !.price = p.n] = [price |-> p.n, active |-> s.menu[p.on].active]
  BY <1>2
<1> DEFINE item == [price |-> p.n, active |-> s.menu[p.on].active]
<1>5. t = [s EXCEPT !.menu = [@ EXCEPT ![p.on] = item]]
  BY <1>3, <1>4
<1>6. item \in [price: Nat, active: BOOLEAN]
  BY <1>1, <1>2
<1> HIDE DEF item
<1>7. /\ t \in Tables
      /\ t.menu = [s.menu EXCEPT ![p.on] = item]
      /\ SameSupply(s, t) /\ SameStock(s, t) /\ SameRecords(s, t)
  BY <1>1, <1>5, <1>6 DEF Tables, SameSupply, SameStock, SameRecords
<1> QED BY <1>1, <1>2, <1>7 DEF item

LEMMA MenuItemRemoved ==
  ASSUME NEW s \in Tables, NEW p \in Payloads, NEW t \in ApplyMenuItemRemoved(s, p)
  PROVE  /\ p.on \in MenuItems /\ s.menu[p.on] \in [price: Nat, active: BOOLEAN]
         /\ t \in Tables
         /\ t.menu = [s.menu EXCEPT ![p.on] = [price |-> s.menu[p.on].price, active |-> FALSE]]
         /\ SameSupply(s, t) /\ SameStock(s, t) /\ SameRecords(s, t)
<1>1. p.on \in MenuItems /\ s.menu[p.on] # None
  BY DEF ApplyMenuItemRemoved, OnMenu
<1>2. s.menu[p.on] \in [price: Nat, active: BOOLEAN]
  BY <1>1 DEF Tables
<1>3. t = [s EXCEPT !.menu[p.on].active = FALSE]
  BY <1>1 DEF ApplyMenuItemRemoved, OnMenu
<1>4. [s.menu[p.on] EXCEPT !.active = FALSE] = [price |-> s.menu[p.on].price, active |-> FALSE]
  <2>1. ASSUME NEW m \in [price: Nat, active: BOOLEAN], NEW b
        PROVE  [m EXCEPT !.active = b] = [price |-> m.price, active |-> b]
    OBVIOUS
  <2> QED BY <1>2, <2>1
<1> DEFINE item == [price |-> s.menu[p.on].price, active |-> FALSE]
<1>5. t = [s EXCEPT !.menu = [@ EXCEPT ![p.on] = item]]
  BY <1>3, <1>4
<1>6. item \in [price: Nat, active: BOOLEAN]
  BY <1>1, <1>2
<1> HIDE DEF item
<1>7. /\ t \in Tables
      /\ t.menu = [s.menu EXCEPT ![p.on] = item]
      /\ SameSupply(s, t) /\ SameStock(s, t) /\ SameRecords(s, t)
  BY <1>1, <1>5, <1>6 DEF Tables, SameSupply, SameStock, SameRecords
<1> QED BY <1>1, <1>2, <1>7 DEF item

LEMMA MenuItemAdded ==
  ASSUME NEW s \in Tables, NEW p \in Payloads, NEW t \in ApplyMenuItemAdded(s, p)
  PROVE  /\ p.n \in Nat
         /\ t \in Tables
         /\ t.menu = [s.menu EXCEPT ![p.on] = [price |-> p.n, active |-> p.with = "active"]]
         /\ SameSupply(s, t) /\ SameStock(s, t) /\ SameRecords(s, t)
<1> DEFINE item == [price |-> p.n, active |-> p.with = "active"]
<1>1. p.n \in Nat
  BY EventStoreAssumption DEF ApplyMenuItemAdded, EventStoreAssumption, PayloadAssumption
<1>2. t = [s EXCEPT !.menu = [@ EXCEPT ![p.on] = item]]
  BY DEF ApplyMenuItemAdded
<1>3. item \in [price: Nat, active: BOOLEAN]
  BY <1>1
<1> HIDE DEF item
<1>4. /\ t \in Tables
      /\ t.menu = [s.menu EXCEPT ![p.on] = item]
      /\ SameSupply(s, t) /\ SameStock(s, t) /\ SameRecords(s, t)
  BY <1>2, <1>3 DEF Tables, SameSupply, SameStock, SameRecords
<1> QED BY <1>1, <1>4 DEF item

LEMMA Order ==
  ASSUME NEW s \in Tables, NEW p \in Payloads, NEW at \in Nat, NEW t \in ApplyOrderRecorded(s, p, at)
  PROVE  /\ t \in Tables
         /\ t.orders = s.orders \cup {[item |-> p.on, quantity |-> p.n, ordered_at |-> at]}
         /\ SameSupply(s, t) /\ SameStock(s, t) /\ t.menu = s.menu /\ t.waste = s.waste /\ t.invoices = s.invoices
<1> DEFINE entry == [item |-> p.on, quantity |-> p.n, ordered_at |-> at]
<1>1. p.on \in MenuItems /\ p.n \in Nat /\ t = [s EXCEPT !.orders = @ \cup {entry}]
  BY EventStoreAssumption DEF ApplyOrderRecorded, OnMenu, EventStoreAssumption, PayloadAssumption
<1>2. entry \in [item: MenuItems, quantity: Nat, ordered_at: Nat]
  BY <1>1
<1> HIDE DEF entry
<1>3. /\ t \in Tables /\ t.orders = s.orders \cup {entry}
      /\ SameSupply(s, t) /\ SameStock(s, t) /\ t.menu = s.menu /\ t.waste = s.waste /\ t.invoices = s.invoices
  BY <1>1, <1>2 DEF Tables, SameSupply, SameStock
<1> QED BY <1>3 DEF entry

LEMMA InvoiceStep ==
  ASSUME NEW s \in Tables, NEW p \in Payloads, NEW at \in Nat, NEW t \in ApplyInvoiceRecorded(s, p, at)
  PROVE  /\ t \in Tables
         /\ t.invoices = s.invoices \cup {[number |-> p.n, sku |-> p.on, invoice_date |-> at]}
         /\ SameSupply(s, t) /\ SameStock(s, t) /\ t.menu = s.menu /\ t.waste = s.waste /\ t.orders = s.orders
<1> DEFINE entry == [number |-> p.n, sku |-> p.on, invoice_date |-> at]
<1>1. p.on \in Skus /\ p.n \in Int /\ t = [s EXCEPT !.invoices = @ \cup {entry}]
  BY EventStoreAssumption DEF ApplyInvoiceRecorded, EventStoreAssumption, PayloadAssumption
<1>2. entry \in [number: Int, sku: Skus, invoice_date: Nat]
  BY <1>1
<1> HIDE DEF entry
<1>3. /\ t \in Tables /\ t.invoices = s.invoices \cup {entry}
      /\ SameSupply(s, t) /\ SameStock(s, t) /\ t.menu = s.menu /\ t.waste = s.waste /\ t.orders = s.orders
  BY <1>1, <1>2 DEF Tables, SameSupply, SameStock
<1> QED BY <1>3 DEF entry

LEMMA Staffing ==
  ASSUME NEW s \in Tables, NEW p \in Payloads, p.type = "staffing_change",
         NEW t \in ApplyStaffingChange(s, p)
  PROVE  /\ t \in Tables
         /\ SameSupply(s, t) /\ SameStock(s, t) /\ SameRecords(s, t) /\ t.menu = s.menu
<1> DEFINE entry == [slot |-> p.with, headcount |-> p.n]
<1>1. p.n \in Int /\ p.with \in Slots
  BY EventStoreAssumption DEF EventStoreAssumption, PayloadAssumption
<1>2. p.n \in Nat /\ \E i : t = [s EXCEPT !.shift[i] = entry]
  BY <1>1 DEF ApplyStaffingChange
<1>3. PICK i : t = [s EXCEPT !.shift = [@ EXCEPT ![i] = entry]]
  BY <1>2
<1>4. entry \in [slot: Slots, headcount: Nat]
  BY <1>1, <1>2
<1> HIDE DEF entry
<1> QED BY <1>3, <1>4 DEF Tables, SameSupply, SameStock, SameRecords

LEMMA Absolute ==
  ASSUME NEW s \in Tables, NEW p \in Payloads, NEW at \in Nat,
         NEW t \in ApplyToCurrentState(s, p, at),
         p.type \in {"stockout", "restock", "inventory_adjustment"}
  PROVE  \E q \in Nat :
            /\ p.on \in Ingredients /\ t \in Tables
            /\ p.type = "stockout" => q = 0
            /\ p.type = "restock" => q = p.n
            /\ p.type = "inventory_adjustment" =>
                  q = IF p.with = "level" THEN p.n ELSE CurrentQuantity(s, p.on) + p.n
            /\ t.level = [s.level EXCEPT ![p.on] = q] /\ t.stock = [s.stock EXCEPT ![p.on] = q]
            /\ SameSupply(s, t) /\ SameRecords(s, t) /\ t.menu = s.menu
<1> DEFINE q == CASE p.type = "stockout" -> 0
                  [] p.type = "restock" -> p.n
                  [] p.type = "inventory_adjustment" ->
                       IF p.with = "level" THEN p.n ELSE CurrentQuantity(s, p.on) + p.n
<1>1. p.n \in Int
  BY EventStoreAssumption DEF EventStoreAssumption, PayloadAssumption
<1>2. p.on \in Ingredients /\ t \in SetStock(s, p.on, q)
  BY DEF ApplyToCurrentState, ApplyStockout, ApplyRestock, ApplyInventoryAdjustment
<1>3. q \in Int
  BY <1>1, <1>2, Current
<1>5. /\ p.type = "stockout" => q = 0
      /\ p.type = "restock" => q = p.n
      /\ p.type = "inventory_adjustment" =>
            q = IF p.with = "level" THEN p.n ELSE CurrentQuantity(s, p.on) + p.n
  OBVIOUS
<1> HIDE DEF q
<1>4. /\ t \in Tables /\ q \in Nat
      /\ t.level = [s.level EXCEPT ![p.on] = q] /\ t.stock = [s.stock EXCEPT ![p.on] = q]
      /\ SameSupply(s, t) /\ SameRecords(s, t) /\ t.menu = s.menu
  BY <1>2, <1>3, Stock
<1> QED BY <1>2, <1>4, <1>5

\* The price history and the current costs are untouched or get one new price.
Repriced(s, t, p, at) ==
    \/ t.prices = s.prices /\ t.cost = s.cost
    \/ /\ p.on \in Skus /\ p.n \in Nat
       /\ t.prices = s.prices \cup {[sku |-> p.on, price |-> p.n, effective_at |-> at]}
       /\ t.cost = [s.cost EXCEPT ![SkuIngredient[p.on]] = p.n]

\* What an event does to the facts that are kept twice.
LEMMA TablesStep ==
  ASSUME NEW s \in Tables, NEW p \in Payloads, NEW at \in Nat,
         NEW t \in ApplyToCurrentState(s, p, at)
  PROVE  /\ t \in Tables
         /\ StockAgrees(s) => StockAgrees(t)
         /\ Repriced(s, t, p, at)
<1>1. CASE p.type = "supplier_price_change"
  <2>1. t \in ApplySupplierPriceChange(s, p, at)
    BY <1>1 DEF ApplyToCurrentState
  <2> QED BY <2>1, PriceChange DEF StockAgrees, SameStock, Repriced
<1>2. CASE p.type \in {"stockout", "restock", "inventory_adjustment"}
  <2>1. PICK q \in Nat :
           /\ p.on \in Ingredients /\ t \in Tables /\ SameSupply(s, t)
           /\ t.level = [s.level EXCEPT ![p.on] = q] /\ t.stock = [s.stock EXCEPT ![p.on] = q]
    BY <1>2, Absolute
  <2>2. StockAgrees(s) => StockAgrees(t)
    BY <2>1 DEF Tables, StockAgrees
  <2> QED BY <2>1, <2>2 DEF SameSupply, Repriced
<1>3. CASE p.type = "waste_recorded"
  <2>1. t \in ApplyWaste(s, p, at)
    BY <1>3 DEF ApplyToCurrentState
  <2>2. PICK q \in Nat :
           /\ p.on \in Ingredients /\ t \in Tables /\ SameSupply(s, t)
           /\ t.level = [s.level EXCEPT ![p.on] = q] /\ t.stock = [s.stock EXCEPT ![p.on] = q]
    <3> DEFINE q == CurrentQuantity(s, p.on) - p.n
    <3>1. /\ p.on \in Ingredients /\ t \in Tables /\ SameSupply(s, t) /\ q \in Nat
          /\ t.level = [s.level EXCEPT ![p.on] = q] /\ t.stock = [s.stock EXCEPT ![p.on] = q]
      <4>1. Wasted(s, p, at, t)
        BY <2>1, Waste
      <4> QED BY <4>1 DEF Wasted
    <3> QED BY <3>1
  <2>3. StockAgrees(s) => StockAgrees(t)
    BY <2>2 DEF Tables, StockAgrees
  <2> QED BY <2>2, <2>3 DEF SameSupply, Repriced
<1>4. CASE p.type \in {"supplier_switch", "menu_item_added", "menu_item_removed", "menu_price_change",
                       "order_recorded", "invoice_recorded", "staffing_change", "demand_spike"}
  <2>1. t \in Tables /\ SameStock(s, t) /\ t.cost = s.cost /\ t.prices = s.prices
    <3>1. CASE p.type = "supplier_switch"
      <4>1. t \in ApplySupplierSwitch(s, p)
        BY <3>1 DEF ApplyToCurrentState
      <4> QED BY <3>1, <4>1, SupplierSwitch DEF SameSupply, SameStock
    <3>2. CASE p.type = "menu_item_added"
      <4>1. t \in ApplyMenuItemAdded(s, p)
        BY <3>2 DEF ApplyToCurrentState
      <4> QED BY <3>2, <4>1, MenuItemAdded DEF SameSupply, SameStock
    <3>3. CASE p.type = "menu_item_removed"
      <4>1. t \in ApplyMenuItemRemoved(s, p)
        BY <3>3 DEF ApplyToCurrentState
      <4> QED BY <3>3, <4>1, MenuItemRemoved DEF SameSupply, SameStock
    <3>4. CASE p.type = "menu_price_change"
      <4>1. t \in ApplyMenuPriceChange(s, p)
        BY <3>4 DEF ApplyToCurrentState
      <4> QED BY <3>4, <4>1, MenuPriceChange DEF SameSupply, SameStock
    <3>5. CASE p.type = "order_recorded"
      <4>1. t \in ApplyOrderRecorded(s, p, at)
        BY <3>5 DEF ApplyToCurrentState
      <4> QED BY <3>5, <4>1, Order DEF SameSupply, SameStock
    <3>6. CASE p.type = "invoice_recorded"
      <4>1. t \in ApplyInvoiceRecorded(s, p, at)
        BY <3>6 DEF ApplyToCurrentState
      <4> QED BY <3>6, <4>1, InvoiceStep DEF SameSupply, SameStock
    <3>7. CASE p.type = "staffing_change"
      <4>1. t \in ApplyStaffingChange(s, p)
        BY <3>7 DEF ApplyToCurrentState
      <4> QED BY <3>7, <4>1, Staffing DEF SameSupply, SameStock
    <3>8. CASE p.type = "demand_spike"
      BY <3>8 DEF ApplyToCurrentState, SameStock
    <3> QED BY <1>4, <3>1, <3>2, <3>3, <3>4, <3>5, <3>6, <3>7, <3>8
  <2> QED BY <2>1 DEF StockAgrees, SameStock, Repriced
<1>5. p.type \in EventTypes
  BY EventStoreAssumption DEF EventStoreAssumption, PayloadAssumption
<1> QED BY <1>1, <1>2, <1>3, <1>4, <1>5 DEF EventTypes

LEMMA PricesStep ==
  ASSUME NEW s \in Tables, NEW p \in Payloads, NEW at \in Nat,
         NEW t \in ApplyToCurrentState(s, p, at)
  PROVE  \A h \in t.prices : h \in s.prices \/ h.effective_at = at
<1>1. CASE t.prices = s.prices
  BY <1>1
<1>2. CASE t.prices = s.prices \cup {[sku |-> p.on, price |-> p.n, effective_at |-> at]}
  BY <1>2
<1>3. Repriced(s, t, p, at)
  BY TablesStep
<1> QED BY <1>1, <1>2, <1>3 DEF Repriced

\* The newest entry of the price history is the current cost, if entries are
\* appended in the order of time.
LEMMA CostAgreement ==
  ASSUME NEW s \in Tables, NEW p \in Payloads, NEW at \in Nat,
         NEW t \in ApplyToCurrentState(s, p, at), CostAgrees(s),
         \A h \in s.prices : h.effective_at < at
  PROVE  CostAgrees(t)
<1>1. CASE t.prices = s.prices /\ t.cost = s.cost
  BY <1>1 DEF CostAgrees
<1>2. CASE /\ p.on \in Skus /\ p.n \in Nat
           /\ t.prices = s.prices \cup {[sku |-> p.on, price |-> p.n, effective_at |-> at]}
           /\ t.cost = [s.cost EXCEPT ![SkuIngredient[p.on]] = p.n]
  <2> DEFINE new == [sku |-> p.on, price |-> p.n, effective_at |-> at]
             i == SkuIngredient[p.on]
  <2>1. /\ new.sku = p.on /\ new.price = p.n /\ new.effective_at = at
        /\ i \in Ingredients /\ s.cost \in [Ingredients -> Nat]
        /\ \A h \in s.prices : h.sku \in Skus /\ h.effective_at \in Nat
    BY <1>2, EventStoreAssumption DEF Tables, EventStoreAssumption
  <2>2. t.prices = s.prices \cup {new} /\ t.cost = [s.cost EXCEPT ![i] = p.n]
    BY <1>2
  <2> HIDE DEF new
  <2>3. SUFFICES ASSUME NEW h \in t.prices,
                        \A g \in t.prices : SkuIngredient[g.sku] = SkuIngredient[h.sku]
                                            => g.effective_at <= h.effective_at
                 PROVE  t.cost[SkuIngredient[h.sku]] = h.price
    BY DEF CostAgrees
  <2>4. CASE h = new
    BY <2>1, <2>2, <2>4
  <2>5. CASE h \in s.prices
    <3>1. SkuIngredient[h.sku] # i
      BY <2>1, <2>2, <2>3, <2>5
    <3>2. s.cost[SkuIngredient[h.sku]] = h.price
      BY <2>2, <2>3, <2>5 DEF CostAgrees
    <3>3. SkuIngredient[h.sku] \in Ingredients
      BY <2>1, <2>5, EventStoreAssumption DEF EventStoreAssumption
    <3> QED BY <2>1, <2>2, <3>1, <3>2, <3>3
  <2> QED BY <2>2, <2>4, <2>5
<1>3. Repriced(s, t, p, at)
  BY TablesStep
<1> QED BY <1>1, <1>2, <1>3 DEF Repriced

(***************************************************************************)
(* Types.                                                                  *)
(***************************************************************************)
LEMMA Clocks == MaxStamps \in Nat /\ Skew \in [Writers -> Nat] /\ None \notin Writers
BY EventStoreAssumption DEF EventStoreAssumption

LEMMA TypesInitially == Init => TInv
BY EventStoreAssumption
   DEF Init, TInv, TypeOK, ArgsAreGiven, Locations, EventStoreAssumption, SeedAssumption

\* The end of a transaction, whatever else it commits.
LEMMA TypesEnd ==
  ASSUME TInv, NEW w \in Writers, EndTransaction(w), UNCHANGED <<workload, now>>,
         \A e \in events' : e.id \in Ids /\ e.timestamp \in Nat /\ e.payload \in Payloads,
         projection' \in Tables
  PROVE  TInv'
<1>1. /\ pc' = [pc EXCEPT ![w] = "idle"] /\ args' = [args EXCEPT ![w] = None]
      /\ stamp' = [stamp EXCEPT ![w] = 0] /\ locked' \in {None, locked}
  BY DEF EndTransaction, Goto
<1>2. ArgsAreGiven'
  BY <1>1 DEF TInv, TypeOK, ArgsAreGiven
<1>3. \A v \in Writers : args'[v] = None \/ args'[v].payload \in Payloads
  BY <1>1 DEF TInv, TypeOK
<1>4. pc' \in [Writers -> Locations] /\ stamp' \in [Writers -> Nat] /\ locked' \in Writers \cup {None}
  BY <1>1 DEF TInv, TypeOK, Locations
<1>5. DOMAIN args' = Writers /\ DOMAIN previous' = Writers
  BY DEF EndTransaction, TInv, TypeOK
<1> QED BY <1>2, <1>3, <1>4, <1>5 DEF TInv, TypeOK

\* The event that InsertAndCommit adds.
NewEvent(w, i) ==
    [id |-> i, timestamp |-> stamp[w], payload |-> args[w].payload,
     source |-> Strip(args[w].source), previous_hash |-> previous[w],
     hash |-> ComputeHash(previous[w], args[w].payload, stamp[w], args[w].source)]

LEMMA TypesStep == TInv /\ [Next]_vars => TInv'
<1> SUFFICES ASSUME TInv, [Next]_vars PROVE TInv'
  OBVIOUS
<1> USE DEF TInv
<1>1. ASSUME NEW w \in Writers, NEW p \in workload[w], NEW src \in Sources, Begin(w, p, src)
      PROVE  TInv'
  <2>1. p \in Payloads
    BY EventStoreAssumption DEF TypeOK, EventStoreAssumption
  <2>2. /\ args' = [args EXCEPT ![w] = [payload |-> p, source |-> src]]
        /\ pc' = [pc EXCEPT ![w] = "lock"]
        /\ UNCHANGED <<workload, previous, stamp, locked, now, events, projection>>
    BY <1>1 DEF Begin, Goto
  <2> DEFINE a == [payload |-> p, source |-> src]
  <2>3. a.payload \in Payloads /\ a.source \in Sources
    BY <2>1
  <2>4. args' = [args EXCEPT ![w] = a]
    BY <2>2
  <2> HIDE DEF a
  <2>5. ArgsAreGiven'
    BY <2>2, <2>3, <2>4 DEF TypeOK, ArgsAreGiven
  <2>6. \A v \in Writers : args'[v] = None \/ args'[v].payload \in Payloads
    BY <2>3, <2>4 DEF TypeOK
  <2> QED BY <2>2, <2>5, <2>6 DEF TypeOK, Locations
<1>2. ASSUME NEW w \in Writers, LockTenant(w) PROVE TInv'
  BY <1>2 DEF LockTenant, Goto, TypeOK, ArgsAreGiven, Locations
<1>3. ASSUME NEW w \in Writers, ReadLatest(w) PROVE TInv'
  BY <1>3 DEF ReadLatest, Goto, TypeOK, ArgsAreGiven, Locations
<1>4. ASSUME NEW w \in Writers, Stamp(w) PROVE TInv'
  <2>1. now \in Nat /\ now' \in 0..MaxStamps /\ now' + Skew[w] \in Nat
    <3>1. now < MaxStamps /\ now' = now + 1
      BY <1>4 DEF Stamp
    <3>2. now \in 0..MaxStamps
      BY DEF TypeOK
    <3>3. Skew[w] \in Nat /\ MaxStamps \in Nat
      BY Clocks
    <3> QED BY <3>1, <3>2, <3>3
  <2> QED BY <1>4, <2>1 DEF Stamp, Goto, TypeOK, ArgsAreGiven, Locations
<1>5. ASSUME NEW w \in Writers, InsertAndCommit(w) PROVE TInv'
  <2>1. args[w].payload \in Payloads /\ stamp[w] \in Nat
    BY <1>5 DEF InsertAndCommit, TypeOK, ArgsAreGiven
  <2>2. projection' \in Tables
    BY <1>5, <2>1, TablesStep DEF InsertAndCommit, TypeOK
  <2>3. PICK i \in Ids : events' = events \cup {NewEvent(w, i)}
    BY <1>5 DEF InsertAndCommit, NewEvent
  <2>4. \A e \in events' : e.id \in Ids /\ e.timestamp \in Nat /\ e.payload \in Payloads
    BY <2>1, <2>3 DEF TypeOK, NewEvent
  <2> QED BY <1>5, <2>2, <2>4, TypesEnd DEF InsertAndCommit
<1>6. ASSUME NEW w \in Writers, Reject(w) \/ Rollback(w) PROVE TInv'
  <2>1. EndTransaction(w) /\ UNCHANGED <<workload, now, events, projection>>
    BY <1>6 DEF Reject, Rollback
  <2> QED BY <2>1, TypesEnd DEF TypeOK
<1>7. CASE UNCHANGED vars
  BY <1>7 DEF vars, TypeOK, ArgsAreGiven
<1> QED BY <1>1, <1>2, <1>3, <1>4, <1>5, <1>6, <1>7 DEF Next

LEMMA Types == Spec => []TInv
BY TypesInitially, TypesStep, PTL DEF Spec

\* Every append leaves the log, the tables, the transactions' own state and the
\* arguments they were called with within their types.
THEOREM TypeCorrect == Spec => []TypeOK
<1>1. TInv => TypeOK
  BY DEF TInv
<1> QED BY <1>1, Types, PTL

(***************************************************************************)
(* An event that is later than all others.                                 *)
(***************************************************************************)
Later(E, n) ==
    /\ \A e \in E : e.timestamp \in Nat /\ e.timestamp < n.timestamp
    /\ n.timestamp \in Nat /\ n.id \in Int

LEMMA LaterIsLast ==
  ASSUME NEW E, NEW n, Later(E, n)
  PROVE  /\ n \notin E
         /\ \A e \in E : Before(e, n) /\ ~Before(n, e)
         /\ ~Before(n, n)
         /\ \A e \in E : {f \in E \cup {n} : Before(f, e)} = {f \in E : Before(f, e)}
         /\ {f \in E \cup {n} : Before(f, n)} = E
         /\ Latest(E \cup {n}) = n
<1>1. n \notin E
  BY DEF Later
<1>2. \A e \in E : Before(e, n) /\ ~Before(n, e)
  BY DEF Later, Before
<1>3. ~Before(n, n)
  BY DEF Later, Before
<1>4. \A e \in E : {f \in E \cup {n} : Before(f, e)} = {f \in E : Before(f, e)}
  BY <1>2
<1>6. Latest(E \cup {n}) = n
  <2>1. \A f \in (E \cup {n}) \ {n} : Before(f, n)
    BY <1>2
  <2>2. ASSUME NEW e \in E \cup {n}, \A f \in (E \cup {n}) \ {e} : Before(f, e) PROVE e = n
    BY <1>2, <2>2
  <2> QED BY <2>1, <2>2 DEF Latest
<1>5. {f \in E \cup {n} : Before(f, n)} = E
  BY <1>2, <1>3
<1> QED BY <1>1, <1>2, <1>3, <1>4, <1>5, <1>6

(***************************************************************************)
(* The order of events under one clock.                                    *)
(***************************************************************************)
LEMMA NewEventIsLater ==
  ASSUME TypeOK, StampsAreNew, NEW w \in Writers, pc[w] = "insert", NEW i \in Ids
  PROVE  Later(events, NewEvent(w, i))
<1>1. /\ NewEvent(w, i).timestamp = stamp[w] /\ stamp[w] \in Nat
      /\ NewEvent(w, i).id = i /\ i \in Int
  BY EventStoreAssumption DEF NewEvent, TypeOK, EventStoreAssumption
<1>2. \A e \in events : e.timestamp \in Nat /\ e.timestamp <= stamp[w] - 1
  BY DEF TypeOK, StampsAreNew, CommittedBefore
<1> QED BY <1>1, <1>2 DEF Later

LEMMA OrderInitially == Init => SInv
<1> SUFFICES ASSUME Init PROVE SInv
  OBVIOUS
<1>1. \A h \in projection.prices : h.effective_at = 0
  BY EventStoreAssumption DEF Init, EventStoreAssumption, SeedAssumption
<1>2. \A w \in Writers : now + Skew[w] \in Nat
  BY Clocks DEF Init
<1>3. events = {} /\ \A w \in Writers : pc[w] = "idle"
  BY DEF Init
<1> QED BY <1>1, <1>2, <1>3
        DEF SInv, LockIsHeld, PastIsPast, CommittedBefore, StampsAreNew, PreviousIsLatest, LatestIsLast

\* Steps that commit nothing.
LEMMA OrderStays ==
  ASSUME SInv, UNCHANGED <<now, events, projection>>,
         \A w \in Writers : pc'[w] = "insert" => pc[w] = "insert" /\ stamp'[w] = stamp[w]
  PROVE  PastIsPast' /\ StampsAreNew' /\ LatestIsLast'
BY DEF SInv, PastIsPast, CommittedBefore, StampsAreNew, LatestIsLast

LEMMA OrderEnds ==
  ASSUME TInv, SInv, NEW w \in Writers, EndTransaction(w)
  PROVE  /\ LockIsHeld'
         /\ \A v \in Writers :
               pc'[v] # "idle" => v # w /\ pc'[v] = pc[v] /\ stamp'[v] = stamp[v] /\ previous'[v] = previous[v]
<1>1. \A v \in Writers :
         pc'[v] # "idle" => v # w /\ pc'[v] = pc[v] /\ stamp'[v] = stamp[v] /\ previous'[v] = previous[v]
  BY DEF EndTransaction, Goto, TInv, TypeOK
<1>2. LockIsHeld'
  <2>1. locked # w => locked' = locked
    BY DEF EndTransaction
  <2> QED BY <1>1, <2>1 DEF SInv, LockIsHeld
<1> QED BY <1>1, <1>2

LEMMA OrderStep ==
  ASSUME ClocksAgree, TInv, SInv, [Next]_vars PROVE SInv'
<1> USE DEF TInv, SInv
<1>1. ASSUME NEW w \in Writers, NEW p \in workload[w], NEW src \in Sources, Begin(w, p, src)
      PROVE  SInv'
  <2>1. LockIsHeld' /\ PreviousIsLatest'
    BY <1>1 DEF Begin, Goto, TypeOK, LockIsHeld, PreviousIsLatest
  <2> QED BY <1>1, <2>1, OrderStays DEF Begin, Goto, TypeOK
<1>2. ASSUME NEW w \in Writers, LockTenant(w) PROVE SInv'
  <2>1. LockIsHeld'
    BY <1>2, Clocks DEF LockTenant, Goto, TypeOK, LockIsHeld
  <2>2. PreviousIsLatest'
    BY <1>2 DEF LockTenant, Goto, TypeOK, PreviousIsLatest
  <2> QED BY <1>2, <2>1, <2>2, OrderStays DEF LockTenant, Goto, TypeOK
<1>3. ASSUME NEW w \in Writers, ReadLatest(w) PROVE SInv'
  <2>1. LockIsHeld' /\ PreviousIsLatest'
    BY <1>3 DEF ReadLatest, Goto, TypeOK, LockIsHeld, PreviousIsLatest
  <2> QED BY <1>3, <2>1, OrderStays DEF ReadLatest, Goto, TypeOK
<1>4. ASSUME NEW w \in Writers, Stamp(w) PROVE SInv'
  <2>1. LockIsHeld' /\ PreviousIsLatest' /\ LatestIsLast'
    BY <1>4 DEF Stamp, Goto, TypeOK, LockIsHeld, PreviousIsLatest, LatestIsLast
  <2>2. /\ now \in Nat /\ now' = now + 1 /\ stamp'[w] = now + 1 + Skew[w]
        /\ \A v \in Writers : Skew[v] \in Nat
        /\ UNCHANGED <<events, projection>>
        /\ \A v \in Writers \ {w} : pc'[v] = pc[v] /\ stamp'[v] = stamp[v]
    <3>1. now \in Nat
      BY DEF TypeOK
    <3>2. /\ now' = now + 1 /\ UNCHANGED <<events, projection>>
          /\ stamp' = [stamp EXCEPT ![w] = now' + Skew[w]]
          /\ pc' = [pc EXCEPT ![w] = "insert"]
      BY <1>4 DEF Stamp, Goto
    <3>3. stamp'[w] = now' + Skew[w]
          /\ \A v \in Writers \ {w} : pc'[v] = pc[v] /\ stamp'[v] = stamp[v]
      BY <3>2 DEF TypeOK
    <3> QED BY <3>1, <3>2, <3>3, Clocks
  <2>3. \A s \in Nat, t \in Nat : s <= t /\ CommittedBefore(s) => CommittedBefore(t)'
    BY <2>2 DEF TypeOK, Tables, CommittedBefore
  <2>4. PastIsPast'
    BY <2>2, <2>3 DEF PastIsPast
  <2>5. StampsAreNew'
    <3> SUFFICES ASSUME NEW v \in Writers, pc'[v] = "insert"
                 PROVE  (stamp[v] - Skew[v])' \in 1..now' /\ CommittedBefore(stamp[v] - 1)'
      BY DEF StampsAreNew
    <3>1. CASE v = w
      BY <2>2, <2>3, <3>1 DEF PastIsPast
    <3>2. CASE v # w
      BY <2>2, <3>2 DEF StampsAreNew, CommittedBefore
    <3> QED BY <3>1, <3>2
  <2> QED BY <2>1, <2>4, <2>5
<1>5. ASSUME NEW w \in Writers, InsertAndCommit(w) PROVE SInv'
  <2>1. /\ pc[w] = "insert" /\ locked = w /\ EndTransaction(w) /\ now' = now
        /\ \A v \in Writers \ {w} : pc[v] \notin {"read", "stamp", "insert"}
        /\ projection' \in ApplyToCurrentState(projection, args[w].payload, stamp[w])
    BY <1>5 DEF InsertAndCommit, LockIsHeld
  <2>2. PICK i \in Ids : events' = events \cup {NewEvent(w, i)}
    BY <1>5 DEF InsertAndCommit, NewEvent
  <2>3. LockIsHeld' /\ \A v \in Writers : pc'[v] \notin {"stamp", "insert"}
    BY <2>1, OrderEnds
  <2>4. /\ now \in Nat /\ stamp[w] \in Nat /\ \A v \in Writers : Skew[v] \in Nat /\ Skew[v] = Skew[w]
        /\ stamp[w] <= now + Skew[w]
    <3>1. now \in Nat /\ stamp[w] \in Nat /\ stamp[w] - Skew[w] \in 1..now
      BY <2>1 DEF TypeOK, StampsAreNew
    <3>2. \A v \in Writers : Skew[v] \in Nat /\ Skew[v] = Skew[w]
      BY Clocks DEF ClocksAgree
    <3> QED BY <3>1, <3>2
  <2>5. PastIsPast'
    <3>1. \A e \in events' : e \in events \/ e.timestamp = stamp[w]
      BY <2>2 DEF NewEvent
    <3>2. args[w].payload \in Payloads
      BY <2>1 DEF ArgsAreGiven
    <3>3. \A h \in projection'.prices : h \in projection.prices \/ h.effective_at = stamp[w]
      <4>1. projection \in Tables
        BY DEF TypeOK
      <4> QED BY <2>1, <2>4, <3>2, <4>1, PricesStep
    <3> QED BY <2>1, <2>4, <3>1, <3>3 DEF PastIsPast, CommittedBefore
  <2>6. LatestIsLast'
    <3>1. Later(events, NewEvent(w, i))
      BY <2>1, NewEventIsLater
    <3> DEFINE n == NewEvent(w, i)
    <3>2. Latest(events') = n
      BY <2>2, <3>1, LaterIsLast
    <3>3. \A e \in events' : e.timestamp <= n.timestamp
      BY <2>2, <3>1 DEF Later
    <3> QED BY <2>2, <3>2, <3>3 DEF LatestIsLast
  <2> QED BY <2>3, <2>5, <2>6 DEF StampsAreNew, PreviousIsLatest
<1>6. ASSUME NEW w \in Writers, Reject(w) \/ Rollback(w) PROVE SInv'
  <2>1. EndTransaction(w) /\ UNCHANGED <<now, events, projection>>
    BY <1>6 DEF Reject, Rollback
  <2>2. PreviousIsLatest'
    BY <2>1, OrderEnds DEF PreviousIsLatest
  <2> QED BY <2>1, <2>2, OrderEnds, OrderStays
<1>7. CASE UNCHANGED vars
  BY <1>7 DEF vars, LockIsHeld, PastIsPast, CommittedBefore, StampsAreNew, PreviousIsLatest, LatestIsLast
<1> QED BY <1>1, <1>2, <1>3, <1>4, <1>5, <1>6, <1>7 DEF Next

\* The order of stamps is the order of commits, if no clock is ahead of another.
LEMMA InOneOrder == ASSUME ClocksAgree PROVE Spec => [](TInv /\ SInv)
<1>1. Init => TInv /\ SInv
  BY TypesInitially, OrderInitially
<1>2. TInv /\ SInv /\ [Next]_vars => (TInv /\ SInv)'
  BY TypesStep, OrderStep
<1> QED BY <1>1, <1>2, PTL DEF Spec

\* What commits, and what does not.
LEMMA Commits ==
  ASSUME TInv, SInv, [Next]_vars
  PROVE  \/ UNCHANGED <<events, projection>>
         \/ \E w \in Writers, i \in Ids :
               /\ pc[w] = "insert" /\ args[w].payload \in Payloads /\ args[w].source \in Sources
               /\ stamp[w] \in Nat /\ CommittedBefore(stamp[w] - 1)
               /\ previous[w] = LatestHash(events)
               /\ Later(events, NewEvent(w, i))
               /\ events' = events \cup {NewEvent(w, i)}
               /\ projection' \in ApplyToCurrentState(projection, args[w].payload, stamp[w])
<1>1. ASSUME NEW w \in Writers, InsertAndCommit(w)
      PROVE  \E i \in Ids :
               /\ pc[w] = "insert" /\ args[w].payload \in Payloads /\ args[w].source \in Sources
               /\ stamp[w] \in Nat /\ CommittedBefore(stamp[w] - 1)
               /\ previous[w] = LatestHash(events)
               /\ Later(events, NewEvent(w, i))
               /\ events' = events \cup {NewEvent(w, i)}
               /\ projection' \in ApplyToCurrentState(projection, args[w].payload, stamp[w])
  <2>1. /\ pc[w] = "insert"
        /\ projection' \in ApplyToCurrentState(projection, args[w].payload, stamp[w])
    BY <1>1 DEF InsertAndCommit
  <2>2. PICK i \in Ids : events' = events \cup {NewEvent(w, i)}
    BY <1>1 DEF InsertAndCommit, NewEvent
  <2>3. /\ args[w].payload \in Payloads /\ args[w].source \in Sources
        /\ stamp[w] \in Nat /\ CommittedBefore(stamp[w] - 1)
        /\ previous[w] = LatestHash(events)
    BY <2>1 DEF TInv, TypeOK, ArgsAreGiven, SInv, StampsAreNew, PreviousIsLatest
  <2>4. Later(events, NewEvent(w, i))
    BY <2>1, NewEventIsLater DEF TInv, SInv
  <2> QED BY <2>1, <2>2, <2>3, <2>4
<1>2. ASSUME NEW w \in Writers, ~InsertAndCommit(w),
             \/ \E p \in workload[w], src \in Sources : Begin(w, p, src)
             \/ LockTenant(w) \/ ReadLatest(w) \/ Stamp(w)
             \/ InsertAndCommit(w) \/ Reject(w) \/ Rollback(w)
      PROVE  UNCHANGED <<events, projection>>
  BY <1>2 DEF Begin, LockTenant, ReadLatest, Stamp, Reject, Rollback
<1> QED BY <1>1, <1>2 DEF Next, vars

(***************************************************************************)
(* The hash chain.                                                         *)
(***************************************************************************)
\* "Hash and previous_hash provide a tamper-evident per-tenant chain": what
\* append_event builds passes verify_chain_integrity, whatever appends run at
\* once, fail or die, when clocks agree and sources carry no padding.
THEOREM ChainIsVerifiable ==
  ASSUME ClocksAgree, Sources \subseteq {"trimmed"}
  PROVE  Spec => []ChainVerifies
<1>1. Init => ChainVerifies
  BY DEF Init, ChainVerifies, VerifyChainIntegrity
<1>2. ASSUME TInv, SInv, ChainVerifies, [Next]_vars PROVE ChainVerifies'
  <2>1. CASE UNCHANGED <<events, projection>>
    BY <1>2, <2>1 DEF ChainVerifies, VerifyChainIntegrity
  <2>2. ASSUME NEW w \in Writers, NEW i \in Ids, args[w].source \in Sources,
               previous[w] = LatestHash(events), Later(events, NewEvent(w, i)),
               events' = events \cup {NewEvent(w, i)}
        PROVE  ChainVerifies'
    <3> DEFINE n == NewEvent(w, i)
    <3>1. n.previous_hash = LatestHash(events)
      BY <2>2 DEF NewEvent
    <3>2. n.hash = ComputeHash(n.previous_hash, n.payload, n.timestamp, n.source)
      BY <2>2 DEF NewEvent, Strip
    <3>5. events' = events \cup {n} /\ Later(events, n)
      BY <2>2
    <3> HIDE DEF n
    <3>3. /\ \A e \in events : {f \in events' : Before(f, e)} = {f \in events : Before(f, e)}
          /\ {f \in events' : Before(f, n)} = events
      <4>1. /\ \A e \in events : {f \in events \cup {n} : Before(f, e)} = {f \in events : Before(f, e)}
            /\ {f \in events \cup {n} : Before(f, n)} = events
        BY <3>5, LaterIsLast
      <4> QED BY <3>5, <4>1
    <3>4. \A e \in events :
            /\ e.previous_hash = LatestHash({f \in events' : Before(f, e)})
            /\ e.hash = ComputeHash(e.previous_hash, e.payload, e.timestamp, e.source)
      BY <1>2, <3>3 DEF ChainVerifies, VerifyChainIntegrity
    <3>6. VerifyChainIntegrity'
      BY <3>1, <3>2, <3>3, <3>4, <3>5 DEF VerifyChainIntegrity
    <3> QED BY <3>6 DEF ChainVerifies
  <2> QED BY <1>2, <2>1, <2>2, Commits
<1> QED BY <1>1, <1>2, InOneOrder, PTL DEF Spec

(***************************************************************************)
(* Facts kept in two tables.                                               *)
(***************************************************************************)
\* After any mix of accepted, refused and rolled back events the inventory row
\* is the older stock field, and the current cost of an ingredient the newest
\* entry in the price history of its SKUs.
THEOREM TablesAgree == ASSUME ClocksAgree PROVE Spec => []ProjectionsAgree
<1>1. Init => ProjectionsAgree
  BY EventStoreAssumption DEF Init, ProjectionsAgree, EventStoreAssumption, SeedAssumption
<1>2. ASSUME TInv, SInv, ProjectionsAgree, [Next]_vars PROVE ProjectionsAgree'
  <2>1. CASE UNCHANGED <<events, projection>>
    BY <1>2, <2>1 DEF ProjectionsAgree, StockAgrees, CostAgrees
  <2>2. ASSUME NEW w \in Writers, args[w].payload \in Payloads, stamp[w] \in Nat,
               CommittedBefore(stamp[w] - 1),
               projection' \in ApplyToCurrentState(projection, args[w].payload, stamp[w])
        PROVE  ProjectionsAgree'
    <3>1. projection \in Tables /\ StockAgrees(projection) /\ CostAgrees(projection)
      BY <1>2 DEF TInv, TypeOK, ProjectionsAgree
    <3>2. \A h \in projection.prices : h.effective_at < stamp[w]
      BY <2>2, <3>1 DEF CommittedBefore, Tables
    <3>3. StockAgrees(projection')
      BY <2>2, <3>1, TablesStep
    <3>4. CostAgrees(projection')
      BY <2>2, <3>1, <3>2, CostAgreement
    <3> QED BY <3>3, <3>4 DEF ProjectionsAgree, StockAgrees, CostAgrees
  <2> QED BY <1>2, <2>1, <2>2, Commits
<1> QED BY <1>1, <1>2, InOneOrder, PTL DEF Spec

(***************************************************************************)
(* The history.                                                            *)
(***************************************************************************)
\* The event n takes the next position and leaves the others where they are.
GrownAtTheEnd(E, n) ==
    /\ Cardinality(E) \in Nat
    /\ Cardinality(E \cup {n}) = Cardinality(E) + 1
    /\ \A i \in 1..Cardinality(E) :
          InOrder(E)[i] \in E /\ InOrder(E \cup {n})[i] = InOrder(E)[i]
    /\ InOrder(E \cup {n})[Cardinality(E) + 1] = n

\* A later event does.
LEMMA RankedGrows ==
  ASSUME NEW E, NEW n, Ranked(E), Later(E, n)
  PROVE  Ranked(E \cup {n}) /\ GrownAtTheEnd(E, n)
<1> DEFINE F == E \cup {n}
           k == Cardinality(E)
<1>1. k \in Nat /\ n \notin E /\ IsFiniteSet(F) /\ Cardinality(F) = k + 1
  BY LaterIsLast, FS_CardinalityType, FS_AddElement DEF Ranked
<1>2. \A e \in E : Rank(F, e) = Rank(E, e)
  <2>1. \A e \in E : {f \in F : Before(f, e)} = {f \in E : Before(f, e)}
    BY LaterIsLast
  <2> QED BY <2>1, Zenon DEF Rank
<1>3. Rank(F, n) = k
  BY LaterIsLast DEF Rank
<1>4. /\ \A e \in E : Rank(E, e) \in 0..k - 1
      /\ \A i \in 1..k : \E e \in E : Rank(E, e) = i - 1
      /\ \A e, f \in E : Rank(E, e) = Rank(E, f) => e = f
  BY DEF Ranked
<1> HIDE DEF k
<1>5. /\ \A e \in F : Rank(F, e) \in 0..k
      /\ \A i \in 1..k + 1 : \E e \in F : Rank(F, e) = i - 1
      /\ \A e, f \in F : Rank(F, e) = Rank(F, f) => e = f
  <2>1. \A e \in F : Rank(F, e) \in 0..k
    BY <1>1, <1>2, <1>3, <1>4
  <2>2. ASSUME NEW i \in 1..k + 1 PROVE \E e \in F : Rank(F, e) = i - 1
    <3>1. CASE i = k + 1
      BY <1>1, <1>3, <3>1
    <3>2. CASE i # k + 1
      <4>1. i \in 1..k
        BY <1>1, <3>2
      <4> QED BY <1>2, <1>4, <4>1
    <3> QED BY <3>1, <3>2
  <2>3. ASSUME NEW e \in F, NEW f \in F, Rank(F, e) = Rank(F, f) PROVE e = f
    <3>1. \A g \in E : Rank(F, g) # k
      BY <1>1, <1>2, <1>4
    <3>2. CASE e \in E /\ f \in E
      BY <1>2, <1>4, <2>3, <3>2
    <3>3. CASE e = n \/ f = n
      BY <1>3, <2>3, <3>1, <3>3
    <3> QED BY <3>2, <3>3
  <2> QED BY <2>1, <2>2, <2>3
<1>6. Ranked(F)
  BY <1>1, <1>5 DEF Ranked
<1>7. ASSUME NEW i \in 1..k PROVE InOrder(E)[i] \in E /\ InOrder(F)[i] = InOrder(E)[i]
  <2>1. PICK e \in E : Rank(E, e) = i - 1
    BY <1>4
  <2>2. InOrder(E)[i] = CHOOSE f \in E : Rank(E, f) = i - 1
    BY DEF InOrder, Rank, k
  <2>3. InOrder(E)[i] = e
    BY <1>4, <2>1, <2>2
  <2>4. i \in 1..k + 1
    BY <1>1
  <2>5. InOrder(F)[i] = CHOOSE f \in F : Rank(F, f) = i - 1
    BY <1>1, <2>4 DEF InOrder, Rank
  <2>6. e \in F /\ Rank(F, e) = i - 1
    BY <1>2, <2>1
  <2>7. InOrder(F)[i] = e
    BY <1>5, <2>5, <2>6
  <2> QED BY <2>3, <2>7
<1>8. InOrder(F)[k + 1] = n
  <2>1. k + 1 \in 1..k + 1 /\ (k + 1) - 1 = k
    BY <1>1
  <2>2. InOrder(F)[k + 1] = CHOOSE f \in F : Rank(F, f) = (k + 1) - 1
    BY <1>1, <2>1 DEF InOrder, Rank
  <2>3. n \in F /\ Rank(F, n) = (k + 1) - 1
    BY <1>3, <2>1
  <2> QED BY <1>5, <2>2, <2>3
<1> QED BY <1>1, <1>6, <1>7, <1>8 DEF k, GrownAtTheEnd

LEMMA RankedInitially == Ranked({})
BY FS_EmptySet DEF Ranked

LEMMA RankedStep ==
  ASSUME TInv, SInv, Ranked(events), [Next]_vars PROVE Ranked(events)'
<1>1. CASE UNCHANGED <<events, projection>>
  BY <1>1 DEF Ranked, Rank, Before
<1>2. ASSUME NEW n, Later(events, n), events' = events \cup {n} PROVE Ranked(events)'
  <2>1. Ranked(events \cup {n})
    BY <1>2, RankedGrows
  <2>2. Ranked(events')
    BY <1>2, <2>1
  <2> QED BY <2>2 DEF Ranked, Rank, Before
<1> QED BY <1>1, <1>2, Commits

LEMMA RankedOrder == ASSUME ClocksAgree PROVE Spec => [](TInv /\ SInv /\ Ranked(events))
<1>1. Init => Ranked(events)
  BY RankedInitially DEF Init
<1>2. TInv /\ SInv /\ Ranked(events) /\ [Next]_vars => Ranked(events)'
  BY RankedStep
<1> QED BY <1>1, <1>2, InOneOrder, PTL DEF Spec

\* The log of EventLog that a set of events stands for.
LogOf(E) == [i \in 1..Cardinality(E) |-> Told(InOrder(E)[i])]

LEMMA LogGrows ==
  ASSUME NEW E, NEW n, Ranked(E), Later(E, n)
  PROVE  /\ LogOf(E \cup {n}) = Append(LogOf(E), Told(n))
         /\ LogOf(E) # <<>> => LogOf(E)[Len(LogOf(E))].timestamp < n.timestamp
<1>0. GrownAtTheEnd(E, n)
  BY RankedGrows
<1> DEFINE k == Cardinality(E)
           F == E \cup {n}
           log == LogOf(E)
           S == {Told(e) : e \in F}
<1>1. /\ k \in Nat /\ Cardinality(F) = k + 1
      /\ \A i \in 1..k : InOrder(E)[i] \in E /\ InOrder(F)[i] = InOrder(E)[i]
      /\ InOrder(F)[k + 1] = n
  BY <1>0, Zenon DEF GrownAtTheEnd
<1>2. log = [i \in 1..k |-> Told(InOrder(E)[i])]
  BY DEF LogOf
<1>3. LogOf(F) = [i \in 1..k + 1 |-> Told(InOrder(F)[i])]
  BY <1>1 DEF LogOf
<1>4. Told(n) \in S /\ \A i \in 1..k : Told(InOrder(E)[i]) \in S
  BY <1>1
<1> HIDE DEF k, F, log, S
<1>5. log \in Seq(S) /\ Len(log) = k /\ \A i \in 1..k : log[i] = Told(InOrder(E)[i])
  BY <1>1, <1>2, <1>4
<1>6. /\ Append(log, Told(n)) \in Seq(S) /\ Len(Append(log, Told(n))) = k + 1
      /\ \A i \in 1..k : Append(log, Told(n))[i] = log[i]
      /\ Append(log, Told(n))[k + 1] = Told(n)
  BY <1>4, <1>5, AppendProperties
<1>7. \A i \in 1..k + 1 : Told(InOrder(F)[i]) = Append(log, Told(n))[i]
  <2> TAKE i \in 1..k + 1
  <2>1. CASE i = k + 1
    BY <1>1, <1>6, <2>1
  <2>2. CASE i \in 1..k
    BY <1>1, <1>5, <1>6, <2>2
  <2>3. k \in Nat
    BY <1>1
  <2>4. i = k + 1 \/ i \in 1..k
    BY <2>3
  <2> QED BY <2>1, <2>2, <2>4
<1>8. Append(log, Told(n)) = [i \in 1..k + 1 |-> Append(log, Told(n))[i]]
  <2>1. Append(log, Told(n)) \in [1..k + 1 -> S]
    BY <1>6, LenProperties
  <2> QED BY <2>1
<1>9. LogOf(F) = Append(log, Told(n))
  BY <1>3, <1>7, <1>8, Zenon
<1>10. ASSUME log # <<>> PROVE log[Len(log)].timestamp < n.timestamp
  <2>1. k # 0
    BY <1>1, <1>5, <1>10
  <2>2. log[k] = Told(InOrder(E)[k]) /\ InOrder(E)[k] \in E
    BY <1>1, <1>5, <2>1
  <2>3. log[k].timestamp = InOrder(E)[k].timestamp
    BY <2>2 DEF Told
  <2> QED BY <1>5, <2>2, <2>3 DEF Later
<1> QED BY <1>9, <1>10 DEF F, log

\* The transactions of append_event implement EventLog for any number of
\* writers: a commit appends its event at the end of the history and changes the
\* tables by it once; everything else, failed appends included, changes neither.
THEOREM Refinement == ASSUME ClocksAgree PROVE Spec => ImplementsLog
<1>1. Init => History!Init
  <2>1. LogOf({}) = <<>>
    BY FS_EmptySet DEF LogOf
  <2> QED BY <2>1 DEF Init, History!Init, LogOf
<1>2. ASSUME TInv, SInv, Ranked(events), [Next]_vars PROVE [History!Next]_(History!vars)
  <2>1. CASE UNCHANGED <<events, projection>>
    BY <2>1 DEF History!vars, InOrder, Before, Told
  <2>2. ASSUME NEW w \in Writers, NEW i \in Ids, pc[w] = "insert", args[w].payload \in Payloads,
               stamp[w] \in Nat, Later(events, NewEvent(w, i)),
               events' = events \cup {NewEvent(w, i)},
               projection' \in ApplyToCurrentState(projection, args[w].payload, stamp[w])
        PROVE  History!Next
    <3> DEFINE n == NewEvent(w, i)
               p == args[w].payload
               at == stamp[w]
    <3>1. Told(n) = [payload |-> p, timestamp |-> at] /\ n.timestamp = at
      BY DEF Told, NewEvent
    <3>2. at \in {m + Skew[v] : m \in 1..MaxStamps, v \in Writers}
      <4>1. at - Skew[w] \in 1..now /\ now \in 0..MaxStamps
        BY <1>2, <2>2 DEF SInv, StampsAreNew, TInv, TypeOK
      <4>2. Skew[w] \in Nat /\ MaxStamps \in Nat
        BY Clocks
      <4>3. at - Skew[w] \in 1..MaxStamps /\ at = (at - Skew[w]) + Skew[w]
        BY <2>2, <4>1, <4>2
      <4> QED BY <4>3
    <3>3. /\ LogOf(events \cup {n}) = Append(LogOf(events), Told(n))
          /\ LogOf(events) # <<>> => LogOf(events)[Len(LogOf(events))].timestamp < n.timestamp
      BY <1>2, <2>2, LogGrows
    <3>4. events' = events \cup {n}
      BY <2>2
    <3> HIDE DEF n
    <3>5. LogOf(events)' = Append(LogOf(events), [payload |-> p, timestamp |-> at])
      <4>1. LogOf(events)' = LogOf(events')
        BY DEF LogOf, InOrder, Before, Told
      <4> QED BY <3>1, <3>3, <3>4, <4>1
    <3>6. LogOf(events) # <<>> => LogOf(events)[Len(LogOf(events))].timestamp < at
      BY <3>1, <3>3
    <3>7. History!AppendEvent(p, at)
      BY <2>2, <3>5, <3>6 DEF History!AppendEvent, LogOf
    <3> QED BY <2>2, <3>2, <3>7 DEF History!Next
  <2> QED BY <1>2, <2>1, <2>2, Commits
<1> QED BY <1>1, <1>2, RankedOrder, PTL DEF Spec, ImplementsLog, History!Spec

(***************************************************************************)
(* The replay.                                                             *)
(***************************************************************************)
\* The state after all events of E.
StateAfter(E) == (CHOOSE g : Replays(E, g))[Cardinality(E)]

LEMMA Reconstruction ==
  ASSUME NEW t
  PROVE  ReconstructStateAt(t) = StateAfter(EventsUpTo(t))
BY DEF ReconstructStateAt, StateAfter, Replays

LEMMA ReplayInitially == Replayable({}) /\ StateAfter({}) = Unknown
<1> DEFINE g == [n \in 0..0 |-> Unknown]
<1>1. Cardinality({}) = 0
  BY FS_EmptySet
<1>2. \A h : Replays({}, h) <=> h = g
  <2>1. ASSUME NEW h
        PROVE  [n \in 0..0 |-> IF n = 0 THEN Unknown ELSE ReplayEvent(h[n - 1], InOrder({})[n])] = g
    <3>1. \A n \in 0..0 : n = 0
      OBVIOUS
    <3> QED BY <3>1
  <2> QED BY <1>1, <2>1 DEF Replays
<1> HIDE DEF g
<1>3. Replayable({})
  BY <1>2 DEF Replayable
<1>4. (CHOOSE h : Replays({}, h)) = g
  BY <1>2
<1>5. g[0] = Unknown
  BY DEF g
<1> QED BY <1>1, <1>3, <1>4, <1>5 DEF StateAfter

\* A later event is replayed last.
LEMMA ReplayGrows ==
  ASSUME NEW E, NEW n, Ranked(E), Later(E, n), Replayable(E)
  PROVE  /\ Replayable(E \cup {n})
         /\ StateAfter(E \cup {n}) = ReplayEvent(StateAfter(E), n)
<1>0. GrownAtTheEnd(E, n)
  BY RankedGrows
<1> DEFINE F == E \cup {n}
           k == Cardinality(E)
<1>1. k \in Nat /\ Cardinality(F) = k + 1
  BY <1>0, Zenon DEF GrownAtTheEnd
<1>2. /\ \A i \in 1..k : InOrder(F)[i] = InOrder(E)[i]
      /\ InOrder(F)[k + 1] = n
  BY <1>0, Zenon DEF GrownAtTheEnd
<1>3. PICK g : Replays(E, g) /\ \A h : Replays(E, h) => h = g
  BY DEF Replayable
<1>4. StateAfter(E) = g[k]
  BY <1>3 DEF StateAfter
<1> DEFINE gg == [m \in 0..k + 1 |-> IF m = k + 1 THEN ReplayEvent(g[k], n) ELSE g[m]]
<1>5. g = [m \in 0..k |-> IF m = 0 THEN Unknown ELSE ReplayEvent(g[m - 1], InOrder(E)[m])]
  BY <1>3 DEF Replays
<1>6. \A h : Replays(F, h) <=>
         h = [m \in 0..k + 1 |-> IF m = 0 THEN Unknown ELSE ReplayEvent(h[m - 1], InOrder(F)[m])]
  BY <1>1 DEF Replays
<1> HIDE DEF F, k
<1>7. Replays(F, gg)
  <2>1. ASSUME NEW m \in 0..k + 1
        PROVE  gg[m] = IF m = 0 THEN Unknown ELSE ReplayEvent(gg[m - 1], InOrder(F)[m])
    <3>1. CASE m = 0
      <4>1. 0 \in 0..k /\ 0 # k + 1 /\ 0 \in 0..k + 1
        BY <1>1
      <4>2. g[0] = Unknown
        BY <1>5, <4>1
      <4> QED BY <3>1, <4>1, <4>2
    <3>2. CASE m = k + 1
      <4>1. k \in 0..k + 1 /\ k # k + 1 /\ m # 0 /\ m - 1 = k
        BY <1>1, <3>2
      <4>2. gg[m] = ReplayEvent(g[k], n) /\ gg[k] = g[k]
        BY <3>2, <4>1
      <4> HIDE DEF gg
      <4> QED BY <1>2, <3>2, <4>1, <4>2
    <3>3. CASE m \in 1..k
      <4>1. /\ m \in 0..k /\ m - 1 \in 0..k + 1 /\ m # 0 /\ m # k + 1 /\ m - 1 # k + 1
        BY <1>1, <3>3
      <4>2. gg[m] = g[m] /\ gg[m - 1] = g[m - 1]
        BY <4>1
      <4>3. g[m] = ReplayEvent(g[m - 1], InOrder(E)[m])
        BY <1>5, <4>1
      <4> HIDE DEF gg
      <4> QED BY <1>2, <3>3, <4>1, <4>2, <4>3
    <3>4. m = 0 \/ m = k + 1 \/ m \in 1..k
      BY <1>1
    <3> QED BY <3>1, <3>2, <3>3, <3>4
  <2>2. gg = [m \in 0..k + 1 |-> gg[m]]
    OBVIOUS
  <2> HIDE DEF gg
  <2>3. gg = [m \in 0..k + 1 |-> IF m = 0 THEN Unknown ELSE ReplayEvent(gg[m - 1], InOrder(F)[m])]
    BY <2>1, <2>2, Zenon
  <2> QED BY <1>6, <2>3
<1>8. ASSUME NEW h, Replays(F, h) PROVE h = gg
  <2>1. h = [m \in 0..k + 1 |-> IF m = 0 THEN Unknown ELSE ReplayEvent(h[m - 1], InOrder(F)[m])]
    BY <1>6, <1>8
  <2> DEFINE hh == [m \in 0..k |-> h[m]]
  <2>2. ASSUME NEW m \in 0..k
        PROVE  hh[m] = IF m = 0 THEN Unknown ELSE ReplayEvent(hh[m - 1], InOrder(E)[m])
    <3>1. m \in 0..k + 1 /\ (m # 0 => m - 1 \in 0..k /\ m \in 1..k)
      BY <1>1
    <3>2. hh[m] = h[m] /\ (m # 0 => hh[m - 1] = h[m - 1])
      BY <3>1
    <3>3. h[m] = IF m = 0 THEN Unknown ELSE ReplayEvent(h[m - 1], InOrder(F)[m])
      BY <2>1, <3>1
    <3> HIDE DEF hh
    <3> QED BY <1>2, <3>1, <3>2, <3>3
  <2>3. hh = [m \in 0..k |-> hh[m]]
    OBVIOUS
  <2>4. \A m \in 0..k : hh[m] = h[m]
    OBVIOUS
  <2> HIDE DEF hh
  <2>5. hh = [m \in 0..k |-> IF m = 0 THEN Unknown ELSE ReplayEvent(hh[m - 1], InOrder(E)[m])]
    BY <2>2, <2>3, Zenon
  <2>6. hh = g
    BY <1>3, <2>5 DEF Replays, k
  <2>7. ASSUME NEW m \in 0..k + 1 PROVE h[m] = gg[m]
    <3>1. CASE m = k + 1
      <4>1. m - 1 = k /\ m # 0 /\ k \in 0..k
        BY <1>1, <3>1
      <4>2. h[m] = ReplayEvent(h[m - 1], InOrder(F)[m])
        BY <2>1, <4>1
      <4>3. h[k] = g[k]
        BY <2>4, <2>6, <4>1
      <4>4. gg[m] = ReplayEvent(g[k], n)
        BY <3>1
      <4> QED BY <1>2, <3>1, <4>1, <4>2, <4>3, <4>4
    <3>2. CASE m \in 0..k
      <4>1. m # k + 1
        BY <1>1, <3>2
      <4> QED BY <2>4, <2>6, <3>2, <4>1
    <3>3. m = k + 1 \/ m \in 0..k
      BY <1>1
    <3> QED BY <3>1, <3>2, <3>3
  <2>8. h = [m \in 0..k + 1 |-> h[m]]
    BY <2>1
  <2>9. gg = [m \in 0..k + 1 |-> gg[m]]
    OBVIOUS
  <2> HIDE DEF gg
  <2> QED BY <2>7, <2>8, <2>9, Zenon
<1>9. gg[k + 1] = ReplayEvent(g[k], n)
  BY <1>1
<1> HIDE DEF gg
<1>10. Replayable(F)
  BY <1>7, <1>8 DEF Replayable
<1>11. StateAfter(F) = gg[k + 1]
  <2>1. (CHOOSE h : Replays(F, h)) = gg
    BY <1>7, <1>8
  <2> QED BY <1>1, <2>1 DEF StateAfter
<1> QED BY <1>4, <1>9, <1>10, <1>11 DEF F

\* What a replay can give.
Reconstructions ==
    [cost: [Ingredients -> Int \cup {None}], supplier: [Ingredients -> Suppliers \cup {None}],
     stock: [Ingredients -> Int \cup {None}],
     price: [MenuItems -> Int \cup {None}], active: [MenuItems -> BOOLEAN \cup {None}],
     staffing: [Slots -> Int \cup {None}],
     waste: SUBSET [ingredient: Ingredients, quantity: Int, recorded_at: Nat],
     orders: SUBSET [item: MenuItems, quantity: Int, ordered_at: Nat],
     invoices: SUBSET [number: Int, sku: Skus, invoice_date: Nat]]

\* The parts of ReplayAgrees, for any tables s and reconstruction r.
SupplyReplayed(r, s) ==
    /\ \A i \in Ingredients :
          s.cost[i] = IF r.cost[i] = None THEN InitialProjection.cost[i] ELSE r.cost[i]
    /\ \A i \in Ingredients :
          s.supplier[i] = IF r.supplier[i] = None THEN InitialProjection.supplier[i] ELSE r.supplier[i]

MenuReplayed(r, s) ==
    \A m \in MenuItems :
        /\ r.price[m] # None => r.price[m] = s.menu[m].price
        /\ r.active[m] = FALSE => ~s.menu[m].active

RecordsReplayed(r, s) ==
    /\ s.waste = InitialProjection.waste \cup r.waste
    /\ s.orders = InitialProjection.orders \cup r.orders
    /\ s.invoices = InitialProjection.invoices \cup r.invoices

\* A payload that puts the absolute level of i on record.
TellsLevel(p, i) ==
    /\ p.on = i
    /\ \/ p.type \in {"stockout", "restock"}
       \/ p.type = "inventory_adjustment" /\ p.with = "level"

\* One event takes the stock from s to t and its replay from r to q.
StockFollows(r, q, s, t, p) ==
    \A i \in Ingredients :
        /\ TellsLevel(p, i) => q.stock[i] = t.stock[i]
        /\ r.stock[i] = s.stock[i] => q.stock[i] = t.stock[i]
        /\ q.stock[i] = None => r.stock[i] = None /\ t.stock[i] = s.stock[i]

Follows(r, q, s, t, p) ==
    /\ q \in Reconstructions
    /\ SupplyReplayed(r, s) => SupplyReplayed(q, t)
    /\ StockFollows(r, q, s, t, p)
    /\ MenuReplayed(r, s) => MenuReplayed(q, t)
    /\ RecordsReplayed(r, s) => RecordsReplayed(q, t)

\* Groups of a reconstruction that an event leaves alone.
SameSupplyTold(r, q) == q.cost = r.cost /\ q.supplier = r.supplier
SameMenuTold(r, q) == q.price = r.price /\ q.active = r.active
SameRecordsTold(r, q) == q.waste = r.waste /\ q.orders = r.orders /\ q.invoices = r.invoices

LEMMA StockUntouched ==
  ASSUME NEW r \in Reconstructions, NEW q, NEW s, NEW t, NEW p,
         q.stock = r.stock, SameStock(s, t), \A i \in Ingredients : ~TellsLevel(p, i)
  PROVE  StockFollows(r, q, s, t, p)
BY DEF StockFollows, SameStock

LEMMA NoneIsNone == None \notin Int /\ None \notin Suppliers /\ None \notin BOOLEAN
BY EventStoreAssumption DEF EventStoreAssumption

LEMMA PayloadTypes ==
  ASSUME NEW p \in Payloads
  PROVE  /\ p.type \in EventTypes /\ p.n \in Int
         /\ p.type = "inventory_adjustment" => p.with \in {"level", "delta"}
BY EventStoreAssumption DEF EventStoreAssumption, PayloadAssumption

LEMMA PriceReplayed ==
  ASSUME NEW s \in Tables, NEW r \in Reconstructions, NEW e, e.payload \in Payloads,
         e.timestamp \in Nat, e.payload.type = "supplier_price_change",
         NEW t \in ApplyToCurrentState(s, e.payload, e.timestamp)
  PROVE  Follows(r, ReplayEvent(r, e), s, t, e.payload)
<1> DEFINE p == e.payload
           at == e.timestamp
           q == ReplayEvent(r, e)
           i == SkuIngredient[p.on]
<1>1. t \in ApplySupplierPriceChange(s, p, at)
  BY DEF ApplyToCurrentState
<1>2. /\ t \in Tables /\ SameStock(s, t) /\ SameRecords(s, t) /\ t.menu = s.menu
      /\ t.supplier = s.supplier /\ p.on \in Skus /\ p.n \in Nat
      /\ t.cost = [s.cost EXCEPT ![i] = p.n]
  BY <1>1, PriceChange
<1>3. i \in Ingredients
  BY <1>2, EventStoreAssumption DEF EventStoreAssumption
<1>4. q = [r EXCEPT !.cost = [@ EXCEPT ![i] = p.n]]
  BY DEF ReplayEvent, ReplaySupply
<1> HIDE DEF q, i
<1>5. /\ q \in Reconstructions /\ q.cost = [r.cost EXCEPT ![i] = p.n] /\ q.supplier = r.supplier
      /\ q.stock = r.stock /\ SameMenuTold(r, q) /\ SameRecordsTold(r, q)
  BY <1>2, <1>3, <1>4 DEF Reconstructions, SameMenuTold, SameRecordsTold
<1>6. SupplyReplayed(r, s) => SupplyReplayed(q, t)
  BY <1>2, <1>3, <1>5, NoneIsNone DEF SupplyReplayed, Tables, Reconstructions
<1>7. StockFollows(r, q, s, t, p)
  BY <1>2, <1>5, StockUntouched DEF TellsLevel
<1>8. MenuReplayed(r, s) => MenuReplayed(q, t)
  BY <1>2, <1>5 DEF MenuReplayed, SameMenuTold
<1>9. RecordsReplayed(r, s) => RecordsReplayed(q, t)
  BY <1>2, <1>5 DEF RecordsReplayed, SameRecords, SameRecordsTold
<1> QED BY <1>5, <1>6, <1>7, <1>8, <1>9 DEF Follows, q

LEMMA SwitchReplayed ==
  ASSUME NEW s \in Tables, StockAgrees(s), NEW r \in Reconstructions, NEW e, e.payload \in Payloads,
         e.timestamp \in Nat, e.payload.type = "supplier_switch",
         NEW t \in ApplyToCurrentState(s, e.payload, e.timestamp)
  PROVE  Follows(r, ReplayEvent(r, e), s, t, e.payload)
<1> DEFINE p == e.payload
           at == e.timestamp
           q == ReplayEvent(r, e)
<1>1. t \in ApplySupplierSwitch(s, p)
  BY DEF ApplyToCurrentState
<1>2. /\ t \in Tables /\ SameStock(s, t) /\ SameRecords(s, t) /\ t.menu = s.menu
      /\ t.cost = s.cost /\ p.on \in Ingredients /\ p.with \in Suppliers
      /\ t.supplier = [s.supplier EXCEPT ![p.on] = p.with]
  BY <1>1, SupplierSwitch
<1>4. q = [r EXCEPT !.supplier = [@ EXCEPT ![p.on] = p.with]]
  BY DEF ReplayEvent, ReplaySupply
<1> HIDE DEF q
<1>5. /\ q \in Reconstructions /\ q.supplier = [r.supplier EXCEPT ![p.on] = p.with] /\ q.cost = r.cost
      /\ q.stock = r.stock /\ SameMenuTold(r, q) /\ SameRecordsTold(r, q)
  BY <1>2, <1>4 DEF Reconstructions, SameMenuTold, SameRecordsTold
<1>6. SupplyReplayed(r, s) => SupplyReplayed(q, t)
  BY <1>2, <1>5, NoneIsNone DEF SupplyReplayed, Tables, Reconstructions
<1>7. StockFollows(r, q, s, t, p)
  BY <1>2, <1>5, StockUntouched DEF TellsLevel
<1>8. MenuReplayed(r, s) => MenuReplayed(q, t)
  BY <1>2, <1>5 DEF MenuReplayed, SameMenuTold
<1>9. RecordsReplayed(r, s) => RecordsReplayed(q, t)
  BY <1>2, <1>5 DEF RecordsReplayed, SameRecords, SameRecordsTold
<1> QED BY <1>5, <1>6, <1>7, <1>8, <1>9 DEF Follows, q

LEMMA LevelReplayed ==
  ASSUME NEW s \in Tables, StockAgrees(s), NEW r \in Reconstructions, NEW e, e.payload \in Payloads,
         e.timestamp \in Nat, e.payload.type \in {"stockout", "restock", "inventory_adjustment"},
         NEW t \in ApplyToCurrentState(s, e.payload, e.timestamp)
  PROVE  Follows(r, ReplayEvent(r, e), s, t, e.payload)
<1> DEFINE p == e.payload
           at == e.timestamp
           q == ReplayEvent(r, e)
<1>1. PICK n \in Nat :
         /\ p.on \in Ingredients /\ t \in Tables
         /\ p.type = "stockout" => n = 0
         /\ p.type = "restock" => n = p.n
         /\ p.type = "inventory_adjustment" =>
               n = IF p.with = "level" THEN p.n ELSE CurrentQuantity(s, p.on) + p.n
         /\ t.level = [s.level EXCEPT ![p.on] = n] /\ t.stock = [s.stock EXCEPT ![p.on] = n]
         /\ SameSupply(s, t) /\ SameRecords(s, t) /\ t.menu = s.menu
  BY Absolute
<1>2. p.n \in Int /\ (p.type = "inventory_adjustment" => p.with \in {"level", "delta"})
  BY PayloadTypes
<1>3. CurrentQuantity(s, p.on) = s.stock[p.on] /\ s.stock[p.on] \in Nat
  BY <1>1, Current DEF Tables
<1> DEFINE delta == p.type = "inventory_adjustment" /\ p.with = "delta"
           k == IF delta THEN Known(r.stock[p.on]) + p.n ELSE n
<1>4. q = [r EXCEPT !.stock = [@ EXCEPT ![p.on] = k]]
  <2>1. CASE p.type = "stockout"
    BY <1>1, <2>1 DEF ReplayEvent, ReplayInventory
  <2>2. CASE p.type = "restock"
    BY <1>1, <2>2 DEF ReplayEvent, ReplayInventory
  <2>3. CASE p.type = "inventory_adjustment" /\ p.with = "level"
    BY <1>1, <2>3 DEF ReplayEvent, ReplayInventory
  <2>4. CASE p.type = "inventory_adjustment" /\ p.with = "delta"
    BY <1>1, <2>4 DEF ReplayEvent, ReplayInventory
  <2> QED BY <1>2, <2>1, <2>2, <2>3, <2>4
<1>5. k \in Int /\ (r.stock[p.on] = s.stock[p.on] => k = n) /\ (~delta => k = n)
  <2>1. r.stock[p.on] \in Int \cup {None}
    BY <1>1 DEF Reconstructions
  <2>2. Known(r.stock[p.on]) \in Int
    BY <2>1 DEF Known
  <2>3. ASSUME delta, r.stock[p.on] = s.stock[p.on] PROVE k = n
    <3>1. Known(r.stock[p.on]) = s.stock[p.on]
      BY <1>3, <2>3, NoneIsNone DEF Known
    <3> QED BY <1>1, <1>3, <2>3, <3>1
  <2> QED BY <1>1, <1>2, <2>2, <2>3
<1>6. \A i \in Ingredients : TellsLevel(p, i) => i = p.on /\ ~delta
  BY DEF TellsLevel
<1> HIDE DEF q, k, delta
<1>7. /\ q \in Reconstructions /\ q.stock = [r.stock EXCEPT ![p.on] = k]
      /\ SameSupplyTold(r, q) /\ SameMenuTold(r, q) /\ SameRecordsTold(r, q)
  BY <1>1, <1>4, <1>5 DEF Reconstructions, SameSupplyTold, SameMenuTold, SameRecordsTold
<1>8. StockFollows(r, q, s, t, p)
  <2>1. r.stock \in [Ingredients -> Int \cup {None}] /\ s.stock \in [Ingredients -> Nat]
    BY DEF Reconstructions, Tables
  <2> QED BY <1>1, <1>5, <1>6, <1>7, <2>1, NoneIsNone DEF StockFollows
<1>9. SupplyReplayed(r, s) => SupplyReplayed(q, t)
  BY <1>1, <1>7 DEF SupplyReplayed, SameSupply, SameSupplyTold
<1>10. MenuReplayed(r, s) => MenuReplayed(q, t)
  BY <1>1, <1>7 DEF MenuReplayed, SameMenuTold
<1>11. RecordsReplayed(r, s) => RecordsReplayed(q, t)
  BY <1>1, <1>7 DEF RecordsReplayed, SameRecords, SameRecordsTold
<1> QED BY <1>7, <1>8, <1>9, <1>10, <1>11 DEF Follows, q

LEMMA WasteReplayed ==
  ASSUME NEW s \in Tables, StockAgrees(s), NEW r \in Reconstructions, NEW e, e.payload \in Payloads,
         e.timestamp \in Nat, e.payload.type = "waste_recorded",
         NEW t \in ApplyToCurrentState(s, e.payload, e.timestamp)
  PROVE  Follows(r, ReplayEvent(r, e), s, t, e.payload)
<1> DEFINE p == e.payload
           at == e.timestamp
           q == ReplayEvent(r, e)
<1> DEFINE entry == [ingredient |-> p.on, quantity |-> p.n, recorded_at |-> at]
           n == CurrentQuantity(s, p.on) - p.n
           k == Known(r.stock[p.on]) - p.n
<1>1. t \in ApplyWaste(s, p, at)
  BY DEF ApplyToCurrentState
<1>2. /\ p.on \in Ingredients /\ n \in Nat /\ t \in Tables
      /\ t.level = [s.level EXCEPT ![p.on] = n] /\ t.stock = [s.stock EXCEPT ![p.on] = n]
      /\ t.waste = s.waste \cup {entry}
      /\ SameSupply(s, t) /\ t.menu = s.menu /\ t.orders = s.orders /\ t.invoices = s.invoices
  <2>1. Wasted(s, p, at, t)
    BY <1>1, Waste
  <2> QED BY <2>1 DEF Wasted
<1>3. CurrentQuantity(s, p.on) = s.stock[p.on] /\ s.stock[p.on] \in Nat /\ p.n \in Int
  BY <1>2, Current, PayloadTypes DEF Tables
<1>4. q = [r EXCEPT !.stock = [@ EXCEPT ![p.on] = k], !.waste = @ \cup {entry}]
  BY DEF ReplayEvent, ReplayInventory
<1>5. k \in Int /\ (r.stock[p.on] = s.stock[p.on] => k = n)
  <2>1. r.stock[p.on] \in Int \cup {None}
    BY <1>2 DEF Reconstructions
  <2>2. Known(r.stock[p.on]) \in Int
    BY <2>1 DEF Known
  <2>3. r.stock[p.on] = s.stock[p.on] => Known(r.stock[p.on]) = s.stock[p.on]
    BY <1>3, NoneIsNone DEF Known
  <2> QED BY <1>3, <2>2, <2>3
<1>6. entry \in [ingredient: Ingredients, quantity: Int, recorded_at: Nat]
  BY <1>2, <1>3
<1> HIDE DEF q, k, n, entry
<1>7. /\ q \in Reconstructions /\ q.stock = [r.stock EXCEPT ![p.on] = k]
      /\ SameSupplyTold(r, q) /\ SameMenuTold(r, q)
      /\ q.waste = r.waste \cup {entry} /\ q.orders = r.orders /\ q.invoices = r.invoices
  BY <1>2, <1>4, <1>5, <1>6 DEF Reconstructions, SameSupplyTold, SameMenuTold
<1>8. StockFollows(r, q, s, t, p)
  <2>1. r.stock \in [Ingredients -> Int \cup {None}] /\ s.stock \in [Ingredients -> Nat]
    BY DEF Reconstructions, Tables
  <2>2. \A i \in Ingredients : ~TellsLevel(p, i)
    BY DEF TellsLevel
  <2> QED BY <1>2, <1>5, <1>7, <2>1, <2>2, NoneIsNone DEF StockFollows
<1>9. SupplyReplayed(r, s) => SupplyReplayed(q, t)
  BY <1>2, <1>7 DEF SupplyReplayed, SameSupply, SameSupplyTold
<1>10. MenuReplayed(r, s) => MenuReplayed(q, t)
  BY <1>2, <1>7 DEF MenuReplayed, SameMenuTold
<1>11. RecordsReplayed(r, s) => RecordsReplayed(q, t)
  BY <1>2, <1>7 DEF RecordsReplayed
<1> QED BY <1>7, <1>8, <1>9, <1>10, <1>11 DEF Follows, q

LEMMA PriceChangeReplayed ==
  ASSUME NEW s \in Tables, StockAgrees(s), NEW r \in Reconstructions, NEW e, e.payload \in Payloads,
         e.timestamp \in Nat, e.payload.type = "menu_price_change",
         NEW t \in ApplyToCurrentState(s, e.payload, e.timestamp)
  PROVE  Follows(r, ReplayEvent(r, e), s, t, e.payload)
<1> DEFINE p == e.payload
           at == e.timestamp
           q == ReplayEvent(r, e)
<1>1. t \in ApplyMenuPriceChange(s, p)
  BY DEF ApplyToCurrentState
<1> DEFINE item == [price |-> p.n, active |-> s.menu[p.on].active]
<1>2. /\ t \in Tables /\ p.n \in Int
      /\ t.menu = [s.menu EXCEPT ![p.on] = item]
      /\ SameSupply(s, t) /\ SameStock(s, t) /\ SameRecords(s, t)
  BY <1>1, MenuPriceChange, PayloadTypes
<1>3. q = [r EXCEPT !.price = [@ EXCEPT ![p.on] = p.n]]
  BY DEF ReplayEvent, ReplayMenu
<1> HIDE DEF q
<1>5. /\ q \in Reconstructions /\ q.price = [r.price EXCEPT ![p.on] = p.n] /\ q.active = r.active
      /\ q.stock = r.stock /\ SameSupplyTold(r, q) /\ SameRecordsTold(r, q)
  BY <1>2, <1>3 DEF Reconstructions, SameSupplyTold, SameRecordsTold
<1>7. SupplyReplayed(r, s) => SupplyReplayed(q, t)
  BY <1>2, <1>5 DEF SupplyReplayed, SameSupply, SameSupplyTold
<1>8. StockFollows(r, q, s, t, p)
  BY <1>2, <1>5, StockUntouched DEF TellsLevel
<1>9. ASSUME MenuReplayed(r, s) PROVE MenuReplayed(q, t)
  <2> SUFFICES ASSUME NEW m \in MenuItems
               PROVE  /\ q.price[m] # None => q.price[m] = t.menu[m].price
                      /\ q.active[m] = FALSE => ~t.menu[m].active
    BY DEF MenuReplayed
  <2>1. CASE m # p.on
    <3>1. q.price[m] = r.price[m] /\ q.active[m] = r.active[m] /\ t.menu[m] = s.menu[m]
      BY <1>2, <1>5, <2>1 DEF Reconstructions, Tables
    <3> QED BY <1>9, <3>1 DEF MenuReplayed
  <2>2. CASE m = p.on
    <3>1. t.menu[m] = item
      BY <1>2, <2>2 DEF Tables
    <3>2. q.price[m] = p.n /\ q.active[m] = r.active[m]
      BY <1>5, <2>2 DEF Reconstructions
    <3>3. item.price = p.n /\ item.active = s.menu[m].active
      BY <2>2
    <3> QED BY <1>9, <3>1, <3>2, <3>3 DEF MenuReplayed
  <2> QED BY <2>1, <2>2
<1>10. RecordsReplayed(r, s) => RecordsReplayed(q, t)
  BY <1>2, <1>5 DEF RecordsReplayed, SameRecords, SameRecordsTold
<1> QED BY <1>5, <1>7, <1>8, <1>9, <1>10 DEF Follows, q

LEMMA RemovalReplayed ==
  ASSUME NEW s \in Tables, StockAgrees(s), NEW r \in Reconstructions, NEW e, e.payload \in Payloads,
         e.timestamp \in Nat, e.payload.type = "menu_item_removed",
         NEW t \in ApplyToCurrentState(s, e.payload, e.timestamp)
  PROVE  Follows(r, ReplayEvent(r, e), s, t, e.payload)
<1> DEFINE p == e.payload
           at == e.timestamp
           q == ReplayEvent(r, e)
<1>1. t \in ApplyMenuItemRemoved(s, p)
  BY DEF ApplyToCurrentState
<1> DEFINE item == [price |-> s.menu[p.on].price, active |-> FALSE]
<1>2. /\ t \in Tables /\ p.n \in Int
      /\ t.menu = [s.menu EXCEPT ![p.on] = item]
      /\ SameSupply(s, t) /\ SameStock(s, t) /\ SameRecords(s, t)
  BY <1>1, MenuItemRemoved, PayloadTypes
<1>3. q = [r EXCEPT !.active = [@ EXCEPT ![p.on] = FALSE]]
  BY DEF ReplayEvent, ReplayMenu
<1> HIDE DEF q
<1>5. /\ q \in Reconstructions /\ q.active = [r.active EXCEPT ![p.on] = FALSE] /\ q.price = r.price
      /\ q.stock = r.stock /\ SameSupplyTold(r, q) /\ SameRecordsTold(r, q)
  BY <1>2, <1>3 DEF Reconstructions, SameSupplyTold, SameRecordsTold
<1>7. SupplyReplayed(r, s) => SupplyReplayed(q, t)
  BY <1>2, <1>5 DEF SupplyReplayed, SameSupply, SameSupplyTold
<1>8. StockFollows(r, q, s, t, p)
  BY <1>2, <1>5, StockUntouched DEF TellsLevel
<1>9. ASSUME MenuReplayed(r, s) PROVE MenuReplayed(q, t)
  <2> SUFFICES ASSUME NEW m \in MenuItems
               PROVE  /\ q.price[m] # None => q.price[m] = t.menu[m].price
                      /\ q.active[m] = FALSE => ~t.menu[m].active
    BY DEF MenuReplayed
  <2>1. CASE m # p.on
    <3>1. q.price[m] = r.price[m] /\ q.active[m] = r.active[m] /\ t.menu[m] = s.menu[m]
      BY <1>2, <1>5, <2>1 DEF Reconstructions, Tables
    <3> QED BY <1>9, <3>1 DEF MenuReplayed
  <2>2. CASE m = p.on
    <3>1. t.menu[m] = item
      BY <1>2, <2>2 DEF Tables
    <3>2. q.price[m] = r.price[m]
      BY <1>5, <2>2 DEF Reconstructions
    <3>3. item.price = s.menu[m].price /\ item.active = FALSE
      BY <2>2
    <3> QED BY <1>9, <3>1, <3>2, <3>3 DEF MenuReplayed
  <2> QED BY <2>1, <2>2
<1>10. RecordsReplayed(r, s) => RecordsReplayed(q, t)
  BY <1>2, <1>5 DEF RecordsReplayed, SameRecords, SameRecordsTold
<1> QED BY <1>5, <1>7, <1>8, <1>9, <1>10 DEF Follows, q

LEMMA AdditionReplayed ==
  ASSUME NEW s \in Tables, StockAgrees(s), NEW r \in Reconstructions, NEW e, e.payload \in Payloads,
         e.timestamp \in Nat, e.payload.type = "menu_item_added",
         NEW t \in ApplyToCurrentState(s, e.payload, e.timestamp)
  PROVE  Follows(r, ReplayEvent(r, e), s, t, e.payload)
<1> DEFINE p == e.payload
           at == e.timestamp
           q == ReplayEvent(r, e)
<1>1. t \in ApplyMenuItemAdded(s, p)
  BY DEF ApplyToCurrentState
<1> DEFINE item == [price |-> p.n, active |-> p.with = "active"]
<1>2. /\ t \in Tables /\ p.n \in Int
      /\ t.menu = [s.menu EXCEPT ![p.on] = item]
      /\ SameSupply(s, t) /\ SameStock(s, t) /\ SameRecords(s, t)
  BY <1>1, MenuItemAdded, PayloadTypes
<1>3. q = [r EXCEPT !.active = [@ EXCEPT ![p.on] = TRUE], !.price = [@ EXCEPT ![p.on] = p.n]]
  BY DEF ReplayEvent, ReplayMenu
<1> HIDE DEF q
<1>5. /\ q \in Reconstructions /\ q.active = [r.active EXCEPT ![p.on] = TRUE] /\ q.price = [r.price EXCEPT ![p.on] = p.n]
      /\ q.stock = r.stock /\ SameSupplyTold(r, q) /\ SameRecordsTold(r, q)
  BY <1>2, <1>3 DEF Reconstructions, SameSupplyTold, SameRecordsTold
<1>7. SupplyReplayed(r, s) => SupplyReplayed(q, t)
  BY <1>2, <1>5 DEF SupplyReplayed, SameSupply, SameSupplyTold
<1>8. StockFollows(r, q, s, t, p)
  BY <1>2, <1>5, StockUntouched DEF TellsLevel
<1>9. ASSUME MenuReplayed(r, s) PROVE MenuReplayed(q, t)
  <2> SUFFICES ASSUME NEW m \in MenuItems
               PROVE  /\ q.price[m] # None => q.price[m] = t.menu[m].price
                      /\ q.active[m] = FALSE => ~t.menu[m].active
    BY DEF MenuReplayed
  <2>1. CASE m # p.on
    <3>1. q.price[m] = r.price[m] /\ q.active[m] = r.active[m] /\ t.menu[m] = s.menu[m]
      BY <1>2, <1>5, <2>1 DEF Reconstructions, Tables
    <3> QED BY <1>9, <3>1 DEF MenuReplayed
  <2>2. CASE m = p.on
    <3>1. t.menu[m] = item
      BY <1>2, <2>2 DEF Tables
    <3>2. q.price[m] = p.n /\ q.active[m] = TRUE
      BY <1>5, <2>2 DEF Reconstructions
    <3>3. item.price = p.n
      OBVIOUS
    <3> QED BY <3>1, <3>2, <3>3
  <2> QED BY <2>1, <2>2
<1>10. RecordsReplayed(r, s) => RecordsReplayed(q, t)
  BY <1>2, <1>5 DEF RecordsReplayed, SameRecords, SameRecordsTold
<1> QED BY <1>5, <1>7, <1>8, <1>9, <1>10 DEF Follows, q

LEMMA OrderReplayed ==
  ASSUME NEW s \in Tables, StockAgrees(s), NEW r \in Reconstructions, NEW e, e.payload \in Payloads,
         e.timestamp \in Nat, e.payload.type = "order_recorded",
         NEW t \in ApplyToCurrentState(s, e.payload, e.timestamp)
  PROVE  Follows(r, ReplayEvent(r, e), s, t, e.payload)
<1> DEFINE p == e.payload
           at == e.timestamp
           q == ReplayEvent(r, e)
<1> DEFINE entry == [item |-> p.on, quantity |-> p.n, ordered_at |-> at]
<1>1. t \in ApplyOrderRecorded(s, p, at)
  BY DEF ApplyToCurrentState
<1>2. /\ t \in Tables /\ t.orders = s.orders \cup {entry}
      /\ SameSupply(s, t) /\ SameStock(s, t) /\ t.menu = s.menu /\ t.waste = s.waste /\ t.invoices = s.invoices
  BY <1>1, Order
<1>3. q = [r EXCEPT !.orders = @ \cup {entry}]
  BY DEF ReplayEvent, ReplayRecords
<1>4. entry \in [item: MenuItems, quantity: Int, ordered_at: Nat]
  BY <1>1, PayloadTypes DEF ApplyOrderRecorded, OnMenu
<1> HIDE DEF q, entry
<1>5. /\ q \in Reconstructions /\ q.orders = r.orders \cup {entry} /\ q.waste = r.waste /\ q.invoices = r.invoices
      /\ q.stock = r.stock /\ SameSupplyTold(r, q) /\ SameMenuTold(r, q)
  BY <1>3, <1>4 DEF Reconstructions, SameSupplyTold, SameMenuTold
<1>7. SupplyReplayed(r, s) => SupplyReplayed(q, t)
  BY <1>2, <1>5 DEF SupplyReplayed, SameSupply, SameSupplyTold
<1>8. StockFollows(r, q, s, t, p)
  BY <1>2, <1>5, StockUntouched DEF TellsLevel
<1>9. MenuReplayed(r, s) => MenuReplayed(q, t)
  BY <1>2, <1>5 DEF MenuReplayed, SameMenuTold
<1>10. RecordsReplayed(r, s) => RecordsReplayed(q, t)
  BY <1>2, <1>5 DEF RecordsReplayed
<1> QED BY <1>5, <1>7, <1>8, <1>9, <1>10 DEF Follows, q

LEMMA InvoiceReplayed ==
  ASSUME NEW s \in Tables, StockAgrees(s), NEW r \in Reconstructions, NEW e, e.payload \in Payloads,
         e.timestamp \in Nat, e.payload.type = "invoice_recorded",
         NEW t \in ApplyToCurrentState(s, e.payload, e.timestamp)
  PROVE  Follows(r, ReplayEvent(r, e), s, t, e.payload)
<1> DEFINE p == e.payload
           at == e.timestamp
           q == ReplayEvent(r, e)
<1> DEFINE entry == [number |-> p.n, sku |-> p.on, invoice_date |-> at]
<1>1. t \in ApplyInvoiceRecorded(s, p, at)
  BY DEF ApplyToCurrentState
<1>2. /\ t \in Tables /\ t.invoices = s.invoices \cup {entry}
      /\ SameSupply(s, t) /\ SameStock(s, t) /\ t.menu = s.menu /\ t.waste = s.waste /\ t.orders = s.orders
  BY <1>1, InvoiceStep
<1>3. q = [r EXCEPT !.invoices = @ \cup {entry}]
  BY DEF ReplayEvent, ReplayRecords
<1>4. entry \in [number: Int, sku: Skus, invoice_date: Nat]
  BY <1>1, PayloadTypes DEF ApplyInvoiceRecorded
<1> HIDE DEF q, entry
<1>5. /\ q \in Reconstructions /\ q.invoices = r.invoices \cup {entry} /\ q.waste = r.waste /\ q.orders = r.orders
      /\ q.stock = r.stock /\ SameSupplyTold(r, q) /\ SameMenuTold(r, q)
  BY <1>3, <1>4 DEF Reconstructions, SameSupplyTold, SameMenuTold
<1>7. SupplyReplayed(r, s) => SupplyReplayed(q, t)
  BY <1>2, <1>5 DEF SupplyReplayed, SameSupply, SameSupplyTold
<1>8. StockFollows(r, q, s, t, p)
  BY <1>2, <1>5, StockUntouched DEF TellsLevel
<1>9. MenuReplayed(r, s) => MenuReplayed(q, t)
  BY <1>2, <1>5 DEF MenuReplayed, SameMenuTold
<1>10. RecordsReplayed(r, s) => RecordsReplayed(q, t)
  BY <1>2, <1>5 DEF RecordsReplayed
<1> QED BY <1>5, <1>7, <1>8, <1>9, <1>10 DEF Follows, q

LEMMA OthersReplayed ==
  ASSUME NEW s \in Tables, StockAgrees(s), NEW r \in Reconstructions, NEW e, e.payload \in Payloads,
         e.timestamp \in Nat, e.payload.type \in {"staffing_change", "demand_spike"},
         NEW t \in ApplyToCurrentState(s, e.payload, e.timestamp)
  PROVE  Follows(r, ReplayEvent(r, e), s, t, e.payload)
<1> DEFINE p == e.payload
           at == e.timestamp
           q == ReplayEvent(r, e)
<1>1. /\ SameSupply(s, t) /\ SameStock(s, t) /\ SameRecords(s, t) /\ t.menu = s.menu
  <2>1. CASE p.type = "staffing_change"
    <3>1. t \in ApplyStaffingChange(s, p)
      BY <2>1 DEF ApplyToCurrentState
    <3> QED BY <2>1, <3>1, Staffing
  <2>2. CASE p.type = "demand_spike"
    BY <2>2 DEF ApplyToCurrentState, SameSupply, SameStock, SameRecords
  <2> QED BY <2>1, <2>2
<1>2. /\ q \in Reconstructions /\ q.stock = r.stock
      /\ SameSupplyTold(r, q) /\ SameMenuTold(r, q) /\ SameRecordsTold(r, q)
  <2>1. CASE p.type = "staffing_change"
    <3>1. q = [r EXCEPT !.staffing = [@ EXCEPT ![p.with] = p.n]]
      BY <2>1 DEF ReplayEvent, ReplayRecords
    <3>2. p.n \in Int
      BY PayloadTypes
    <3> HIDE DEF q
    <3> QED BY <3>1, <3>2 DEF Reconstructions, SameSupplyTold, SameMenuTold, SameRecordsTold
  <2>2. CASE p.type = "demand_spike"
    BY <2>2 DEF ReplayEvent, ReplayRecords, SameSupplyTold, SameMenuTold, SameRecordsTold
  <2> QED BY <2>1, <2>2
<1> HIDE DEF q
<1>3. StockFollows(r, q, s, t, p)
  BY <1>1, <1>2, StockUntouched DEF TellsLevel
<1>4. SupplyReplayed(r, s) => SupplyReplayed(q, t)
  BY <1>1, <1>2 DEF SupplyReplayed, SameSupply, SameSupplyTold
<1>5. MenuReplayed(r, s) => MenuReplayed(q, t)
  BY <1>1, <1>2 DEF MenuReplayed, SameMenuTold
<1>6. RecordsReplayed(r, s) => RecordsReplayed(q, t)
  BY <1>1, <1>2 DEF RecordsReplayed, SameRecords, SameRecordsTold
<1> QED BY <1>2, <1>3, <1>4, <1>5, <1>6 DEF Follows, q

LEMMA EventReplayed ==
  ASSUME NEW s \in Tables, StockAgrees(s), NEW r \in Reconstructions, NEW e, e.payload \in Payloads,
         e.timestamp \in Nat, NEW t \in ApplyToCurrentState(s, e.payload, e.timestamp)
  PROVE  Follows(r, ReplayEvent(r, e), s, t, e.payload)
<1>1. e.payload.type \in EventTypes
  BY PayloadTypes
<1> USE DEF EventTypes
<1>2. CASE e.payload.type = "supplier_price_change"
  BY <1>2, PriceReplayed
<1>3. CASE e.payload.type = "supplier_switch"
  BY <1>3, SwitchReplayed
<1>4. CASE e.payload.type \in {"stockout", "restock", "inventory_adjustment"}
  BY <1>4, LevelReplayed
<1>5. CASE e.payload.type = "waste_recorded"
  BY <1>5, WasteReplayed
<1>6. CASE e.payload.type = "menu_price_change"
  BY <1>6, PriceChangeReplayed
<1>7. CASE e.payload.type = "menu_item_removed"
  BY <1>7, RemovalReplayed
<1>8. CASE e.payload.type = "menu_item_added"
  BY <1>8, AdditionReplayed
<1>9. CASE e.payload.type = "order_recorded"
  BY <1>9, OrderReplayed
<1>10. CASE e.payload.type = "invoice_recorded"
  BY <1>10, InvoiceReplayed
<1>11. CASE e.payload.type \in {"staffing_change", "demand_spike"}
  BY <1>11, OthersReplayed
<1> QED BY <1>1, <1>2, <1>3, <1>4, <1>5, <1>6, <1>7, <1>8, <1>9, <1>10, <1>11

\* ReplayAgrees, with the set E of events and the reconstruction r explicit.
Agrees(E, r, s) ==
    /\ r \in Reconstructions
    /\ SupplyReplayed(r, s) /\ MenuReplayed(r, s) /\ RecordsReplayed(r, s)
    /\ \A i \in Ingredients :
          /\ (\E e \in E : TellsLevel(e.payload, i)) => r.stock[i] = s.stock[i]
          /\ r.stock[i] = None => s.stock[i] = InitialProjection.stock[i]

LEMMA AgreementInitially == Agrees({}, Unknown, InitialProjection)
<1>1. Unknown \in Reconstructions
  BY DEF Unknown, Reconstructions
<1>2. /\ \A i \in Ingredients : Unknown.cost[i] = None /\ Unknown.supplier[i] = None
      /\ \A m \in MenuItems : Unknown.price[m] = None /\ Unknown.active[m] = None
      /\ Unknown.waste = {} /\ Unknown.orders = {} /\ Unknown.invoices = {}
  BY DEF Unknown
<1>3. SupplyReplayed(Unknown, InitialProjection)
  BY <1>2 DEF SupplyReplayed
<1>4. MenuReplayed(Unknown, InitialProjection)
  BY <1>2, NoneIsNone DEF MenuReplayed
<1>5. RecordsReplayed(Unknown, InitialProjection)
  BY <1>2 DEF RecordsReplayed
<1>6. \A i \in Ingredients : Unknown.stock[i] = None
  BY DEF Unknown
<1> QED BY <1>1, <1>3, <1>4, <1>5 DEF Agrees

LEMMA AgreementStep ==
  ASSUME NEW E, NEW s \in Tables, StockAgrees(s), NEW r, Agrees(E, r, s),
         NEW e, e.payload \in Payloads, e.timestamp \in Nat,
         NEW t \in ApplyToCurrentState(s, e.payload, e.timestamp)
  PROVE  Agrees(E \cup {e}, ReplayEvent(r, e), t)
<1> DEFINE q == ReplayEvent(r, e)
<1>1. r \in Reconstructions
  BY DEF Agrees
<1>2. Follows(r, q, s, t, e.payload)
  BY <1>1, EventReplayed
<1> HIDE DEF q
<1>3. q \in Reconstructions /\ SupplyReplayed(q, t) /\ MenuReplayed(q, t) /\ RecordsReplayed(q, t)
  BY <1>2 DEF Follows, Agrees
<1>4. ASSUME NEW i \in Ingredients
      PROVE  /\ (\E f \in E \cup {e} : TellsLevel(f.payload, i)) => q.stock[i] = t.stock[i]
             /\ q.stock[i] = None => t.stock[i] = InitialProjection.stock[i]
  <2>1. /\ TellsLevel(e.payload, i) => q.stock[i] = t.stock[i]
        /\ r.stock[i] = s.stock[i] => q.stock[i] = t.stock[i]
        /\ q.stock[i] = None => r.stock[i] = None /\ t.stock[i] = s.stock[i]
    BY <1>2 DEF Follows, StockFollows
  <2>2. /\ (\E f \in E : TellsLevel(f.payload, i)) => r.stock[i] = s.stock[i]
        /\ r.stock[i] = None => s.stock[i] = InitialProjection.stock[i]
    BY DEF Agrees
  <2> QED BY <2>1, <2>2
<1> QED BY <1>3, <1>4 DEF Agrees, q

\* What the reader of the tables is told is what reconstruct_state_at computes
\* from all events.
LEMMA ReplayIsOfAll ==
  ASSUME SInv PROVE Replayed = StateAfter(events)
<1>1. CASE events = {}
  BY <1>1, ReplayInitially DEF Replayed
<1>2. CASE events # {}
  <2>1. EventsUpTo(Latest(events).timestamp) = events
    BY <1>2 DEF SInv, LatestIsLast, EventsUpTo
  <2> QED BY <1>2, <2>1, Reconstruction DEF Replayed
<1> QED BY <1>1, <1>2

LEMMA AgreementMeans ==
  ASSUME TypeOK, SInv, Agrees(events, StateAfter(events), projection)
  PROVE  ReplayAgrees
<1> DEFINE r == Replayed
<1>1. Agrees(events, r, projection) /\ r \in Reconstructions /\ projection \in Tables
  BY ReplayIsOfAll DEF Agrees, TypeOK
<1> HIDE DEF r
<1>2. /\ Overlay(r.cost, InitialProjection.cost) = projection.cost
      /\ Overlay(r.supplier, InitialProjection.supplier) = projection.supplier
  BY <1>1 DEF Agrees, SupplyReplayed, Overlay, Reconstructions, Tables
<1>3. \A i \in Ingredients :
         /\ LevelTold(i) => r.stock[i] = projection.stock[i]
         /\ r.stock[i] = None => projection.stock[i] = InitialProjection.stock[i]
  <2>1. ASSUME NEW i \in Ingredients, LevelTold(i) PROVE \E e \in events : TellsLevel(e.payload, i)
    <3>1. PICK e \in events :
             /\ e.payload.on = i
             /\ \/ e.payload.type \in {"stockout", "restock"}
                \/ e.payload.type = "inventory_adjustment" /\ e.payload.with = "level"
      BY <2>1 DEF LevelTold
    <3>2. TellsLevel(e.payload, i)
      BY <3>1 DEF TellsLevel
    <3> QED BY <3>2
  <2> QED BY <1>1, <2>1 DEF Agrees
<1>4. \A m \in MenuItems :
         /\ r.price[m] # None => r.price[m] = projection.menu[m].price
         /\ r.active[m] = FALSE => ~projection.menu[m].active
  BY <1>1 DEF Agrees, MenuReplayed
<1>5. /\ projection.waste = InitialProjection.waste \cup r.waste
      /\ projection.orders = InitialProjection.orders \cup r.orders
      /\ projection.invoices = InitialProjection.invoices \cup r.invoices
  BY <1>1 DEF Agrees, RecordsReplayed
<1> QED BY <1>2, <1>3, <1>4, <1>5 DEF ReplayAgrees, r

RInv ==
    /\ TInv /\ SInv /\ Ranked(events) /\ ProjectionsAgree /\ Replayable(events)
    /\ Agrees(events, StateAfter(events), projection)

LEMMA ReplayStep ==
  ASSUME RInv, [Next]_vars
  PROVE  (Replayable(events) /\ Agrees(events, StateAfter(events), projection))'
<1>1. CASE UNCHANGED <<events, projection>>
  <2>1. events' = events /\ projection' = projection
    BY <1>1
  <2>2. Replayable(events') /\ Agrees(events', StateAfter(events'), projection')
    BY <2>1 DEF RInv
  <2> QED BY <2>2 DEF Replayable, Replays, Agrees, StateAfter, InOrder, Before
<1>2. ASSUME NEW w \in Writers, NEW i \in Ids, args[w].payload \in Payloads, stamp[w] \in Nat,
             Later(events, NewEvent(w, i)), events' = events \cup {NewEvent(w, i)},
             projection' \in ApplyToCurrentState(projection, args[w].payload, stamp[w])
      PROVE  (Replayable(events) /\ Agrees(events, StateAfter(events), projection))'
  <2> DEFINE n == NewEvent(w, i)
  <2>1. n.payload = args[w].payload /\ n.timestamp = stamp[w]
    BY DEF NewEvent
  <2>2. /\ Later(events, n) /\ events' = events \cup {n}
        /\ n.payload \in Payloads /\ n.timestamp \in Nat
        /\ projection' \in ApplyToCurrentState(projection, n.payload, n.timestamp)
    BY <1>2, <2>1
  <2> HIDE DEF n
  <2>3. Replayable(events \cup {n}) /\ StateAfter(events \cup {n}) = ReplayEvent(StateAfter(events), n)
    BY <2>2, ReplayGrows DEF RInv
  <2>4. projection \in Tables /\ StockAgrees(projection) /\ Agrees(events, StateAfter(events), projection)
    BY DEF RInv, TInv, TypeOK, ProjectionsAgree
  <2>5. Agrees(events \cup {n}, ReplayEvent(StateAfter(events), n), projection')
    BY <2>2, <2>4, AgreementStep
  <2>6. Replayable(events') /\ Agrees(events', StateAfter(events'), projection')
    BY <2>2, <2>3, <2>5
  <2> QED BY <2>6 DEF Replayable, Replays, Agrees, StateAfter, InOrder, Before
<1> QED BY <1>1, <1>2, Commits DEF RInv

\* The handlers of append_event and the branches of reconstruct_state_at agree
\* after any accepted history, of any length and by any number of writers, on costs,
\* suppliers, prices, items taken off the menu, waste, orders, invoices, and the
\* stock of each ingredient of which an absolute level is on record.  They do not on
\* staffing, on items added as inactive, and on stock known by deltas only, and
\* ReplayAgrees does not say so.
THEOREM ReplayIsTrue == ASSUME ClocksAgree PROVE Spec => []ReplayAgrees
<1>1. Init => Replayable(events) /\ Agrees(events, StateAfter(events), projection)
  BY ReplayInitially, AgreementInitially DEF Init
<1>2. TInv /\ SInv /\ Ranked(events) /\ ProjectionsAgree
        /\ Replayable(events) /\ Agrees(events, StateAfter(events), projection) /\ [Next]_vars
        => (Replayable(events) /\ Agrees(events, StateAfter(events), projection))'
  BY ReplayStep DEF RInv
<1>3. TInv /\ SInv /\ Agrees(events, StateAfter(events), projection) => ReplayAgrees
  BY AgreementMeans DEF TInv
<1> QED BY <1>1, <1>2, <1>3, RankedOrder, TablesAgree, PTL DEF Spec
=============================================================================
