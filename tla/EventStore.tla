----------------------------- MODULE EventStore -----------------------------
(***************************************************************************)
(* The event store of one tenant (Component_1/event_store.py): append_event *)
(* with its hash chain and its current-state projections, the replay        *)
(* reconstruct_state_at, and verify_chain_integrity.                        *)
(*                                                                         *)
(* Appends run in concurrent processes.  Each is one transaction whose      *)
(* steps interleave with other processes between the tenant-row lock, the   *)
(* read of the latest event, the time stamp and the commit; its writes      *)
(* become visible at the commit only.                                       *)
(*                                                                         *)
(* Payloads are records with four fields, read according to the type:       *)
(*   on    the SKU, ingredient, menu item or staff shift concerned          *)
(*   n     its number: price, level, delta, quantity, headcount; for an     *)
(*         invoice its invoice number                                       *)
(*   with  the supplier, the staffing slot (role and day), or which variant *)
(*         of the payload it is                                             *)
(* Orders and invoices have one line.                                       *)
(***************************************************************************)
EXTENDS Integers, Sequences, FiniteSets

CONSTANTS
    Writers,        \* processes that append
    Ingredients, MenuItems, Suppliers, Skus, ShiftIds, Slots,
    SkuIngredient, SkuSupplier,    \* what each SKU is and who sells it
    InitialProjection,             \* the seeded tables
    Payloads,       \* payloads
    Workloads,      \* possible assignments to each writer of what it appends
    Sources,        \* subset of {"trimmed", "padded"}: the source argument
    Ids,            \* event primary keys, random and comparable
    Skew,           \* how far each writer's clock is ahead
    MaxStamps,      \* bound: time stamps taken
    None

EventTypes == {"supplier_price_change", "supplier_switch", "stockout", "restock",
               "inventory_adjustment", "waste_recorded", "demand_spike",
               "order_recorded", "menu_item_added", "menu_item_removed",
               "menu_price_change", "staffing_change", "invoice_recorded"}

\* The current-state and history tables.
Tables ==
    [level: [Ingredients -> Nat \cup {None}], stock: [Ingredients -> Nat],
     cost: [Ingredients -> Nat], supplier: [Ingredients -> Suppliers],
     menu: [MenuItems -> [price: Nat, active: BOOLEAN] \cup {None}],
     shift: [ShiftIds -> [slot: Slots, headcount: Nat] \cup {None}],
     prices: SUBSET [sku: Skus, price: Nat, effective_at: Nat],
     waste: SUBSET [ingredient: Ingredients, quantity: Nat, recorded_at: Nat],
     orders: SUBSET [item: MenuItems, quantity: Nat, ordered_at: Nat],
     invoices: SUBSET [number: Int, sku: Skus, invoice_date: Nat]]

\* The inventory row and the older field of the ingredient, once there is a row.
StockAgrees(s) ==
    \A i \in Ingredients : s.level[i] # None => s.level[i] = s.stock[i]

\* The current cost of an ingredient and the newest entry in the price history
\* of its SKUs.
CostAgrees(s) ==
    \A h \in s.prices :
        (\A g \in s.prices :
            SkuIngredient[g.sku] = SkuIngredient[h.sku] => g.effective_at <= h.effective_at)
        => s.cost[SkuIngredient[h.sku]] = h.price

\* The seed loads tables that agree, before the first event.
SeedAssumption ==
    /\ InitialProjection \in Tables
    /\ StockAgrees(InitialProjection)
    /\ CostAgrees(InitialProjection)
    /\ \A h \in InitialProjection.prices : h.effective_at = 0

\* Payloads as append_event gets them: a staffing change names a role and a day,
\* an adjustment is absolute or relative.
PayloadAssumption ==
    \A p \in Payloads :
        /\ p.type \in EventTypes /\ p.n \in Int
        /\ p.type = "staffing_change" => p.with \in Slots
        /\ p.type = "inventory_adjustment" => p.with \in {"level", "delta"}

ASSUME EventStoreAssumption ==
    /\ SkuIngredient \in [Skus -> Ingredients]
    /\ SkuSupplier \in [Skus -> Suppliers]
    /\ Skew \in [Writers -> Nat]
    /\ Ids \subseteq Int
    /\ Sources \subseteq {"trimmed", "padded"}
    /\ MaxStamps \in Nat
    /\ Workloads \subseteq [Writers -> SUBSET Payloads]
    /\ None \notin Writers /\ None \notin Int /\ None \notin Suppliers /\ None \notin BOOLEAN
    /\ PayloadAssumption
    /\ SeedAssumption

VARIABLES
    workload,       \* what the writers of this behaviour append
    pc,             \* where each append is
    args,           \* its payload and source
    previous,       \* the hash of the event it read as the latest
    stamp,          \* its time stamp
    locked,         \* the transaction that holds the tenant row, or None
    now,            \* true time; every reading of a clock takes a new instant
    events,         \* the events table
    projection      \* current-state and history tables

vars == <<workload, pc, args, previous, stamp, locked, now, events, projection>>

GENESIS_HASH == <<>>

Init ==
    /\ workload \in Workloads
    /\ pc = [w \in Writers |-> "idle"]
    /\ args = [w \in Writers |-> None]
    /\ previous = [w \in Writers |-> GENESIS_HASH]
    /\ stamp = [w \in Writers |-> 0]
    /\ locked = None
    /\ now = 0
    /\ events = {}
    /\ projection = InitialProjection

(***************************************************************************)
(* Order and hash of events.                                               *)
(***************************************************************************)

\* ORDER BY timestamp, id
Before(e, f) == e.timestamp < f.timestamp \/ (e.timestamp = f.timestamp /\ e.id < f.id)

Latest(E) == CHOOSE e \in E : \A f \in E \ {e} : Before(f, e)

InOrder(E) ==
    [i \in 1..Cardinality(E) |-> CHOOSE e \in E : Cardinality({f \in E : Before(f, e)}) = i - 1]

LatestHash(E) == IF E = {} THEN GENESIS_HASH ELSE Latest(E).hash

\* SHA-256 as an injective function of what is hashed.
ComputeHash(prev, payload, timestamp, source) == <<prev, payload, timestamp, source>>

Strip(source) == IF source = "padded" THEN "trimmed" ELSE source

(***************************************************************************)
(* Projections.  A handler maps the tables, a payload and the event's time  *)
(* to the set of tables it can leave; the set is empty when it raises.      *)
(***************************************************************************)
\* Mutant: the current cost follows only the SKU of the current supplier.
PriceOfCurrentSupplier(s, p, at) ==
    IF p.on \in Skus /\ p.n >= 0
    THEN {[s EXCEPT !.prices = @ \cup {[sku |-> p.on, price |-> p.n, effective_at |-> at]},
                    !.cost[SkuIngredient[p.on]] =
                        IF s.supplier[SkuIngredient[p.on]] = SkuSupplier[p.on] THEN p.n ELSE @]}
    ELSE {}

ApplySupplierPriceChange(s, p, at) ==
    IF p.on \in Skus /\ p.n >= 0
    THEN {[s EXCEPT !.prices = @ \cup {[sku |-> p.on, price |-> p.n, effective_at |-> at]},
                    !.cost[SkuIngredient[p.on]] = p.n]}
    ELSE {}

ApplySupplierSwitch(s, p) ==
    IF p.on \in Ingredients /\ p.with \in Suppliers
    THEN {[s EXCEPT !.supplier[p.on] = p.with]}
    ELSE {}

\* InventoryLevel, and the compatibility field of Ingredient.
SetStock(s, ingredient, quantity) ==
    IF quantity >= 0
    THEN {[s EXCEPT !.level[ingredient] = quantity, !.stock[ingredient] = quantity]}
    ELSE {}

CurrentQuantity(s, ingredient) ==
    IF s.level[ingredient] # None THEN s.level[ingredient] ELSE s.stock[ingredient]

ApplyStockout(s, p) == IF p.on \in Ingredients THEN SetStock(s, p.on, 0) ELSE {}

ApplyRestock(s, p) == IF p.on \in Ingredients THEN SetStock(s, p.on, p.n) ELSE {}

ApplyInventoryAdjustment(s, p) ==
    IF p.on \in Ingredients
    THEN SetStock(s, p.on, IF p.with = "level" THEN p.n ELSE CurrentQuantity(s, p.on) + p.n)
    ELSE {}

\* Mutant: waste is booked although the inventory does not cover it.
WasteUnchecked(s, p, at) ==
    {[s EXCEPT !.level[p.on] = CurrentQuantity(s, p.on) - p.n,
               !.stock[p.on] = CurrentQuantity(s, p.on) - p.n]}

ApplyWaste(s, p, at) ==
    IF p.on \in Ingredients /\ p.n > 0
    THEN {[t EXCEPT !.waste = @ \cup {[ingredient |-> p.on, quantity |-> p.n, recorded_at |-> at]}] :
            t \in SetStock(s, p.on, CurrentQuantity(s, p.on) - p.n)}
    ELSE {}

OnMenu(s, item) == item \in MenuItems /\ s.menu[item] # None

ApplyMenuPriceChange(s, p) ==
    IF OnMenu(s, p.on) /\ p.n >= 0 THEN {[s EXCEPT !.menu[p.on].price = p.n]} ELSE {}

ApplyMenuItemAdded(s, p) ==
    IF p.n >= 0
    THEN {[s EXCEPT !.menu[p.on] = [price |-> p.n, active |-> p.with = "active"]]}
    ELSE {}

ApplyMenuItemRemoved(s, p) ==
    IF OnMenu(s, p.on) THEN {[s EXCEPT !.menu[p.on].active = FALSE]} ELSE {}

\* The sales order line and the order-volume row of Component 2.
ApplyOrderRecorded(s, p, at) ==
    IF OnMenu(s, p.on) /\ p.n > 0
    THEN {[s EXCEPT !.orders = @ \cup {[item |-> p.on, quantity |-> p.n, ordered_at |-> at]}]}
    ELSE {}

\* The invoice number is unique for the tenant.
ApplyInvoiceRecorded(s, p, at) ==
    IF /\ p.on \in Skus
       /\ p.with = SkuSupplier[p.on]
       /\ \A i \in s.invoices : i.number # p.n
    THEN {[s EXCEPT !.invoices = @ \cup {[number |-> p.n, sku |-> p.on, invoice_date |-> at]}]}
    ELSE {}

\* By id when the payload names a shift, else by role and day.
MatchingShifts(s, p) ==
    {i \in ShiftIds : s.shift[i] # None /\ IF p.on # None THEN i = p.on ELSE s.shift[i].slot = p.with}

ApplyStaffingChange(s, p) ==
    LET found == MatchingShifts(s, p)
        new == {i \in ShiftIds : s.shift[i] = None /\ (p.on # None => i = p.on)}
    IN  IF p.n < 0 \/ Cardinality(found) > 1 THEN {}
        ELSE {[s EXCEPT !.shift[i] = [slot |-> p.with, headcount |-> p.n]] :
                i \in IF found # {} THEN found ELSE new}

ApplyToCurrentState(s, p, at) ==
    CASE p.type = "supplier_price_change" -> ApplySupplierPriceChange(s, p, at)
      [] p.type = "supplier_switch"       -> ApplySupplierSwitch(s, p)
      [] p.type = "stockout"              -> ApplyStockout(s, p)
      [] p.type = "restock"               -> ApplyRestock(s, p)
      [] p.type = "inventory_adjustment"  -> ApplyInventoryAdjustment(s, p)
      [] p.type = "waste_recorded"        -> ApplyWaste(s, p, at)
      [] p.type = "menu_item_added"       -> ApplyMenuItemAdded(s, p)
      [] p.type = "menu_item_removed"     -> ApplyMenuItemRemoved(s, p)
      [] p.type = "menu_price_change"     -> ApplyMenuPriceChange(s, p)
      [] p.type = "order_recorded"        -> ApplyOrderRecorded(s, p, at)
      [] p.type = "invoice_recorded"      -> ApplyInvoiceRecorded(s, p, at)
      [] p.type = "staffing_change"       -> ApplyStaffingChange(s, p)
      [] p.type = "demand_spike"          -> {s}

(***************************************************************************)
(* append_event.                                                           *)
(***************************************************************************)
Goto(w, l) == pc' = [pc EXCEPT ![w] = l]

\* Commit or rollback: the row lock is released, the locals are gone.
EndTransaction(w) ==
    /\ Goto(w, "idle")
    /\ args' = [args EXCEPT ![w] = None]
    /\ previous' = [previous EXCEPT ![w] = GENESIS_HASH]
    /\ stamp' = [stamp EXCEPT ![w] = 0]
    /\ locked' = IF locked = w THEN None ELSE locked

Begin(w, p, src) ==
    /\ pc[w] = "idle"
    /\ Goto(w, "lock")
    /\ args' = [args EXCEPT ![w] = [payload |-> p, source |-> src]]
    /\ UNCHANGED <<workload, previous, stamp, locked, now, events, projection>>

\* Mutant: the tenant row is read without FOR UPDATE.
ReadTenantWithoutLock(w) ==
    /\ pc[w] = "lock"
    /\ Goto(w, "read")
    /\ UNCHANGED <<workload, args, previous, stamp, locked, now, events, projection>>

LockTenant(w) ==
    /\ pc[w] = "lock"
    /\ locked = None
    /\ locked' = w
    /\ Goto(w, "read")
    /\ UNCHANGED <<workload, args, previous, stamp, now, events, projection>>

ReadLatest(w) ==
    /\ pc[w] = "read"
    /\ previous' = [previous EXCEPT ![w] = LatestHash(events)]
    /\ Goto(w, "stamp")
    /\ UNCHANGED <<workload, args, stamp, locked, now, events, projection>>

Stamp(w) ==
    /\ pc[w] = "stamp"
    /\ now < MaxStamps
    /\ now' = now + 1
    /\ stamp' = [stamp EXCEPT ![w] = now' + Skew[w]]
    /\ Goto(w, "insert")
    /\ UNCHANGED <<workload, args, previous, locked, events, projection>>

\* Insert, projections and commit.  The hash covers the source as given; the
\* row keeps it stripped.
InsertAndCommit(w) ==
    LET a == args[w]
    IN  /\ pc[w] = "insert"
        /\ \E i \in Ids \ {e.id : e \in events} :
              events' = events \cup
                  {[id |-> i, timestamp |-> stamp[w], payload |-> a.payload,
                    source |-> Strip(a.source), previous_hash |-> previous[w],
                    hash |-> ComputeHash(previous[w], a.payload, stamp[w], a.source)]}
        /\ projection' \in ApplyToCurrentState(projection, a.payload, stamp[w])
        /\ EndTransaction(w)
        /\ UNCHANGED <<workload, now>>

\* InvalidEventError, an integrity error or MultipleResultsFound.
Reject(w) ==
    /\ pc[w] = "insert"
    /\ ApplyToCurrentState(projection, args[w].payload, stamp[w]) = {}
    /\ EndTransaction(w)
    /\ UNCHANGED <<workload, now, events, projection>>

\* The database fails or the process dies before the commit.
Rollback(w) ==
    /\ pc[w] # "idle"
    /\ EndTransaction(w)
    /\ UNCHANGED <<workload, now, events, projection>>

Next ==
    \E w \in Writers :
        \/ \E p \in workload[w], src \in Sources : Begin(w, p, src)
        \/ LockTenant(w) \/ ReadLatest(w) \/ Stamp(w)
        \/ InsertAndCommit(w) \/ Reject(w) \/ Rollback(w)

Spec == Init /\ [][Next]_vars

(***************************************************************************)
(* verify_chain_integrity: the loop compares every event with the one       *)
(* before it.                                                               *)
(***************************************************************************)
VerifyChainIntegrity ==
    \A e \in events :
        /\ e.previous_hash = LatestHash({f \in events : Before(f, e)})
        /\ e.hash = ComputeHash(e.previous_hash, e.payload, e.timestamp, e.source)

(***************************************************************************)
(* reconstruct_state_at.  None marks what no event has told.                *)
(***************************************************************************)
EventsUpTo(t) == {e \in events : e.timestamp <= t}

Unknown ==
    [cost     |-> [i \in Ingredients |-> None],
     supplier |-> [i \in Ingredients |-> None],
     stock    |-> [i \in Ingredients |-> None],
     price    |-> [m \in MenuItems |-> None],
     active   |-> [m \in MenuItems |-> None],
     staffing |-> [slot \in Slots |-> None],
     waste |-> {}, orders |-> {}, invoices |-> {}]

\* setdefault(ingredient_id, 0)
Known(quantity) == IF quantity = None THEN 0 ELSE quantity

\* Mutant: every adjustment is replayed as a delta.
ReplayAdjustmentsAsDeltas(r, p, at) ==
    CASE p.type = "stockout" -> [r EXCEPT !.stock[p.on] = 0]
      [] p.type = "restock" -> [r EXCEPT !.stock[p.on] = p.n]
      [] p.type = "inventory_adjustment" -> [r EXCEPT !.stock[p.on] = Known(@) + p.n]
      [] p.type = "waste_recorded" ->
            [r EXCEPT !.stock[p.on] = Known(@) - p.n,
                      !.waste = @ \cup {[ingredient |-> p.on, quantity |-> p.n, recorded_at |-> at]}]

ReplayInventory(r, p, at) ==
    CASE p.type = "stockout" -> [r EXCEPT !.stock[p.on] = 0]
      [] p.type = "restock" \/ (p.type = "inventory_adjustment" /\ p.with = "level") ->
            [r EXCEPT !.stock[p.on] = p.n]
      [] p.type = "inventory_adjustment" /\ p.with = "delta" ->
            [r EXCEPT !.stock[p.on] = Known(@) + p.n]
      [] p.type = "waste_recorded" ->
            [r EXCEPT !.stock[p.on] = Known(@) - p.n,
                      !.waste = @ \cup {[ingredient |-> p.on, quantity |-> p.n, recorded_at |-> at]}]

ReplayMenu(r, p) ==
    CASE p.type = "menu_price_change" -> [r EXCEPT !.price[p.on] = p.n]
      [] p.type = "menu_item_removed" -> [r EXCEPT !.active[p.on] = FALSE]
      [] p.type = "menu_item_added"   -> [r EXCEPT !.active[p.on] = TRUE, !.price[p.on] = p.n]

ReplayRecords(r, p, at) ==
    CASE p.type = "order_recorded" ->
            [r EXCEPT !.orders = @ \cup {[item |-> p.on, quantity |-> p.n, ordered_at |-> at]}]
      [] p.type = "invoice_recorded" ->
            [r EXCEPT !.invoices = @ \cup {[number |-> p.n, sku |-> p.on, invoice_date |-> at]}]
      [] p.type = "staffing_change" -> [r EXCEPT !.staffing[p.with] = p.n]
      [] p.type = "demand_spike" -> r

ReplaySupply(r, p) ==
    CASE p.type = "supplier_price_change" -> [r EXCEPT !.cost[SkuIngredient[p.on]] = p.n]
      [] p.type = "supplier_switch" -> [r EXCEPT !.supplier[p.on] = p.with]

ReplayEvent(r, e) ==
    LET p == e.payload
        at == e.timestamp
    IN  CASE p.type \in {"supplier_price_change", "supplier_switch"} -> ReplaySupply(r, p)
          [] p.type \in {"stockout", "restock", "inventory_adjustment", "waste_recorded"} ->
                ReplayInventory(r, p, at)
          [] p.type \in {"menu_price_change", "menu_item_removed", "menu_item_added"} ->
                ReplayMenu(r, p)
          [] p.type \in {"order_recorded", "invoice_recorded", "staffing_change", "demand_spike"} ->
                ReplayRecords(r, p, at)

\* state[n] is the state after the first n events.
ReconstructStateAt(t) ==
    LET E == EventsUpTo(t)
        told == InOrder(E)
        state[n \in 0..Cardinality(E)] ==
            IF n = 0 THEN Unknown ELSE ReplayEvent(state[n - 1], told[n])
    IN  state[Cardinality(E)]

\* reconstruct_state_at for a time after every event.
Replayed ==
    IF events = {} THEN Unknown ELSE ReconstructStateAt(Latest(events).timestamp)

(***************************************************************************)
(* Properties.                                                             *)
(***************************************************************************)
Locations == {"idle", "lock", "read", "stamp", "insert"}

\* Every variable keeps its type; stock, prices and headcounts are never
\* negative.
TypeOK ==
    /\ workload \in Workloads
    /\ pc \in [Writers -> Locations]
    /\ DOMAIN args = Writers /\ DOMAIN previous = Writers
    /\ \A w \in Writers : args[w] = None \/ args[w].payload \in Payloads
    /\ stamp \in [Writers -> Nat]
    /\ locked \in Writers \cup {None}
    /\ now \in 0..MaxStamps
    /\ \A e \in events : e.id \in Ids /\ e.timestamp \in Nat /\ e.payload \in Payloads
    /\ projection \in Tables

\* "Hash and previous_hash provide a tamper-evident per-tenant chain": the chain
\* that concurrent appends build passes verify_chain_integrity at any moment.
ChainVerifies == VerifyChainIntegrity

\* The transactions of concurrent writers implement the log of EventLog: the
\* order of time stamps is the order of commits, so the history of the past
\* never changes, and the tables are what the history did to them, event by
\* event, each once.
Told(e) == [payload |-> e.payload, timestamp |-> e.timestamp]
History == INSTANCE EventLog WITH
    Times <- {n + Skew[w] : n \in 1..MaxStamps, w \in Writers},
    Effect <- ApplyToCurrentState,
    Seed <- InitialProjection,
    log <- [i \in 1..Cardinality(events) |-> Told(InOrder(events)[i])],
    tables <- projection
ImplementsLog == History!Spec

\* Facts kept in two tables agree after any mix of events, accepted, refused and
\* rolled back.
ProjectionsAgree == StockAgrees(projection) /\ CostAgrees(projection)

\* The replay laid over the seeded tables.
Overlay(told, seeded) == [x \in DOMAIN told |-> IF told[x] = None THEN seeded[x] ELSE told[x]]

\* An absolute level is on record for the ingredient.
LevelTold(i) ==
    \E e \in events :
        /\ e.payload.on = i
        /\ \/ e.payload.type \in {"stockout", "restock"}
           \/ e.payload.type = "inventory_adjustment" /\ e.payload.with = "level"

\* Replaying the log gives what the projections say, after any sequence of
\* accepted events: the handlers of append_event and the branches of
\* reconstruct_state_at are two implementations of each event type.  They agree on
\* costs, suppliers, prices, waste, orders and invoices; on the stock of an
\* ingredient once an absolute level is on record, or when no event is about it;
\* and on which items were taken off the menu.  They disagree, and nothing is
\* claimed, on stock of which only deltas are on record (the replay begins with
\* zero and not with the seeded stock), on an item that was added as inactive (it
\* is replayed as active), and on staffing (a shift that is moved by its id stays
\* behind in the replay, see ReplayRecords).
ReplayAgrees ==
    LET r == Replayed
    IN  /\ Overlay(r.cost, InitialProjection.cost) = projection.cost
        /\ Overlay(r.supplier, InitialProjection.supplier) = projection.supplier
        /\ \A i \in Ingredients :
              /\ LevelTold(i) => r.stock[i] = projection.stock[i]
              /\ r.stock[i] = None => projection.stock[i] = InitialProjection.stock[i]
        /\ \A m \in MenuItems :
              /\ r.price[m] # None => r.price[m] = projection.menu[m].price
              /\ r.active[m] = FALSE => ~projection.menu[m].active
        /\ projection.waste = InitialProjection.waste \cup r.waste
        /\ projection.orders = InitialProjection.orders \cup r.orders
        /\ projection.invoices = InitialProjection.invoices \cup r.invoices
=============================================================================
