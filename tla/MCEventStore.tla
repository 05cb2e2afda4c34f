---------------------------- MODULE MCEventStore ----------------------------
(***************************************************************************)
(* Instances of EventStore: one ingredient sold by two suppliers, one menu  *)
(* item of the seeded menu and one that an event may add, two staff shifts. *)
(***************************************************************************)
EXTENDS EventStore, TLC

CONSTANTS w1, w2, flour, pizza, pasta, s1, s2, sku1, sku2, i1, i2, mon, tue

SellerOf == (sku1 :> s1) @@ (sku2 :> s2)
IngredientOf == (sku1 :> flour) @@ (sku2 :> flour)

Seeded ==
    [level |-> (flour :> None), stock |-> (flour :> 2), cost |-> (flour :> 5),
     supplier |-> (flour :> s1),
     menu |-> (pizza :> [price |-> 9, active |-> TRUE]) @@ (pasta :> None),
     shift |-> (i1 :> [slot |-> mon, headcount |-> 1]) @@ (i2 :> None),
     prices |-> {[sku |-> sku1, price |-> 5, effective_at |-> 0]},
     waste |-> {[ingredient |-> flour, quantity |-> 1, recorded_at |-> 0]},
     orders |-> {[item |-> pizza, quantity |-> 8, ordered_at |-> 0]},
     invoices |-> {[number |-> 0, sku |-> sku1, invoice_date |-> 0]}]

Payload(type, on, n, with) == [type |-> type, on |-> on, n |-> n, with |-> with]

\* Two events whose order matters.
StockPayloads ==
    {Payload("restock", flour, 3, None), Payload("waste_recorded", flour, 1, None)}

\* Every event type, with payloads that are refused in some states or always.
AllPayloads ==
    StockPayloads \cup
    {Payload("supplier_price_change", sku1, 6, None),
     Payload("supplier_price_change", sku2, 7, None),
     Payload("supplier_switch", flour, 0, s2),
     Payload("stockout", flour, 0, None),
     Payload("inventory_adjustment", flour, 1, "level"),
     Payload("inventory_adjustment", flour, -1, "delta"),
     Payload("demand_spike", None, 0, None),
     Payload("order_recorded", pasta, 2, None),
     Payload("menu_item_added", pasta, 8, "active"),
     Payload("menu_item_removed", pizza, 0, None),
     Payload("menu_price_change", pasta, 7, None),
     Payload("staffing_change", i1, 2, tue),
     Payload("staffing_change", None, 3, tue),
     Payload("invoice_recorded", sku1, 1, s1),
     Payload("invoice_recorded", sku2, 1, s1)}

InactiveItem == {Payload("menu_item_added", pasta, 8, "inactive")}
MovedShift == {Payload("staffing_change", i1, 2, mon), Payload("staffing_change", i1, 2, tue)}

\* Two writers that race, or one that appends events of all types.
Both == {[w \in Writers |-> StockPayloads]}
BothOrOne == Both \cup {[w \in Writers |-> IF w = w1 THEN AllPayloads ELSE {}]}

NoSkew == [w \in Writers |-> 0]
FirstAhead == [w \in Writers |-> IF w = w1 THEN 2 ELSE 0]
=============================================================================
