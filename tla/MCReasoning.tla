----------------------------- MODULE MCReasoning -----------------------------
(***************************************************************************)
(* One item with one ingredient; the model may answer with the price of the *)
(* rule, with several valid prices, with a price or an item that the        *)
(* opportunity does not support, or with nothing of use.                   *)
(***************************************************************************)
EXTENDS Reasoning, Sequences

MCItems == {"item"}
MCIngredients == {"ingredient"}
MCUses == {<<"item", "ingredient">>}

Raw(item, p, flagged) ==
    [type |-> "price_change", item |-> item, price |-> p, review |-> flagged, wellFormed |-> TRUE]

MCAnswers ==
    {<<Raw("item", 300, FALSE), Raw("item", 300, TRUE), Raw("elsewhere", 300, FALSE)>>,
     <<[Raw("item", 275, FALSE) EXCEPT !.wellFormed = FALSE],
       Raw("item", 275, FALSE), Raw("item", 280, FALSE), Raw("item", 285, FALSE)>>,
     <<[Raw("item", 300, FALSE) EXCEPT !.type = "menu_remove"], Raw("item", 900, FALSE)>>}
=============================================================================
