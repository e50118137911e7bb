--------------------------- MODULE MCDomEvents ---------------------------
(* A page with a draggable card that holds a range, and a text input.     *)
EXTENDS DomEvents, TLC

CONSTANTS body, card, range, text

MCParent == (card :> body) @@ (range :> card) @@ (text :> body)
MCTabOrder == <<range, text>>
==========================================================================
