---------------------------- MODULE PriceTimeBook ----------------------------
(***************************************************************************)
(* The abstract book: a call is made, then takes effect at once.           *)
(***************************************************************************)
EXTENDS PriceTime

CONSTANTS OrderId, NoOrder, Price, OrderQty

VARIABLES resting,   \* for each side the open entries, best first
          pending,   \* the order whose call has not taken effect, or NoOrder
          fills,     \* the trades of the last call that returned
          outcome    \* the status of its order

vars == <<resting, pending, fills, outcome>>

Init == /\ resting = EmptyBook
        /\ pending = NoOrder
        /\ fills = <<>>
        /\ outcome = "PENDING"

Input == [id : OrderId, side : Side, type : OrderType,
          price : Price, quantity : OrderQty]

Call == /\ pending = NoOrder
        /\ pending' \in Input
        /\ pending'.id \notin RestingIds(resting)
        /\ fills' = <<>>
        /\ outcome' = "PENDING"
        /\ UNCHANGED resting

Return == /\ pending # NoOrder
          /\ pending' = NoOrder
          /\ LET opposite == resting[Opposite(pending.side)] IN
               /\ fills' = Fills(pending, opposite)
               /\ outcome' = Outcome(pending, opposite)
          /\ resting' = BookAfter(pending, resting)

Cancel(id) == /\ pending = NoOrder
              /\ id \in RestingIds(resting)
              /\ resting' = BookWithout(id, resting)
              /\ UNCHANGED <<pending, fills, outcome>>

Next == \/ Call
        \/ Return
        \/ \E id \in OrderId : Cancel(id)

Spec == Init /\ [][Next]_vars
==============================================================================
