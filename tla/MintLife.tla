------------------------------ MODULE MintLife ------------------------------
(***************************************************************************)
(* What the mint leases promise about one address, without saying how: it   *)
(* is in stock, held by one launch, or spent by that launch for good; it    *)
(* goes from one launch to another only through the stock.  MintLeases      *)
(* implements this over two databases (see MintLeases!Life).                *)
(***************************************************************************)
CONSTANTS Mints, Bindings

VARIABLE place \* where each mint is

Stock == <<"stock">>
Held(b) == <<"held", b>>
Spent(b) == <<"spent", b>>

Init == place = [m \in Mints |-> Stock]

Take(m, b) ==
  /\ place[m] = Stock
  /\ \A n \in Mints : place[n] \notin {Held(b), Spent(b)}
  /\ place' = [place EXCEPT ![m] = Held(b)]
Return(m, b) ==
  /\ place[m] = Held(b)
  /\ place' = [place EXCEPT ![m] = Stock]
Spend(m, b) ==
  /\ place[m] = Held(b)
  /\ place' = [place EXCEPT ![m] = Spent(b)]

Next == \E m \in Mints, b \in Bindings : Take(m, b) \/ Return(m, b) \/ Spend(m, b)
Spec == Init /\ [][Next]_place
=============================================================================
