----------------------------- MODULE MCRentRoll -----------------------------
(* An earlier load left a fall from 2 to 1; a reload may change everything. *)
EXTENDS RentRoll

MCFiles == {"January", "February"}
MCPlaceOf == ("February" :> 1) @@ ("January" :> 2)
MCMonthOf == ("January" :> 1) @@ ("February" :> 2)
MCEarlier == ("January" :> [percentages |-> <<2>>, units |-> 1, vacant |-> 0])
          @@ ("February" :> [percentages |-> <<1>>, units |-> 2, vacant |-> 1])

\* Rents of both months, but lease charges of one.
MCAmountsOf ==
    [e \in Earlier \cup Current |->
        IF e[1] = "January" THEN [market_rent |-> 7, lease_charges |-> NoAmount]
        ELSE [market_rent |-> 4, lease_charges |-> 5]]
=============================================================================
