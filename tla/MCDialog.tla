------------------------------ MODULE MCDialog ------------------------------
(***************************************************************************)
(* Instances of Dialog for TLC: pages of two hits of which one is shown.    *)
(***************************************************************************)
EXTENDS Dialog

CONSTANTS p1, u1, u2, film, sequel, series, hd, uhd, title, blank, literal

MCKindOf == (film :> "movie") @@ (sequel :> "movie") @@ (series :> "tv")
MCSeasonCount == series :> 1
MCPages == (title :> <<<<film, series>>, <<sequel>>>>) @@ (blank :> <<>>) @@ (literal :> <<>>)

\* Seerr lists its profiles in another order than they are offered in.
MCAvailable == <<hd, uhd>>
MCConfigured == <<uhd, hd>>

\* A request of somebody else's, an account that p1 may come to be mapped to.
MCStored == {[id |-> 1, owner |-> u2, hit |-> sequel, seasons |-> {}, profile |-> None]}
MCOne == p1 :> [user |-> u1, allowed |-> TRUE]

MCText ==
  {Help, Cancel, All, Numbers({1}), Numbers({2}), Ask(title, None), Ask(blank, None),
   Withdraw(1), Withdraw(2)}
=============================================================================
