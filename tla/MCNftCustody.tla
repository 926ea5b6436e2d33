---------------------------- MODULE MCNftCustody ----------------------------
\* Instances of NftCustody: two devices, the first of which may have two
\* wallets, and accounts whose order in the replay differs from the order in
\* which they hold the token.
EXTENDS NftCustody, TLC

CONSTANTS n1, n2

FollowAll == [n \in Nodes |-> Accounts]
SecondRestarts == [n \in Nodes |-> IF n = n2 THEN 1 ELSE 0]

\* A minter, 2, between two others in the replay order; its token can come
\* back to it.
HomeOfThree  == 1 :> n1 @@ 2 :> n2 @@ 3 :> n1
RoundTrip    == 1 :> 2 @@ 2 :> 3 @@ 3 :> 2

\* A minter and a burner, replayed in the order that keys happen to have.
HomeOfTwo == 1 :> n1 @@ 2 :> n2
MintSendNext == 1 :> 2 @@ 2 :> 3
=============================================================================
