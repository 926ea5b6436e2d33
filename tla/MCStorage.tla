------------------------------ MODULE MCStorage ------------------------------
(***************************************************************************)
(* The storage economy and the custody of a file, for TLC.  They share no   *)
(* state that the models have, so they are checked apart: a behaviour of    *)
(* this module is one of one of them, while the variables of the other      *)
(* stand still.                                                             *)
(***************************************************************************)
EXTENDS StorageEconomy, ContentCustody, TLC

CONSTANTS r1, r2, d1, d2, p1, q1, q2, q3

VARIABLE part   \* the component that runs in this behaviour

\* What the first and the second read of a reader are worth.
Tapered == <<2, 1>>

\* So many registered providers, and each of the named events once.
Once(n, events) ==
    [e \in Events |-> IF e = "registered" THEN n ELSE IF e \in events THEN 1 ELSE 0]
EachEvent == {Once(2, {"losses", "crashes"}),
              Once(2, {"crashes", "lossy", "small"}), Once(2, {"losses", "reloads", "lossy"}),
              Once(2, {"reloads", "lossy", "small"}), Once(2, {"lapses", "small"}),
              Once(2, {"withdrawals"}), Once(0, {"newcomers"}), Once(3, {"peaks"})}

\* Each provider is one device; the file is its root.
OwnDevice == [p \in {q1, q2, q3} |-> p]
NoParts == <<>>

Symmetry == Permutations({r1, r2}) \cup Permutations({q1, q2, q3})

\* While the economy runs nobody has registered to keep the file.
NobodyYet == CustodyInit /\ budget["registered"] = 0

\* The economy is checked in slices, each of which cuts what the others have.
\* Receipts: they are lost, reordered and resent, and pages reload; one device
\* writes, and what it gossips is saved before anything else happens.
\* Writers: both devices write, reload with saves under way and hear each other;
\* a receipt reaches one of them at once.
\* Again: one device signs one block more, and reloads nowhere.
Slices == {"Receipts", "Writers", "Again"}

SavedFirst == (\E d \in Devices : unsaved[d] # {}) => saved' # saved
HandedOver == wire # {} => inbound' # inbound
Idles(n) == ledger'[n] = ledger[n] /\ (n \in Devices => inbound'[n] = inbound[n])
\* A reload that makes nobody forget anything is left out.
Forgets == reloads' # reloads => <<ledger, unsaved, inbound, book>>' # <<ledger, unsaved, inbound, book>>

InSlice ==
    /\ Forgets
    /\ part = "Receipts" => SavedFirst /\ Idles(d2) /\ signed' <= 3
    /\ part = "Writers" => /\ HandedOver /\ Idles(p1) /\ signed' <= 3 /\ period' = 0
                           /\ \A r \in Readers : reads'[r] \in reads[r]..1
    /\ part = "Again" => SavedFirst /\ HandedOver /\ Idles(d2) /\ reloads' = 0

PartsInit ==
    /\ Init
    /\ \/ part \in Slices /\ NobodyYet
       \/ part = "Custody" /\ CustodyInit
PartsNext ==
    /\ \/ part \in Slices /\ Next /\ InSlice /\ UNCHANGED custodyVars
       \/ part = "Custody" /\ CustodyNext /\ UNCHANGED vars
    /\ UNCHANGED part

PartsSpec == PartsInit /\ [][PartsNext]_<<vars, custodyVars, part>>

============================================================================
