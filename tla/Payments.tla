----------------------------- MODULE Payments -----------------------------
(***************************************************************************)
(* What the ledger promises its users about money, with no node, block or  *)
(* network in it: opening an account mints a fixed amount once, a send     *)
(* moves money from a balance into a transfer in flight, and a transfer in *)
(* flight is claimed at most once, by the account it is addressed to.      *)
(* EngineLedger is checked to implement it.                                *)
(***************************************************************************)
EXTENDS Integers, FiniteSets, FiniteSetsExt

CONSTANTS
    Accounts,   \* account ids
    Mint,       \* what opening an account mints
    Ids         \* names of transfers

VARIABLES
    opened,     \* accounts that exist
    balance,    \* balance[a]: spendable money of an account
    inflight,   \* transfers sent and not claimed
    used        \* names of all transfers sent

vars == <<opened, balance, inflight, used>>

Transfers == [id: Ids, to: Accounts, amt: Nat]

Init ==
    /\ opened = {}
    /\ balance = [a \in Accounts |-> 0]
    /\ inflight = {}
    /\ used = {}

\* openAccount: EXACTLY the genesis amount, once per account.
Open(a) ==
    /\ a \notin opened
    /\ opened' = opened \cup {a}
    /\ balance' = [balance EXCEPT ![a] = Mint]
    /\ UNCHANGED <<inflight, used>>

\* createSend: never more than the balance.
Send(a, p) ==
    /\ a \in opened
    /\ p.id \notin used
    /\ 0 < p.amt /\ p.amt <= balance[a]
    /\ balance' = [balance EXCEPT ![a] = @ - p.amt]
    /\ inflight' = inflight \cup {p}
    /\ used' = used \cup {p.id}
    /\ UNCHANGED opened

\* createReceive: the addressee takes the transfer out of flight.
Claim(p) ==
    /\ p \in inflight /\ p.to \in opened
    /\ balance' = [balance EXCEPT ![p.to] = @ + p.amt]
    /\ inflight' = inflight \ {p}
    /\ UNCHANGED <<opened, used>>

Next ==
    \/ \E a \in Accounts : Open(a)
    \/ \E a \in opened, id \in Ids \ used, to \in Accounts :
          \E amt \in 1..balance[a] : Send(a, [id |-> id, to |-> to, amt |-> amt])
    \/ \E p \in inflight : Claim(p)

Spec == Init /\ [][Next]_vars

TypeOK ==
    /\ opened \subseteq Accounts
    /\ balance \in [Accounts -> Nat]
    /\ inflight \subseteq Transfers
    /\ used \subseteq Ids

\* Money is neither made nor lost by a transfer: what the balances and the
\* transfers in flight add up to is one mint per account.
Conserved ==
    MapThenSumSet(LAMBDA a : balance[a], Accounts)
      + MapThenSumSet(LAMBDA p : p.amt, inflight) = Mint * Cardinality(opened)
====
