----------------------------- MODULE SubAccounts -----------------------------
(***************************************************************************)
(* Many keys, one human: the registry of delegations and the dotted names  *)
(* of engine/core/sub-accounts.ts.                                         *)
(*                                                                         *)
(* A delegation is signed once by its parent and can be presented again at *)
(* any time.  A name is the sequence of its parts between dots; a part is  *)
(* a model value, and only Clean parts pass the character rule.            *)
(***************************************************************************)
EXTENDS Naturals, Sequences, FiniteSets

CONSTANTS
    Keys,           \* account keys
    PersonOf,       \* the human who holds each key: Keys -> a set of humans
    Expiries,       \* the expiry times a parent writes; Never means none
    MaxTime,        \* bound on the clock
    Parts,          \* parts a name may have
    Clean           \* those of at most 32 characters that match NAME_RE

VARIABLES
    signed,         \* the delegations that exist, as their parents signed them
    parentOf,       \* SubAccountRegistry.parentOf: a set of delegations
    childrenOf,     \* SubAccountRegistry.childrenOf: Keys -> sets of keys
    revoked,        \* the children somebody revoked
    now

subVars == <<signed, parentOf, childrenOf, revoked, now>>

Never == MaxTime + 1

Delegations == [parent : Keys, child : Keys, expiresAt : Expiries \cup {Never}]

SubInit ==
    /\ signed = {} /\ parentOf = {} /\ revoked = {} /\ now = 0
    /\ childrenOf = [k \in Keys |-> {}]

-----------------------------------------------------------------------------
Expired(d) == d.expiresAt <= now
DelegationOf(k) == {d \in parentOf : d.child = k}

(* SubAccountRegistry.register: every reason to refuse.  Expired           *)
(* delegations count until they are swept.                                 *)
Accepts(d) ==
    /\ d.parent # d.child /\ d \in signed /\ ~Expired(d)
    /\ DelegationOf(d.parent) = {}
    /\ \A e \in DelegationOf(d.child) : e.parent = d.parent
    /\ childrenOf[d.child] = {}

Register(d) ==
    /\ Accepts(d)
    /\ parentOf' = (parentOf \ DelegationOf(d.child)) \cup {d}
    /\ childrenOf' = [childrenOf EXCEPT ![d.parent] = @ \cup {d.child}]
    /\ UNCHANGED <<signed, revoked, now>>

\* The entries that are left after those of the children in C are removed.
Drop(C) ==
    /\ parentOf' = {d \in parentOf : d.child \notin C}
    /\ childrenOf' = [k \in Keys |-> childrenOf[k] \ C]

Revoke(k) ==
    /\ DelegationOf(k) # {}
    /\ Drop({k}) /\ revoked' = revoked \cup {k}
    /\ UNCHANGED <<signed, now>>

Sweep ==
    /\ Drop({d.child : d \in {e \in parentOf : Expired(e)}})
    /\ UNCHANGED <<signed, revoked, now>>

\* A parent signs a delegation for another key of the same person.
Sign ==
    /\ \E d \in Delegations :
         /\ d.parent # d.child /\ PersonOf[d.parent] = PersonOf[d.child]
         /\ \A e \in signed : e.child # d.child \/ e.parent # d.parent
         /\ signed' = signed \cup {d}
    /\ UNCHANGED <<parentOf, childrenOf, revoked, now>>

Tick == now < MaxTime /\ now' = now + 1 /\ UNCHANGED <<signed, parentOf, childrenOf, revoked>>

SubNext ==
    \/ \E d \in signed : Register(d)
    \/ \E k \in Keys : Revoke(k)
    \/ Sweep \/ Sign \/ Tick

SubSpec == SubInit /\ [][SubNext]_subVars

-----------------------------------------------------------------------------
(* The reads every cap and every floor goes through.                       *)

RootOf(k) ==
    IF \E d \in DelegationOf(k) : ~Expired(d)
    THEN (CHOOSE d \in DelegationOf(k) : TRUE).parent
    ELSE k

IsSubAccount(k) == RootOf(k) # k
DistinctHumans(S) == Cardinality({RootOf(k) : k \in S})
ConsensusWeightFactor(k) == IF IsSubAccount(k) THEN 0 ELSE 1

(* Names: isValidRootName, isValidLabel, subAccountName and parseName.     *)
NoName == [root |-> "", label |-> ""]
SubAccountName(root, label) == IF {root, label} \subseteq Clean THEN <<root, label>> ELSE <<>>
ParseName(name) ==
    IF Len(name) = 1 /\ name[1] \in Clean THEN [root |-> name[1], label |-> ""]
    ELSE IF Len(name) = 2 /\ {name[1], name[2]} \subseteq Clean
         THEN [root |-> name[1], label |-> name[2]]
    ELSE NoName
IsUnderRoot(name, root) ==
    LET p == ParseName(name) IN p # NoName /\ p.root = root /\ p.label # ""

-----------------------------------------------------------------------------
SubTypeOK ==
    /\ signed \subseteq Delegations /\ parentOf \subseteq signed
    /\ revoked \subseteq Keys /\ now \in 0 .. MaxTime

\* "Depth is exactly one", however delegations are signed, presented, left to
\* expire, swept and revoked: no child of a parent is a parent, every key has
\* one entry, and both maps tell the same.
DepthIsOne ==
    /\ \A d, e \in parentOf : d.parent # e.child /\ (d.child = e.child => d = e)
    /\ \A p \in Keys : childrenOf[p] = {d.child : d \in {e \in parentOf : e.parent = p}}

\* Two humans are never collapsed into one: a key counts for the human who
\* holds it, so a set of keys never counts for fewer humans than it has.
NoHumanLost ==
    \A S \in SUBSET Keys : DistinctHumans(S) >= Cardinality({PersonOf[k] : k \in S})

\* A revoked key does not come back by the same signed delegation.
RevokedStaysRevoked == \A d \in parentOf : d.child \notin revoked

\* The two name spaces do not overlap: what a parser reads under a root was
\* built from that root, and no root name reads as a sub-account.
NamesAgree ==
    \A r, l \in Parts :
        /\ SubAccountName(r, l) # <<>> => IsUnderRoot(SubAccountName(r, l), r)
        /\ ~IsUnderRoot(<<r>>, r)
        /\ \A x \in Parts : IsUnderRoot(<<r, l>>, x) => x = r /\ SubAccountName(r, l) = <<r, l>>
=============================================================================
