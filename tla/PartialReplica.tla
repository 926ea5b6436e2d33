--------------------------- MODULE PartialReplica ---------------------------
(***************************************************************************)
(* A node that replicates only the accounts it wants: engine/node's        *)
(* account-store.ts, subscription.ts and delta-sync.ts, with the interest  *)
(* routing of engine/sim/network.ts.                                       *)
(*                                                                         *)
(* One account is followed.  Its owner signs on several devices, so its    *)
(* chain may fork; a block is the sequence of labels of its history, which *)
(* is what its hash commits to: its index is the length less one and its   *)
(* previousHash is the sequence without its last label.  A block built on  *)
(* an accumulator out of step ends in Wrong: its claimed root is not the   *)
(* root a reader recomputes.  A published block reaches a node at once     *)
(* (SimNetwork.publish), or never; deltas are answers to requests and may  *)
(* be lost, repeated and reordered.                                        *)
(***************************************************************************)
EXTENDS Sequences, SequencesExt, Integers, FiniteSets

CONSTANTS
    Devices,        \* the owner's devices, each with a full replica
    Labels,         \* what distinguishes two blocks with the same parent
    MaxLength,      \* bound on a chain
    WrongAt,        \* the indices at which a block may claim a wrong root
    MaxTurns        \* bound on follow and unfollow

VARIABLES
    source,         \* the chain each device holds
    replica,        \* the follower's AccountStore entry, or NotHeld
    wants,          \* Subscription.wants of the account
    turns

replicaVars == <<source, replica, wants, turns>>

Wrong   == "wrong"
\* The entry of an account, as its blocks; an entry can be there without any.
NotHeld == [held |-> FALSE, blocks |-> <<>>]
Held(blocks) == [held |-> TRUE, blocks |-> blocks]

ReplicaInit ==
    /\ source = [d \in Devices |-> <<>>]
    /\ replica = NotHeld /\ wants = FALSE /\ turns = 0

-----------------------------------------------------------------------------
(* AccountStore.apply of the block with history h, on the entry e: the     *)
(* entry afterwards and whether the block was accepted.  An entry without  *)
(* a genesis makes every later block fail.                                 *)

RootMatches(h) == Last(h) # Wrong

Commit(e, h) ==
    IF RootMatches(h) THEN [ok |-> TRUE, entry |-> Held(h)] ELSE [ok |-> FALSE, entry |-> e]

ApplyGenesis(e, h) ==
    IF e.held THEN [ok |-> e.blocks # <<>> /\ SubSeq(e.blocks, 1, 1) = h, entry |-> e]
              ELSE Commit(Held(<<>>), h)

Links(e, h) == Front(h) = e.blocks

Applied(e, h) ==
    IF Len(h) = 1 THEN ApplyGenesis(e, h)
    ELSE IF ~e.held \/ e.blocks = <<>> THEN [ok |-> FALSE, entry |-> e]
    ELSE IF Len(h) <= Len(e.blocks) THEN [ok |-> SubSeq(e.blocks, 1, Len(h)) = h, entry |-> e]
    ELSE IF Links(e, h) THEN Commit(e, h)
    ELSE [ok |-> FALSE, entry |-> e]

(* applyDelta: the blocks of chain from index `from` on, until one fails.  *)
AppliedDelta(e, chain, from) ==
    FoldFunction(LAMBDA i, r : IF r.ok THEN Applied(r.entry, SubSeq(chain, 1, i)) ELSE r,
                 [ok |-> TRUE, entry |-> e],
                 [k \in 1 .. Len(chain) - from |-> Len(chain) + 1 - k])

-----------------------------------------------------------------------------
\* SimNetwork.publish: a node that wants the account applies the block.
Deliver(h) == replica' = IF wants THEN Applied(replica, h).entry ELSE replica

\* A device signs the next block, applies it to its own store, and publishes
\* it; a light client may be offline then.
Publish(d) ==
    /\ Len(source[d]) < MaxLength
    /\ \E l \in Labels : LET h == Append(source[d], l) IN
         /\ source' = [source EXCEPT ![d] = h]
         /\ Deliver(h) \/ UNCHANGED replica
    /\ UNCHANGED <<wants, turns>>

\* A device builds its next block on a wrong accumulator: its own store
\* refuses it, but it has been published.
PublishWrong(d) ==
    /\ Len(source[d]) \in WrongAt
    /\ Deliver(Append(source[d], Wrong))
    /\ UNCHANGED <<source, wants, turns>>

\* A device brings the account over from another one by syncAccount.
SyncDevices(d, f) ==
    /\ d # f
    /\ source' = [source EXCEPT ![d] =
           AppliedDelta(IF @ = <<>> THEN NotHeld ELSE Held(@), source[f], Len(@)).entry.blocks]
    /\ UNCHANGED <<replica, wants, turns>>

\* Subscription.follow and unfollow; what is held stays held.
Follow ==
    /\ turns < MaxTurns /\ turns' = turns + 1
    /\ wants' = ~wants
    /\ UNCHANGED <<source, replica>>

(* deltaRequestFor on the follower, serveDelta on a device, applyDelta on   *)
(* the follower again.  Chains and replicas only grow, so an answer that    *)
(* comes late, or again, is a beginning of what the device holds now, sent  *)
(* from an index the follower had reached before.                           *)
ApplyDelta(d) ==
    /\ wants
    /\ \E n \in 0 .. Len(source[d]), from \in 0 .. Len(replica.blocks) :
         /\ from <= n
         /\ replica' = AppliedDelta(replica, SubSeq(source[d], 1, n), from).entry
    /\ UNCHANGED <<source, wants, turns>>

ReplicaNext ==
    \/ \E d \in Devices : Publish(d) \/ PublishWrong(d) \/ ApplyDelta(d)
    \/ \E d, f \in Devices : SyncDevices(d, f)
    \/ Follow

ReplicaSpec == ReplicaInit /\ [][ReplicaNext]_replicaVars

-----------------------------------------------------------------------------
ReplicaTypeOK ==
    /\ \A d \in Devices : source[d] \in BoundedSeq(Labels, MaxLength)
    /\ replica.blocks \in BoundedSeq(Labels, MaxLength) /\ wants \in BOOLEAN

\* Whatever is lost, repeated or reordered, the follower holds an unbroken
\* prefix of a chain one device really has; it never mixes two branches.
ReplicaIsBranch == \E d \in Devices : IsPrefix(replica.blocks, source[d])

\* "rejected without mutating state": an entry always has a genesis.  A first
\* block with a wrong root leaves an empty entry, and the account can then
\* never be replicated.
EntryHasGenesis == replica.held => replica.blocks # <<>>
=============================================================================
