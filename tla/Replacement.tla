------------------------------ MODULE Replacement ------------------------------
(***************************************************************************)
(* Replacing a published file: the owner stores the new version, deletes    *)
(* the old one's blocks, broadcasts a ReplaceRequest and hands the new      *)
(* version to providers (main.ts btnReplaceConfirm, node.ts and             *)
(* storage-manager.ts replaceContent).  A holder of the old version deletes *)
(* its blocks and fetches the new ones (handleReplaceRequest), while the    *)
(* hand-off may have asked it for the same blocks (handleCacheRequest): two *)
(* handlers, one store.                                                     *)
(***************************************************************************)
EXTENDS Naturals, FiniteSets

CONSTANTS
    Holders,      \* providers that hold the old version
    Old, New,     \* the blocks of the versions
    OldRoot,      \* the root of the old one
    Enough        \* receipts after which the owner releases its copy

VARIABLES
    owner,        \* blocks in the owner's store
    stage,        \* "old" | "stored" | "deleting" | "sent" | "released"
    held,         \* holder -> blocks
    mail,         \* requests on their way: set of <<"replace" | "cache", holder>>
    work,         \* handler -> [do, left]: what it does, to which blocks
    counted       \* holders whose receipt for the new version is out

replaceVars == <<owner, stage, held, mail, work, counted>>

Handlers == {"replace", "cache"} \X Holders
Idle == [do |-> "idle", left |-> {}]

ReplaceInit ==
    /\ owner = Old /\ stage = "old"
    /\ held = [h \in Holders |-> Old]
    /\ mail = {}
    /\ work = [w \in Handlers |-> Idle]
    /\ counted = {}

(* storeWithMetaPublic: the same bytes are the same block. *)
StoreNew ==
    /\ stage = "old"
    /\ owner' = owner \cup New
    /\ stage' = "stored"
    /\ UNCHANGED <<held, mail, work, counted>>

(* node.replaceContent: every block of the old version, whatever else it    *)
(* is a block of; then the request, and the hand-off to providers picked.   *)
OwnerDeletes ==
    /\ stage = "stored"
    /\ owner' = owner \ Old
    /\ stage' = "deleting"
    /\ UNCHANGED <<held, mail, work, counted>>
Publish(picked) ==
    /\ stage = "deleting"
    /\ mail' = {<<"replace", h>> : h \in Holders} \cup {<<"cache", h>> : h \in picked}
    /\ stage' = "sent"
    /\ UNCHANGED <<owner, held, work, counted>>

(* A message is lost. *)
Lost(m) ==
    /\ m \in mail
    /\ mail' = mail \ {m}
    /\ UNCHANGED <<owner, stage, held, work, counted>>

(* handleReplaceRequest: only a holder of the old root goes on to fetch. *)
ReplaceArrives(h) ==
    /\ <<"replace", h>> \in mail
    /\ mail' = mail \ {<<"replace", h>>}
    /\ work' = [work EXCEPT ![<<"replace", h>>] =
                  [do |-> IF OldRoot \in held[h] THEN "swap" ELSE "delete", left |-> Old]]
    /\ UNCHANGED <<owner, stage, held, counted>>
DeleteBlock(h, b) ==
    LET w == work[<<"replace", h>>]
    IN /\ w.do \in {"swap", "delete"} /\ b \in w.left
       /\ held' = [held EXCEPT ![h] = @ \ {b}]
       /\ work' = [work EXCEPT ![<<"replace", h>>] =
                     IF w.left # {b} THEN [w EXCEPT !.left = @ \ {b}]
                     ELSE IF w.do = "swap" THEN [do |-> "fetch", left |-> New] ELSE Idle]
    /\ UNCHANGED <<owner, stage, mail, counted>>

CacheArrives(h) ==
    /\ <<"cache", h>> \in mail
    /\ mail' = mail \ {<<"cache", h>>}
    /\ work' = [work EXCEPT ![<<"cache", h>>] = [do |-> "fetch", left |-> New]]
    /\ UNCHANGED <<owner, stage, held, counted>>

(* store.cache: a block that is there is not fetched, the others come from  *)
(* the owner or from another holder; the last one sends the receipt.        *)
Cached(w, h, b) ==
    /\ held' = [held EXCEPT ![h] = @ \cup {b}]
    /\ work' = [work EXCEPT ![w] = IF @.left = {b} THEN Idle ELSE [do |-> "fetch", left |-> @.left \ {b}]]
    /\ counted' = IF work[w].left = {b} THEN counted \cup {h} ELSE counted
Fetch(w, h, b) ==
    /\ w[2] = h /\ work[w].do = "fetch" /\ b \in work[w].left
    /\ b \in owner \/ \E g \in Holders : b \in held[g]
    /\ Cached(w, h, b)
    /\ UNCHANGED <<owner, stage, mail>>

(* A fetch that finds nobody ends the handler without a receipt. *)
Failed_Counts(w, h) == counted \cup {h}
Failed(w, h) == counted
FetchFails(w, h, b) ==
    /\ w[2] = h /\ work[w].do = "fetch" /\ b \in work[w].left
    /\ b \notin held[h]
    /\ work' = [work EXCEPT ![w] = Idle]
    /\ counted' = Failed(w, h)
    /\ UNCHANGED <<owner, stage, held, mail>>

(* The hand-off is complete: the owner's copy goes. *)
Release ==
    /\ stage = "sent" /\ Cardinality(counted) >= Enough
    /\ owner' = {} /\ stage' = "released"
    /\ UNCHANGED <<held, mail, work, counted>>

ReplaceNext ==
    \/ StoreNew
    \/ OwnerDeletes
    \/ \E picked \in SUBSET Holders : Publish(picked)
    \/ \E m \in mail : Lost(m)
    \/ \E h \in Holders : ReplaceArrives(h)
    \/ \E h \in Holders, b \in Old : DeleteBlock(h, b)
    \/ \E h \in Holders : CacheArrives(h)
    \/ \E w \in Handlers, h \in Holders, b \in New : Fetch(w, h, b)
    \/ \E w \in Handlers, h \in Holders, b \in New : FetchFails(w, h, b)
    \/ Release

ReplaceSpec == ReplaceInit /\ [][ReplaceNext]_replaceVars

----------------------------------------------------------------------------
(* A holder counted for the new version has what is new in it, however the  *)
(* two requests, their deletions and fetches, and the owner's release       *)
(* interleave (handleReplaceRequest, handleCacheRequest).                   *)
CountedHoldTheNew == \A h \in counted : New \ Old \subseteq held[h]

(* The new version is somewhere: with its owner, or whole with a holder.    *)
(* FALSE of this code for versions that share a block: the owner deletes    *)
(* the old version's blocks after storing the new one.                      *)
NewVersionExists ==
    stage = "old" \/ New \subseteq owner \/ \E h \in Holders : New \subseteq held[h]
=============================================================================
