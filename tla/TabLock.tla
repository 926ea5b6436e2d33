-------------------------------- MODULE TabLock --------------------------------
(***************************************************************************)
(* core/tab-lock.ts: a localStorage entry with the tab's id and the time of *)
(* its last heartbeat keeps a browser to one running tab.  A tab may be     *)
(* closed (beforeunload releases the lock) or killed (nothing runs).        *)
(*                                                                          *)
(* What the lock does not defend against is allowed to happen, and recorded *)
(* in `excused`: the check and the write being two steps of a storage other *)
(* tabs share, a hidden tab whose timers the browser stretches to STALE_MS, *)
(* and a beforeunload after which the page stays (a cancelled unload).      *)
(***************************************************************************)
EXTENDS Naturals

CONSTANTS
    Tabs,
    Heartbeat,    \* HEARTBEAT_MS
    Stale         \* STALE_MS

VARIABLES
    owner,        \* the id in the entry, or "none"
    age,          \* how old its timestamp is, up to Stale
    tab,          \* tab -> "closed" | "passed" | "running" | "refused"
    beating,      \* tabs whose heartbeat interval is set
    since,        \* tab -> time since its last heartbeat, up to Stale
    excused       \* one of the three has happened

tabVars == <<owner, age, tab, beating, since, excused>>

TabInit ==
    /\ owner = "none" /\ age = 0
    /\ tab = [t \in Tabs |-> "closed"]
    /\ beating = {}
    /\ since = [t \in Tabs |-> 0]
    /\ excused = FALSE

(* Every load draws a new tab id, so no entry found is one's own. *)
LockedByOther_ShortStale == owner # "none" /\ age < Heartbeat
LockedByOther == owner # "none" /\ age < Stale

writeLock(t) ==
    /\ owner' = t /\ age' = 0
    /\ since' = [since EXCEPT ![t] = 0]

(* acquireTabLock: the check... *)
Check(t) ==
    /\ tab[t] = "closed"
    /\ tab' = [tab EXCEPT ![t] = IF LockedByOther THEN "refused" ELSE "passed"]
    /\ UNCHANGED <<owner, age, beating, since, excused>>

(* ...and the write, with the heartbeat and the unload handler. *)
Acquire(t) ==
    /\ tab[t] = "passed"
    /\ tab' = [tab EXCEPT ![t] = "running"]
    /\ beating' = beating \cup {t}
    /\ writeLock(t)
    /\ excused' = (excused \/ LockedByOther)

Beat(t) ==
    /\ t \in beating /\ since[t] >= Heartbeat
    /\ writeLock(t)
    /\ UNCHANGED <<tab, beating, excused>>

(* releaseTabLock: only the owner's entry is removed. *)
Released(t) == IF owner = t THEN "none" ELSE owner
Unload(t, stays) ==
    /\ tab[t] = "running"
    /\ beating' = beating \ {t}
    /\ owner' = Released(t)
    /\ tab' = [tab EXCEPT ![t] = IF stays THEN "running" ELSE "closed"]
    /\ excused' = (excused \/ stays)
    /\ UNCHANGED <<age, since>>

(* A killed tab, or a refused one being closed: no handler runs or matters. *)
Killed(t) ==
    /\ tab[t] \in {"running", "refused"}
    /\ tab' = [tab EXCEPT ![t] = "closed"]
    /\ beating' = beating \ {t}
    /\ UNCHANGED <<owner, age, since, excused>>

Tick ==
    /\ age < Stale \/ \E t \in beating : since[t] < Stale
    /\ age' = IF age < Stale THEN age + 1 ELSE age
    /\ since' = [t \in Tabs |-> IF since[t] < Stale THEN since[t] + 1 ELSE since[t]]
    /\ excused' = (excused \/ \E t \in beating : since'[t] = Stale)
    /\ UNCHANGED <<owner, tab, beating>>

TabNext ==
    \/ \E t \in Tabs : Check(t)
    \/ \E t \in Tabs : Acquire(t)
    \/ \E t \in Tabs : Beat(t)
    \/ \E t \in Tabs, stays \in BOOLEAN : Unload(t, stays)
    \/ \E t \in Tabs : Killed(t)
    \/ Tick

TabSpec == TabInit /\ [][TabNext]_tabVars

----------------------------------------------------------------------------
(* Types. *)
TabTypeOK ==
    /\ owner \in Tabs \cup {"none"} /\ age \in 0..Stale
    /\ tab \in [Tabs -> {"closed", "passed", "running", "refused"}]
    /\ beating \subseteq Tabs
    /\ since \in [Tabs -> 0..Stale]
    /\ excused \in BOOLEAN

(* One tab of a browser runs at a time (tab-lock.ts, acquireTabLock:        *)
(* "Prevents multiple NeuronChain tabs in the same browser") across closes, *)
(* kills and reloads, until one of the three has happened.                  *)
OneTabRuns ==
    excused \/ \A t, u \in Tabs : tab[t] = "running" /\ tab[u] = "running" => t = u
=============================================================================
