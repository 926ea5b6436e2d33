-------------------------------- MODULE PinGate --------------------------------
(***************************************************************************)
(* The PIN of one account on one device: requirePin and its dialog          *)
(* (main.ts), the attempt record and its backoff (core/pin-crypto.ts), and  *)
(* the lockout notice the device gossips, which its peers keep and apply to *)
(* the account's blocks and votes (libp2p-network.ts, node.ts               *)
(* voteIfConflict).  Time is counted in the backoff's unit of 30 seconds.   *)
(*                                                                          *)
(* Two sensitive actions may each have a dialog of their own open.          *)
(***************************************************************************)
EXTENDS Naturals, FiniteSets, FiniteSetsExt

CONSTANTS
    Dialogs,      \* calls of requirePin in flight at once
    Peers,        \* devices that hear the notices
    FreeAttempts, \* FREE_ATTEMPTS
    MaxDelay,     \* MAX_DELAY_MS
    CacheTtl,     \* PIN_CACHE_TTL_MS
    Fresh,        \* a notice older than this is refused
    MaxFails,     \* bound: wrong PINs since the last right one
    MaxTime       \* bound: the clock

VARIABLES
    now,
    record,       \* the stored attempts: [fails, until]
    cached,       \* until when the derived key is cached, or 0
    dialog,       \* dialog -> "idle" | "open" | "checking" | "failing"
    read,         \* dialog -> the attempt count recordPinFailure read
    guesses,      \* wrong PINs since the last right one, over all dialogs
    sent,         \* notices on their way: [fails, until, at, to]
    notices       \* peer -> the notice it keeps: [fails, until]

pinVars == <<now, record, cached, dialog, read, guesses, sent, notices>>

NoNotice == [fails |-> 0, until |-> 0]

(* getBackoffMs: 30 s, then four times as much for each further failure. *)
Backoff(f) == IF f <= FreeAttempts THEN 0
              ELSE Min({MaxDelay, 4 ^ (f - FreeAttempts - 1)})

PinInit ==
    /\ now = 0
    /\ record = NoNotice
    /\ cached = 0
    /\ dialog = [d \in Dialogs |-> "idle"]
    /\ read = [d \in Dialogs |-> 0]
    /\ guesses = 0
    /\ sent = {}
    /\ notices = [p \in Peers |-> NoNotice]

Locked == record.until > now
Cached == cached > 0 /\ cached >= now

(* requirePin: no question while the key is cached, none while locked. *)
Asks == ~Cached /\ ~Locked
Require(d) ==
    /\ dialog[d] = "idle" /\ Asks
    /\ dialog' = [dialog EXCEPT ![d] = "open"]
    /\ cached' = 0
    /\ UNCHANGED <<now, record, read, guesses, sent, notices>>

Cancel(d) ==
    /\ dialog[d] = "open"
    /\ dialog' = [dialog EXCEPT ![d] = "idle"]
    /\ UNCHANGED <<now, record, cached, read, guesses, sent, notices>>

(* A PIN is entered; its key derivation takes a while, and nothing looks at *)
(* the lockout again.                                                       *)
Enter(d) ==
    /\ dialog[d] = "open"
    /\ dialog' = [dialog EXCEPT ![d] = "checking"]
    /\ UNCHANGED <<now, record, cached, read, guesses, sent, notices>>

(* recordPinSuccess, cachePinKey. *)
RightPin(d) ==
    /\ dialog[d] = "checking"
    /\ dialog' = [dialog EXCEPT ![d] = "idle"]
    /\ record' = NoNotice
    /\ cached' = now + CacheTtl
    /\ guesses' = 0
    /\ UNCHANGED <<now, read, sent, notices>>

(* recordPinFailure reads the record in one transaction... *)
WrongPin(d) ==
    /\ dialog[d] = "checking" /\ guesses < MaxFails
    /\ dialog' = [dialog EXCEPT ![d] = "failing"]
    /\ read' = [read EXCEPT ![d] = record.fails]
    /\ guesses' = guesses + 1
    /\ UNCHANGED <<now, record, cached, sent, notices>>

(* ...and writes it in another; then the notice goes out, if the node runs  *)
(* and holds the account's key to sign it with, and the dialog stays open   *)
(* only while there is no backoff.                                          *)
After(f) == IF Backoff(f) > 0 THEN "idle" ELSE "open"
RecordFailure(d, publishes) ==
    /\ dialog[d] = "failing"
    /\ LET f == read[d] + 1
       IN /\ record' = [fails |-> f, until |-> now + Backoff(f)]
          /\ dialog' = [dialog EXCEPT ![d] = After(f)]
          /\ sent' = IF publishes /\ Backoff(f) > 0
                     THEN sent \cup {[fails |-> f, until |-> now + Backoff(f), at |-> now, to |-> p] : p \in Peers}
                     ELSE sent
    /\ read' = [read EXCEPT ![d] = 0]
    /\ UNCHANGED <<now, cached, guesses, notices>>

(* A peer takes a fresh notice that counts at least as many failures as the *)
(* one it keeps.  The gossip delivers each notice once or not at all.       *)
Supersedes(m, kept) == kept = NoNotice \/ m.fails >= kept.fails
Hear(m) ==
    /\ m \in sent /\ now - m.at < Fresh
    /\ sent' = sent \ {m}
    /\ notices' = [notices EXCEPT ![m.to] =
                     IF Supersedes(m, @) THEN [fails |-> m.fails, until |-> m.until] ELSE @]
    /\ UNCHANGED <<now, record, cached, dialog, read, guesses>>
Forget(m) ==
    /\ m \in sent
    /\ sent' = sent \ {m}
    /\ UNCHANGED <<now, record, cached, dialog, read, guesses, notices>>

(* The page is reloaded: dialogs and cached keys go, the record stays. *)
Reload ==
    /\ dialog' = [d \in Dialogs |-> "idle"]
    /\ read' = [d \in Dialogs |-> 0]
    /\ cached' = 0
    /\ UNCHANGED <<now, record, guesses, sent, notices>>

Tick ==
    /\ now < MaxTime
    /\ now' = now + 1
    /\ UNCHANGED <<record, cached, dialog, read, guesses, sent, notices>>

PinNext ==
    \/ \E d \in Dialogs : Require(d)
    \/ \E d \in Dialogs : Cancel(d)
    \/ \E d \in Dialogs : Enter(d)
    \/ \E d \in Dialogs : RightPin(d)
    \/ \E d \in Dialogs : WrongPin(d)
    \/ \E d \in Dialogs, publishes \in BOOLEAN : RecordFailure(d, publishes)
    \/ \E m \in sent : Hear(m)
    \/ \E m \in sent : Forget(m)
    \/ Reload
    \/ Tick

PinSpec == PinInit /\ [][PinNext]_pinVars

(* isLockedOut: a peer refuses the account's blocks and votes against them. *)
LockedAt(p) == notices[p].until > now

----------------------------------------------------------------------------
(* Types. *)
PinTypeOK ==
    /\ now \in 0..MaxTime
    /\ record.fails \in 0..MaxFails /\ record.until \in 0..(MaxTime + MaxDelay)
    /\ cached \in 0..(MaxTime + CacheTtl)
    /\ dialog \in [Dialogs -> {"idle", "open", "checking", "failing"}]
    /\ read \in [Dialogs -> 0..MaxFails]
    /\ guesses \in 0..MaxFails

(* With one dialog, no PIN is put to the test while the account is locked:  *)
(* not by a dialog that stays open over a failure, not after a reload       *)
(* (requirePin, recordPinFailure).                                          *)
NoTestWhileLocked ==
    \A d \in Dialogs : dialog[d] \in {"open", "checking"} => ~Locked

(* The record counts every wrong PIN.  FALSE of a reload between the answer *)
(* and the write, and of two dialogs that read the same count.              *)
EveryGuessCounts == (\A d \in Dialogs : dialog[d] # "failing") => record.fails = guesses

(* A peer that hears a notice locks the account at least as long as it   *)
(* says (libp2p-network.ts: "Only update if this notice has a higher        *)
(* attempt count or later lockout").  FALSE of this code: a right PIN       *)
(* restarts the count, and peers then refuse the lower ones.                *)
LaterLockoutIsTaken ==
    [][\A m \in sent : Hear(m) => notices'[m.to].until >= m.until]_pinVars
=============================================================================
