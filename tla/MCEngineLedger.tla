--------------------------- MODULE MCEngineLedger ---------------------------
(***************************************************************************)
(* Bounded instances of EngineLedger.  WholeSpec is the ledger with the    *)
(* constants as they are.  A behaviour of SliceSpec is one of one of two   *)
(* narrower instances; the constants of the module are then the wider of   *)
(* the two:                                                                *)
(*                                                                         *)
(*   "devices"   account 1 on both devices: forks, evidence, freezes       *)
(*   "reload"    a device each, the first one restarts                     *)
(***************************************************************************)
EXTENDS EngineLedger

CONSTANTS n1, n2

\* Two accounts, each with a device of its own.
OneDeviceEach == [a \in Accounts |-> IF a = 1 THEN {n1} ELSE {n2}]

\* Account 1 lives on both devices, account 2 on the second.
FirstOnBoth == [a \in Accounts |-> IF a = 1 THEN {n1, n2} ELSE {n2}]

\* How far each account's chain may grow.
UpTo(i, j) == [a \in Accounts |-> IF a = 1 THEN i ELSE j]
Upto22 == UpTo(2, 2)
Upto21 == UpTo(2, 1)
Upto11 == UpTo(1, 1)
Upto20 == UpTo(2, 0)

\* Which devices may restart.
NoRestarts     == [n \in Nodes |-> 0]
FirstRestarts  == [n \in Nodes |-> IF n = n1 THEN 1 ELSE 0]
SecondRestarts == [n \in Nodes |-> IF n = n2 THEN 1 ELSE 0]

VARIABLE slice

WholeInit == Init /\ slice = "whole"
WholeNext == Next /\ UNCHANGED slice
WholeSpec == WholeInit /\ [][WholeNext]_<<vars, slice>>
WholeLiveSpec == WholeSpec /\ Fairness

\* Payments go to the other account, and the relay archives account 1 only,
\* the account with two devices.  Neither owes a fair step.
RelayStep ==
    /\ WholeNext
    /\ \A b \in signed' \ signed : IsSend(b) => b.to # b.acct
    /\ \A b \in archive' : b.acct = 1
RelayLiveSpec == WholeInit /\ [][RelayStep]_<<vars, slice>> /\ Fairness

TwoDevices == INSTANCE EngineLedger WITH
    Devices <- FirstOnBoth, LastIndex <- Upto20, MaxRestarts <- NoRestarts
Reload == INSTANCE EngineLedger WITH
    Devices <- OneDeviceEach, LastIndex <- Upto21, Tags <- {1}, MaxRestarts <- FirstRestarts

SliceInit == Init /\ slice \in {"devices", "reload"}

DevicesStep == slice = "devices" /\ TwoDevices!Next /\ UNCHANGED slice
ReloadStep == slice = "reload" /\ Reload!Next /\ UNCHANGED slice

SliceSpec == SliceInit /\ [][DevicesStep \/ ReloadStep]_<<vars, slice>>
====
