---------------------------- MODULE NetworkReset ----------------------------
(***************************************************************************)
(* The reset of a test network (network/libp2p-network.ts, node.ts,        *)
(* main.ts and relay/server.ts).  Relays and browsers count resets: the    *)
(* generation.  An operator, one of the first accounts a relay attested,   *)
(* signs a new generation; relays and browsers wipe themselves when they   *)
(* hear of it, or when they find a relay that is ahead.  What a browser    *)
(* has is spread over its database, its memory and its wallet, and each    *)
(* way of learning of a reset clears them in steps of its own.             *)
(*                                                                         *)
(* The data of an account (its blocks and its record) is the account       *)
(* itself; how it travels between relays and browsers is left out.         *)
(* Accounts are attested by all relays.  Signatures are sound.             *)
(***************************************************************************)
EXTENDS Integers, FiniteSets, Sequences, SequencesExt

CONSTANTS
  Relays, Devices,
  Accounts,        \* accounts that may be created
  OperatorCount,   \* OPERATOR_COUNT
  MaxGeneration,   \* bound of a run: resets are no longer signed at this generation
  MaxReloads       \* bound of a run: how often the browsers are closed or reloaded by their users

VARIABLES
  epoch,      \* epoch[r]: currentGeneration of the relay
  operators,  \* operators[r]: its operators, in the order of election
  phase,      \* phase[d]: "off", "node" (the node runs, the page does not listen to it yet),
              \* "page" (all is wired) or "reloading"
  generation, \* generation[d], in localStorage
  known,      \* known[d]: the operators that d heard of
  database,   \* database[d]: accounts in d's IndexedDB
  ledger,     \* ledger[d]: accounts in d's memory
  wallet,     \* wallet[d]: the sequence of accounts in d's localStorage
  inbox,      \* reset messages <<reset, receiver>> that gossip may still deliver
  issued,     \* history: the resets that were signed, with what their signer was
  created,    \* history: created[a] is the latest generation its creation saw, -1 before
  told,       \* history: devices that adopted a generation while the page did not listen
  reloads

resetVars == <<epoch, operators, phase, generation, known, database, ledger, wallet,
               inbox, issued, created, told, reloads>>
relayVars  == <<epoch, operators>>

ResetInit ==
  /\ epoch = [r \in Relays |-> 0] /\ operators = [r \in Relays |-> <<>>]
  /\ phase = [d \in Devices |-> "off"] /\ generation = [d \in Devices |-> 0]
  /\ known = [d \in Devices |-> {}] /\ database = [d \in Devices |-> {}]
  /\ ledger = [d \in Devices |-> {}] /\ wallet = [d \in Devices |-> <<>>]
  /\ inbox = {} /\ issued = {} /\ created = [a \in Accounts |-> -1] /\ told = {} /\ reloads = 0

Latest(S) == CHOOSE g \in S : \A h \in S : h <= g

-----------------------------------------------------------------------------
(* Relays *)

\* performNetworkWipe
Wipe(r, g) ==
  /\ epoch' = [epoch EXCEPT ![r] = g]
  /\ operators' = [operators EXCEPT ![r] = <<>>]

\* A reset arrives at a relay, which checks the signer against its own operators only.
RelayReset(r, m) ==
  /\ <<m, r>> \in inbox /\ inbox' = inbox \ {<<m, r>>}
  /\ IF m.operator \in Range(operators[r]) THEN Wipe(r, m.generation) ELSE UNCHANGED relayVars
  /\ UNCHANGED <<phase, generation, known, database, ledger, wallet, issued, created, told, reloads>>

\* The generation follower: a peer relay is ahead.
Follow(r, q) ==
  /\ epoch[q] > epoch[r] /\ Wipe(r, epoch[q])
  /\ UNCHANGED <<phase, generation, known, database, ledger, wallet, inbox, issued, created, told, reloads>>

-----------------------------------------------------------------------------
(* Browsers *)

\* fetchNetworkStatus: the latest generation and all operators of the relays that answer.
NetworkGeneration(answering) == IF answering = {} THEN -1 ELSE Latest({epoch[r] : r \in answering})
NetworkOperators(answering)  == UNION {Range(operators[r]) : r \in answering}

\* applyReset: the database is cleared, and the generation adopted.
ApplyReset(d, g) ==
  /\ generation' = [generation EXCEPT ![d] = g]
  /\ database' = [database EXCEPT ![d] = {}]

Announced_KeepsWallet(d) ==
  /\ ledger' = [ledger EXCEPT ![d] = {}] /\ UNCHANGED wallet
  /\ phase' = IF phase[d] = "page" THEN [phase EXCEPT ![d] = "reloading"] ELSE phase
  /\ told' = IF phase[d] = "page" THEN told ELSE told \cup {d}

\* The node hears of 'generation:changed' and forgets its ledger; the page, if it listens by then,
\* clears what else the browser has and reloads.
Announced(d) ==
  CASE phase[d] = "page" ->
         /\ ledger' = [ledger EXCEPT ![d] = {}] /\ wallet' = [wallet EXCEPT ![d] = <<>>]
         /\ phase' = [phase EXCEPT ![d] = "reloading"] /\ UNCHANGED told
    [] phase[d] = "node" ->
         /\ ledger' = [ledger EXCEPT ![d] = {}] /\ told' = told \cup {d}
         /\ UNCHANGED <<wallet, phase>>

\* A reset arrives at a running browser, which checks the signer against the operators it knows.
DeviceReset(d, m) ==
  /\ <<m, d>> \in inbox /\ phase[d] \in {"node", "page"} /\ inbox' = inbox \ {<<m, d>>}
  /\ IF m.generation > generation[d] /\ m.operator \in known[d]
     THEN ApplyReset(d, m.generation) /\ Announced(d)
     ELSE UNCHANGED <<phase, generation, database, ledger, wallet, told>>
  /\ UNCHANGED <<relayVars, known, issued, created, reloads>>

\* The relays are polled every two minutes.
Poll(d, answering) ==
  /\ phase[d] \in {"node", "page"}
  /\ known' = [known EXCEPT ![d] = NetworkOperators(answering)]
  /\ IF NetworkGeneration(answering) > generation[d]
     THEN ApplyReset(d, NetworkGeneration(answering)) /\ Announced(d)
     ELSE UNCHANGED <<phase, generation, database, ledger, wallet, told>>
  /\ UNCHANGED <<relayVars, inbox, issued, created, reloads>>

\* Libp2pNetwork.start catches up with the network, or snaps down to it, and announces the first
\* before the node or the page listen; NeuronNode.start then loads the database.
Start(d, answering) ==
  LET g == NetworkGeneration(answering) IN
  /\ phase[d] = "off" /\ phase' = [phase EXCEPT ![d] = "node"]
  /\ known' = [known EXCEPT ![d] = NetworkOperators(answering)]
  /\ IF g > generation[d] THEN ApplyReset(d, g)
     ELSE /\ generation' = [generation EXCEPT ![d] = IF 0 <= g /\ g < @ THEN g ELSE @]
          /\ UNCHANGED database
  /\ ledger' = [ledger EXCEPT ![d] = database'[d]]
  /\ told' = IF g > generation[d] THEN told \cup {d} ELSE told
  /\ UNCHANGED <<relayVars, wallet, inbox, issued, created, reloads>>

\* The rest of startNode: the open blocks of the wallet are replayed unless the chain is there,
\* and the page begins to listen.
Wired(d) ==
  /\ phase[d] = "node" /\ phase' = [phase EXCEPT ![d] = "page"]
  /\ ledger' = [ledger EXCEPT ![d] = @ \cup Range(wallet[d])]
  /\ database' = [database EXCEPT ![d] = @ \cup ledger'[d]]
  /\ UNCHANGED <<relayVars, generation, known, wallet, inbox, issued, created, told, reloads>>

Gone(d) ==
  /\ phase' = [phase EXCEPT ![d] = "off"] /\ ledger' = [ledger EXCEPT ![d] = {}]
  /\ UNCHANGED <<relayVars, generation, known, database, wallet, issued, created, told>>

Reload(d) == phase[d] = "reloading" /\ Gone(d) /\ UNCHANGED <<inbox, reloads>>

\* The user closes the page; what gossip sends meanwhile is lost on it.
Close(d) ==
  /\ phase[d] /= "off" /\ reloads < MaxReloads /\ reloads' = reloads + 1 /\ Gone(d)
  /\ inbox' = {p \in inbox : p[2] /= d}

\* An account is created: attested by every relay, written to the wallet and published.
CreateAccount(d, a) ==
  /\ phase[d] = "page" /\ created[a] = -1
  /\ created' = [created EXCEPT ![a] = Latest({generation[d]} \cup {epoch[r] : r \in Relays})]
  /\ operators' = [r \in Relays |-> IF Len(operators[r]) < OperatorCount
                                    THEN Append(operators[r], a) ELSE operators[r]]
  /\ wallet' = [wallet EXCEPT ![d] = Append(@, a)]
  /\ ledger' = [ledger EXCEPT ![d] = @ \cup {a}] /\ database' = [database EXCEPT ![d] = @ \cup {a}]
  /\ UNCHANGED <<epoch, phase, generation, known, inbox, issued, told, reloads>>

ClearAll_Bumps(d) ==
  LET g == generation[d] + 1
      m == [generation |-> g, operator |-> IF wallet[d] = <<>> THEN "nobody" ELSE wallet[d][1]]
  IN
  /\ phase[d] = "page" /\ g <= MaxGeneration
  /\ inbox' = inbox \cup {<<m, x>> : x \in Relays \cup {e \in Devices \ {d} : phase[e] \in {"node", "page"}}}
  /\ ApplyReset(d, g)
  /\ ledger' = [ledger EXCEPT ![d] = {}] /\ wallet' = [wallet EXCEPT ![d] = <<>>]
  /\ phase' = [phase EXCEPT ![d] = "reloading"]
  /\ issued' = IF wallet[d] /= <<>> /\ wallet[d][1] \in known[d] THEN issued \cup {m} ELSE issued
  /\ UNCHANGED <<relayVars, known, created, told, reloads>>

\* clearAll and the reset button: with its first account an operator resets the network, anybody
\* else this browser only.
ClearAll(d) ==
  LET authorized == wallet[d] /= <<>> /\ wallet[d][1] \in known[d]
      g == generation[d] + 1
      m == [generation |-> g, operator |-> wallet[d][1]]
  IN
  /\ phase[d] = "page"
  /\ IF authorized
     THEN /\ g <= MaxGeneration
          /\ issued' = issued \cup {m}
          /\ inbox' = inbox \cup {<<m, x>> : x \in Relays \cup {e \in Devices \ {d} : phase[e] \in {"node", "page"}}}
          /\ ApplyReset(d, g)
     ELSE ApplyReset(d, generation[d]) /\ UNCHANGED <<issued, inbox>>
  /\ ledger' = [ledger EXCEPT ![d] = {}] /\ wallet' = [wallet EXCEPT ![d] = <<>>]
  /\ phase' = [phase EXCEPT ![d] = "reloading"]
  /\ UNCHANGED <<relayVars, known, created, told, reloads>>

ResetNext ==
  \/ \E r \in Relays, p \in inbox : RelayReset(r, p[1])
  \/ \E r, q \in Relays : Follow(r, q)
  \/ \E d \in Devices, p \in inbox : DeviceReset(d, p[1])
  \/ \E d \in Devices, answering \in SUBSET Relays : Poll(d, answering) \/ Start(d, answering)
  \/ \E d \in Devices : Wired(d) \/ Reload(d) \/ Close(d) \/ ClearAll(d)
  \/ \E d \in Devices, a \in Accounts : CreateAccount(d, a)

ResetSpec == ResetInit /\ [][ResetNext]_resetVars

-----------------------------------------------------------------------------
(* Properties *)

\* The generations, stores and messages have their shapes.
ResetTypeOK ==
  /\ epoch \in [Relays -> 0..MaxGeneration] /\ generation \in [Devices -> 0..MaxGeneration]
  /\ \A r \in Relays : Range(operators[r]) \subseteq Accounts /\ Len(operators[r]) <= OperatorCount
  /\ \A d \in Devices : /\ phase[d] \in {"off", "node", "page", "reloading"}
                        /\ known[d] \cup database[d] \cup ledger[d] \cup Range(wallet[d]) \subseteq Accounts
  /\ \A p \in inbox : p[1] \in issued /\ p[2] \in Relays \cup Devices
  /\ told \subseteq Devices

\* Only a reset that an operator signed raises anybody's generation, so that a stray browser
\* neither wipes the network nor strands itself above it, deaf to all gossip (clearAll, 1593-1606).
OnlyOperatorsReset ==
  /\ \A d \in Devices : generation[d] > 0 => \E m \in issued : m.generation = generation[d]
  /\ \A r \in Relays : epoch[r] > 0 => \E m \in issued : m.generation = epoch[r]

\* A reset clears all that a browser has, by whichever of the three ways the browser learns of it:
\* once the page is up, the wallet holds no account older than the generation the browser is in.
WalletOutlivesNoReset ==
  \A d \in Devices : phase[d] = "page" => \A a \in Range(wallet[d]) : created[a] >= generation[d]

\* The same, of the browsers that learnt of every reset while the page was listening.
HeardResetClears ==
  \A d \in Devices \ told : phase[d] = "page" => \A a \in Range(wallet[d]) : created[a] >= generation[d]
=============================================================================
