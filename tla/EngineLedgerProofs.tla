------------------------ MODULE EngineLedgerProofs ------------------------
(***************************************************************************)
(* The theorems of EngineLedger, in three parts.                           *)
(*                                                                         *)
(* Safety: the theorems from the inductive invariant IndInv.  Every step   *)
(* of the system has one of four shapes as far as chains, signatures and   *)
(* claims go: an owner signs, a replica takes in a signed block, a replica *)
(* offers sends, a node loses its memory.  The invariants about those      *)
(* variables are proved shape by shape, the others action by action.       *)
(*                                                                         *)
(* Replicas: what an account's owners sign, and what a replica makes of    *)
(* it.  The inductive invariant LedgerInv adds to IndInv that every signed *)
(* block follows its predecessor with the right balance, that a block a    *)
(* replica holds beyond its chains came in without them, and that the      *)
(* replay of a restart has placed what it has been through.  From it: a    *)
(* fork a node has seen is frozen, what a frozen account has in flight     *)
(* stays void, a reload rebuilds the chains, and a bond is backed by a     *)
(* balance.                                                                *)
(*                                                                         *)
(* Refinement: EngineLedger implements Payments.                           *)
(***************************************************************************)
EXTENDS EngineLedger, SumTheorems

-----------------------------------------------------------------------------
(* Safety *)

LEMMA HashType == ASSUME NEW b \in Blocks PROVE Hash(b) \in Hashes
  BY DEF Blocks, Hashes, Hash

LEMMA BlockFields ==
    ASSUME NEW b \in Blocks
    PROVE  /\ b.acct \in Accounts /\ b.idx \in Nat /\ b.tag \in Tags
           /\ b.bal \in Int /\ b.amt \in Nat /\ b.to \in Accounts
           /\ b.root \in Seq(Hashes)
           /\ IsReceive(b) => b.src \in Hashes
  BY DEF Blocks, IsReceive

LEMMA NextBlockType ==
    ASSUME NEW a \in Accounts, NEW c \in Seq(Blocks), NEW t \in Tags,
           NEW type \in BlockTypes, NEW bal \in Int, NEW amt \in Nat,
           NEW to \in Accounts, NEW src \in Hashes \cup {NoHash},
           type = "receive" => src \in Hashes
    PROVE  /\ NextBlock(a, c, t, type, bal, amt, to, src) \in Blocks
           /\ HashesOf(c) \in Seq(Hashes)
  <1>1. HashesOf(c) \in Seq(Hashes)
    BY HashType DEF HashesOf
  <1>2. Len(c) \in Nat
    OBVIOUS
  <1>3. <<a, Len(c), t>> \in Hashes
    BY <1>2 DEF Hashes
  <1>4. Append(HashesOf(c), <<a, Len(c), t>>) \in Seq(Hashes)
    BY <1>1, <1>3
  <1>5. (IF c = <<>> THEN NoHash ELSE Hash(c[Len(c)])) \in Hashes \cup {NoHash}
    <2>1. CASE c = <<>>
      BY <2>1
    <2>2. CASE c # <<>>
      <3>1. c[Len(c)] \in Blocks
        BY <2>2
      <3> QED BY <3>1, <2>2, HashType
    <2> QED BY <2>1, <2>2
  <1> QED BY <1>1, <1>2, <1>4, <1>5 DEF NextBlock, Blocks

(***************************************************************************)
(* Type correctness.  The parts of TypeOK follow the grouping of the       *)
(* variables.                                                              *)
(***************************************************************************)
LedgerTypeOK ==
    /\ chain \in [Nodes -> [Accounts -> Seq(Blocks)]]
    /\ all \in [Nodes -> SUBSET Blocks]
    /\ unclaimed \in [Nodes -> SUBSET Blocks]
    /\ claimed \in [Nodes -> SUBSET Hashes]
    /\ frozen \in [Nodes -> SUBSET Accounts]
    /\ bonded \in [Nodes -> [Accounts -> Nat]]

ClaimsTypeOK ==
    /\ timers \in [Nodes -> SUBSET Blocks]
    /\ cleared \in [Nodes -> SUBSET Accounts]

DeviceTypeOK ==
    /\ keys \in [Nodes -> SUBSET Accounts]
    /\ wallet \in [Nodes -> SUBSET Blocks]
    /\ disk \in [Nodes -> SUBSET Blocks]
    /\ unsaved \in [Nodes -> SUBSET Blocks]
    /\ phase \in [Nodes -> {"running", "booting", "replaying"}]
    /\ toReplay \in [Nodes -> SUBSET Blocks]
    /\ restarts \in [Nodes -> Nat]

Evidences == [by: Nodes \cup {"relay"}, pair: SUBSET Blocks]

LEMMA TypeParts ==
    TypeOK <=> /\ signed \subseteq Blocks
               /\ LedgerTypeOK /\ ClaimsTypeOK /\ DeviceTypeOK
               /\ wire \subseteq Blocks
               /\ evidence \subseteq Evidences
               /\ archive \subseteq Blocks
  BY DEF TypeOK, LedgerTypeOK, ClaimsTypeOK, DeviceTypeOK, Evidences

LEMMA EnterType ==
    ASSUME LedgerTypeOK, NEW n \in Nodes, NEW b \in Blocks, Enter(n, b)
    PROVE  LedgerTypeOK'
  <1>1. b.acct \in Accounts /\ (IsReceive(b) => b.src \in Hashes)
    BY BlockFields
  <1>2. chain' \in [Nodes -> [Accounts -> Seq(Blocks)]]
    BY <1>1 DEF Enter, LedgerTypeOK
  <1>3. all' \in [Nodes -> SUBSET Blocks]
    BY DEF Enter, LedgerTypeOK
  <1>4. unclaimed' \in [Nodes -> SUBSET Blocks]
    BY DEF Enter, LedgerTypeOK
  <1>5. claimed' \in [Nodes -> SUBSET Hashes]
    BY <1>1 DEF Enter, LedgerTypeOK
  <1> QED BY <1>2, <1>3, <1>4, <1>5 DEF Enter, LedgerTypeOK

LEMMA FreezeType ==
    ASSUME LedgerTypeOK, evidence \subseteq Evidences, NEW n \in Nodes,
           NEW x \in Blocks, NEW y \in Blocks, NEW r \in SUBSET Blocks,
           Freeze(n, x, y, r)
    PROVE  /\ frozen' \in [Nodes -> SUBSET Accounts]
           /\ unclaimed' \in [Nodes -> SUBSET Blocks]
           /\ bonded' \in [Nodes -> [Accounts -> Nat]]
           /\ evidence' \subseteq Evidences
  <1>1. x.acct \in Accounts
    BY BlockFields
  <1>2. [by |-> n, pair |-> {x, y}] \in Evidences
    BY DEF Evidences
  <1> QED BY <1>1, <1>2 DEF Freeze, LedgerTypeOK

LEMMA RetainType ==
    ASSUME LedgerTypeOK, evidence \subseteq Evidences, NEW n \in Nodes,
           NEW b \in Blocks, NEW r \in SUBSET Blocks, Conflicts(n, b), Retain(n, b, r)
    PROVE  LedgerTypeOK' /\ evidence' \subseteq Evidences
  <1> DEFINE h == chain[n][b.acct][b.idx + 1]
  <1>1. h \in Blocks
    BY BlockFields DEF Conflicts, LedgerTypeOK
  <1>2. all' \in [Nodes -> SUBSET Blocks]
    BY DEF Retain, LedgerTypeOK
  <1>3. chain' = chain /\ claimed' = claimed
    BY DEF Retain
  <1>4. CASE DoubleSpend(h, b)
    <2>1. Freeze(n, h, b, r)
      BY <1>4 DEF Retain
    <2> QED BY <1>1, <1>2, <1>3, <2>1, FreezeType DEF LedgerTypeOK
  <1>5. CASE ~DoubleSpend(h, b)
    <2>1. /\ unclaimed' = [unclaimed EXCEPT ![n] = @ \cup r]
          /\ frozen' = frozen /\ bonded' = bonded /\ evidence' = evidence
      BY <1>5 DEF Retain
    <2> QED BY <1>2, <1>3, <2>1 DEF LedgerTypeOK
  <1> QED BY <1>4, <1>5

LEMMA AddBlockType ==
    ASSUME LedgerTypeOK, evidence \subseteq Evidences, NEW n \in Nodes,
           NEW b \in Blocks, AddBlock(n, b)
    PROVE  LedgerTypeOK' /\ evidence' \subseteq Evidences
  <1>1. CASE Extends(n, b) /\ Enter(n, b) /\ UNCHANGED evidence
    BY <1>1, EnterType
  <1>2. CASE Conflicts(n, b) /\ Retain(n, b, {})
    BY <1>2, RetainType
  <1>3. CASE UNCHANGED <<ledger, evidence>>
    BY <1>3 DEF ledger, LedgerTypeOK
  <1> QED BY <1>1, <1>2, <1>3 DEF AddBlock

LEMMA AddOrRestoreType ==
    ASSUME LedgerTypeOK, evidence \subseteq Evidences, NEW n \in Nodes,
           NEW b \in Blocks, AddOrRestoreBlock(n, b)
    PROVE  LedgerTypeOK' /\ evidence' \subseteq Evidences
  <1>0. Restored(n, b) \in SUBSET Blocks
    BY DEF Restored
  <1>1. CASE Accepted(n, b) /\ AddBlock(n, b)
    BY <1>1, AddBlockType
  <1>2. CASE Conflicts(n, b) /\ Retain(n, b, Restored(n, b))
    BY <1>0, <1>2, RetainType
  <1>3. CASE /\ all' = [all EXCEPT ![n] = IF IsSend(b) THEN @ \cup {b} ELSE @]
             /\ unclaimed' = [unclaimed EXCEPT ![n] = @ \cup Restored(n, b)]
             /\ UNCHANGED <<chain, claimed, frozen, bonded, evidence>>
    BY <1>0, <1>3 DEF LedgerTypeOK
  <1> QED BY <1>1, <1>2, <1>3 DEF AddOrRestoreBlock

\* What a node signs on the chain it holds, and its publication.
LEMMA HeadType ==
    ASSUME LedgerTypeOK, NEW n \in Nodes, NEW a \in Accounts
    PROVE  /\ chain[n][a] \in Seq(Blocks)
           /\ Opened(n, a) => /\ Head_(n, a) \in Blocks
                              /\ Balance(n, a) \in Int
  <1>1. chain[n][a] \in Seq(Blocks)
    BY DEF LedgerTypeOK
  <1>2. Opened(n, a) => Head_(n, a) \in Blocks
    BY <1>1 DEF Opened, Head_
  <1> QED BY <1>1, <1>2, BlockFields DEF Balance

\* Signs(n, b): the node signs the next block of a chain it holds.
Signs(n, b) ==
    /\ b \in Blocks
    /\ Hash(b) = <<b.acct, Len(chain[n][b.acct]), b.tag>>
    /\ b.root = Append(HashesOf(chain[n][b.acct]), Hash(b))
    /\ \A x \in signed : Hash(x) # Hash(b)
    /\ signed' = signed \cup {b}
    /\ Enter(n, b)

LEMMA SignsNextBlock ==
    ASSUME LedgerTypeOK, NEW n \in Nodes, NEW a \in Accounts, NEW t \in Tags,
           NEW type \in BlockTypes, NEW bal \in Int, NEW amt \in Nat,
           NEW to \in Accounts, NEW src \in Hashes \cup {NoHash},
           type = "receive" => src \in Hashes,
           FreshTag(a, Len(chain[n][a]), t),
           SignAndEnter(n, NextBlock(a, chain[n][a], t, type, bal, amt, to, src))
    PROVE  Signs(n, NextBlock(a, chain[n][a], t, type, bal, amt, to, src))
  <1> DEFINE b == NextBlock(a, chain[n][a], t, type, bal, amt, to, src)
  <1>1. b \in Blocks
    BY HeadType, NextBlockType
  <1>2. /\ b.acct = a /\ b.idx = Len(chain[n][a]) /\ b.tag = t
        /\ b.root = Append(HashesOf(chain[n][a]), <<a, Len(chain[n][a]), t>>)
    BY DEF NextBlock
  <1>3. Hash(b) = <<a, Len(chain[n][a]), t>>
    BY <1>2 DEF Hash
  <1>4. FreshTag(b.acct, Len(chain[n][b.acct]), b.tag) /\ SignAndEnter(n, b)
    BY <1>2
  <1>5. Signs(n, b)
    <2> HIDE DEF b
    <2> QED BY <1>1, <1>2, <1>3, <1>4 DEF Signs, FreshTag, SignAndEnter
  <1> QED BY <1>5

LEMMA SignAndEnterType ==
    ASSUME LedgerTypeOK, signed \subseteq Blocks, NEW n \in Nodes,
           NEW b \in Blocks, SignAndEnter(n, b)
    PROVE  LedgerTypeOK' /\ signed' \subseteq Blocks
  BY EnterType DEF SignAndEnter

LEMMA CreateReceiveType ==
    ASSUME LedgerTypeOK, signed \subseteq Blocks, NEW n \in Nodes, NEW a \in Accounts,
           NEW s, CreateReceive(n, a, s)
    PROVE  /\ LedgerTypeOK' /\ signed' \subseteq Blocks
           /\ NewBlock(n, a) \in Blocks
           /\ \E t \in Tags :
                LET b == NextBlock(a, chain[n][a], t, "receive", Balance(n, a) + s.amt,
                                   s.amt, a, Hash(s)) IN
                Signs(n, b) /\ NewBlock(n, a) = b
  <1>1. PICK t \in Tags :
          LET b == NextBlock(a, chain[n][a], t, "receive", Balance(n, a) + s.amt,
                             s.amt, a, Hash(s))
          IN  FreshTag(a, b.idx, t) /\ SignAndEnter(n, b)
    BY DEF CreateReceive
  <1> DEFINE b == NextBlock(a, chain[n][a], t, "receive", Balance(n, a) + s.amt,
                            s.amt, a, Hash(s))
  <1>2. s \in Blocks
    BY DEF CreateReceive, LedgerTypeOK
  <1>3. /\ s.amt \in Nat /\ Hash(s) \in Hashes
        /\ chain[n][a] \in Seq(Blocks) /\ Balance(n, a) \in Int
    BY <1>2, HashType, BlockFields, HeadType DEF CreateReceive
  <1>4. b \in Blocks
    BY <1>3, NextBlockType DEF BlockTypes
  <1>5. b.idx = Len(chain[n][a]) /\ b.acct = a
    BY DEF NextBlock
  <1>6. FreshTag(a, Len(chain[n][a]), t) /\ SignAndEnter(n, b)
    BY <1>1, <1>5
  <1>7. Signs(n, b)
    BY <1>3, <1>6, SignsNextBlock DEF BlockTypes
  <1>8. NewBlock(n, a) = b
    <2> HIDE DEF b
    <2>1. chain'[n][a] = Append(chain[n][a], b)
      BY <1>5, <1>6 DEF SignAndEnter, Enter, LedgerTypeOK
    <2> QED BY <1>3, <1>4, <2>1 DEF NewBlock
  <1>9. LedgerTypeOK' /\ signed' \subseteq Blocks
    <2> HIDE DEF b
    <2> QED BY <1>4, <1>6, SignAndEnterType
  <1> QED BY <1>4, <1>7, <1>8, <1>9

LEMMA PublishType ==
    ASSUME DeviceTypeOK, wire \subseteq Blocks, NEW n \in Nodes, NEW b \in Blocks,
           Publish(n, b)
    PROVE  unsaved' \in [Nodes -> SUBSET Blocks] /\ wire' \subseteq Blocks
  BY DEF Publish, DeviceTypeOK

LEMMA PersistType ==
    ASSUME DeviceTypeOK, NEW n \in Nodes, NEW B \in SUBSET Blocks, Persist(n, B)
    PROVE  disk' \in [Nodes -> SUBSET Blocks]
  BY DEF Persist, DeviceTypeOK

LEMMA ClaimAndPublishType ==
    ASSUME TypeOK, NEW n \in Nodes, NEW a \in Accounts, NEW s, ClaimAndPublish(n, a, s)
    PROVE  /\ LedgerTypeOK' /\ DeviceTypeOK' /\ signed' \subseteq Blocks
           /\ wire' \subseteq Blocks /\ evidence' \subseteq Evidences
           /\ archive' \subseteq Blocks
  <1>1. CreateReceive(n, a, s) /\ Publish(n, NewBlock(n, a))
    BY DEF ClaimAndPublish
  <1>2. LedgerTypeOK' /\ signed' \subseteq Blocks /\ NewBlock(n, a) \in Blocks
    BY <1>1, CreateReceiveType, TypeParts
  <1>3. unsaved' \in [Nodes -> SUBSET Blocks] /\ wire' \subseteq Blocks
    BY <1>1, <1>2, PublishType, TypeParts
  <1> QED BY <1>2, <1>3, TypeParts DEF ClaimAndPublish, DeviceTypeOK

LEMMA TypeStep == TypeOK /\ [Next]_vars => TypeOK'
  <1> SUFFICES ASSUME TypeOK, [Next]_vars PROVE TypeOK'
    OBVIOUS
  <1> USE TypeParts
  <1>0. TypeOK' <=> /\ signed' \subseteq Blocks
                    /\ LedgerTypeOK' /\ ClaimsTypeOK' /\ DeviceTypeOK'
                    /\ wire' \subseteq Blocks
                    /\ evidence' \subseteq Evidences
                    /\ archive' \subseteq Blocks
    BY DEF TypeOK, LedgerTypeOK, ClaimsTypeOK, DeviceTypeOK, Evidences
  <1>1. ASSUME NEW n \in Nodes, NEW a \in Accounts, OpenAccount(n, a)
        PROVE  TypeOK'
    <2>1. PICK t \in Tags :
            LET b == NextBlock(a, <<>>, t, "open", Mint, 0, a, NoHash) IN
            /\ FreshTag(a, 0, t) /\ SignAndEnter(n, b) /\ Publish(n, b)
            /\ wallet' = [wallet EXCEPT ![n] = @ \cup {b}]
      BY <1>1 DEF OpenAccount
    <2> DEFINE b == NextBlock(a, <<>>, t, "open", Mint, 0, a, NoHash)
    <2>2. b \in Blocks
      <3>1. <<>> \in Seq(Blocks) /\ 0 \in Nat /\ Mint \in Int /\ "open" \in BlockTypes
        BY MintAssumption DEF BlockTypes
      <3>2. "open" = "receive" => NoHash \in Hashes
        OBVIOUS
      <3> QED BY <3>1, <3>2, NextBlockType
    <2>3. SignAndEnter(n, b) /\ Publish(n, b) /\ wallet' = [wallet EXCEPT ![n] = @ \cup {b}]
      BY <2>1
    <2> HIDE DEF b
    <2>4. LedgerTypeOK' /\ signed' \subseteq Blocks
      BY <2>2, <2>3, SignAndEnterType
    <2>5. unsaved' \in [Nodes -> SUBSET Blocks] /\ wire' \subseteq Blocks
      BY <2>2, <2>3, PublishType
    <2>6. /\ UNCHANGED <<claims, disk, phase, toReplay, restarts>>
          /\ keys' = [keys EXCEPT ![n] = @ \cup {a}]
          /\ evidence' = evidence /\ archive' = archive
      BY <1>1 DEF OpenAccount
    <2>7. ClaimsTypeOK'
      BY <1>0, <2>6 DEF ClaimsTypeOK, claims
    <2>8. DeviceTypeOK'
      BY <1>0, <1>1, <2>2, <2>3, <2>5, <2>6 DEF DeviceTypeOK
    <2> QED BY <1>0, <2>4, <2>5, <2>6, <2>7, <2>8
  <1>2. ASSUME NEW n \in Nodes, NEW a \in Accounts, RecoverAccount(n, a)
        PROVE  TypeOK'
    BY <1>0, <1>2 DEF RecoverAccount, LedgerTypeOK, ClaimsTypeOK, DeviceTypeOK,
                      ledger, claims, network
  <1>3. ASSUME NEW n \in Nodes, NEW a \in Accounts, NEW to \in Accounts, NEW amt \in Amounts,
               CreateSend(n, a, to, amt)
        PROVE  TypeOK'
    <2>1. PICK t \in Tags :
            LET b == NextBlock(a, chain[n][a], t, "send", Balance(n, a) - amt, amt, to, NoHash) IN
            /\ SignAndEnter(n, b)
            /\ IF a \in frozen[n] THEN UNCHANGED <<wire, unsaved>> ELSE Publish(n, b)
      BY <1>3 DEF CreateSend
    <2> DEFINE b == NextBlock(a, chain[n][a], t, "send", Balance(n, a) - amt, amt, to, NoHash)
    <2>2. b \in Blocks
      <3>1. amt \in Nat /\ Balance(n, a) \in Int /\ chain[n][a] \in Seq(Blocks)
        BY <1>3, HeadType, AmountsAssumption DEF CreateSend
      <3> QED BY <3>1, NextBlockType DEF BlockTypes
    <2>3. SignAndEnter(n, b) /\ (UNCHANGED <<wire, unsaved>> \/ Publish(n, b))
      BY <2>1
    <2> HIDE DEF b
    <2>4. LedgerTypeOK' /\ signed' \subseteq Blocks
      BY <2>2, <2>3, SignAndEnterType
    <2>5. unsaved' \in [Nodes -> SUBSET Blocks] /\ wire' \subseteq Blocks
      BY <2>2, <2>3, PublishType DEF DeviceTypeOK
    <2> QED BY <1>0, <1>3, <2>4, <2>5 DEF CreateSend, ClaimsTypeOK, DeviceTypeOK, claims
  <1>4. ASSUME NEW n \in Nodes, NEW a \in Accounts, NEW amt \in Bonds, BondStake(n, a, amt)
        PROVE  TypeOK'
    <2>1. bonded' \in [Nodes -> [Accounts -> Nat]]
      BY <1>4, BondsAssumption DEF BondStake, LedgerTypeOK
    <2> QED BY <1>0, <1>4, <2>1 DEF BondStake, LedgerTypeOK, ClaimsTypeOK, DeviceTypeOK,
                                    claims, device, network
  <1>5. ASSUME NEW n \in Nodes, NEW a \in Accounts, RelayAnswer(n, a)
        PROVE  TypeOK'
    BY <1>0, <1>5 DEF RelayAnswer, LedgerTypeOK, ClaimsTypeOK, DeviceTypeOK,
                      ledger, device, network
  <1>6. ASSUME NEW n \in Nodes, NEW s \in timers[n], ChallengeTimer(n, s)
        PROVE  TypeOK'
    <2>1. s \in Blocks /\ s.to \in Accounts
      BY BlockFields DEF ClaimsTypeOK
    <2>2. ClaimsTypeOK'
      BY <1>6, <2>1 DEF ChallengeTimer, UseAnswer, ClaimsTypeOK
    <2>3. CASE ClaimAndPublish(n, s.to, s)
      BY <1>0, <2>1, <2>2, <2>3, ClaimAndPublishType
    <2>4. CASE UNCHANGED <<signed, ledger, cleared, device, network>>
      BY <1>0, <2>2, <2>4 DEF LedgerTypeOK, DeviceTypeOK, ledger, device, network
    <2> QED BY <1>6, <2>3, <2>4 DEF ChallengeTimer
  <1>7. ASSUME NEW n \in Nodes, NEW a \in Accounts, NEW s, Sweep(n, a, s)
        PROVE  TypeOK'
    <2>1. ClaimsTypeOK'
      BY <1>7 DEF Sweep, UseAnswer, ClaimsTypeOK
    <2> QED BY <1>0, <1>7, <2>1, ClaimAndPublishType DEF Sweep
  <1>8. ASSUME NEW n \in Nodes, NEW a \in Accounts, NEW s, AutoClaimPending(n, a, s)
        PROVE  TypeOK'
    <2>1. LedgerTypeOK' /\ signed' \subseteq Blocks /\ NewBlock(n, a) \in Blocks
      BY <1>8, CreateReceiveType DEF AutoClaimPending
    <2>2. unsaved' \in [Nodes -> SUBSET Blocks] /\ wire' \subseteq Blocks
      BY <1>8, <2>1, PublishType DEF AutoClaimPending, DeviceTypeOK
    <2> QED BY <1>0, <1>8, <2>1, <2>2 DEF AutoClaimPending, ClaimsTypeOK, DeviceTypeOK, claims
  <1>9. ASSUME NEW n \in Nodes, NEW a \in Accounts, NEW s \in archive, ClaimViaProof(n, a, s)
        PROVE  TypeOK'
    <2>1. disk' \in [Nodes -> SUBSET Blocks]
      BY <1>9, PersistType DEF ClaimViaProof
    <2>2. ClaimsTypeOK'
      BY <1>9 DEF ClaimViaProof, UseAnswer, ClaimsTypeOK
    <2> QED BY <1>0, <1>9, <2>1, <2>2 DEF ClaimViaProof, LedgerTypeOK, DeviceTypeOK, network
  <1>10. ASSUME NEW n \in Nodes, NEW b \in wire, Deliver(n, b)
         PROVE  TypeOK'
    <2>1. disk' \in [Nodes -> SUBSET Blocks]
      BY <1>10, PersistType DEF Deliver
    <2>2. LedgerTypeOK' /\ evidence' \subseteq Evidences
      BY <1>10, AddBlockType DEF Deliver
    <2>3. ClaimsTypeOK'
      BY <1>10 DEF Deliver, ClaimsTypeOK
    <2> QED BY <1>0, <1>10, <2>1, <2>2, <2>3 DEF Deliver, DeviceTypeOK
  <1>11. ASSUME NEW n \in Nodes, NEW e \in evidence, NEW x \in e.pair, NEW y \in e.pair,
                DeliverEvidence(n, x, y)
         PROVE  TypeOK'
    <2>1. x \in Blocks /\ y \in Blocks
      BY DEF Evidences
    <2>2. /\ frozen' \in [Nodes -> SUBSET Accounts]
          /\ unclaimed' \in [Nodes -> SUBSET Blocks]
          /\ bonded' \in [Nodes -> [Accounts -> Nat]]
          /\ evidence' \subseteq Evidences
      BY <1>11, <2>1, FreezeType DEF DeliverEvidence
    <2> QED BY <1>0, <1>11, <2>2 DEF DeliverEvidence, LedgerTypeOK, ClaimsTypeOK,
                                     DeviceTypeOK, claims, device
  <1>12. ASSUME NEW n \in Nodes, PublishLocalData(n)
         PROVE  TypeOK'
    <2>1. /\ wire' \subseteq Blocks
          /\ unsaved' \in [Nodes -> SUBSET Blocks]
      BY <1>12 DEF PublishLocalData, LedgerTypeOK, DeviceTypeOK
    <2> QED BY <1>0, <1>12, <2>1 DEF PublishLocalData, LedgerTypeOK, ClaimsTypeOK,
                                     DeviceTypeOK, ledger, claims
  <1>13. ASSUME NEW n \in Nodes, SaveDone(n)
         PROVE  TypeOK'
    BY <1>0, <1>13 DEF SaveDone, LedgerTypeOK, ClaimsTypeOK, DeviceTypeOK,
                       ledger, claims, network
  <1>14. ASSUME NEW n \in Nodes, Restart(n)
         PROVE  TypeOK'
    <2>1. LedgerTypeOK'
      BY <1>14 DEF Restart, LedgerTypeOK
    <2>2. ClaimsTypeOK' /\ DeviceTypeOK'
      BY <1>14 DEF Restart, ClaimsTypeOK, DeviceTypeOK
    <2> QED BY <1>0, <1>14, <2>1, <2>2 DEF Restart, network
  <1>15. ASSUME NEW n \in Nodes, LoadBlocks(n)
         PROVE  TypeOK'
    BY <1>0, <1>15 DEF LoadBlocks, LedgerTypeOK, ClaimsTypeOK, DeviceTypeOK,
                       ledger, claims, network
  <1>16. ASSUME NEW n \in Nodes, NEW b \in toReplay[n], Replay(n, b)
         PROVE  TypeOK'
    <2>1. b \in Blocks
      BY DEF DeviceTypeOK
    <2>2. LedgerTypeOK' /\ evidence' \subseteq Evidences
      BY <1>16, <2>1, AddOrRestoreType DEF Replay
    <2>3. /\ toReplay' \in [Nodes -> SUBSET Blocks]
          /\ phase' \in [Nodes -> {"running", "booting", "replaying"}]
      BY <1>16 DEF Replay, DeviceTypeOK
    <2> QED BY <1>0, <1>16, <2>2, <2>3 DEF Replay, ClaimsTypeOK, DeviceTypeOK, claims
  <1>17. ASSUME NEW n \in Nodes, NEW b \in wallet[n], WalletOpen(n, b)
         PROVE  TypeOK'
    <2>1. b \in Blocks
      BY DEF DeviceTypeOK
    <2>2. LedgerTypeOK' /\ evidence' \subseteq Evidences
      BY <1>17, <2>1, AddBlockType DEF WalletOpen
    <2>3. unsaved' \in [Nodes -> SUBSET Blocks] /\ wire' \subseteq Blocks
      BY <1>17, <2>1, PublishType DEF WalletOpen, DeviceTypeOK
    <2> QED BY <1>0, <1>17, <2>2, <2>3 DEF WalletOpen, ClaimsTypeOK, DeviceTypeOK, claims
  <1>18. ASSUME NEW b \in wire, ArchiveBlock(b)
         PROVE  TypeOK'
    <2>1. \A x \in archive : [by |-> "relay", pair |-> {x, b}] \in Evidences
      BY DEF Evidences
    <2>2. archive' \subseteq Blocks /\ evidence' \subseteq Evidences
      BY <1>18, <2>1 DEF ArchiveBlock
    <2> QED BY <1>0, <1>18, <2>2 DEF ArchiveBlock, LedgerTypeOK, ClaimsTypeOK,
                                     DeviceTypeOK, ledger, claims, device
  <1>19. CASE UNCHANGED vars
    BY <1>0, <1>19 DEF LedgerTypeOK, ClaimsTypeOK, DeviceTypeOK, vars, ledger, claims,
                       device, network
  <1>20. ASSUME NEW n \in Nodes, ClaimStep(n)
         PROVE  TypeOK'
    <2>1. \A s \in unclaimed[n] \cup archive : s.to \in Accounts
      BY BlockFields DEF LedgerTypeOK
    <2>2. \A a \in keys[n] : a \in Accounts
      BY DEF DeviceTypeOK
    <2> QED BY <1>5, <1>6, <1>7, <1>8, <1>9, <1>20, <2>1, <2>2 DEF ClaimStep
  <1> QED
    BY <1>1, <1>2, <1>3, <1>4, <1>10, <1>11, <1>12, <1>13, <1>14, <1>15, <1>16, <1>17,
       <1>18, <1>19, <1>20 DEF Next, UserStep, GossipStep, DeviceStep

\* Every variable keeps its type: in particular balances stay whole numbers,
\* the consumed set only ever holds block hashes, and what a node persists,
\* replays and gossips are blocks.
THEOREM TypeCorrect == Spec => []TypeOK
  <1>1. Init => TypeOK
    BY DEF Init, TypeOK
  <1>2. TypeOK /\ [Next]_vars => TypeOK'
    BY TypeStep
  <1> QED BY <1>1, <1>2, PTL DEF Spec

(***************************************************************************)
(* The shapes of a step.                                                   *)
(***************************************************************************)
SignStep ==
    /\ \E n \in Nodes, b \in Blocks :
          /\ Signs(n, b)
          /\ b.acct \in keys'[n]
          /\ IsReceive(b) => \E s \in unclaimed[n] : b.src = Hash(s)
    /\ UNCHANGED <<restarts, evidence>>

EnterStep ==
    /\ \E n \in Nodes, b \in signed : Extends(n, b) /\ Enter(n, b)
    /\ UNCHANGED <<signed, restarts>>

OfferStep ==
    /\ \A n \in Nodes :
          unclaimed'[n] \subseteq unclaimed[n] \cup {b \in signed : Hash(b) \notin claimed[n]}
    /\ UNCHANGED <<signed, chain, claimed, restarts>>

ForgetStep == \E n \in Nodes : Restart(n)

StepShape == SignStep \/ EnterStep \/ OfferStep \/ ForgetStep

LEMMA RestoredOffer ==
    ASSUME TypeOK, NEW n \in Nodes, NEW b \in signed, NEW r,
           r \in {{}, Restored(n, b)},
           \/ Conflicts(n, b) /\ Retain(n, b, r)
           \/ /\ unclaimed' = [unclaimed EXCEPT ![n] = @ \cup r]
              /\ UNCHANGED <<chain, claimed>>
    PROVE  /\ \A m \in Nodes : unclaimed'[m] \subseteq
                unclaimed[m] \cup {x \in signed : Hash(x) \notin claimed[m]}
           /\ UNCHANGED <<chain, claimed>>
  <1>0. r \subseteq {x \in signed : Hash(x) \notin claimed[n]}
    BY DEF Restored
  <1>1. UNCHANGED <<chain, claimed>>
    BY DEF Retain
  <1>2. unclaimed \in [Nodes -> SUBSET Blocks]
    BY DEF TypeOK
  <1>3. \/ unclaimed' = [unclaimed EXCEPT ![n] = @ \cup r]
        \/ \E a : unclaimed' = [unclaimed EXCEPT ![n] = {s \in @ : s.acct # a} \cup r]
    BY DEF Retain, Freeze
  <1> QED BY <1>0, <1>1, <1>2, <1>3

LEMMA AddBlockShape ==
    ASSUME TypeOK, NEW n \in Nodes, NEW b \in signed, AddBlock(n, b),
           UNCHANGED <<signed, restarts>>
    PROVE  EnterStep \/ OfferStep
  <1>1. CASE Extends(n, b) /\ Enter(n, b)
    BY <1>1 DEF EnterStep
  <1>2. CASE Conflicts(n, b) /\ Retain(n, b, {})
    BY <1>2, RestoredOffer DEF OfferStep
  <1>3. CASE UNCHANGED ledger
    BY <1>3 DEF OfferStep, ledger
  <1> QED BY <1>1, <1>2, <1>3 DEF AddBlock

LEMMA AddOrRestoreShape ==
    ASSUME TypeOK, NEW n \in Nodes, NEW b \in signed, AddOrRestoreBlock(n, b),
           UNCHANGED <<signed, restarts>>
    PROVE  EnterStep \/ OfferStep
  <1>1. CASE AddBlock(n, b)
    BY <1>1, AddBlockShape
  <1>2. CASE Conflicts(n, b) /\ Retain(n, b, Restored(n, b))
    BY <1>2, RestoredOffer DEF OfferStep
  <1>3. CASE /\ unclaimed' = [unclaimed EXCEPT ![n] = @ \cup Restored(n, b)]
             /\ UNCHANGED <<chain, claimed>>
    BY <1>3, RestoredOffer DEF OfferStep
  <1> QED BY <1>1, <1>2, <1>3 DEF AddOrRestoreBlock

LEMMA ClaimShape ==
    ASSUME TypeOK, NEW n \in Nodes, NEW a \in Accounts, NEW s, CreateReceive(n, a, s),
           a \in keys'[n], UNCHANGED <<restarts, evidence>>
    PROVE  SignStep
  <1>1. PICK t \in Tags :
          Signs(n, NextBlock(a, chain[n][a], t, "receive", Balance(n, a) + s.amt,
                             s.amt, a, Hash(s)))
    BY CreateReceiveType, TypeParts
  <1> DEFINE b == NextBlock(a, chain[n][a], t, "receive", Balance(n, a) + s.amt,
                            s.amt, a, Hash(s))
  <1>2. b.acct = a /\ b.src = Hash(s) /\ s \in unclaimed[n]
    BY DEF NextBlock, CreateReceive
  <1>3. b \in Blocks
    BY <1>1 DEF Signs
  <1> QED BY <1>1, <1>2, <1>3 DEF SignStep

LEMMA StepHasShape ==
    ASSUME TypeOK, OnlySigned, Linked, KeysOnDevices, [Next]_vars
    PROVE  StepShape
  <1>0. /\ \A n \in Nodes : HeldBlocks(n) \subseteq signed
        /\ wire \subseteq signed /\ archive \subseteq signed
    BY DEF OnlySigned
  <1>1. ASSUME NEW n \in Nodes, NEW a \in Accounts, OpenAccount(n, a)
        PROVE  SignStep
    <2>1. PICK t \in Tags :
            /\ FreshTag(a, 0, t)
            /\ SignAndEnter(n, NextBlock(a, <<>>, t, "open", Mint, 0, a, NoHash))
      BY <1>1 DEF OpenAccount
    <2>2. chain[n][a] = <<>>
      <3>1. chain[n][a] \in Seq(Blocks)
        BY HeadType, TypeParts
      <3>2. ASSUME chain[n][a] # <<>> PROVE FALSE
        <4>1. 1 \in 1..Len(chain[n][a])
          BY <3>1, <3>2
        <4>2. chain[n][a][1] \in signed /\ chain[n][a][1].acct = a
          BY <4>1 DEF Linked, LinkedChain
        <4> QED BY <1>1, <4>2 DEF OpenAccount, Exists
      <3> QED BY <3>2
    <2> DEFINE b == NextBlock(a, chain[n][a], t, "open", Mint, 0, a, NoHash)
    <2>3. /\ "open" \in BlockTypes /\ Mint \in Int /\ 0 \in Nat
          /\ "open" = "receive" => NoHash \in Hashes
      BY MintAssumption DEF BlockTypes
    <2>4. Signs(n, b)
      BY <2>1, <2>2, <2>3, SignsNextBlock, TypeParts
    <2>5. b.acct = a /\ ~IsReceive(b)
      BY DEF NextBlock, IsReceive
    <2>6. a \in keys'[n]
      BY <1>1 DEF OpenAccount, TypeOK
    <2>7. b \in Blocks
      BY <2>4 DEF Signs
    <2> QED BY <1>1, <2>4, <2>5, <2>6, <2>7 DEF SignStep, OpenAccount
  <1>2. ASSUME NEW n \in Nodes, NEW a \in Accounts, NEW to \in Accounts, NEW amt \in Amounts,
               CreateSend(n, a, to, amt)
        PROVE  SignStep
    <2>1. PICK t \in Tags :
            LET x == NextBlock(a, chain[n][a], t, "send", Balance(n, a) - amt, amt, to, NoHash) IN
            FreshTag(a, x.idx, t) /\ SignAndEnter(n, x)
      BY <1>2 DEF CreateSend
    <2> DEFINE b == NextBlock(a, chain[n][a], t, "send", Balance(n, a) - amt, amt, to, NoHash)
    <2>2. b.acct = a /\ ~IsReceive(b) /\ b.idx = Len(chain[n][a])
      BY DEF NextBlock, IsReceive
    <2>3. /\ amt \in Nat /\ Balance(n, a) - amt \in Int /\ "send" \in BlockTypes
          /\ "send" = "receive" => NoHash \in Hashes
      BY <1>2, HeadType, TypeParts, AmountsAssumption DEF CreateSend, BlockTypes
    <2>4. Signs(n, b)
      BY <2>1, <2>2, <2>3, SignsNextBlock, TypeParts
    <2>5. b \in Blocks
      BY <2>4 DEF Signs
    <2> QED BY <1>2, <2>2, <2>4, <2>5 DEF SignStep, CreateSend
  <1>3. ASSUME NEW n \in Nodes, NEW a \in Accounts, NEW s, Sweep(n, a, s)
        PROVE  SignStep
    BY <1>3, ClaimShape DEF Sweep, ClaimAndPublish
  <1>4. ASSUME NEW n \in Nodes, NEW a \in Accounts, NEW s, AutoClaimPending(n, a, s)
        PROVE  SignStep
    BY <1>4, ClaimShape DEF AutoClaimPending
  <1>5. ASSUME NEW n \in Nodes, NEW s \in timers[n], ChallengeTimer(n, s)
        PROVE  SignStep \/ OfferStep
    <2>1. s.to \in Accounts /\ s.to \in keys[n]
      BY BlockFields DEF TypeOK, KeysOnDevices
    <2>2. CASE ClaimAndPublish(n, s.to, s)
      BY <2>1, <2>2, ClaimShape DEF ClaimAndPublish
    <2>3. CASE UNCHANGED <<signed, ledger, cleared, device, network>>
      BY <2>3 DEF OfferStep, ledger, device
    <2> QED BY <1>5, <2>2, <2>3 DEF ChallengeTimer
  <1>6. ASSUME NEW n \in Nodes, NEW a \in Accounts, NEW s \in archive, ClaimViaProof(n, a, s)
        PROVE  OfferStep
    BY <1>0, <1>6 DEF ClaimViaProof, OfferStep, TypeOK
  <1>7. ASSUME NEW n \in Nodes, NEW b \in wire, Deliver(n, b)
        PROVE  EnterStep \/ OfferStep
    BY <1>0, <1>7, AddBlockShape DEF Deliver
  <1>8. ASSUME NEW n \in Nodes, NEW x, NEW y, DeliverEvidence(n, x, y)
        PROVE  OfferStep
    BY <1>8 DEF DeliverEvidence, Freeze, OfferStep, TypeOK, device
  <1>9. ASSUME NEW n \in Nodes, NEW b \in toReplay[n], Replay(n, b)
        PROVE  EnterStep \/ OfferStep
    BY <1>0, <1>9, AddOrRestoreShape DEF Replay, HeldBlocks
  <1>10. ASSUME NEW n \in Nodes, NEW b \in wallet[n], WalletOpen(n, b)
         PROVE  EnterStep \/ OfferStep
    BY <1>0, <1>10, AddBlockShape DEF WalletOpen, HeldBlocks
  <1>11. ASSUME UNCHANGED <<signed, ledger, restarts>>
         PROVE  OfferStep
    BY <1>11 DEF OfferStep, ledger
  <1>12. ASSUME NEW n \in Nodes,
                \/ \E a \in Accounts : RecoverAccount(n, a) \/ RelayAnswer(n, a)
                \/ SaveDone(n) \/ LoadBlocks(n) \/ PublishLocalData(n)
         PROVE  OfferStep
    BY <1>11, <1>12 DEF RecoverAccount, RelayAnswer, SaveDone, LoadBlocks,
                        PublishLocalData, device
  <1>13. ASSUME NEW n \in Nodes, NEW a \in Accounts, NEW amt \in Bonds, BondStake(n, a, amt)
         PROVE  OfferStep
    BY <1>13 DEF BondStake, OfferStep, device
  <1>14. ASSUME NEW b \in wire, ArchiveBlock(b)
         PROVE  OfferStep
    BY <1>11, <1>14 DEF ArchiveBlock, device
  <1>15. CASE UNCHANGED vars
    BY <1>11, <1>15 DEF StepShape, vars, device
  <1>16. ASSUME NEW n \in Nodes, ClaimStep(n)
         PROVE  SignStep \/ OfferStep
    <2>1. \A s \in unclaimed[n] \cup archive : s.to \in Accounts
      BY BlockFields DEF TypeOK
    <2>2. \A a \in keys[n] : a \in Accounts
      BY DEF TypeOK
    <2> QED BY <1>3, <1>4, <1>5, <1>6, <1>12, <1>16, <2>1, <2>2 DEF ClaimStep
  <1>17. ASSUME NEW n \in Nodes, UserStep(n)
         PROVE  SignStep \/ OfferStep
    BY <1>1, <1>2, <1>12, <1>13, <1>17 DEF UserStep
  <1>18. ASSUME NEW n \in Nodes, GossipStep(n)
         PROVE  EnterStep \/ OfferStep
    BY <1>7, <1>8, <1>12, <1>18 DEF GossipStep
  <1>19. ASSUME NEW n \in Nodes, DeviceStep(n)
         PROVE  EnterStep \/ OfferStep \/ ForgetStep
    BY <1>9, <1>10, <1>12, <1>19 DEF DeviceStep, ForgetStep
  <1> QED
    BY <1>14, <1>15, <1>16, <1>17, <1>18, <1>19 DEF Next, StepShape

(***************************************************************************)
(* What a chain looks like after a block entered it.                       *)
(***************************************************************************)
LEMMA ChainGrows ==
    ASSUME TypeOK, NEW n \in Nodes, NEW b \in Blocks, Enter(n, b),
           NEW m \in Nodes, NEW a \in Accounts
    PROVE  /\ chain[m][a] \in Seq(Blocks)
           /\ chain'[m][a] = IF m = n /\ a = b.acct THEN Append(chain[m][a], b)
                             ELSE chain[m][a]
  <1>1. chain \in [Nodes -> [Accounts -> Seq(Blocks)]]
    BY DEF TypeOK
  <1>2. chain' = [chain EXCEPT ![n][b.acct] = Append(@, b)]
    BY DEF Enter
  <1> QED BY <1>1, <1>2, BlockFields

\* The blocks a signing step or an arriving block leave behind: all they had
\* before, in place, and at most one more at the end.
LEMMA ChainKeeps ==
    ASSUME TypeOK, NEW n \in Nodes, NEW b \in Blocks, Enter(n, b),
           NEW m \in Nodes, NEW a \in Accounts
    PROVE  /\ \A i \in 1..Len(chain[m][a]) :
                 i \in 1..Len(chain'[m][a]) /\ chain'[m][a][i] = chain[m][a][i]
           /\ \A i \in 1..Len(chain'[m][a]) :
                 \/ i \in 1..Len(chain[m][a]) /\ chain'[m][a][i] = chain[m][a][i]
                 \/ /\ m = n /\ a = b.acct /\ i = Len(chain[m][a]) + 1
                    /\ chain'[m][a][i] = b
  <1>1. CASE m = n /\ a = b.acct
    <2>1. chain[m][a] \in Seq(Blocks) /\ chain'[m][a] = Append(chain[m][a], b)
      BY <1>1, ChainGrows
    <2>2. /\ Len(chain'[m][a]) = Len(chain[m][a]) + 1 /\ Len(chain[m][a]) \in Nat
          /\ \A i \in 1..Len(chain[m][a]) : chain'[m][a][i] = chain[m][a][i]
          /\ chain'[m][a][Len(chain[m][a]) + 1] = b
      BY <2>1
    <2> DEFINE c == chain[m][a]
               d == chain'[m][a]
    <2>3. /\ Len(d) = Len(c) + 1 /\ Len(c) \in Nat
          /\ \A i \in 1..Len(c) : d[i] = c[i]
          /\ d[Len(c) + 1] = b
      BY <2>2
    <2> HIDE DEF c, d
    <2>4. /\ \A i \in 1..Len(c) : i \in 1..Len(d) /\ d[i] = c[i]
          /\ \A i \in 1..Len(d) : \/ i \in 1..Len(c) /\ d[i] = c[i]
                                  \/ i = Len(c) + 1 /\ d[i] = b
      BY <2>3
    <2> QED BY <1>1, <2>4 DEF c, d
  <1>2. CASE ~(m = n /\ a = b.acct)
    <2>1. chain[m][a] \in Seq(Blocks) /\ chain'[m][a] = chain[m][a]
      BY <1>2, ChainGrows
    <2> QED BY <2>1
  <1> QED BY <1>1, <1>2

LEMMA SignedGrows == StepShape => signed \subseteq signed'
  BY DEF StepShape, SignStep, EnterStep, OfferStep, ForgetStep, Signs, Restart

LEMMA UniqueHashStep == UniqueHash /\ StepShape => UniqueHash'
  BY DEF UniqueHash, StepShape, SignStep, EnterStep, OfferStep, ForgetStep, Signs, Restart

(***************************************************************************)
(* Linked: a block enters a chain at its height and commits to the chain.  *)
(***************************************************************************)
LEMMA AppendAsFunction ==
    ASSUME NEW S, NEW s \in Seq(S), NEW e \in S
    PROVE  Append(s, e) = [j \in 1..(Len(s) + 1) |-> IF j = Len(s) + 1 THEN e ELSE s[j]]
  <1> DEFINE x == Append(s, e)
             y == [j \in 1..(Len(s) + 1) |-> IF j = Len(s) + 1 THEN e ELSE s[j]]
  <1>1. x \in Seq(S) /\ Len(x) = Len(s) + 1 /\ Len(s) \in Nat
    OBVIOUS
  <1>2. \A j \in 1..(Len(s) + 1) : x[j] = y[j]
    OBVIOUS
  <1>3. y \in Seq(S) /\ Len(y) = Len(s) + 1
    <2>1. y \in [1..(Len(s) + 1) -> S]
      OBVIOUS
    <2> QED BY <1>1, <2>1
  <1> HIDE DEF x, y
  <1>4. x = y
    BY <1>1, <1>2, <1>3
  <1> QED BY <1>4 DEF x, y

LEMMA LinkedAppend ==
    ASSUME NEW a \in Accounts, NEW c \in Seq(Blocks), NEW b \in Blocks,
           NEW S, NEW T, S \subseteq T, b \in T,
           LinkedChain(a, c, S), b.acct = a, b.idx = Len(c),
           b.root = Append(HashesOf(c), Hash(b))
    PROVE  LinkedChain(a, Append(c, b), T)
  <1> DEFINE d == Append(c, b)
  <1>1. Len(c) \in Nat /\ Len(d) = Len(c) + 1
    OBVIOUS
  <1>2. d[Len(c) + 1] = b /\ \A i \in 1..Len(c) : d[i] = c[i]
    OBVIOUS
  <1> HIDE DEF d
  <1>3. ASSUME NEW i \in 1..Len(c)
        PROVE  /\ d[i] \in T /\ d[i].acct = a /\ d[i].idx = i - 1
               /\ d[i].root = [j \in 1..i |-> Hash(d[j])]
    <2>1. \A j \in 1..i : d[j] = c[j]
      BY <1>2
    <2>2. [j \in 1..i |-> Hash(d[j])] = [j \in 1..i |-> Hash(c[j])]
      BY <2>1
    <2> QED BY <1>2, <2>2 DEF LinkedChain
  <1>4. b.root = [j \in 1..(Len(c) + 1) |-> Hash(d[j])]
    <2>1. HashesOf(c) = [j \in 1..Len(c) |-> Hash(c[j])]
      BY DEF HashesOf
    <2>2. HashesOf(c) \in Seq(Hashes) /\ Len(HashesOf(c)) = Len(c)
      BY <2>1, <1>1, HashType
    <2>3. Append(HashesOf(c), Hash(b)) =
            [j \in 1..(Len(c) + 1) |-> IF j = Len(c) + 1 THEN Hash(b) ELSE HashesOf(c)[j]]
      BY <2>2, HashType, AppendAsFunction
    <2>4. \A j \in 1..Len(c) : HashesOf(c)[j] = Hash(d[j])
      BY <1>2, <2>1
    <2>5. Hash(b) = Hash(d[Len(c) + 1])
      BY <1>2
    <2>6. [j \in 1..(Len(c) + 1) |-> IF j = Len(c) + 1 THEN Hash(b) ELSE HashesOf(c)[j]]
            = [j \in 1..(Len(c) + 1) |-> Hash(d[j])]
      <3>1. \A j \in 1..(Len(c) + 1) : j = Len(c) + 1 \/ j \in 1..Len(c)
        BY <1>1
      <3>2. \A j \in 1..(Len(c) + 1) :
              (IF j = Len(c) + 1 THEN Hash(b) ELSE HashesOf(c)[j]) = Hash(d[j])
        BY <2>4, <2>5, <3>1
      <3> QED BY <3>2
    <2> QED BY <2>3, <2>6
  <1>5. \A i \in 1..Len(d) : i \in 1..Len(c) \/ i = Len(c) + 1
    BY <1>1
  <1>6. LinkedChain(a, d, T)
    BY <1>1, <1>2, <1>3, <1>4, <1>5 DEF LinkedChain
  <1> QED BY <1>6 DEF d

\* A chain that is linked in a set of blocks is linked in every larger one.
LEMMA LinkedMonotone ==
    ASSUME NEW a, NEW c, NEW S, NEW T, S \subseteq T, LinkedChain(a, c, S)
    PROVE  LinkedChain(a, c, T)
  BY DEF LinkedChain

LEMMA LinkedEnter ==
    ASSUME TypeOK, Linked, NEW n \in Nodes, NEW b \in Blocks, Enter(n, b),
           signed \subseteq signed', b \in signed',
           b.idx = Len(chain[n][b.acct]),
           b.root = Append(HashesOf(chain[n][b.acct]), Hash(b))
    PROVE  Linked'
  <1>1. ASSUME NEW m \in Nodes, NEW a \in Accounts
        PROVE  LinkedChain(a, chain'[m][a], signed')
    <2>1. chain[m][a] \in Seq(Blocks) /\ LinkedChain(a, chain[m][a], signed)
      BY ChainGrows DEF Linked
    <2>2. CASE m = n /\ a = b.acct
      BY <2>1, <2>2, ChainGrows, LinkedAppend
    <2>3. CASE ~(m = n /\ a = b.acct)
      <3>1. chain'[m][a] = chain[m][a]
        BY <2>3, ChainGrows
      <3>2. LinkedChain(a, chain[m][a], signed')
        BY <2>1, LinkedMonotone
      <3> QED BY <3>1, <3>2
    <2> QED BY <2>2, <2>3
  <1> QED BY <1>1 DEF Linked

LEMMA LinkedStep ==
    ASSUME TypeOK, Linked, StepShape
    PROVE  Linked'
  <1>1. CASE SignStep
    <2>1. PICK n \in Nodes, b \in Blocks : Signs(n, b)
      BY <1>1 DEF SignStep
    <2>2. b.idx = Len(chain[n][b.acct])
      BY <2>1 DEF Signs, Hash
    <2> QED BY <2>1, <2>2, LinkedEnter DEF Signs
  <1>2. CASE EnterStep
    <2>1. PICK n \in Nodes, b \in signed : Extends(n, b) /\ Enter(n, b)
      BY <1>2 DEF EnterStep
    <2>2. b \in Blocks /\ signed' = signed
      BY <1>2 DEF EnterStep, TypeOK
    <2> QED BY <2>1, <2>2, LinkedEnter DEF Extends
  <1>3. CASE OfferStep
    BY <1>3 DEF OfferStep, Linked
  <1>4. CASE ForgetStep
    <2>1. PICK n \in Nodes : Restart(n)
      BY <1>4 DEF ForgetStep
    <2>2. /\ signed' = signed
          /\ \A m \in Nodes, a \in Accounts :
                chain'[m][a] = IF m = n THEN <<>> ELSE chain[m][a]
      BY <2>1 DEF Restart, TypeOK
    <2>3. \A a \in Accounts : LinkedChain(a, <<>>, signed)
      BY DEF LinkedChain
    <2> QED BY <2>2, <2>3 DEF Linked
  <1> QED BY <1>1, <1>2, <1>3, <1>4 DEF StepShape

\* What a block that is being signed commits to: the blocks of the chain it
\* extends, and itself.
LEMMA SignedRoot ==
    ASSUME TypeOK, Linked, NEW n \in Nodes, NEW b \in Blocks, Signs(n, b),
           NEW j \in DOMAIN b.root
    PROVE  \/ b.root[j] = Hash(b)
           \/ \E i \in 1..Len(chain[n][b.acct]) :
                 /\ chain[n][b.acct][i] \in signed
                 /\ b.root[j] = Hash(chain[n][b.acct][i])
  <1> DEFINE c == chain[n][b.acct]
  <1>1. c \in Seq(Blocks) /\ LinkedChain(b.acct, c, signed)
    BY BlockFields DEF TypeOK, Linked
  <1>2. b.root = Append(HashesOf(c), Hash(b))
    BY DEF Signs
  <1> HIDE DEF c
  <1>3. HashesOf(c) \in Seq(Hashes) /\ Len(HashesOf(c)) = Len(c) /\ Len(c) \in Nat
    BY <1>1, HashType DEF HashesOf
  <1>4. b.root = [k \in 1..(Len(c) + 1) |-> IF k = Len(c) + 1 THEN Hash(b) ELSE HashesOf(c)[k]]
    BY <1>2, <1>3, HashType, AppendAsFunction
  <1>5. CASE j = Len(c) + 1
    BY <1>4, <1>5
  <1>6. CASE j # Len(c) + 1
    <2>1. j \in 1..Len(c)
      BY <1>3, <1>4, <1>6
    <2>2. b.root[j] = Hash(c[j])
      BY <1>3, <1>4, <2>1 DEF HashesOf
    <2>3. c[j] \in signed
      BY <1>1, <2>1 DEF LinkedChain
    <2> QED BY <2>1, <2>2, <2>3 DEF c
  <1> QED BY <1>5, <1>6

\* Every shape but a signing leaves the set of signed blocks alone.
LEMMA OnlySigningSigns ==
    StepShape => \/ signed' = signed
                 \/ /\ SignStep
                    /\ \E n \in Nodes, b \in Blocks :
                          /\ Signs(n, b)
                          /\ IsReceive(b) => \E s \in unclaimed[n] : b.src = Hash(s)
  BY DEF StepShape, SignStep, EnterStep, OfferStep, ForgetStep, Restart

LEMMA RootsKnownStep ==
    ASSUME TypeOK, Linked, RootsKnown, StepShape
    PROVE  RootsKnown'
  <1>1. CASE signed' = signed
    BY <1>1 DEF RootsKnown, Hash
  <1>2. ASSUME NEW n \in Nodes, NEW b \in Blocks, Signs(n, b)
        PROVE  RootsKnown'
    <2>1. signed' = signed \cup {b}
      BY <1>2 DEF Signs
    <2>2. ASSUME NEW x \in signed', NEW j \in DOMAIN x.root
          PROVE  \E y \in signed' : Hash(y) = x.root[j]
      <3>1. CASE x = b
        BY <1>2, <2>1, <2>2, <3>1, SignedRoot
      <3>2. CASE x # b
        BY <2>1, <2>2, <3>2 DEF RootsKnown
      <3> QED BY <3>1, <3>2
    <2> QED BY <2>2 DEF RootsKnown, Hash
  <1> QED BY <1>1, <1>2, OnlySigningSigns

(***************************************************************************)
(* Claims: what a replica has consumed it never offers again, so no owner  *)
(* signs a second receive on top of the first.                             *)
(***************************************************************************)
LEMMA ClaimsEnter ==
    ASSUME TypeOK, ClaimsRecorded, NEW n \in Nodes, NEW b \in Blocks, Enter(n, b)
    PROVE  ClaimsRecorded'
  <1>1. \A m \in Nodes :
          /\ claimed'[m] = IF m = n /\ IsReceive(b) THEN claimed[m] \cup {b.src} ELSE claimed[m]
          /\ unclaimed'[m] =
               IF m # n THEN unclaimed[m]
               ELSE IF IsSend(b) /\ Hash(b) \notin claimed[n] THEN unclaimed[m] \cup {b}
               ELSE IF IsReceive(b) THEN {s \in unclaimed[m] : Hash(s) # b.src}
               ELSE unclaimed[m]
    BY DEF Enter, TypeOK
  <1>2. ASSUME NEW m \in Nodes, NEW a \in Accounts, NEW i \in 1..Len(chain'[m][a]),
               IsReceive(chain'[m][a][i])
        PROVE  chain'[m][a][i].src \in claimed'[m]
    <2>1. CASE i \in 1..Len(chain[m][a]) /\ chain'[m][a][i] = chain[m][a][i]
      BY <1>1, <1>2, <2>1 DEF ClaimsRecorded
    <2>2. CASE m = n /\ chain'[m][a][i] = b
      BY <1>1, <1>2, <2>2
    <2> QED BY <2>1, <2>2, ChainKeeps
  <1>3. ASSUME NEW m \in Nodes, NEW s \in unclaimed'[m]
        PROVE  Hash(s) \notin claimed'[m]
    <2>1. ~(IsSend(b) /\ IsReceive(b))
      BY DEF IsSend, IsReceive
    <2> QED BY <1>1, <1>3, <2>1 DEF ClaimsRecorded
  <1> QED BY <1>2, <1>3 DEF ClaimsRecorded, IsReceive, Hash

LEMMA ClaimsStep ==
    ASSUME TypeOK, ClaimsRecorded, StepShape
    PROVE  ClaimsRecorded'
  <1>1. CASE SignStep \/ EnterStep
    BY <1>1, ClaimsEnter DEF SignStep, EnterStep, Signs, TypeOK
  <1>2. CASE OfferStep
    BY <1>2 DEF OfferStep, ClaimsRecorded, IsReceive, Hash
  <1>3. CASE ForgetStep
    <2>1. PICK n \in Nodes : Restart(n)
      BY <1>3 DEF ForgetStep
    <2>2. \A m \in Nodes :
            /\ claimed'[m] = IF m = n THEN {} ELSE claimed[m]
            /\ unclaimed'[m] = IF m = n THEN {} ELSE unclaimed[m]
            /\ \A a \in Accounts : chain'[m][a] = IF m = n THEN <<>> ELSE chain[m][a]
      BY <2>1 DEF Restart, TypeOK
    <2>3. \A m \in Nodes, a \in Accounts : \A i \in 1..Len(chain'[m][a]) :
            IsReceive(chain'[m][a][i]) => chain'[m][a][i].src \in claimed'[m]
      BY <2>2 DEF ClaimsRecorded
    <2>4. \A m \in Nodes : \A s \in unclaimed'[m] : Hash(s) \notin claimed'[m]
      BY <2>2 DEF ClaimsRecorded
    <2> QED BY <2>3, <2>4 DEF ClaimsRecorded, IsReceive, Hash
  <1> QED BY <1>1, <1>2, <1>3 DEF StepShape

LEMMA SingleUseStep ==
    ASSUME TypeOK, UniqueHash, Linked, RootsKnown, ClaimsRecorded, SingleUse, StepShape
    PROVE  SingleUse'
  <1>1. CASE signed' = signed
    BY <1>1 DEF SingleUse, IsReceive, Hash
  <1>2. ASSUME NEW n \in Nodes, NEW b \in Blocks, Signs(n, b),
               IsReceive(b) => \E s \in unclaimed[n] : b.src = Hash(s)
        PROVE  SingleUse'
    <2>1. signed' = signed \cup {b} /\ \A x \in signed : Hash(x) # Hash(b)
      BY <1>2 DEF Signs
    <2>2. ASSUME NEW p \in signed', NEW x \in signed', NEW j \in DOMAIN p.root,
                 p # x, IsReceive(p), IsReceive(x), Hash(x) = p.root[j]
          PROVE  p.src # x.src
      <3>1. CASE p \in signed /\ x \in signed
        BY <2>2, <3>1 DEF SingleUse
      <3>2. CASE p = b /\ x \in signed
        <4>1. PICK i \in 1..Len(chain[n][b.acct]) :
                chain[n][b.acct][i] \in signed /\ b.root[j] = Hash(chain[n][b.acct][i])
          BY <1>2, <2>1, <2>2, <3>2, SignedRoot
        <4>2. x = chain[n][b.acct][i]
          BY <2>2, <3>2, <4>1 DEF UniqueHash
        <4>3. x.src \in claimed[n]
          BY <2>2, <4>1, <4>2, BlockFields DEF ClaimsRecorded
        <4>4. b.src \notin claimed[n]
          BY <1>2, <2>2, <3>2 DEF ClaimsRecorded
        <4> QED BY <3>2, <4>3, <4>4
      <3>3. CASE p \in signed /\ x = b
        <4>1. \E y \in signed : Hash(y) = Hash(b)
          BY <2>2, <3>3 DEF RootsKnown
        <4> QED BY <2>1, <4>1
      <3> QED BY <2>1, <2>2, <3>1, <3>2, <3>3
    <2> QED BY <2>2 DEF SingleUse, IsReceive, Hash
  <1> QED BY <1>1, <1>2, OnlySigningSigns

(***************************************************************************)
(* SingleWriter: what the only device of an account signs, it holds.       *)
(***************************************************************************)
LEMMA SingleWriterStep ==
    ASSUME TypeOK, SingleWriter, KeysOnDevices', StepShape
    PROVE  SingleWriter'
  <1> SUFFICES ASSUME NEW h \in Nodes, NEW a \in Accounts,
                      Devices[a] = {h}, restarts'[h] = 0,
                      NEW x \in signed', x.acct = a
               PROVE  x.idx < Len(chain'[h][a]) /\ chain'[h][a][x.idx + 1] = x
    BY DEF SingleWriter
  <1>0. \A y \in signed : y.idx \in Nat
    BY BlockFields DEF TypeOK
  <1>1. CASE SignStep
    <2>1. PICK n \in Nodes, b \in Blocks : Signs(n, b) /\ b.acct \in keys'[n]
      BY <1>1 DEF SignStep
    <2>2. /\ signed' = signed \cup {b} /\ Enter(n, b) /\ b.idx = Len(chain[n][b.acct])
          /\ restarts' = restarts
      BY <1>1, <2>1 DEF Signs, Hash, SignStep
    <2>3. CASE x \in signed
      <3>1. x.idx < Len(chain[h][a]) /\ chain[h][a][x.idx + 1] = x
        BY <2>2, <2>3 DEF SingleWriter
      <3>2. x.idx + 1 \in 1..Len(chain[h][a]) /\ chain[h][a] \in Seq(Blocks)
        BY <1>0, <2>2, <2>3, <3>1, ChainGrows
      <3>3. x.idx + 1 \in 1..Len(chain'[h][a]) /\ chain'[h][a][x.idx + 1] = x
        BY <2>2, <3>1, <3>2, ChainKeeps
      <3> QED BY <1>0, <2>3, <3>3
    <2>4. CASE x = b
      <3>1. n = h
        BY <2>1, <2>4, BlockFields DEF KeysOnDevices
      <3>2. chain[h][a] \in Seq(Blocks) /\ chain'[h][a] = Append(chain[h][a], b)
        BY <2>2, <2>4, <3>1, ChainGrows
      <3>3. b.idx = Len(chain[h][a]) /\ Len(chain[h][a]) \in Nat
        BY <2>2, <2>4, <3>1, <3>2
      <3>4. /\ Len(chain'[h][a]) = Len(chain[h][a]) + 1
            /\ chain'[h][a][Len(chain[h][a]) + 1] = b
        BY <3>2
      <3> QED BY <2>4, <3>3, <3>4
    <2> QED BY <2>2, <2>3, <2>4
  <1>2. CASE EnterStep
    <2>1. PICK n \in Nodes, b \in signed : Enter(n, b)
      BY <1>2 DEF EnterStep
    <2>2. b \in Blocks /\ signed' = signed /\ restarts' = restarts
      BY <1>2 DEF EnterStep, TypeOK
    <2>3. x.idx < Len(chain[h][a]) /\ chain[h][a][x.idx + 1] = x
      BY <2>2 DEF SingleWriter
    <2>4. x.idx + 1 \in 1..Len(chain[h][a]) /\ chain[h][a] \in Seq(Blocks)
      BY <1>0, <2>1, <2>2, <2>3, ChainGrows
    <2>5. x.idx + 1 \in 1..Len(chain'[h][a]) /\ chain'[h][a][x.idx + 1] = x
      BY <2>1, <2>2, <2>3, <2>4, ChainKeeps
    <2> QED BY <1>0, <2>2, <2>5
  <1>3. CASE OfferStep
    BY <1>3 DEF OfferStep, SingleWriter
  <1>4. CASE ForgetStep
    <2>1. PICK n \in Nodes : Restart(n)
      BY <1>4 DEF ForgetStep
    <2>2. /\ signed' = signed
          /\ restarts' = [restarts EXCEPT ![n] = @ + 1]
          /\ chain' = [chain EXCEPT ![n] = [z \in Accounts |-> <<>>]]
          /\ restarts \in [Nodes -> Nat] /\ chain \in [Nodes -> [Accounts -> Seq(Blocks)]]
      BY <2>1 DEF Restart, TypeOK
    <2>3. h # n
      BY <2>2
    <2>4. restarts[h] = 0 /\ chain'[h] = chain[h]
      BY <2>2, <2>3
    <2>5. x \in signed
      BY <2>2
    <2>6. x.idx < Len(chain[h][a]) /\ chain[h][a][x.idx + 1] = x
      BY <2>4, <2>5 DEF SingleWriter
    <2> QED BY <2>4, <2>6
  <1> QED BY <1>1, <1>2, <1>3, <1>4 DEF StepShape

(***************************************************************************)
(* OnlySigned and KeysOnDevices, action by action.                         *)
(***************************************************************************)
LedgerSigned == \A n \in Nodes : all[n] \subseteq signed /\ unclaimed[n] \subseteq signed

DeviceSigned ==
    \A n \in Nodes : /\ disk[n] \subseteq signed /\ unsaved[n] \subseteq signed
                     /\ toReplay[n] \subseteq signed /\ wallet[n] \subseteq signed
                     /\ timers[n] \subseteq signed

EvidenceSigned == \A e \in evidence : e.pair \subseteq signed

LEMMA SignedParts ==
    /\ OnlySigned <=> /\ LedgerSigned /\ DeviceSigned /\ EvidenceSigned
                      /\ wire \subseteq signed /\ archive \subseteq signed
    /\ OnlySigned' <=> /\ LedgerSigned' /\ DeviceSigned' /\ EvidenceSigned'
                       /\ wire' \subseteq signed' /\ archive' \subseteq signed'
  <1>1. OnlySigned <=> /\ LedgerSigned /\ DeviceSigned /\ EvidenceSigned
                       /\ wire \subseteq signed /\ archive \subseteq signed
    BY DEF OnlySigned, LedgerSigned, DeviceSigned, EvidenceSigned, HeldBlocks
  <1>2. OnlySigned' <=> /\ LedgerSigned' /\ DeviceSigned' /\ EvidenceSigned'
                        /\ wire' \subseteq signed' /\ archive' \subseteq signed'
    BY DEF OnlySigned, LedgerSigned, DeviceSigned, EvidenceSigned, HeldBlocks
  <1> QED BY <1>1, <1>2

LEMMA EnterSigned ==
    ASSUME TypeOK, LedgerSigned, NEW n \in Nodes, NEW b \in signed', Enter(n, b),
           signed \subseteq signed'
    PROVE  LedgerSigned'
  <1>1. all \in [Nodes -> SUBSET Blocks] /\ unclaimed \in [Nodes -> SUBSET Blocks]
    BY DEF TypeOK
  <1>2. /\ all' = [all EXCEPT ![n] = @ \cup {b}]
        /\ \A m \in Nodes : unclaimed'[m] \subseteq unclaimed[m] \cup {b}
    BY <1>1 DEF Enter
  <1> QED BY <1>1, <1>2 DEF LedgerSigned

\* A replica freezes an account only on two signed blocks of it.
LEMMA FreezeSound ==
    ASSUME TypeOK, EvidenceSigned, NEW n \in Nodes, NEW x \in signed, NEW y \in signed,
           NEW r, Freeze(n, x, y, r), DoubleSpend(x, y), signed' = signed
    PROVE  /\ EvidenceSigned'
           /\ \A m \in Nodes : \A a \in frozen'[m] : a \in frozen[m] \/ Forked(a)
  <1>1. /\ evidence' = evidence \cup {[by |-> n, pair |-> {x, y}]}
        /\ frozen' = [frozen EXCEPT ![n] = @ \cup {x.acct}]
        /\ frozen \in [Nodes -> SUBSET Accounts]
    BY DEF Freeze, TypeOK
  <1>2. [by |-> n, pair |-> {x, y}].pair \subseteq signed
    OBVIOUS
  <1>3. EvidenceSigned'
    BY <1>1, <1>2 DEF EvidenceSigned
  <1>4. Forked(x.acct)
    BY DEF Forked
  <1>5. \A m \in Nodes : frozen'[m] \subseteq frozen[m] \cup {x.acct}
    BY <1>1
  <1> QED BY <1>3, <1>4, <1>5

LEMMA RetainSound ==
    ASSUME TypeOK, LedgerSigned, EvidenceSigned, Linked, NEW n \in Nodes,
           NEW b \in signed, NEW r \in SUBSET {b}, Conflicts(n, b), Retain(n, b, r),
           signed' = signed
    PROVE  /\ LedgerSigned' /\ EvidenceSigned'
           /\ \A m \in Nodes : \A a \in frozen'[m] : a \in frozen[m] \/ Forked(a)
  <1> DEFINE h == chain[n][b.acct][b.idx + 1]
  <1>1. h \in signed
    <2>1. b \in Blocks /\ b.acct \in Accounts /\ b.idx \in Nat
      BY BlockFields DEF TypeOK
    <2>2. chain[n][b.acct] \in Seq(Blocks) /\ LinkedChain(b.acct, chain[n][b.acct], signed)
      BY <2>1 DEF TypeOK, Linked
    <2>3. b.idx + 1 \in 1..Len(chain[n][b.acct])
      BY <2>1, <2>2 DEF Conflicts
    <2> QED BY <2>2, <2>3 DEF LinkedChain
  <1>2. LedgerSigned'
    <2>1. /\ all' = [all EXCEPT ![n] = @ \cup {b}] /\ chain' = chain
          /\ \/ unclaimed' = [unclaimed EXCEPT ![n] = {s \in @ : s.acct # h.acct} \cup r]
             \/ unclaimed' = [unclaimed EXCEPT ![n] = @ \cup r]
      BY DEF Retain, Freeze
    <2> HIDE DEF h
    <2> QED BY <2>1 DEF LedgerSigned, TypeOK
  <1>3. CASE DoubleSpend(h, b)
    BY <1>1, <1>2, <1>3, FreezeSound DEF Retain
  <1>4. CASE ~DoubleSpend(h, b)
    BY <1>2, <1>4 DEF Retain, EvidenceSigned
  <1> QED BY <1>3, <1>4

LEMMA AddBlockSound ==
    ASSUME TypeOK, LedgerSigned, EvidenceSigned, Linked, NEW n \in Nodes,
           NEW b \in signed, AddBlock(n, b) \/ AddOrRestoreBlock(n, b),
           signed' = signed
    PROVE  /\ LedgerSigned' /\ EvidenceSigned'
           /\ \A m \in Nodes : \A a \in frozen'[m] : a \in frozen[m] \/ Forked(a)
  <1>0. {} \in SUBSET {b} /\ Restored(n, b) \in SUBSET {b}
    BY DEF Restored
  <1>1. CASE Extends(n, b) /\ Enter(n, b) /\ UNCHANGED evidence
    BY <1>1, EnterSigned DEF Enter, EvidenceSigned
  <1>2. CASE \E r \in SUBSET {b} : Conflicts(n, b) /\ Retain(n, b, r)
    BY <1>2, RetainSound
  <1>3. CASE UNCHANGED <<ledger, evidence>>
    BY <1>3 DEF ledger, LedgerSigned, EvidenceSigned
  <1>4. CASE /\ all' = [all EXCEPT ![n] = IF IsSend(b) THEN @ \cup {b} ELSE @]
             /\ unclaimed' = [unclaimed EXCEPT ![n] = @ \cup Restored(n, b)]
             /\ UNCHANGED <<chain, claimed, frozen, bonded, evidence>>
    BY <1>0, <1>4 DEF LedgerSigned, EvidenceSigned, TypeOK
  <1> QED BY <1>0, <1>1, <1>2, <1>3, <1>4 DEF AddBlock, AddOrRestoreBlock

LEMMA PublishSigned ==
    ASSUME TypeOK, NEW n \in Nodes, NEW b \in signed', signed \subseteq signed',
           wire \subseteq signed, unsaved[n] \subseteq signed, Publish(n, b)
    PROVE  /\ wire' \subseteq signed'
           /\ \A m \in Nodes : unsaved'[m] \subseteq unsaved[m] \cup signed'
  BY DEF Publish, TypeOK

LEMMA ClaimSigned ==
    ASSUME TypeOK, OnlySigned, NEW n \in Nodes, NEW a \in Accounts, NEW s,
           CreateReceive(n, a, s)
    PROVE  /\ LedgerSigned' /\ signed \subseteq signed' /\ NewBlock(n, a) \in signed'
           /\ frozen' = frozen /\ signed' \subseteq Blocks
  <1>1. PICK b \in Blocks : Signs(n, b) /\ NewBlock(n, a) = b
    BY CreateReceiveType, TypeParts
  <1>2. signed' = signed \cup {b} /\ Enter(n, b)
    BY <1>1 DEF Signs
  <1>3. LedgerSigned'
    BY <1>2, SignedParts, EnterSigned
  <1> QED BY <1>1, <1>2, <1>3, CreateReceiveType, TypeParts DEF Enter

\* Where each step's blocks come from, and what it takes to freeze.
SoundStep ==
    /\ OnlySigned'
    /\ \A m \in Nodes : \A a \in frozen'[m] : a \in frozen[m] \/ Forked(a)

LEMMA StepIsSound ==
    ASSUME TypeOK, OnlySigned, Linked, [Next]_vars
    PROVE  SoundStep
  <1> USE SignedParts
  <1>1. ASSUME NEW n \in Nodes, NEW a \in Accounts, OpenAccount(n, a)
        PROVE  SoundStep
    <2>1. PICK b : /\ SignAndEnter(n, b) /\ Publish(n, b)
                   /\ wallet' = [wallet EXCEPT ![n] = @ \cup {b}]
      BY <1>1 DEF OpenAccount
    <2>2. signed' = signed \cup {b} /\ Enter(n, b)
      BY <2>1 DEF SignAndEnter
    <2>3. LedgerSigned' /\ frozen' = frozen
      BY <2>2, EnterSigned DEF Enter
    <2>4. wire' \subseteq signed' /\ \A m \in Nodes : unsaved'[m] \subseteq unsaved[m] \cup signed'
      BY <2>1, <2>2, PublishSigned DEF DeviceSigned
    <2>5. \A m \in Nodes : wallet'[m] \subseteq wallet[m] \cup {b}
      BY <2>1 DEF TypeOK
    <2>6. DeviceSigned' /\ EvidenceSigned' /\ archive' \subseteq signed'
      BY <1>1, <2>2, <2>4, <2>5 DEF OpenAccount, DeviceSigned, EvidenceSigned, claims
    <2> QED BY <2>3, <2>4, <2>6 DEF SoundStep
  <1>2. ASSUME NEW n \in Nodes, NEW a \in Accounts, NEW to \in Accounts, NEW amt \in Amounts,
               CreateSend(n, a, to, amt)
        PROVE  SoundStep
    <2>1. PICK b : SignAndEnter(n, b) /\ (UNCHANGED <<wire, unsaved>> \/ Publish(n, b))
      BY <1>2 DEF CreateSend
    <2>2. signed' = signed \cup {b} /\ Enter(n, b)
      BY <2>1 DEF SignAndEnter
    <2>3. LedgerSigned' /\ frozen' = frozen
      BY <2>2, EnterSigned DEF Enter
    <2>4. wire' \subseteq signed' /\ \A m \in Nodes : unsaved'[m] \subseteq unsaved[m] \cup signed'
      BY <2>1, <2>2, PublishSigned DEF DeviceSigned
    <2>5. DeviceSigned' /\ EvidenceSigned' /\ archive' \subseteq signed'
      BY <1>2, <2>2, <2>4 DEF CreateSend, DeviceSigned, EvidenceSigned, claims
    <2> QED BY <2>3, <2>4, <2>5 DEF SoundStep
  <1>3. ASSUME NEW n \in Nodes, NEW a \in Accounts, NEW s, CreateReceive(n, a, s),
               UNCHANGED <<wire, unsaved>> \/ Publish(n, NewBlock(n, a)),
               timers' = timers \/ timers' = [timers EXCEPT ![n] = @ \ {s}],
               UNCHANGED <<wallet, disk, toReplay, evidence, archive>>
        PROVE  SoundStep
    <2>1. /\ LedgerSigned' /\ signed \subseteq signed' /\ NewBlock(n, a) \in signed'
          /\ frozen' = frozen
      BY <1>3, ClaimSigned
    <2>2. wire' \subseteq signed' /\ \A m \in Nodes : unsaved'[m] \subseteq unsaved[m] \cup signed'
      BY <1>3, <2>1, PublishSigned DEF DeviceSigned
    <2>3. \A m \in Nodes : timers'[m] \subseteq timers[m]
      <3>1. timers \in [Nodes -> SUBSET Blocks]
        BY DEF TypeOK
      <3>2. CASE timers' = [timers EXCEPT ![n] = @ \ {s}]
        BY <3>1, <3>2
      <3> QED BY <1>3, <3>2
    <2>4. DeviceSigned' /\ EvidenceSigned' /\ archive' \subseteq signed'
      BY <1>3, <2>1, <2>2, <2>3 DEF DeviceSigned, EvidenceSigned
    <2> QED BY <2>1, <2>2, <2>4 DEF SoundStep
  <1>4. ASSUME NEW n \in Nodes, NEW a \in Accounts, NEW s, Sweep(n, a, s)
        PROVE  SoundStep
    BY <1>3, <1>4 DEF Sweep, ClaimAndPublish
  <1>5. ASSUME NEW n \in Nodes, NEW a \in Accounts, NEW s, AutoClaimPending(n, a, s)
        PROVE  SoundStep
    BY <1>3, <1>5 DEF AutoClaimPending, claims
  <1>6. ASSUME NEW n \in Nodes, NEW s \in timers[n], ChallengeTimer(n, s)
        PROVE  SoundStep
    <2>1. s.to \in Accounts
      BY BlockFields DEF TypeOK
    <2>2. CASE ClaimAndPublish(n, s.to, s)
      BY <1>3, <1>6, <2>1, <2>2 DEF ClaimAndPublish, ChallengeTimer
    <2>3. CASE UNCHANGED <<signed, ledger, cleared, device, network>>
      <3>1. \A m \in Nodes : timers'[m] \subseteq timers[m]
        BY <1>6 DEF TypeOK, ChallengeTimer
      <3> QED BY <2>3, <3>1 DEF SoundStep, ledger, device, network, LedgerSigned,
                               DeviceSigned, EvidenceSigned
    <2> QED BY <1>6, <2>2, <2>3 DEF ChallengeTimer
  <1>7. ASSUME NEW n \in Nodes, NEW a \in Accounts, NEW s \in archive, ClaimViaProof(n, a, s)
        PROVE  SoundStep
    <2>1. /\ \A m \in Nodes : /\ all'[m] \subseteq all[m] \cup {s}
                              /\ unclaimed'[m] \subseteq unclaimed[m] \cup {s}
                              /\ disk'[m] \subseteq disk[m] \cup {s}
                              /\ timers'[m] \subseteq timers[m] \cup {s}
          /\ s \in signed
      BY <1>7 DEF ClaimViaProof, Persist, TypeOK
    <2> QED BY <1>7, <2>1 DEF ClaimViaProof, SoundStep, network, LedgerSigned,
                              DeviceSigned, EvidenceSigned
  <1>8. ASSUME NEW n \in Nodes, NEW b \in wire, Deliver(n, b)
        PROVE  SoundStep
    <2>1. /\ LedgerSigned' /\ EvidenceSigned'
          /\ \A m \in Nodes : \A a \in frozen'[m] : a \in frozen[m] \/ Forked(a)
      BY <1>8, AddBlockSound DEF Deliver
    <2>2. \A m \in Nodes : /\ disk'[m] \subseteq disk[m] \cup {b}
                           /\ timers'[m] \subseteq timers[m] \cup {b}
      BY <1>8 DEF Deliver, Persist, TypeOK
    <2> QED BY <1>8, <2>1, <2>2 DEF Deliver, SoundStep, DeviceSigned
  <1>9. ASSUME NEW n \in Nodes, NEW e \in evidence, NEW x \in e.pair, NEW y \in e.pair,
               DeliverEvidence(n, x, y)
        PROVE  SoundStep
    <2>1. x \in signed /\ y \in signed
      BY DEF EvidenceSigned
    <2>2. /\ EvidenceSigned'
          /\ \A m \in Nodes : \A a \in frozen'[m] : a \in frozen[m] \/ Forked(a)
      BY <1>9, <2>1, FreezeSound DEF DeliverEvidence
    <2>3. LedgerSigned'
      BY <1>9 DEF DeliverEvidence, Freeze, LedgerSigned, TypeOK
    <2> QED BY <1>9, <2>2, <2>3 DEF DeliverEvidence, SoundStep, DeviceSigned, claims, device
  <1>10. ASSUME NEW n \in Nodes, NEW b \in toReplay[n], Replay(n, b)
         PROVE  SoundStep
    <2>1. b \in signed
      BY DEF DeviceSigned
    <2>2. /\ LedgerSigned' /\ EvidenceSigned'
          /\ \A m \in Nodes : \A a \in frozen'[m] : a \in frozen[m] \/ Forked(a)
      BY <1>10, <2>1, AddBlockSound DEF Replay
    <2>3. \A m \in Nodes : toReplay'[m] \subseteq toReplay[m]
      BY <1>10 DEF Replay, TypeOK
    <2> QED BY <1>10, <2>2, <2>3 DEF Replay, SoundStep, DeviceSigned, claims
  <1>11. ASSUME NEW n \in Nodes, NEW b \in wallet[n], WalletOpen(n, b)
         PROVE  SoundStep
    <2>1. b \in signed
      BY DEF DeviceSigned
    <2>2. /\ LedgerSigned' /\ EvidenceSigned'
          /\ \A m \in Nodes : \A a \in frozen'[m] : a \in frozen[m] \/ Forked(a)
      BY <1>11, <2>1, AddBlockSound DEF WalletOpen
    <2>3. wire' \subseteq signed /\ \A m \in Nodes : unsaved'[m] \subseteq unsaved[m] \cup signed
      BY <1>11, <2>1, PublishSigned DEF WalletOpen, DeviceSigned
    <2> QED BY <1>11, <2>2, <2>3 DEF WalletOpen, SoundStep, DeviceSigned, claims
  <1>12. ASSUME NEW n \in Nodes, PublishLocalData(n)
         PROVE  SoundStep
    <2>1. \A m \in Nodes : unsaved'[m] \subseteq unsaved[m] \cup signed
      BY <1>12 DEF PublishLocalData, LedgerSigned, TypeOK
    <2> QED BY <1>12, <2>1 DEF PublishLocalData, SoundStep, ledger, claims, LedgerSigned,
                               DeviceSigned, EvidenceSigned
  <1>13. ASSUME NEW n \in Nodes, SaveDone(n)
         PROVE  SoundStep
    <2>1. \A m \in Nodes : unsaved'[m] \subseteq signed /\ disk'[m] \subseteq signed
      BY <1>13 DEF SaveDone, DeviceSigned, TypeOK
    <2> QED BY <1>13, <2>1 DEF SaveDone, SoundStep, ledger, claims, network, LedgerSigned,
                               DeviceSigned, EvidenceSigned
  <1>14. ASSUME NEW n \in Nodes, Restart(n)
         PROVE  SoundStep
    <2>1. \A m \in Nodes : /\ all'[m] \subseteq all[m] /\ unclaimed'[m] \subseteq unclaimed[m]
                           /\ frozen'[m] \subseteq frozen[m]
                           /\ timers'[m] \subseteq timers[m]
                           /\ unsaved'[m] \subseteq unsaved[m]
      BY <1>14 DEF Restart, TypeOK
    <2> QED BY <1>14, <2>1 DEF Restart, SoundStep, network, LedgerSigned, DeviceSigned,
                               EvidenceSigned
  <1>15. ASSUME NEW n \in Nodes, LoadBlocks(n)
         PROVE  SoundStep
    <2>1. \A m \in Nodes : toReplay'[m] \subseteq signed
      BY <1>15 DEF LoadBlocks, DeviceSigned, TypeOK
    <2> QED BY <1>15, <2>1 DEF LoadBlocks, SoundStep, ledger, claims, network, LedgerSigned,
                               DeviceSigned, EvidenceSigned
  <1>16. ASSUME NEW b \in wire, ArchiveBlock(b)
         PROVE  SoundStep
    <2>1. \A x \in archive : [by |-> "relay", pair |-> {x, b}].pair \subseteq signed
      OBVIOUS
    <2>2. EvidenceSigned' /\ archive' \subseteq signed /\ signed' = signed
      BY <1>16, <2>1 DEF ArchiveBlock, EvidenceSigned
    <2> QED BY <1>16, <2>2 DEF ArchiveBlock, SoundStep, ledger, claims, device,
                               LedgerSigned, DeviceSigned
  <1>17. ASSUME UNCHANGED <<signed, ledger, timers, wallet, disk, unsaved, toReplay, network>>
         PROVE  SoundStep
    BY <1>17 DEF SoundStep, ledger, network, LedgerSigned, DeviceSigned, EvidenceSigned
  <1>18. ASSUME NEW n \in Nodes, NEW a \in Accounts, RecoverAccount(n, a) \/ RelayAnswer(n, a)
         PROVE  SoundStep
    BY <1>17, <1>18 DEF RecoverAccount, RelayAnswer, claims, device
  <1>19. ASSUME NEW n \in Nodes, NEW a \in Accounts, NEW amt \in Bonds, BondStake(n, a, amt)
         PROVE  SoundStep
    BY <1>19 DEF BondStake, SoundStep, claims, device, network, LedgerSigned, DeviceSigned,
                 EvidenceSigned
  <1>20. CASE UNCHANGED vars
    BY <1>17, <1>20 DEF vars, claims, device
  <1>21. ASSUME NEW n \in Nodes, ClaimStep(n)
         PROVE  SoundStep
    <2>1. \A s \in unclaimed[n] \cup archive : s.to \in Accounts
      BY BlockFields DEF TypeOK
    <2>2. \A a \in keys[n] : a \in Accounts
      BY DEF TypeOK
    <2> QED BY <1>4, <1>5, <1>6, <1>7, <1>18, <1>21, <2>1, <2>2 DEF ClaimStep
  <1>22. ASSUME NEW n \in Nodes, UserStep(n) \/ GossipStep(n) \/ DeviceStep(n)
         PROVE  SoundStep
    BY <1>1, <1>2, <1>8, <1>9, <1>10, <1>11, <1>12, <1>13, <1>14, <1>15, <1>18, <1>19, <1>22
       DEF UserStep, GossipStep, DeviceStep
  <1> QED BY <1>16, <1>20, <1>21, <1>22 DEF Next

LEMMA KeysStep ==
    ASSUME TypeOK, KeysOnDevices, [Next]_vars
    PROVE  KeysOnDevices'
  <1> DEFINE Safe == /\ \A m \in Nodes : \A a \in keys'[m] : a \in keys[m] \/ m \in Devices[a]
                     /\ \A m \in Nodes : keys[m] \subseteq keys'[m]
                     /\ \A m \in Nodes : \A s \in timers'[m] : s \in timers[m] \/ s.to \in keys[m]
  <1>1. Safe => KeysOnDevices'
    BY DEF KeysOnDevices
  <1>2. ASSUME NEW n \in Nodes, NEW a \in Accounts, OpenAccount(n, a) \/ RecoverAccount(n, a)
        PROVE  Safe
    <2>1. /\ keys' = [keys EXCEPT ![n] = @ \cup {a}] /\ timers' = timers
          /\ n \in Devices[a]
      BY <1>2 DEF OpenAccount, RecoverAccount, claims
    <2>2. \A m \in Nodes : keys'[m] = IF m = n THEN keys[m] \cup {a} ELSE keys[m]
      BY <2>1 DEF TypeOK
    <2> QED BY <2>1, <2>2
  <1>3. ASSUME keys' = keys, \A m \in Nodes : timers'[m] \subseteq timers[m]
        PROVE  Safe
    BY <1>3
  <1>4. ASSUME NEW n \in Nodes, UserStep(n)
        PROVE  Safe
    <2>1. CASE \E a \in Accounts : OpenAccount(n, a) \/ RecoverAccount(n, a)
      BY <1>2, <2>1
    <2>2. CASE \/ \E a \in Accounts, to \in Accounts, amt \in Amounts : CreateSend(n, a, to, amt)
               \/ \E a \in Accounts, amt \in Bonds : BondStake(n, a, amt)
      BY <1>3, <2>2 DEF CreateSend, BondStake, claims, device
    <2> QED BY <1>4, <2>1, <2>2 DEF UserStep
  <1>5. ASSUME NEW n \in Nodes, NEW a, NEW s, Sweep(n, a, s) \/ AutoClaimPending(n, a, s)
        PROVE  Safe
    BY <1>3, <1>5 DEF Sweep, AutoClaimPending, ClaimAndPublish, claims
  <1>6. ASSUME NEW n \in Nodes, NEW s \in timers[n], ChallengeTimer(n, s)
        PROVE  Safe
    <2>1. keys' = keys
      BY <1>6 DEF ChallengeTimer, ClaimAndPublish, device
    <2> QED BY <1>3, <1>6, <2>1 DEF ChallengeTimer, TypeOK
  <1>7. ASSUME NEW n \in Nodes, NEW s \in archive, ClaimViaProof(n, s.to, s)
        PROVE  Safe
    BY <1>7 DEF ClaimViaProof, TypeOK
  <1>8. ASSUME NEW n \in Nodes, NEW a, RelayAnswer(n, a)
        PROVE  Safe
    BY <1>3, <1>8 DEF RelayAnswer, device
  <1>9. ASSUME NEW n \in Nodes, ClaimStep(n)
        PROVE  Safe
    BY <1>5, <1>6, <1>7, <1>8, <1>9 DEF ClaimStep
  <1>10. ASSUME NEW n \in Nodes, NEW b \in wire, Deliver(n, b)
         PROVE  Safe
    BY <1>10 DEF Deliver, TypeOK
  <1>11. ASSUME NEW n \in Nodes, GossipStep(n)
         PROVE  Safe
    BY <1>3, <1>10, <1>11 DEF GossipStep, DeliverEvidence, PublishLocalData, claims, device
  <1>12. ASSUME NEW n \in Nodes, Restart(n)
         PROVE  Safe
    <2>1. keys' = keys /\ \A m \in Nodes : timers'[m] \subseteq timers[m]
      BY <1>12 DEF Restart, TypeOK
    <2> QED BY <1>3, <2>1
  <1>13. ASSUME NEW n \in Nodes, DeviceStep(n)
         PROVE  Safe
    BY <1>3, <1>12, <1>13 DEF DeviceStep, SaveDone, LoadBlocks, Replay, WalletOpen, claims
  <1>14. ASSUME NEW b \in wire, ArchiveBlock(b)
         PROVE  Safe
    <2>1. keys' = keys /\ timers' = timers
      BY <1>14 DEF ArchiveBlock, claims, device
    <2> QED BY <1>3, <2>1
  <1>15. ASSUME UNCHANGED vars
         PROVE  Safe
    <2>1. keys' = keys /\ timers' = timers
      BY <1>15 DEF vars, claims, device
    <2> QED BY <1>3, <2>1
  <1> HIDE DEF Safe
  <1> QED BY <1>1, <1>4, <1>9, <1>11, <1>13, <1>14, <1>15 DEF Next

LEMMA FrozenSoundStep ==
    ASSUME FrozenSound, SoundStep, signed \subseteq signed'
    PROVE  FrozenSound'
  BY DEF FrozenSound, SoundStep, Forked, DoubleSpend, Hash

(***************************************************************************)
(* The theorems.                                                           *)
(***************************************************************************)

LEMMA IndInvInit == Init => IndInv
  <1> SUFFICES ASSUME Init PROVE IndInv
    OBVIOUS
  <1>1. TypeOK
    BY DEF Init, TypeOK
  <1>2. \A n \in Nodes, a \in Accounts : Len(chain[n][a]) = 0
    BY DEF Init
  <1>3. OnlySigned /\ KeysOnDevices /\ FrozenSound
    BY DEF Init, OnlySigned, HeldBlocks, KeysOnDevices, FrozenSound
  <1>4. UniqueHash /\ RootsKnown /\ SingleUse /\ SingleWriter
    BY DEF Init, UniqueHash, RootsKnown, SingleUse, SingleWriter
  <1>5. Linked /\ ClaimsRecorded
    BY <1>2 DEF Init, Linked, LinkedChain, ClaimsRecorded
  <1> QED BY <1>1, <1>3, <1>4, <1>5 DEF IndInv

LEMMA IndInvStep == IndInv /\ [Next]_vars => IndInv'
  <1> SUFFICES ASSUME IndInv, [Next]_vars PROVE IndInv'
    OBVIOUS
  <1> USE DEF IndInv
  <1>1. StepShape /\ SoundStep /\ signed \subseteq signed'
    BY StepHasShape, StepIsSound, SignedGrows
  <1>2. TypeOK' /\ KeysOnDevices'
    BY TypeStep, KeysStep
  <1>3. OnlySigned' /\ FrozenSound'
    BY <1>1, FrozenSoundStep DEF SoundStep
  <1>4. UniqueHash' /\ Linked' /\ RootsKnown' /\ ClaimsRecorded' /\ SingleUse'
    BY <1>1, UniqueHashStep, LinkedStep, RootsKnownStep, ClaimsStep, SingleUseStep
  <1>5. SingleWriter'
    BY <1>1, <1>2, SingleWriterStep
  <1> QED BY <1>2, <1>3, <1>4, <1>5

\* The inductive invariant: only owners sign, a hash names one block, a
\* position in a chain vouches for everything below it, and a replica's
\* claimedSends and unclaimedSends agree with its chains and with each other.
THEOREM IndInvariant == Spec => []IndInv
  BY IndInvInit, IndInvStep, PTL DEF Spec

LEMMA NoDoubleClaimFollows == IndInv => NoDoubleClaim
  <1> SUFFICES ASSUME IndInv, NEW n \in Nodes, NEW a \in Accounts,
                      NEW i \in 1..Len(chain[n][a]), NEW j \in 1..Len(chain[n][a]), i < j,
                      IsReceive(chain[n][a][i]), IsReceive(chain[n][a][j])
               PROVE  chain[n][a][i].src # chain[n][a][j].src
    <2>1. \A n \in Nodes, a \in Accounts : Len(chain[n][a]) \in Nat
      BY DEF IndInv, TypeOK
    <2> QED BY <2>1 DEF NoDoubleClaim
  <1> DEFINE x == chain[n][a][i]
             b == chain[n][a][j]
  <1>1. LinkedChain(a, chain[n][a], signed)
    BY DEF IndInv, Linked
  <1>2. x \in signed /\ b \in signed /\ x.idx = i - 1 /\ b.idx = j - 1
    BY <1>1 DEF LinkedChain
  <1>3. i \in DOMAIN b.root /\ b.root[i] = Hash(x)
    <2>1. b.root = [k \in 1..j |-> Hash(chain[n][a][k])]
      BY <1>1 DEF LinkedChain
    <2>2. i \in 1..j
      OBVIOUS
    <2> QED BY <2>1, <2>2
  <1>4. b # x
    BY <1>2
  <1> QED BY <1>2, <1>3, <1>4 DEF IndInv, SingleUse

\* One transfer pays once.
THEOREM DoubleClaimFree == Spec => []NoDoubleClaim
  BY IndInvariant, NoDoubleClaimFollows, PTL

LEMMA SameHistoryFollows == IndInv => SameHistory
  <1> SUFFICES ASSUME IndInv, NEW n \in Nodes, NEW m \in Nodes, NEW a \in Accounts,
                      NEW i \in 1..Len(chain[n][a]), i <= Len(chain[m][a]),
                      chain[n][a][i] = chain[m][a][i], NEW j \in 1..i
               PROVE  chain[n][a][j] = chain[m][a][j]
    BY DEF SameHistory
  <1>1. /\ LinkedChain(a, chain[n][a], signed) /\ LinkedChain(a, chain[m][a], signed)
        /\ Len(chain[n][a]) \in Nat /\ Len(chain[m][a]) \in Nat
    BY DEF IndInv, Linked, TypeOK
  <1>2. /\ i \in 1..Len(chain[m][a]) /\ j \in 1..Len(chain[n][a]) /\ j \in 1..Len(chain[m][a])
    BY <1>1
  <1>3. /\ chain[n][a][i].root = [k \in 1..i |-> Hash(chain[n][a][k])]
        /\ chain[m][a][i].root = [k \in 1..i |-> Hash(chain[m][a][k])]
    BY <1>1, <1>2 DEF LinkedChain
  <1>4. Hash(chain[n][a][j]) = Hash(chain[m][a][j])
    BY <1>3
  <1>5. chain[n][a][j] \in signed /\ chain[m][a][j] \in signed
    BY <1>1, <1>2 DEF LinkedChain
  <1> QED BY <1>4, <1>5 DEF IndInv, UniqueHash

\* A block fixes the history below it, on every replica.
THEOREM HistoryAgreed == Spec => []SameHistory
  BY IndInvariant, SameHistoryFollows, PTL

LEMMA HonestFollows == IndInv => HonestNeverFrozen
  <1> SUFFICES ASSUME IndInv, NEW h \in Nodes, NEW a \in Accounts,
                      Devices[a] = {h}, restarts[h] = 0, Forked(a)
               PROVE  FALSE
    BY DEF HonestNeverFrozen, IndInv, FrozenSound
  <1>1. PICK x \in signed, y \in signed : x.acct = a /\ DoubleSpend(x, y)
    BY DEF Forked
  <1>2. x.idx = y.idx /\ y.acct = a /\ Hash(x) # Hash(y)
    BY <1>1 DEF DoubleSpend
  <1>3. x = chain[h][a][x.idx + 1] /\ y = chain[h][a][y.idx + 1]
    BY <1>1, <1>2 DEF IndInv, SingleWriter
  <1> QED BY <1>2, <1>3

\* An account written by one device that never restarted is frozen nowhere.
THEOREM HonestSafe == Spec => []HonestNeverFrozen
  BY IndInvariant, HonestFollows, PTL

-----------------------------------------------------------------------------
(* Replicas *)

(***************************************************************************)
(* The shapes of a step, with what the payment itself does.                *)
(***************************************************************************)
\* What an owner signs on the chain the node holds.
OwnMove(n, b) ==
    \/ /\ chain[n][b.acct] = <<>> /\ ~Exists(b.acct)
       /\ b.type = "open" /\ b.prev = NoHash /\ b.bal = Mint /\ b.src = NoHash
    \/ /\ Opened(n, b.acct) /\ b.prev = Hash(Head_(n, b.acct))
       /\ IsSend(b) /\ b.amt > 0 /\ b.src = NoHash
       /\ b.bal = Balance(n, b.acct) - b.amt /\ b.bal >= bonded[n][b.acct]
    \/ /\ Opened(n, b.acct) /\ b.prev = Hash(Head_(n, b.acct))
       /\ IsReceive(b)
       /\ b.bal = Balance(n, b.acct) + b.amt
       /\ \E s \in unclaimed[n] : s.to = b.acct /\ b.src = Hash(s) /\ b.amt = s.amt

\* A send is taken in without being placed in its chain.
TakesIn(n, b) ==
    /\ IsSend(b)
    /\ all' = [all EXCEPT ![n] = @ \cup {b}]
    /\ unclaimed' = [unclaimed EXCEPT ![n] = @ \cup Restored(n, b)]
    /\ UNCHANGED <<chain, claimed, frozen>>

Replaying(n, b) == phase[n] = "replaying" /\ b \in toReplay[n]

SignShape ==
    \E n \in Nodes, b \in Blocks :
        /\ Running(n) /\ Signs(n, b) /\ OwnMove(n, b)
        /\ b.acct \in keys'[n] /\ b.idx <= LastIndex[b.acct]

EnterShape == \E n \in Nodes, b \in signed : Extends(n, b) /\ Enter(n, b)

RetainShape ==
    \E n \in Nodes, b \in signed : \E r \in {{}, Restored(n, b)} :
        Conflicts(n, b) /\ Retain(n, b, r) /\ (r = {} \/ Replaying(n, b))

TakeInShape ==
    \E n \in Nodes, b \in signed :
        TakesIn(n, b) /\ (b.acct \notin frozen[n] \/ Replaying(n, b))

EvidenceShape ==
    \E n \in Nodes, x \in signed, y \in signed :
        Freeze(n, x, y, {}) /\ UNCHANGED <<chain, all, claimed>>

ForgetShape == \E n \in Nodes : Restart(n)

QuietShape == UNCHANGED <<chain, all, unclaimed, claimed, frozen>>

TakingShape ==
    EnterShape \/ RetainShape \/ TakeInShape \/ EvidenceShape \/ ForgetShape \/ QuietShape

ReplicaShape == SignShape \/ (signed' = signed /\ TakingShape)

LEMMA AddBlockTakes ==
    ASSUME NEW n \in Nodes, NEW b \in signed, AddBlock(n, b)
    PROVE  TakingShape
  <1>1. CASE Extends(n, b) /\ Enter(n, b)
    BY <1>1 DEF EnterShape, TakingShape
  <1>2. CASE Conflicts(n, b) /\ Retain(n, b, {})
    BY <1>2 DEF RetainShape, TakingShape
  <1>3. CASE UNCHANGED ledger
    BY <1>3 DEF ledger, QuietShape, TakingShape
  <1> QED BY <1>1, <1>2, <1>3 DEF AddBlock

LEMMA ReplayTakes ==
    ASSUME TypeOK, NEW n \in Nodes, NEW b \in signed, AddOrRestoreBlock(n, b), Replaying(n, b)
    PROVE  TakingShape
  <1>1. CASE AddBlock(n, b)
    BY <1>1, AddBlockTakes
  <1>2. CASE Conflicts(n, b) /\ Retain(n, b, Restored(n, b))
    BY <1>2 DEF RetainShape, TakingShape
  <1>3. CASE /\ all' = [all EXCEPT ![n] = IF IsSend(b) THEN @ \cup {b} ELSE @]
             /\ unclaimed' = [unclaimed EXCEPT ![n] = @ \cup Restored(n, b)]
             /\ UNCHANGED <<chain, claimed, frozen, bonded, evidence>>
    <2>1. CASE IsSend(b)
      <3>1. TakesIn(n, b)
        BY <1>3, <2>1 DEF TakesIn
      <3> QED BY <3>1 DEF TakeInShape, TakingShape
    <2>2. CASE ~IsSend(b)
      <3>1. all' = all /\ unclaimed' = unclaimed
        BY <1>3, <2>2 DEF Restored, TypeOK
      <3> QED BY <1>3, <3>1 DEF QuietShape, TakingShape
    <2> QED BY <2>1, <2>2
  <1> QED BY <1>1, <1>2, <1>3 DEF AddOrRestoreBlock

LEMMA ClaimSigns ==
    ASSUME TypeOK, NEW n \in Nodes, NEW a \in Accounts, NEW s, CreateReceive(n, a, s),
           a \in keys'[n], Running(n)
    PROVE  SignShape
  <1>1. PICK t \in Tags :
          Signs(n, NextBlock(a, chain[n][a], t, "receive", Balance(n, a) + s.amt,
                             s.amt, a, Hash(s)))
    BY CreateReceiveType, TypeParts
  <1> DEFINE b == NextBlock(a, chain[n][a], t, "receive", Balance(n, a) + s.amt,
                            s.amt, a, Hash(s))
  <1>2. /\ b.acct = a /\ b.src = Hash(s) /\ b.amt = s.amt /\ IsReceive(b)
        /\ b.bal = Balance(n, a) + s.amt
        /\ b.prev = IF chain[n][a] = <<>> THEN NoHash ELSE Hash(chain[n][a][Len(chain[n][a])])
        /\ b.idx = Len(chain[n][a])
    BY DEF NextBlock, IsReceive
  <1>3. s \in unclaimed[n] /\ s.to = a /\ Opened(n, a) /\ Len(chain[n][a]) <= LastIndex[a]
    BY DEF CreateReceive
  <1>4. b \in Blocks /\ Signs(n, b)
    BY <1>1 DEF Signs
  <1> HIDE DEF b
  <1>5. OwnMove(n, b)
    BY <1>2, <1>3 DEF OwnMove, Opened, Head_
  <1> QED BY <1>2, <1>3, <1>4, <1>5 DEF SignShape

LEMMA SendSigns ==
    ASSUME TypeOK, NEW n \in Nodes, NEW a \in Accounts, NEW to \in Accounts,
           NEW amt \in Amounts, CreateSend(n, a, to, amt)
    PROVE  SignShape
  <1>1. PICK t \in Tags :
          LET x == NextBlock(a, chain[n][a], t, "send", Balance(n, a) - amt, amt, to, NoHash) IN
          FreshTag(a, x.idx, t) /\ SignAndEnter(n, x)
    BY DEF CreateSend
  <1> DEFINE b == NextBlock(a, chain[n][a], t, "send", Balance(n, a) - amt, amt, to, NoHash)
  <1>2. /\ b.acct = a /\ b.src = NoHash /\ b.amt = amt /\ IsSend(b)
        /\ b.bal = Balance(n, a) - amt /\ b.idx = Len(chain[n][a])
        /\ b.prev = IF chain[n][a] = <<>> THEN NoHash ELSE Hash(chain[n][a][Len(chain[n][a])])
    BY DEF NextBlock, IsSend
  <1>3. /\ amt \in Nat \ {0} /\ Balance(n, a) - amt \in Int /\ "send" \in BlockTypes
        /\ "send" = "receive" => NoHash \in Hashes
        /\ Balance(n, a) \in Int /\ bonded[n][a] \in Nat
    BY HeadType, TypeParts, AmountsAssumption DEF CreateSend, BlockTypes, LedgerTypeOK
  <1>4. Signs(n, b)
    BY <1>1, <1>2, <1>3, SignsNextBlock, TypeParts
  <1>5. /\ Opened(n, a) /\ Balance(n, a) - bonded[n][a] >= amt
        /\ a \in keys'[n] /\ Running(n) /\ Len(chain[n][a]) <= LastIndex[a]
    BY DEF CreateSend
  <1> HIDE DEF b
  <1>6. OwnMove(n, b)
    BY <1>2, <1>3, <1>5 DEF OwnMove, Opened, Head_
  <1> QED BY <1>2, <1>4, <1>5, <1>6 DEF SignShape, Signs

LEMMA OpenSigns ==
    ASSUME TypeOK, Linked, NEW n \in Nodes, NEW a \in Accounts, OpenAccount(n, a)
    PROVE  SignShape
  <1>1. PICK t \in Tags :
          /\ FreshTag(a, 0, t)
          /\ SignAndEnter(n, NextBlock(a, <<>>, t, "open", Mint, 0, a, NoHash))
    BY DEF OpenAccount
  <1>2. chain[n][a] = <<>>
    <2>1. chain[n][a] \in Seq(Blocks)
      BY HeadType, TypeParts
    <2>2. ASSUME chain[n][a] # <<>> PROVE FALSE
      <3>1. 1 \in 1..Len(chain[n][a])
        BY <2>1, <2>2
      <3>2. chain[n][a][1] \in signed /\ chain[n][a][1].acct = a
        BY <3>1 DEF Linked, LinkedChain
      <3> QED BY <3>2 DEF OpenAccount, Exists
    <2> QED BY <2>2
  <1> DEFINE b == NextBlock(a, chain[n][a], t, "open", Mint, 0, a, NoHash)
  <1>3. /\ "open" \in BlockTypes /\ Mint \in Int /\ 0 \in Nat
        /\ "open" = "receive" => NoHash \in Hashes
    BY MintAssumption DEF BlockTypes
  <1>4. Signs(n, b)
    BY <1>1, <1>2, <1>3, SignsNextBlock, TypeParts
  <1>5. /\ b.acct = a /\ b.type = "open" /\ b.prev = NoHash /\ b.bal = Mint /\ b.src = NoHash
        /\ b.idx = 0
    BY <1>2 DEF NextBlock
  <1>6. a \in keys'[n] /\ Running(n) /\ ~Exists(a) /\ LastIndex[a] >= 0
    BY LastIndexAssumption DEF OpenAccount, TypeOK
  <1> HIDE DEF b
  <1>7. OwnMove(n, b)
    BY <1>2, <1>5, <1>6 DEF OwnMove
  <1> QED BY <1>4, <1>5, <1>6, <1>7 DEF SignShape, Signs

LEMMA StepIsReplicaShape ==
    ASSUME TypeOK, OnlySigned, Linked, KeysOnDevices, [Next]_vars
    PROVE  ReplicaShape
  <1>0. /\ \A n \in Nodes : HeldBlocks(n) \subseteq signed
        /\ wire \subseteq signed /\ archive \subseteq signed
        /\ \A e \in evidence : e.pair \subseteq signed
    BY DEF OnlySigned
  <1>1. ASSUME NEW n \in Nodes, UserStep(n)
        PROVE  ReplicaShape
    <2>1. CASE \E a \in Accounts : OpenAccount(n, a)
      BY <2>1, OpenSigns DEF ReplicaShape
    <2>2. CASE \E a \in Accounts, to \in Accounts, amt \in Amounts : CreateSend(n, a, to, amt)
      BY <2>2, SendSigns DEF ReplicaShape
    <2>3. CASE \/ \E a \in Accounts : RecoverAccount(n, a)
               \/ \E a \in Accounts, amt \in Bonds : BondStake(n, a, amt)
      BY <2>3 DEF RecoverAccount, BondStake, ledger, QuietShape, TakingShape, ReplicaShape
    <2> QED BY <1>1, <2>1, <2>2, <2>3 DEF UserStep
  <1>2. ASSUME NEW n \in Nodes, ClaimStep(n)
        PROVE  ReplicaShape
    <2>1. \A s \in unclaimed[n] \cup archive \cup timers[n] : s.to \in Accounts
      BY BlockFields DEF TypeOK
    <2>2. CASE \E a \in keys[n] : RelayAnswer(n, a)
      BY <2>2 DEF RelayAnswer, ledger, QuietShape, TakingShape, ReplicaShape
    <2>3. ASSUME NEW s \in timers[n], ChallengeTimer(n, s)
          PROVE  ReplicaShape
      <3>1. s.to \in keys[n]
        BY DEF KeysOnDevices
      <3>2. CASE ClaimAndPublish(n, s.to, s)
        BY <2>1, <2>3, <3>1, <3>2, ClaimSigns DEF ClaimAndPublish, ChallengeTimer, ReplicaShape
      <3>3. CASE UNCHANGED <<signed, ledger, cleared, device, network>>
        BY <3>3 DEF ledger, QuietShape, TakingShape, ReplicaShape
      <3> QED BY <2>3, <3>2, <3>3 DEF ChallengeTimer
    <2>4. ASSUME NEW s \in unclaimed[n], Sweep(n, s.to, s) \/ AutoClaimPending(n, s.to, s)
          PROVE  ReplicaShape
      BY <2>1, <2>4, ClaimSigns DEF Sweep, ClaimAndPublish, AutoClaimPending, ReplicaShape
    <2>5. ASSUME NEW s \in archive, ClaimViaProof(n, s.to, s)
          PROVE  ReplicaShape
      <3>1. Restored(n, s) = {s}
        BY <2>5 DEF ClaimViaProof, Restored
      <3>2. TakesIn(n, s) /\ s.acct \notin frozen[n]
        BY <2>5, <3>1 DEF ClaimViaProof, TakesIn
      <3> QED BY <1>0, <2>5, <3>2 DEF ClaimViaProof, TakeInShape, TakingShape, ReplicaShape
    <2> QED BY <1>2, <2>2, <2>3, <2>4, <2>5 DEF ClaimStep
  <1>3. ASSUME NEW n \in Nodes, GossipStep(n)
        PROVE  ReplicaShape
    <2>1. CASE \E b \in wire : Deliver(n, b)
      BY <1>0, <2>1, AddBlockTakes DEF Deliver, ReplicaShape
    <2>2. ASSUME NEW e \in evidence, NEW x \in e.pair, NEW y \in e.pair, DeliverEvidence(n, x, y)
          PROVE  ReplicaShape
      BY <1>0, <2>2 DEF DeliverEvidence, EvidenceShape, TakingShape, ReplicaShape
    <2>3. CASE PublishLocalData(n)
      BY <2>3 DEF PublishLocalData, ledger, QuietShape, TakingShape, ReplicaShape
    <2> QED BY <1>3, <2>1, <2>2, <2>3 DEF GossipStep
  <1>4. ASSUME NEW n \in Nodes, DeviceStep(n)
        PROVE  ReplicaShape
    <2>1. CASE SaveDone(n) \/ LoadBlocks(n)
      BY <2>1 DEF SaveDone, LoadBlocks, ledger, QuietShape, TakingShape, ReplicaShape
    <2>2. CASE Restart(n)
      BY <2>2 DEF Restart, ForgetShape, TakingShape, ReplicaShape
    <2>3. ASSUME NEW b \in toReplay[n], Replay(n, b)
          PROVE  ReplicaShape
      <3>1. b \in signed /\ Replaying(n, b)
        BY <1>0, <2>3 DEF HeldBlocks, Replay, Replaying
      <3> QED BY <2>3, <3>1, ReplayTakes DEF Replay, ReplicaShape
    <2>4. ASSUME NEW b \in wallet[n], WalletOpen(n, b)
          PROVE  ReplicaShape
      <3>1. b \in signed
        BY <1>0 DEF HeldBlocks
      <3> QED BY <2>4, <3>1, AddBlockTakes DEF WalletOpen, ReplicaShape
    <2> QED BY <1>4, <2>1, <2>2, <2>3, <2>4 DEF DeviceStep
  <1>5. ASSUME NEW b \in wire, ArchiveBlock(b)
        PROVE  ReplicaShape
    BY <1>5 DEF ArchiveBlock, ledger, QuietShape, TakingShape, ReplicaShape
  <1>6. CASE UNCHANGED vars
    BY <1>6 DEF vars, ledger, QuietShape, TakingShape, ReplicaShape
  <1> QED BY <1>1, <1>2, <1>3, <1>4, <1>5, <1>6 DEF Next

(***************************************************************************)
(* WellSigned.                                                             *)
(***************************************************************************)
\* The head of a linked chain commits to exactly the chain.
LEMMA HeadOfLinked ==
    ASSUME NEW a, NEW c \in Seq(Blocks), NEW S, LinkedChain(a, c, S), c # <<>>
    PROVE  /\ Len(c) \in Nat \ {0}
           /\ c[Len(c)] \in S /\ c[Len(c)].acct = a /\ c[Len(c)].idx = Len(c) - 1
           /\ c[Len(c)].root = HashesOf(c)
  <1>1. Len(c) \in 1..Len(c) /\ Len(c) \in Nat
    OBVIOUS
  <1>2. /\ c[Len(c)] \in S /\ c[Len(c)].acct = a /\ c[Len(c)].idx = Len(c) - 1
        /\ c[Len(c)].root = [j \in 1..Len(c) |-> Hash(c[j])]
    BY <1>1 DEF LinkedChain
  <1> QED BY <1>1, <1>2 DEF HashesOf

\* The form of one well signed block, over the blocks B.
WellFormed(b, B) ==
    /\ Len(b.root) = b.idx + 1 /\ b.root[b.idx + 1] = Hash(b)
    /\ ~IsReceive(b) => b.src = NoHash
    /\ b.idx = 0 => b.type = "open" /\ b.prev = NoHash /\ b.bal = Mint
    /\ b.idx > 0 => \E p \in B :
          /\ Follows(b, p)
          /\ \/ IsSend(b) /\ b.amt > 0 /\ b.bal >= 0 /\ b.bal = p.bal - b.amt
             \/ /\ IsReceive(b) /\ b.amt > 0 /\ b.bal = p.bal + b.amt
                /\ \E s \in B : Hash(s) = b.src /\ IsSend(s) /\ s.to = b.acct /\ s.amt = b.amt

LEMMA WellSignedForms ==
    /\ WellSigned <=> \A b \in signed : WellFormed(b, signed)
    /\ WellSigned' <=> \A b \in signed' : WellFormed(b, signed')
  <1>1. WellSigned <=> \A b \in signed : WellFormed(b, signed)
    BY DEF WellSigned, WellFormed, Moves
  <1>2. WellSigned' <=> \A b \in signed' : WellFormed(b, signed')
    BY DEF WellSigned, WellFormed, Moves, Follows, IsSend, IsReceive, Hash
  <1> QED BY <1>1, <1>2

LEMMA WellFormedMonotone ==
    ASSUME NEW b, NEW S, NEW T, S \subseteq T, WellFormed(b, S)
    PROVE  WellFormed(b, T)
  BY DEF WellFormed

\* A send is no genesis, so it moves something.
LEMMA SendMoves ==
    ASSUME TypeOK, WellSigned, NEW s \in signed, IsSend(s)
    PROVE  s.amt > 0 /\ s.idx > 0
  <1>1. WellFormed(s, signed) /\ s.idx \in Nat
    BY WellSignedForms, BlockFields DEF TypeOK
  <1>2. s.type # "open" /\ ~IsReceive(s)
    BY DEF IsSend, IsReceive
  <1>3. s.idx > 0
    BY <1>1, <1>2 DEF WellFormed
  <1> QED BY <1>1, <1>2, <1>3 DEF WellFormed

\* The block an owner signs follows the head it extends.
LEMMA OwnMoveFollows ==
    ASSUME TypeOK, Linked, OnlySigned, WellSigned, OffersSends,
           NEW n \in Nodes, NEW b \in Blocks, Signs(n, b), OwnMove(n, b)
    PROVE  WellFormed(b, signed)
  <1> DEFINE c == chain[n][b.acct]
  <1>1. /\ b.acct \in Accounts /\ c \in Seq(Blocks) /\ LinkedChain(b.acct, c, signed)
        /\ b.idx \in Nat /\ b.amt \in Nat
    BY BlockFields DEF TypeOK, Linked
  <1>2. b.idx = Len(c) /\ b.root = Append(HashesOf(c), Hash(b))
    BY DEF Signs, Hash
  <1>3. HashesOf(c) \in Seq(Hashes) /\ Len(HashesOf(c)) = Len(c) /\ Hash(b) \in Hashes
    BY <1>1, HashType DEF HashesOf
  <1>4. Len(b.root) = b.idx + 1 /\ b.root[b.idx + 1] = Hash(b)
    BY <1>2, <1>3
  <1>5. CASE c = <<>>
    <2>1. b.idx = 0 /\ ~Opened(n, b.acct)
      BY <1>2, <1>5 DEF Opened
    <2>2. b.type = "open" /\ b.prev = NoHash /\ b.bal = Mint /\ b.src = NoHash
      BY <2>1 DEF OwnMove
    <2> QED BY <1>4, <2>1, <2>2 DEF WellFormed, IsReceive
  <1>6. CASE c # <<>>
    <2> DEFINE p == c[Len(c)]
    <2>1. /\ p \in signed /\ p.acct = b.acct /\ p.idx = Len(c) - 1 /\ p.root = HashesOf(c)
          /\ Len(c) \in Nat \ {0}
      BY <1>1, <1>6, HeadOfLinked
    <2>2. p = Head_(n, b.acct) /\ p.bal = Balance(n, b.acct)
      BY DEF Head_, Balance
    <2>3. /\ b.prev = Hash(p) /\ (IsSend(b) \/ IsReceive(b))
          /\ IsSend(b) => b.amt > 0 /\ b.src = NoHash /\ b.bal = p.bal - b.amt
                            /\ b.bal >= bonded[n][b.acct]
          /\ IsReceive(b) => /\ b.bal = p.bal + b.amt
                             /\ \E s \in unclaimed[n] :
                                   s.to = b.acct /\ b.src = Hash(s) /\ b.amt = s.amt
      BY <1>6, <2>2 DEF OwnMove, IsSend, IsReceive
    <2> HIDE DEF c, p
    <2>4. Follows(b, p) /\ b.idx > 0
      BY <1>2, <2>1, <2>3 DEF Follows
    <2>5. CASE IsSend(b)
      <3>1. bonded[n][b.acct] \in Nat /\ b.bal \in Int
        BY <1>1, BlockFields DEF TypeOK
      <3>2. b.bal >= 0 /\ ~IsReceive(b)
        BY <2>3, <2>5, <3>1 DEF IsSend, IsReceive
      <3> QED BY <1>4, <2>1, <2>3, <2>4, <2>5, <3>2 DEF WellFormed
    <2>6. CASE IsReceive(b)
      <3>1. PICK s \in unclaimed[n] : s.to = b.acct /\ b.src = Hash(s) /\ b.amt = s.amt
        BY <2>3, <2>6
      <3>2. s \in signed /\ IsSend(s)
        BY DEF OnlySigned, HeldBlocks, OffersSends
      <3>3. b.amt > 0
        BY <3>1, <3>2, SendMoves
      <3> QED BY <1>4, <2>1, <2>3, <2>4, <2>6, <3>1, <3>2, <3>3 DEF WellFormed
    <2> QED BY <2>3, <2>5, <2>6
  <1> QED BY <1>5, <1>6

LEMMA WellSignedStep ==
    ASSUME TypeOK, Linked, OnlySigned, WellSigned, OffersSends, ReplicaShape
    PROVE  WellSigned'
  <1>1. CASE SignShape
    <2>1. PICK n \in Nodes, b \in Blocks : Signs(n, b) /\ OwnMove(n, b)
      BY <1>1 DEF SignShape
    <2>2. signed' = signed \cup {b}
      BY <2>1 DEF Signs
    <2>3. WellFormed(b, signed)
      BY <2>1, OwnMoveFollows
    <2>4. \A x \in signed' : WellFormed(x, signed)
      BY <2>2, <2>3, WellSignedForms
    <2>5. \A x \in signed' : WellFormed(x, signed')
      BY <2>2, <2>4, WellFormedMonotone
    <2> QED BY <2>5, WellSignedForms
  <1>2. CASE signed' = signed
    BY <1>2, WellSignedForms
  <1> QED BY <1>1, <1>2 DEF ReplicaShape

(***************************************************************************)
(* What a replica offers, and what it holds unplaced.                      *)
(***************************************************************************)
\* The variables of one replica after a step.
EnterEffect(n, b) ==
    /\ \A m \in Nodes : all'[m] = IF m = n THEN all[m] \cup {b} ELSE all[m]
    /\ \A m \in Nodes : claimed'[m] = IF m = n /\ IsReceive(b) THEN claimed[m] \cup {b.src}
                                      ELSE claimed[m]
    /\ \A m \in Nodes : \A s : s \in unclaimed'[m] <=>
          \/ s \in unclaimed[m] /\ ~(m = n /\ IsReceive(b) /\ Hash(s) = b.src)
          \/ m = n /\ s = b /\ IsSend(b) /\ Hash(b) \notin claimed[n]
    /\ frozen' = frozen

LEMMA EnterHasEffect ==
    ASSUME TypeOK, NEW n \in Nodes, NEW b, Enter(n, b)
    PROVE  EnterEffect(n, b)
  <1>1. ~(IsSend(b) /\ IsReceive(b))
    BY DEF IsSend, IsReceive
  <1>2. \A m \in Nodes : unclaimed'[m] =
          IF m # n THEN unclaimed[m]
          ELSE IF IsSend(b) /\ Hash(b) \notin claimed[n] THEN unclaimed[m] \cup {b}
          ELSE IF IsReceive(b) THEN {s \in unclaimed[m] : Hash(s) # b.src}
          ELSE unclaimed[m]
    BY DEF TypeOK, Enter
  <1>3. \A m \in Nodes : \A s : s \in unclaimed'[m] <=>
          \/ s \in unclaimed[m] /\ ~(m = n /\ IsReceive(b) /\ Hash(s) = b.src)
          \/ m = n /\ s = b /\ IsSend(b) /\ Hash(b) \notin claimed[n]
    <2> TAKE m \in Nodes
    <2> TAKE s
    <2>1. CASE m # n
      BY <1>2, <2>1
    <2>2. CASE m = n /\ IsSend(b) /\ Hash(b) \notin claimed[n]
      <3>1. unclaimed'[m] = unclaimed[m] \cup {b} /\ ~IsReceive(b)
        BY <1>1, <1>2, <2>2
      <3> QED BY <2>2, <3>1
    <2>3. CASE m = n /\ ~(IsSend(b) /\ Hash(b) \notin claimed[n]) /\ IsReceive(b)
      BY <1>1, <1>2, <2>3
    <2>4. CASE m = n /\ ~(IsSend(b) /\ Hash(b) \notin claimed[n]) /\ ~IsReceive(b)
      BY <1>1, <1>2, <2>4
    <2> QED BY <2>1, <2>2, <2>3, <2>4
  <1>4. /\ all' = [all EXCEPT ![n] = @ \cup {b}]
        /\ claimed' = [claimed EXCEPT ![n] = IF IsReceive(b) THEN @ \cup {b.src} ELSE @]
        /\ frozen' = frozen
    BY DEF Enter
  <1>5. all \in [Nodes -> SUBSET Blocks] /\ claimed \in [Nodes -> SUBSET Hashes]
    BY DEF TypeOK
  <1>6. \A m \in Nodes : all'[m] = IF m = n THEN all[m] \cup {b} ELSE all[m]
    BY <1>4, <1>5
  <1>7. \A m \in Nodes : claimed'[m] = IF m = n /\ IsReceive(b) THEN claimed[m] \cup {b.src}
                                       ELSE claimed[m]
    BY <1>4, <1>5
  <1> QED BY <1>3, <1>4, <1>6, <1>7 DEF EnterEffect

\* What no step but a restart takes away: what is frozen stays so, and an
\* unplaced send stays so unless its account is frozen.
Keeps(m) ==
    /\ frozen[m] \subseteq frozen'[m]
    /\ claimed[m] \subseteq claimed'[m]
    /\ \A y \in all[m] : Unplaced(m, y) =>
          y.acct \in frozen'[m] \/ y \in unclaimed'[m] \/ Hash(y) \in claimed'[m]

LEMMA EnterKeeps ==
    ASSUME TypeOK, NEW n \in Nodes, NEW b, Enter(n, b), NEW m \in Nodes
    PROVE  Keeps(m)
  <1>1. EnterEffect(n, b)
    BY EnterHasEffect
  <1>2. frozen[m] \subseteq frozen'[m] /\ claimed[m] \subseteq claimed'[m]
    BY <1>1 DEF EnterEffect
  <1>3. ASSUME NEW y, Unplaced(m, y)
        PROVE  y \in unclaimed'[m] \/ Hash(y) \in claimed'[m]
    <2>1. CASE Hash(y) \in claimed[m]
      BY <1>2, <2>1
    <2>2. CASE y \in unclaimed[m] /\ m = n /\ IsReceive(b) /\ Hash(y) = b.src
      BY <1>1, <2>2 DEF EnterEffect
    <2>3. CASE y \in unclaimed[m] /\ ~(m = n /\ IsReceive(b) /\ Hash(y) = b.src)
      BY <1>1, <2>3 DEF EnterEffect
    <2> QED BY <1>3, <2>1, <2>2, <2>3 DEF Unplaced
  <1> QED BY <1>2, <1>3 DEF Keeps

\* A freeze and the sends it voids.
FreezeEffect(n, a, r) ==
    /\ \A m \in Nodes : frozen'[m] = IF m = n THEN frozen[m] \cup {a} ELSE frozen[m]
    /\ \A m \in Nodes : unclaimed'[m] =
          IF m = n THEN {s \in unclaimed[m] : s.acct # a} \cup r ELSE unclaimed[m]

LEMMA FreezeHasEffect ==
    ASSUME TypeOK, NEW n \in Nodes, NEW x, NEW y, NEW r, Freeze(n, x, y, r)
    PROVE  FreezeEffect(n, x.acct, r)
  BY DEF TypeOK, Freeze, FreezeEffect

LEMMA EvidenceHasEffect ==
    ASSUME TypeOK, EvidenceShape
    PROVE  \E n \in Nodes, a \in Accounts :
              FreezeEffect(n, a, {}) /\ UNCHANGED <<chain, all, claimed>>
  <1>1. PICK n \in Nodes, x \in signed, y \in signed :
          Freeze(n, x, y, {}) /\ UNCHANGED <<chain, all, claimed>>
    BY DEF EvidenceShape
  <1>2. x.acct \in Accounts
    BY BlockFields DEF TypeOK
  <1> QED BY <1>1, <1>2, FreezeHasEffect

\* Retain, on the replica: the sibling is kept, and the account frozen when
\* the pair is evidence.
RetainEffect(n, b, r) ==
    /\ \A m \in Nodes : all'[m] = IF m = n THEN all[m] \cup {b} ELSE all[m]
    /\ UNCHANGED <<chain, claimed>>
    /\ IF DoubleSpend(chain[n][b.acct][b.idx + 1], b)
       THEN FreezeEffect(n, b.acct, r)
       ELSE /\ frozen' = frozen
            /\ \A m \in Nodes : unclaimed'[m] = IF m = n THEN unclaimed[m] \cup r ELSE unclaimed[m]

LEMMA RetainHasEffect ==
    ASSUME TypeOK, NEW n \in Nodes, NEW b, NEW r, Retain(n, b, r)
    PROVE  RetainEffect(n, b, r)
  <1> DEFINE h == chain[n][b.acct][b.idx + 1]
  <1>1. \A m \in Nodes : all'[m] = IF m = n THEN all[m] \cup {b} ELSE all[m]
    BY DEF TypeOK, Retain
  <1>2. UNCHANGED <<chain, claimed>>
    BY DEF Retain
  <1>3. CASE DoubleSpend(h, b)
    <2>1. Freeze(n, h, b, r) /\ h.acct = b.acct
      BY <1>3 DEF Retain, DoubleSpend
    <2>2. FreezeEffect(n, b.acct, r)
      BY <2>1, FreezeHasEffect
    <2> QED BY <1>1, <1>2, <1>3, <2>2 DEF RetainEffect
  <1>4. CASE ~DoubleSpend(h, b)
    <2>1. unclaimed' = [unclaimed EXCEPT ![n] = @ \cup r] /\ frozen' = frozen
      BY <1>4 DEF Retain
    <2>2. \A m \in Nodes : unclaimed'[m] = IF m = n THEN unclaimed[m] \cup r ELSE unclaimed[m]
      BY <2>1 DEF TypeOK
    <2> QED BY <1>1, <1>2, <1>4, <2>1, <2>2 DEF RetainEffect
  <1> QED BY <1>3, <1>4

TakesInEffect(n, b) ==
    /\ IsSend(b)
    /\ \A m \in Nodes : all'[m] = IF m = n THEN all[m] \cup {b} ELSE all[m]
    /\ \A m \in Nodes : unclaimed'[m] = IF m = n THEN unclaimed[m] \cup Restored(n, b)
                                        ELSE unclaimed[m]
    /\ UNCHANGED <<chain, claimed, frozen>>

LEMMA TakesInHasEffect ==
    ASSUME TypeOK, NEW n \in Nodes, NEW b, TakesIn(n, b)
    PROVE  TakesInEffect(n, b)
  BY DEF TypeOK, TakesIn, TakesInEffect

ForgetEffect(n) ==
    /\ signed' = signed
    /\ \A m \in Nodes :
          /\ all'[m] = IF m = n THEN {} ELSE all[m]
          /\ unclaimed'[m] = IF m = n THEN {} ELSE unclaimed[m]
          /\ claimed'[m] = IF m = n THEN {} ELSE claimed[m]
          /\ frozen'[m] = IF m = n THEN {} ELSE frozen[m]
          /\ \A a \in Accounts : chain'[m][a] = IF m = n THEN <<>> ELSE chain[m][a]

LEMMA ForgetHasEffect ==
    ASSUME TypeOK, NEW n \in Nodes, Restart(n)
    PROVE  ForgetEffect(n)
  BY DEF TypeOK, Restart, ForgetEffect

LEMMA OffersSendsStep ==
    ASSUME TypeOK, OffersSends, ReplicaShape
    PROVE  OffersSends'
  <1> SUFFICES ASSUME NEW m \in Nodes, NEW s \in unclaimed'[m] PROVE IsSend(s)
    BY DEF OffersSends, IsSend
  <1>0. \A x \in unclaimed[m] : IsSend(x)
    BY DEF OffersSends
  <1>1. CASE SignShape \/ EnterShape
    <2>1. PICK n \in Nodes, b \in Blocks \cup signed : Enter(n, b)
      BY <1>1 DEF SignShape, EnterShape, Signs
    <2> QED BY <1>0, <2>1, EnterHasEffect DEF EnterEffect
  <1>2. CASE RetainShape
    <2>1. PICK n \in Nodes, b \in signed : \E r \in {{}, Restored(n, b)} : Retain(n, b, r)
      BY <1>2 DEF RetainShape
    <2>2. PICK r \in {{}, Restored(n, b)} : RetainEffect(n, b, r)
      BY <2>1, RetainHasEffect
    <2>3. \A x \in r : IsSend(x)
      BY DEF Restored
    <2> QED BY <1>0, <2>2, <2>3 DEF RetainEffect, FreezeEffect
  <1>3. CASE TakeInShape
    <2>1. PICK n \in Nodes, b \in signed : TakesInEffect(n, b)
      BY <1>3, TakesInHasEffect DEF TakeInShape
    <2> QED BY <1>0, <2>1 DEF TakesInEffect, Restored
  <1>4. CASE EvidenceShape
    <2>1. PICK n \in Nodes, a \in Accounts : FreezeEffect(n, a, {})
      BY <1>4, EvidenceHasEffect
    <2> QED BY <1>0, <2>1 DEF FreezeEffect
  <1>5. CASE ForgetShape
    BY <1>0, <1>5, ForgetHasEffect DEF ForgetShape, ForgetEffect
  <1>6. CASE QuietShape
    BY <1>0, <1>6 DEF QuietShape
  <1> QED BY <1>1, <1>2, <1>3, <1>4, <1>5, <1>6 DEF ReplicaShape, TakingShape

(***************************************************************************)
(* Forks: what a replica holds of an account beyond or beside its chain.   *)
(***************************************************************************)
\* One replica's part of BeyondIsUnplaced and SeenForkIsFrozen.
SidesKnown(m) ==
    /\ \A y \in all[m] :
          y.idx >= Len(chain[m][y.acct]) => y.acct \in frozen[m] \/ Unplaced(m, y)
    /\ \A a \in Accounts : \A i \in 1..Len(chain[m][a]), y \in all[m] :
          DoubleSpend(chain[m][a][i], y) => a \in frozen[m] \/ Unplaced(m, y)

LEMMA SidesParts ==
    BeyondIsUnplaced /\ SeenForkIsFrozen <=> \A m \in Nodes : SidesKnown(m)
  BY DEF BeyondIsUnplaced, SeenForkIsFrozen, SidesKnown

LEMMA SidesPartsNext ==
    (BeyondIsUnplaced /\ SeenForkIsFrozen)' <=> \A m \in Nodes : SidesKnown(m)'
  BY DEF BeyondIsUnplaced, SeenForkIsFrozen, SidesKnown, Unplaced, DoubleSpend, Hash, IsSend

\* A fork's sides belong to the account of the chain.
LEMMA SideOfChain ==
    ASSUME Linked, NEW m \in Nodes, NEW a \in Accounts, NEW i \in 1..Len(chain[m][a]),
           NEW y, DoubleSpend(chain[m][a][i], y)
    PROVE  y.acct = a /\ y.idx = i - 1
  BY DEF Linked, LinkedChain, DoubleSpend

\* Why a replica may hold y.
Known(m, y) ==
    \/ y.acct \in frozen'[m]
    \/ IsSend(y) /\ (y \in unclaimed'[m] \/ Hash(y) \in claimed'[m])

\* Where the chains of a replica stay and what it knew is kept, only what it
\* newly holds needs a reason.
LEMMA SidesStay ==
    ASSUME Linked, NEW m \in Nodes, SidesKnown(m), Keeps(m), chain'[m] = chain[m],
           NEW N, all'[m] \subseteq all[m] \cup N,
           \A y \in N : \/ Known(m, y)
                        \/ /\ ~(y.idx >= Len(chain[m][y.acct]))
                           /\ \A a \in Accounts : \A i \in 1..Len(chain[m][a]) :
                                 ~DoubleSpend(chain[m][a][i], y)
    PROVE  SidesKnown(m)'
  <1>1. \A y \in all[m] : y.acct \in frozen[m] \/ Unplaced(m, y) => Known(m, y)
    BY DEF Keeps, Unplaced, Known
  <1>2. ASSUME NEW y \in all'[m], y.idx >= Len(chain[m][y.acct])
        PROVE  Known(m, y)
    BY <1>1, <1>2 DEF SidesKnown
  <1>3. ASSUME NEW a \in Accounts, NEW i \in 1..Len(chain[m][a]), NEW y \in all'[m],
               DoubleSpend(chain[m][a][i], y)
        PROVE  Known(m, y) /\ y.acct = a
    <2>1. y.acct = a
      BY <1>3, SideOfChain
    <2> QED BY <1>1, <1>3, <2>1 DEF SidesKnown
  <1> QED BY <1>2, <1>3 DEF SidesKnown, Known, Unplaced, DoubleSpend, Hash, IsSend

\* A block that enters its chain is at the height where the replica knows
\* all it holds.
LEMMA SidesEnter ==
    ASSUME TypeOK, Linked, LedgerSigned, NEW n \in Nodes, NEW b \in Blocks, Enter(n, b),
           b.idx = Len(chain[n][b.acct]), NEW m \in Nodes, SidesKnown(m)
    PROVE  SidesKnown(m)'
  <1>1. EnterEffect(n, b) /\ Keeps(m)
    BY EnterHasEffect, EnterKeeps
  <1>2. \A y \in all[m] : y.acct \in frozen[m] \/ Unplaced(m, y) => Known(m, y)
    BY <1>1 DEF Keeps, Unplaced, Known
  <1>3. all'[m] = IF m = n THEN all[m] \cup {b} ELSE all[m]
    BY <1>1 DEF EnterEffect
  <1>4. /\ b.acct \in Accounts /\ b.idx \in Nat
        /\ \A y \in all[m] : y \in Blocks /\ y.idx \in Nat /\ y.acct \in Accounts
    BY BlockFields DEF TypeOK
  <1>5. \A a \in Accounts :
          /\ chain[m][a] \in Seq(Blocks) /\ Len(chain[m][a]) \in Nat
          /\ chain'[m][a] = IF m = n /\ a = b.acct THEN Append(chain[m][a], b) ELSE chain[m][a]
    BY ChainGrows
  <1>6. ASSUME NEW a \in Accounts
        PROVE  /\ Len(chain'[m][a]) \in Nat
               /\ Len(chain'[m][a]) >= Len(chain[m][a])
               /\ m = n /\ a = b.acct => Len(chain'[m][a]) = Len(chain[m][a]) + 1
    <2>1. CASE m = n /\ a = b.acct
      <3>1. chain[m][a] \in Seq(Blocks) /\ chain'[m][a] = Append(chain[m][a], b)
        BY <1>5, <2>1
      <3>2. Len(chain'[m][a]) = Len(chain[m][a]) + 1 /\ Len(chain[m][a]) \in Nat
        BY <3>1
      <3> QED BY <3>2
    <2>2. CASE ~(m = n /\ a = b.acct)
      <3>1. chain'[m][a] = chain[m][a] /\ Len(chain[m][a]) \in Nat
        BY <1>5, <2>2
      <3> QED BY <2>2, <3>1
    <2> QED BY <2>1, <2>2
  <1>7. m = n => Len(chain'[m][b.acct]) = Len(chain[m][b.acct]) + 1
    BY <1>4, <1>6
  <1>8. ASSUME NEW y \in all'[m], y.idx >= Len(chain'[m][y.acct])
        PROVE  Known(m, y)
    <2>1. CASE y \in all[m]
      <3>1. y.idx >= Len(chain[m][y.acct])
        BY <1>4, <1>5, <1>6, <1>8, <2>1
      <3> QED BY <1>2, <2>1, <3>1 DEF SidesKnown
    <2>2. CASE y \notin all[m]
      BY <1>3, <1>4, <1>5, <1>7, <1>8, <2>2
    <2> QED BY <2>1, <2>2
  <1>9. ASSUME NEW a \in Accounts, NEW i \in 1..Len(chain'[m][a]), NEW y \in all'[m],
               DoubleSpend(chain'[m][a][i], y)
        PROVE  Known(m, y) /\ y.acct = a
    <2>1. CASE i \in 1..Len(chain[m][a]) /\ chain'[m][a][i] = chain[m][a][i]
      <3>1. y.acct = a /\ y.idx = i - 1
        BY <1>9, <2>1, SideOfChain
      <3>2. CASE y \in all[m]
        BY <1>2, <1>9, <2>1, <3>1, <3>2 DEF SidesKnown
      <3>3. CASE y \notin all[m]
        <4>1. m = n /\ y = b
          BY <1>3, <3>3
        <4>2. i - 1 = Len(chain[m][a])
          BY <3>1, <4>1
        <4> QED BY <1>5, <2>1, <4>2
      <3> QED BY <3>2, <3>3
    <2>2. CASE m = n /\ a = b.acct /\ i = Len(chain[m][a]) + 1 /\ chain'[m][a][i] = b
      <3>1. y.acct = a /\ y.idx = b.idx /\ Hash(y) # Hash(b)
        BY <1>9, <2>2 DEF DoubleSpend
      <3>2. y \in all[m]
        BY <1>3, <3>1
      <3>3. y.idx >= Len(chain[m][y.acct])
        BY <1>4, <2>2, <3>1
      <3> QED BY <1>2, <3>1, <3>2, <3>3 DEF SidesKnown
    <2> QED BY <1>9, <2>1, <2>2, ChainKeeps
  <1> QED BY <1>8, <1>9 DEF SidesKnown, Known, Unplaced, DoubleSpend, Hash, IsSend

LEMMA SidesStep ==
    ASSUME TypeOK, Linked, OnlySigned, ReplicaShape, NEW m \in Nodes, SidesKnown(m)
    PROVE  SidesKnown(m)'
  <1>0. LedgerSigned
    BY SignedParts
  <1>1. CASE SignShape
    <2>1. PICK n \in Nodes, b \in Blocks : Signs(n, b)
      BY <1>1 DEF SignShape
    <2> QED BY <1>0, <2>1, SidesEnter DEF Signs, Hash
  <1>2. CASE EnterShape
    <2>1. PICK n \in Nodes, b \in signed : Extends(n, b) /\ Enter(n, b)
      BY <1>2 DEF EnterShape
    <2> QED BY <1>0, <2>1, SidesEnter DEF Extends, TypeOK
  <1>3. CASE RetainShape
    <2>1. PICK n \in Nodes, b \in signed : \E r \in {{}, Restored(n, b)} :
            Conflicts(n, b) /\ Retain(n, b, r)
      BY <1>3 DEF RetainShape
    <2>2. PICK r : Conflicts(n, b) /\ RetainEffect(n, b, r)
      BY <2>1, RetainHasEffect
    <2> DEFINE h == chain[n][b.acct][b.idx + 1]
               N == IF m = n THEN {b} ELSE {}
    <2>3. Keeps(m) /\ chain'[m] = chain[m] /\ all'[m] \subseteq all[m] \cup N
      BY <2>2 DEF RetainEffect, FreezeEffect, Keeps, Unplaced
    <2>4. b \in Blocks /\ b.acct \in Accounts /\ b.idx \in Nat
          /\ Len(chain[n][b.acct]) \in Nat
      BY BlockFields DEF TypeOK
    <2>5. ASSUME m = n, ~Known(m, b)
          PROVE  /\ ~(b.idx >= Len(chain[m][b.acct]))
                 /\ \A a \in Accounts : \A i \in 1..Len(chain[m][a]) :
                       ~DoubleSpend(chain[m][a][i], b)
      <3>1. ~(b.idx >= Len(chain[m][b.acct]))
        BY <2>2, <2>4, <2>5 DEF Conflicts
      <3>2. ASSUME NEW a \in Accounts, NEW i \in 1..Len(chain[m][a]),
                   DoubleSpend(chain[m][a][i], b)
            PROVE  FALSE
        <4>1. b.acct = a /\ b.idx = i - 1
          BY <3>2, SideOfChain
        <4>2. DoubleSpend(h, b)
          BY <2>5, <3>2, <4>1
        <4>3. b.acct \in frozen'[m]
          BY <2>2, <2>5, <4>2 DEF RetainEffect, FreezeEffect
        <4> QED BY <2>5, <4>3 DEF Known
      <3> QED BY <3>1, <3>2
    <2>6. \A y \in N : \/ Known(m, y)
                       \/ /\ ~(y.idx >= Len(chain[m][y.acct]))
                          /\ \A a \in Accounts : \A i \in 1..Len(chain[m][a]) :
                                ~DoubleSpend(chain[m][a][i], y)
      BY <2>5
    <2> HIDE DEF N
    <2> QED BY <2>3, <2>6, SidesStay
  <1>4. CASE TakeInShape
    <2>1. PICK n \in Nodes, b \in signed : TakesInEffect(n, b)
      BY <1>4, TakesInHasEffect DEF TakeInShape
    <2> DEFINE N == IF m = n THEN {b} ELSE {}
    <2>2. Keeps(m) /\ chain'[m] = chain[m] /\ all'[m] \subseteq all[m] \cup N
      BY <2>1 DEF TakesInEffect, Keeps, Unplaced
    <2>3. \A y \in N : Known(m, y)
      BY <2>1 DEF TakesInEffect, Known, Restored
    <2> HIDE DEF N
    <2> QED BY <2>2, <2>3, SidesStay
  <1>5. CASE EvidenceShape
    <2>1. PICK n \in Nodes, a \in Accounts : FreezeEffect(n, a, {}) /\ UNCHANGED <<chain, all, claimed>>
      BY <1>5, EvidenceHasEffect
    <2>2. Keeps(m) /\ chain'[m] = chain[m] /\ all'[m] \subseteq all[m] \cup {}
      BY <2>1 DEF FreezeEffect, Keeps, Unplaced
    <2> DEFINE N == {}
    <2>3. all'[m] \subseteq all[m] \cup N /\ \A y \in N : Known(m, y)
      BY <2>2
    <2> HIDE DEF N
    <2> QED BY <2>2, <2>3, SidesStay
  <1>6. CASE ForgetShape
    <2>1. PICK n \in Nodes : ForgetEffect(n)
      BY <1>6, ForgetHasEffect DEF ForgetShape
    <2>2. CASE m = n
      BY <2>1, <2>2 DEF ForgetEffect, SidesKnown
    <2>3. CASE m # n
      <3>1. /\ all'[m] = all[m] /\ unclaimed'[m] = unclaimed[m] /\ claimed'[m] = claimed[m]
            /\ frozen'[m] = frozen[m]
            /\ \A a \in Accounts : chain'[m][a] = chain[m][a]
        BY <2>1, <2>3 DEF ForgetEffect
      <3>2. \A y \in all[m] : y.acct \in Accounts
        BY BlockFields DEF TypeOK
      <3>3. \A y \in all[m] : Unplaced(m, y) => Unplaced(m, y)'
        BY <3>1 DEF Unplaced, Hash, IsSend
      <3> QED BY <3>1, <3>2, <3>3 DEF SidesKnown, DoubleSpend, Hash
    <2> QED BY <2>2, <2>3
  <1>7. CASE QuietShape
    <2>1. Keeps(m) /\ chain'[m] = chain[m] /\ all'[m] \subseteq all[m] \cup {}
      BY <1>7 DEF QuietShape, Keeps, Unplaced
    <2> DEFINE N == {}
    <2>2. all'[m] \subseteq all[m] \cup N /\ \A y \in N : Known(m, y)
      BY <2>1
    <2> HIDE DEF N
    <2> QED BY <2>1, <2>2, SidesStay
  <1> QED BY <1>1, <1>2, <1>3, <1>4, <1>5, <1>6, <1>7 DEF ReplicaShape, TakingShape

(***************************************************************************)
(* The replay of a restart.                                                *)
(***************************************************************************)
\* Node m is not touched.
Untouched(m) ==
    /\ phase'[m] = phase[m] /\ disk'[m] = disk[m] /\ unsaved'[m] = unsaved[m]
    /\ toReplay'[m] = toReplay[m] /\ chain'[m] = chain[m]

\* What a step does to node m, as far as its restart is concerned.
DeviceShape(m) ==
    \/ Untouched(m)
    \/ phase[m] = "running" /\ phase'[m] \in {"running", "booting"}
         /\ (phase'[m] = "booting" => unsaved'[m] = {})
    \/ phase[m] = "booting" /\ phase'[m] = "booting" /\ unsaved'[m] = unsaved[m]
    \/ SaveDone(m)
    \/ LoadBlocks(m)
    \/ \E b \in toReplay[m] : Replay(m, b)

LEMMA OtherChains ==
    ASSUME TypeOK, NEW n \in Nodes, NEW b,
           Enter(n, b) \/ AddBlock(n, b) \/ AddOrRestoreBlock(n, b),
           NEW m \in Nodes, m # n
    PROVE  chain'[m] = chain[m]
  <1>0. chain \in [Nodes -> [Accounts -> Seq(Blocks)]]
    BY DEF TypeOK
  <1>1. CASE Enter(n, b)
    <2>1. chain' = [chain EXCEPT ![n][b.acct] = Append(@, b)]
      BY <1>1 DEF Enter
    <2> QED BY <1>0, <2>1
  <1>2. CASE AddBlock(n, b)
    BY <1>1, <1>2 DEF AddBlock, Retain, ledger
  <1>3. CASE AddOrRestoreBlock(n, b)
    BY <1>2, <1>3 DEF AddOrRestoreBlock, Retain
  <1> QED BY <1>1, <1>2, <1>3

\* A node that runs and goes on running.
RunsOn(n) ==
    /\ phase[n] = "running" /\ phase' = phase /\ disk' = disk /\ toReplay' = toReplay
    /\ \A m \in Nodes : m # n => unsaved'[m] = unsaved[m] /\ chain'[m] = chain[m]

LEMMA RunsOnShape ==
    ASSUME NEW n \in Nodes, RunsOn(n), NEW m \in Nodes
    PROVE  DeviceShape(m)
  BY DEF RunsOn, DeviceShape, Untouched

LEMMA PublishOf ==
    ASSUME TypeOK, NEW n \in Nodes, NEW b, UNCHANGED <<wire, unsaved>> \/ Publish(n, b),
           NEW m \in Nodes, m # n
    PROVE  unsaved'[m] = unsaved[m]
  BY DEF TypeOK, Publish

LEMMA ReceiveRunsOn ==
    ASSUME TypeOK, NEW n \in Nodes, NEW a, NEW s, CreateReceive(n, a, s), Running(n),
           UNCHANGED <<wire, unsaved>> \/ Publish(n, NewBlock(n, a)),
           UNCHANGED <<phase, disk, toReplay>>
    PROVE  RunsOn(n)
  <1>1. PICK b : Enter(n, b)
    BY DEF CreateReceive, SignAndEnter
  <1> QED BY <1>1, OtherChains, PublishOf DEF RunsOn, Running

LEMMA StepHasDeviceShape ==
    ASSUME TypeOK, [Next]_vars, NEW m \in Nodes
    PROVE  DeviceShape(m)
  <1>1. ASSUME NEW n \in Nodes, UserStep(n)
        PROVE  DeviceShape(m)
    <2>1. CASE \E a \in Accounts : OpenAccount(n, a)
      <3>1. PICK b : Enter(n, b) /\ Publish(n, b)
        BY <2>1 DEF OpenAccount, SignAndEnter
      <3>2. RunsOn(n)
        BY <2>1, <3>1, OtherChains, PublishOf DEF OpenAccount, RunsOn, Running
      <3> QED BY <3>2, RunsOnShape
    <2>2. CASE \E a \in Accounts, to \in Accounts, amt \in Amounts : CreateSend(n, a, to, amt)
      <3>1. PICK b : Enter(n, b) /\ (UNCHANGED <<wire, unsaved>> \/ Publish(n, b))
        BY <2>2 DEF CreateSend, SignAndEnter
      <3>2. RunsOn(n)
        BY <2>2, <3>1, OtherChains, PublishOf DEF CreateSend, RunsOn, Running
      <3> QED BY <3>2, RunsOnShape
    <2>3. CASE \/ \E a \in Accounts : RecoverAccount(n, a)
               \/ \E a \in Accounts, amt \in Bonds : BondStake(n, a, amt)
      BY <2>3 DEF RecoverAccount, BondStake, ledger, device, DeviceShape, Untouched
    <2> QED BY <1>1, <2>1, <2>2, <2>3 DEF UserStep
  <1>2. ASSUME NEW n \in Nodes, ClaimStep(n)
        PROVE  DeviceShape(m)
    <2>1. CASE \E a \in keys[n] : RelayAnswer(n, a)
      BY <2>1 DEF RelayAnswer, ledger, device, DeviceShape, Untouched
    <2>2. ASSUME NEW s \in timers[n], ChallengeTimer(n, s)
          PROVE  DeviceShape(m)
      <3>1. CASE ClaimAndPublish(n, s.to, s)
        BY <2>2, <3>1, ReceiveRunsOn, RunsOnShape DEF ClaimAndPublish, ChallengeTimer
      <3>2. CASE UNCHANGED <<signed, ledger, cleared, device, network>>
        BY <3>2 DEF ledger, device, DeviceShape, Untouched
      <3> QED BY <2>2, <3>1, <3>2 DEF ChallengeTimer
    <2>3. ASSUME NEW s \in unclaimed[n], Sweep(n, s.to, s) \/ AutoClaimPending(n, s.to, s)
          PROVE  DeviceShape(m)
      BY <2>3, ReceiveRunsOn, RunsOnShape DEF Sweep, ClaimAndPublish, AutoClaimPending
    <2>4. ASSUME NEW s \in archive, ClaimViaProof(n, s.to, s)
          PROVE  DeviceShape(m)
      <3>1. m # n => disk'[m] = disk[m]
        BY <2>4 DEF ClaimViaProof, Persist, TypeOK
      <3> QED BY <2>4, <3>1 DEF ClaimViaProof, Running, DeviceShape, Untouched
    <2> QED BY <1>2, <2>1, <2>2, <2>3, <2>4 DEF ClaimStep
  <1>3. ASSUME NEW n \in Nodes, GossipStep(n)
        PROVE  DeviceShape(m)
    <2>1. ASSUME NEW b \in wire, Deliver(n, b)
          PROVE  DeviceShape(m)
      <3>1. m # n => disk'[m] = disk[m]
        BY <2>1 DEF Deliver, Persist, TypeOK
      <3>2. m # n => chain'[m] = chain[m]
        BY <2>1, OtherChains DEF Deliver
      <3> QED BY <2>1, <3>1, <3>2 DEF Deliver, DeviceShape, Untouched
    <2>2. ASSUME NEW e \in evidence, NEW x \in e.pair, NEW y \in e.pair, DeliverEvidence(n, x, y)
          PROVE  DeviceShape(m)
      BY <2>2 DEF DeliverEvidence, device, DeviceShape, Untouched
    <2>3. CASE PublishLocalData(n)
      <3>1. m # n => unsaved'[m] = unsaved[m]
        BY <2>3 DEF PublishLocalData, TypeOK
      <3> QED BY <2>3, <3>1 DEF PublishLocalData, Running, ledger, DeviceShape, Untouched
    <2> QED BY <1>3, <2>1, <2>2, <2>3 DEF GossipStep
  <1>4. ASSUME NEW n \in Nodes, DeviceStep(n)
        PROVE  DeviceShape(m)
    <2>1. CASE SaveDone(n)
      <3>1. m # n => Untouched(m)
        BY <2>1 DEF SaveDone, TypeOK, ledger, Untouched
      <3> QED BY <2>1, <3>1 DEF DeviceShape
    <2>2. CASE LoadBlocks(n)
      <3>1. m # n => Untouched(m)
        BY <2>2 DEF LoadBlocks, TypeOK, ledger, Untouched
      <3> QED BY <2>2, <3>1 DEF DeviceShape
    <2>3. CASE Restart(n)
      <3>1. m # n => Untouched(m)
        BY <2>3 DEF Restart, TypeOK, Untouched
      <3>2. phase[n] = "running" /\ phase'[n] = "booting" /\ unsaved'[n] = {}
        BY <2>3 DEF Restart, Running, TypeOK
      <3> QED BY <3>1, <3>2 DEF DeviceShape
    <2>4. ASSUME NEW b \in toReplay[n], Replay(n, b)
          PROVE  DeviceShape(m)
      <3>1. m # n => chain'[m] = chain[m]
        BY <2>4, OtherChains DEF Replay
      <3>2. m # n => phase'[m] = phase[m] /\ toReplay'[m] = toReplay[m]
        BY <2>4 DEF Replay, TypeOK
      <3> QED BY <2>4, <3>1, <3>2 DEF Replay, DeviceShape, Untouched
    <2>5. ASSUME NEW b \in wallet[n], WalletOpen(n, b)
          PROVE  DeviceShape(m)
      <3>1. RunsOn(n)
        BY <2>5, OtherChains, PublishOf DEF WalletOpen, RunsOn, Running
      <3> QED BY <3>1, RunsOnShape
    <2> QED BY <1>4, <2>1, <2>2, <2>3, <2>4, <2>5 DEF DeviceStep
  <1>5. ASSUME NEW b \in wire, ArchiveBlock(b)
        PROVE  DeviceShape(m)
    BY <1>5 DEF ArchiveBlock, ledger, device, DeviceShape, Untouched
  <1>6. CASE UNCHANGED vars
    BY <1>6 DEF vars, ledger, device, DeviceShape, Untouched
  <1> QED BY <1>1, <1>2, <1>3, <1>4, <1>5, <1>6 DEF Next

\* The predecessor of a signed block: the block below it that its root names.
LEMMA Predecessor ==
    ASSUME TypeOK, WellSigned, NEW b \in signed, b.idx > 0
    PROVE  \E p \in signed :
              /\ Follows(b, p) /\ Moves(p, b)
              /\ p.idx \in Nat /\ p.root \in Seq(Hashes) /\ Hash(p) \in Hashes
              /\ Len(p.root) = b.idx /\ Len(b.root) = b.idx + 1
              /\ b.root[b.idx] = Hash(p)
              /\ \A i \in 1..Len(p.root) : b.root[i] = p.root[i]
  <1>1. PICK p \in signed : Follows(b, p) /\ Moves(p, b)
    BY DEF WellSigned
  <1>2. /\ p \in Blocks /\ b \in Blocks /\ p.idx \in Nat /\ b.idx \in Nat
        /\ p.root \in Seq(Hashes) /\ Hash(p) \in Hashes /\ Hash(b) \in Hashes
    BY BlockFields, HashType DEF TypeOK
  <1>3. Len(p.root) = p.idx + 1 /\ p.root[p.idx + 1] = Hash(p) /\ Len(b.root) = b.idx + 1
    BY DEF WellSigned
  <1>4. b.idx = p.idx + 1 /\ b.root = Append(p.root, Hash(b))
    BY <1>1 DEF Follows
  <1>5. \A i \in 1..Len(p.root) : b.root[i] = p.root[i]
    BY <1>2, <1>4
  <1>6. b.root[b.idx] = Hash(p)
    BY <1>2, <1>3, <1>4, <1>5
  <1> QED BY <1>1, <1>2, <1>3, <1>4, <1>5, <1>6

\* The replica has the block's predecessor in place.
Placed(n, b) == b.idx > 0 => \E p \in signed : Follows(b, p) /\ Moves(p, b) /\ InChain(n, p)

\* A replica whose head is the predecessor of a signed block accepts it.
LEMMA NextIsAccepted ==
    ASSUME TypeOK, OnlySigned, UniqueHash, Linked, WellSigned,
           NEW n \in Nodes, NEW b \in signed, b.acct \notin frozen[n],
           b.idx = Len(chain[n][b.acct]), Placed(n, b)
    PROVE  Extends(n, b)
  <1> DEFINE c == chain[n][b.acct]
  <1>1. /\ b \in Blocks /\ b.acct \in Accounts /\ b.idx \in Nat /\ b.root \in Seq(Hashes)
        /\ c \in Seq(Blocks) /\ LinkedChain(b.acct, c, signed)
    BY BlockFields DEF TypeOK, Linked
  <1>2. /\ Len(b.root) = b.idx + 1 /\ b.root[b.idx + 1] = Hash(b)
        /\ b.idx = 0 => b.type = "open" /\ b.prev = NoHash /\ b.bal = Mint
    BY DEF WellSigned
  <1>3. CASE b.idx = 0
    <2>1. HashesOf(c) = <<>>
      BY <1>1, <1>3 DEF HashesOf
    <2>2. b.root = Append(<<>>, Hash(b))
      <3>1. Len(b.root) = 1 /\ b.root[1] = Hash(b) /\ Hash(b) \in Hashes
        BY <1>1, <1>2, <1>3, HashType
      <3>2. b.root = <<b.root[1]>>
        BY <1>1, <3>1
      <3> QED BY <3>1, <3>2
    <2> QED BY <1>2, <1>3, <2>1, <2>2 DEF Extends
  <1>4. CASE b.idx > 0
    <2>1. PICK p \in signed : Follows(b, p) /\ Moves(p, b) /\ InChain(n, p)
      BY <1>4 DEF Placed
    <2>2. c # <<>> /\ p.acct = b.acct /\ p.idx + 1 = Len(c) /\ c[Len(c)] = p
      <3>1. p.acct = b.acct /\ p.idx + 1 = b.idx
        BY <2>1 DEF Follows
      <3>2. c[p.idx + 1] = p
        BY <2>1, <3>1 DEF InChain
      <3>3. c # <<>>
        BY <1>1, <1>4
      <3> QED BY <3>1, <3>2, <3>3
    <2>3. p = Head_(n, b.acct) /\ p.bal = Balance(n, b.acct)
      BY <2>2 DEF Head_, Balance
    <2>4. b.root = Append(HashesOf(c), Hash(b)) /\ b.prev = Hash(Head_(n, b.acct))
      BY <1>1, <2>1, <2>2, <2>3, HeadOfLinked DEF Follows
    <2>5. Arithmetic(n, b)
      <3>1. CASE IsSend(b)
        <4>1. ~IsReceive(b)
          BY <3>1 DEF IsSend, IsReceive
        <4> QED BY <2>1, <2>3, <3>1, <4>1 DEF Moves, Arithmetic
      <3>2. CASE IsReceive(b)
        <4>1. /\ ~IsSend(b) /\ b.amt > 0 /\ b.bal = p.bal + b.amt
              /\ \E s \in signed : Hash(s) = b.src /\ IsSend(s) /\ s.to = b.acct /\ s.amt = b.amt
          BY <2>1, <3>2 DEF Moves, IsSend, IsReceive
        <4>2. all[n] \subseteq signed
          BY DEF OnlySigned, HeldBlocks
        <4>3. \A s \in all[n] : Hash(s) = b.src => IsSend(s) /\ s.to = b.acct /\ s.amt = b.amt
          BY <4>1, <4>2 DEF UniqueHash
        <4> QED BY <2>3, <3>2, <4>1, <4>3 DEF Arithmetic
      <3> QED BY <2>1, <3>1, <3>2 DEF Moves
    <2> QED BY <1>4, <2>4, <2>5 DEF Extends
  <1> QED BY <1>1, <1>3, <1>4

\* What sits at the height of a block whose predecessor is in place is the
\* block, or the other side of a fork.
LEMMA HeightIsTaken ==
    ASSUME TypeOK, UniqueHash, Linked, WellSigned,
           NEW n \in Nodes, NEW b \in signed, b.idx < Len(chain[n][b.acct]), Placed(n, b)
    PROVE  InChain(n, b) \/ Forked(b.acct)
  <1> DEFINE c == chain[n][b.acct]
             x == c[b.idx + 1]
  <1>1. /\ b \in Blocks /\ b.acct \in Accounts /\ b.idx \in Nat
        /\ c \in Seq(Blocks) /\ Len(c) \in Nat /\ LinkedChain(b.acct, c, signed)
    BY BlockFields DEF TypeOK, Linked
  <1>2. b.idx + 1 \in 1..Len(c)
    BY <1>1
  <1>3. /\ x \in signed /\ x.acct = b.acct /\ x.idx = b.idx
        /\ x.root = [j \in 1..(b.idx + 1) |-> Hash(c[j])]
    BY <1>1, <1>2 DEF LinkedChain
  <1>4. x.prev = b.prev
    <2>1. CASE b.idx = 0
      BY <1>3, <2>1 DEF WellSigned
    <2>2. CASE b.idx > 0
      <3>1. PICK p \in signed : Follows(b, p) /\ Moves(p, b) /\ InChain(n, p)
        BY <2>2 DEF Placed
      <3>2. c[b.idx] = p
        BY <3>1 DEF Follows, InChain
      <3>3. PICK q \in signed : Follows(x, q) /\ x.root[x.idx] = Hash(q)
        <4>1. x.idx > 0
          BY <1>3, <2>2
        <4> HIDE DEF x
        <4> QED BY <1>3, <4>1, Predecessor
      <3>4. x.root[x.idx] = Hash(c[b.idx])
        BY <1>1, <1>3, <2>2
      <3> QED BY <3>1, <3>2, <3>3, <3>4 DEF Follows
    <2> QED BY <1>1, <2>1, <2>2
  <1>5. CASE x = b
    BY <1>5 DEF InChain
  <1>6. CASE x # b
    <2>1. Hash(x) # Hash(b)
      BY <1>3, <1>6 DEF UniqueHash
    <2>2. DoubleSpend(x, b)
      BY <1>3, <1>4, <2>1 DEF DoubleSpend
    <2> QED BY <1>3, <2>2 DEF Forked
  <1> QED BY <1>5, <1>6

\* A block of an unforked account is accepted wherever its predecessor is
\* in place: it is there, or it extends the chain.
LEMMA Placeable ==
    ASSUME IndInv, WellSigned, NEW n \in Nodes, NEW b \in signed,
           ~Forked(b.acct), Placed(n, b)
    PROVE  InChain(n, b) \/ Extends(n, b)
  <1> USE DEF IndInv
  <1>1. /\ b.idx \in Nat /\ Len(chain[n][b.acct]) \in Nat /\ b.acct \in Accounts
    BY BlockFields DEF TypeOK
  <1>2. CASE b.idx < Len(chain[n][b.acct])
    BY <1>2, HeightIsTaken
  <1>3. CASE b.idx >= Len(chain[n][b.acct])
    <2>1. b.idx = Len(chain[n][b.acct])
      <3>1. CASE b.idx = 0
        BY <1>1, <1>3, <3>1
      <3>2. CASE b.idx > 0
        <4>1. PICK p \in signed : Follows(b, p) /\ InChain(n, p)
          BY <3>2 DEF Placed
        <4>2. p.idx \in Nat /\ b.idx = p.idx + 1 /\ p.idx < Len(chain[n][b.acct])
          BY <4>1, BlockFields DEF TypeOK, Follows, InChain
        <4> QED BY <1>1, <1>3, <4>2
      <3> QED BY <1>1, <3>1, <3>2
    <2>2. b.acct \notin frozen[n]
      BY DEF FrozenSound
    <2> QED BY <2>1, <2>2, NextIsAccepted
  <1> QED BY <1>1, <1>2, <1>3

\* Replay order: a block on disk whose history is there comes after its
\* predecessor, which the loop has placed.
LEMMA ReplayedInOrder ==
    ASSUME IndInv, WellSigned, ReplayPlaces, NEW n \in Nodes, NEW b \in toReplay[n],
           Replay(n, b), b \in disk[n], ~Forked(b.acct), HistoryOnDisk(n, b)
    PROVE  Placed(n, b)
  <1> USE DEF IndInv
  <1>1. b \in signed /\ disk[n] \subseteq signed /\ phase[n] = "replaying"
    BY DEF OnlySigned, HeldBlocks, Replay
  <1>2. SUFFICES ASSUME b.idx > 0
                 PROVE  \E p \in signed : Follows(b, p) /\ Moves(p, b) /\ InChain(n, p)
    BY DEF Placed
  <1>3. PICK p \in signed :
          /\ Follows(b, p) /\ Moves(p, b)
          /\ p.idx \in Nat /\ p.root \in Seq(Hashes) /\ Hash(p) \in Hashes
          /\ Len(p.root) = b.idx /\ Len(b.root) = b.idx + 1
          /\ b.root[b.idx] = Hash(p)
          /\ \A i \in 1..Len(p.root) : b.root[i] = p.root[i]
    BY <1>1, <1>2, Predecessor
  <1>4. /\ b.root \in Seq(Hashes) /\ b.idx \in Nat
        /\ DOMAIN b.root = 1..(b.idx + 1) /\ DOMAIN p.root = 1..b.idx
    BY <1>1, <1>3, BlockFields DEF TypeOK
  <1>5. p \in disk[n]
    <2>1. b.idx \in DOMAIN b.root
      BY <1>2, <1>4
    <2>2. PICK x \in disk[n] : Hash(x) = b.root[b.idx]
      BY <2>1 DEF HistoryOnDisk
    <2> QED BY <1>1, <1>3, <2>2 DEF UniqueHash
  <1>6. p \notin toReplay[n]
    <2>1. p.acct = b.acct /\ p.idx < b.idx
      BY <1>3, <1>4 DEF Follows
    <2>2. ReplaysBefore(p, b)
      BY <2>1 DEF ReplaysBefore
    <2> QED BY <2>2 DEF Replay
  <1>7. ~Forked(p.acct) /\ HistoryOnDisk(n, p)
    <2>1. p.acct = b.acct
      BY <1>3 DEF Follows
    <2>2. ASSUME NEW i \in DOMAIN p.root
          PROVE  i \in DOMAIN b.root /\ b.root[i] = p.root[i]
      <3>1. i \in 1..b.idx
        BY <1>4
      <3>2. i \in 1..Len(p.root) /\ i \in 1..(b.idx + 1)
        BY <1>3, <1>4, <3>1
      <3> QED BY <1>3, <1>4, <3>2
    <2> QED BY <2>1, <2>2 DEF HistoryOnDisk
  <1>8. InChain(n, p)
    BY <1>1, <1>5, <1>6, <1>7 DEF ReplayPlaces
  <1> QED BY <1>3, <1>8

\* One turn of the loop: everything it has been through is in its chain.
LEMMA ReplayTurn ==
    ASSUME IndInv, WellSigned, ReplayPlaces, NEW n \in Nodes, NEW b \in toReplay[n],
           Replay(n, b), NEW x \in disk[n], x \notin toReplay[n] \/ x = b,
           ~Forked(x.acct), HistoryOnDisk(n, x)
    PROVE  x.idx < Len(chain'[n][x.acct]) /\ chain'[n][x.acct][x.idx + 1] = x
  <1> USE DEF IndInv
  <1>1. /\ b \in signed /\ x \in signed /\ phase[n] = "replaying"
        /\ b \in Blocks /\ x \in Blocks
        /\ AddOrRestoreBlock(n, b)
    BY DEF OnlySigned, HeldBlocks, Replay, TypeOK
  <1>2. x.acct \in Accounts /\ x.idx \in Nat
    BY <1>1, BlockFields
  <1>3. chain' = chain \/ Enter(n, b)
    BY <1>1 DEF AddOrRestoreBlock, AddBlock, Retain, ledger
  <1>4. ASSUME InChain(n, x)
        PROVE  x.idx < Len(chain'[n][x.acct]) /\ chain'[n][x.acct][x.idx + 1] = x
    <2>1. CASE chain' = chain
      BY <1>4, <2>1 DEF InChain
    <2>2. CASE Enter(n, b)
      <3>1. x.idx < Len(chain[n][x.acct]) /\ chain[n][x.acct][x.idx + 1] = x
        BY <1>4 DEF InChain
      <3>2. chain[n][x.acct] \in Seq(Blocks)
        BY <1>1, <1>2, <2>2, ChainGrows
      <3>3. x.idx + 1 \in 1..Len(chain[n][x.acct])
        BY <1>2, <3>1, <3>2
      <3>4. x.idx + 1 \in 1..Len(chain'[n][x.acct]) /\ chain'[n][x.acct][x.idx + 1] = x
        <4>1. \A i \in 1..Len(chain[n][x.acct]) :
                 i \in 1..Len(chain'[n][x.acct]) /\ chain'[n][x.acct][i] = chain[n][x.acct][i]
          BY <1>1, <1>2, <2>2, ChainKeeps
        <4> QED BY <3>1, <3>3, <4>1
      <3> QED BY <1>2, <3>2, <3>4
    <2> QED BY <1>3, <2>1, <2>2
  <1>5. CASE x \notin toReplay[n]
    BY <1>1, <1>4, <1>5 DEF ReplayPlaces
  <1>6. CASE x = b
    <2>1. Placed(n, b)
      BY <1>6, ReplayedInOrder
    <2>2. InChain(n, b) \/ Extends(n, b)
      BY <1>1, <1>6, <2>1, Placeable
    <2>3. CASE Extends(n, b)
      <3>1. b.idx = Len(chain[n][b.acct])
        BY <2>3 DEF Extends
      <3>2. chain[n][b.acct] \in Seq(Blocks) /\ Len(chain[n][b.acct]) \in Nat
        BY <1>2, <1>6 DEF TypeOK
      <3>3. ~Conflicts(n, b)
        BY <3>1, <3>2 DEF Conflicts
      <3>4. Enter(n, b)
        BY <1>1, <2>3, <3>3 DEF AddOrRestoreBlock, AddBlock, Accepted
      <3>5. chain'[n][b.acct] = Append(chain[n][b.acct], b)
        BY <1>1, <1>2, <1>6, <3>4, ChainGrows
      <3>6. Len(chain'[n][b.acct]) = Len(chain[n][b.acct]) + 1
            /\ chain'[n][b.acct][Len(chain[n][b.acct]) + 1] = b
        BY <3>2, <3>5
      <3> QED BY <1>6, <3>1, <3>2, <3>6
    <2> QED BY <1>4, <1>6, <2>2, <2>3
  <1> QED BY <1>5, <1>6

\* Node m's part of ReplayPlaces.
PlacedOn(m) ==
    /\ phase[m] # "running" => unsaved[m] = {}
    /\ phase[m] = "replaying" =>
          \A b \in disk[m] \ toReplay[m] :
              ~Forked(b.acct) /\ HistoryOnDisk(m, b) => InChain(m, b)

LEMMA ForkedGrows ==
    ASSUME signed \subseteq signed', NEW a, Forked(a)
    PROVE  Forked(a)'
  BY DEF Forked, DoubleSpend, Hash

LEMMA PlacedStep ==
    ASSUME IndInv, WellSigned, ReplayPlaces, [Next]_vars, signed \subseteq signed',
           NEW m \in Nodes
    PROVE  PlacedOn(m)'
  <1>0. PlacedOn(m) /\ TypeOK
    BY DEF ReplayPlaces, PlacedOn, IndInv
  <1>1. CASE Untouched(m)
    BY <1>0, <1>1, ForkedGrows DEF Untouched, PlacedOn, HistoryOnDisk, InChain, Hash
  <1>2. CASE /\ phase[m] = "running" /\ phase'[m] \in {"running", "booting"}
             /\ (phase'[m] = "booting" => unsaved'[m] = {})
    BY <1>2 DEF PlacedOn
  <1>3. CASE phase[m] = "booting" /\ phase'[m] = "booting" /\ unsaved'[m] = unsaved[m]
    BY <1>0, <1>3 DEF PlacedOn
  <1>4. CASE SaveDone(m)
    <2>1. unsaved[m] # {} /\ phase'[m] = phase[m]
      BY <1>4 DEF SaveDone
    <2>2. phase'[m] = "running"
      BY <1>0, <2>1 DEF PlacedOn
    <2> QED BY <2>2 DEF PlacedOn
  <1>5. CASE LoadBlocks(m)
    <2>1. unsaved'[m] = unsaved[m] /\ phase[m] = "booting"
      BY <1>5 DEF LoadBlocks
    <2>2. disk' = disk /\ toReplay'[m] = disk[m]
      BY <1>0, <1>5 DEF LoadBlocks, TypeOK
    <2>3. disk'[m] \ toReplay'[m] = {}
      BY <2>2
    <2> QED BY <1>0, <2>1, <2>3 DEF PlacedOn
  <1>6. CASE \E b \in toReplay[m] : Replay(m, b)
    <2>1. PICK b \in toReplay[m] : Replay(m, b)
      BY <1>6
    <2>2. /\ phase[m] = "replaying" /\ disk' = disk /\ unsaved' = unsaved /\ signed' = signed
          /\ toReplay'[m] = toReplay[m] \ {b}
      BY <1>0, <2>1 DEF Replay, TypeOK
    <2>3. ASSUME NEW x \in disk'[m] \ toReplay'[m], ~Forked(x.acct), HistoryOnDisk(m, x)
          PROVE  x.idx < Len(chain'[m][x.acct]) /\ chain'[m][x.acct][x.idx + 1] = x
      BY <2>1, <2>2, <2>3, ReplayTurn
    <2>4. \A x : Forked(x.acct)' <=> Forked(x.acct)
      BY <2>2 DEF Forked, DoubleSpend, Hash
    <2>5. \A x : HistoryOnDisk(m, x)' <=> HistoryOnDisk(m, x)
      BY <2>2 DEF HistoryOnDisk, Hash
    <2> QED BY <1>0, <2>2, <2>3, <2>4, <2>5 DEF PlacedOn, InChain
  <1> QED BY <1>0, <1>1, <1>2, <1>3, <1>4, <1>5, <1>6, StepHasDeviceShape DEF DeviceShape

(***************************************************************************)
(* The theorems.                                                           *)
(***************************************************************************)
LEMMA LedgerInvInit == Init => LedgerInv
  <1> SUFFICES ASSUME Init PROVE LedgerInv
    OBVIOUS
  <1>1. IndInv
    BY IndInvInit
  <1>2. WellSigned /\ OffersSends /\ BeyondIsUnplaced
    BY DEF Init, WellSigned, OffersSends, BeyondIsUnplaced
  <1>3. SeenForkIsFrozen /\ ReplayPlaces
    BY DEF Init, SeenForkIsFrozen, ReplayPlaces
  <1> QED BY <1>1, <1>2, <1>3 DEF LedgerInv

LEMMA LedgerInvStep == LedgerInv /\ [Next]_vars => LedgerInv'
  <1> SUFFICES ASSUME LedgerInv, [Next]_vars PROVE LedgerInv'
    OBVIOUS
  <1>0. /\ IndInv /\ WellSigned /\ OffersSends /\ ReplayPlaces
        /\ BeyondIsUnplaced /\ SeenForkIsFrozen
        /\ TypeOK /\ OnlySigned /\ Linked /\ KeysOnDevices
    BY DEF LedgerInv, IndInv
  <1>1. ReplicaShape /\ signed \subseteq signed'
    BY <1>0, StepIsReplicaShape, StepHasShape, SignedGrows
  <1>2. IndInv'
    BY <1>0, IndInvStep
  <1>3. WellSigned' /\ OffersSends'
    BY <1>0, <1>1, WellSignedStep, OffersSendsStep
  <1>4. BeyondIsUnplaced' /\ SeenForkIsFrozen'
    <2>1. \A m \in Nodes : SidesKnown(m)'
      BY <1>0, <1>1, SidesParts, SidesStep
    <2> QED BY <2>1, SidesPartsNext
  <1>5. ReplayPlaces'
    <2>1. \A m \in Nodes : PlacedOn(m)'
      BY <1>0, <1>1, PlacedStep
    <2> QED BY <2>1 DEF ReplayPlaces, PlacedOn
  <1> QED BY <1>2, <1>3, <1>4, <1>5 DEF LedgerInv

\* The inductive invariant: what an owner signs follows its predecessor with
\* the right balance, what a replica holds outside its chains is frozen or
\* unplaced, and the replay loop leaves nothing it can place.
THEOREM LedgerInvariant == Spec => []LedgerInv
  <1>1. Init => LedgerInv
    BY LedgerInvInit
  <1>2. LedgerInv /\ [Next]_vars => LedgerInv'
    BY LedgerInvStep
  <1> QED BY <1>1, <1>2, PTL DEF Spec

\* A node that holds both sides of a fork has frozen the account, unless one
\* side never went through addBlock (flagEquivocation).
THEOREM SeenForkFrozen == Spec => []SeenForkIsFrozen
  <1>1. LedgerInv => SeenForkIsFrozen
    BY DEF LedgerInv
  <1> QED BY <1>1, LedgerInvariant, PTL

\* A reload rebuilds the chains of unforked accounts from the blocks on disk
\* (start, sortEngineBlocks).
THEOREM ReloadRestored == Spec => ReloadRestores
  <1> DEFINE A == \A n \in Nodes :
          phase[n] = "replaying" /\ phase'[n] = "running" =>
            \A b \in disk[n] :
                ~Forked(b.acct)
                  /\ (\A i \in DOMAIN b.root : \E x \in disk[n] : Hash(x) = b.root[i])
                => \E i \in DOMAIN chain'[n][b.acct] : chain'[n][b.acct][i] = b
  <1>1. LedgerInv /\ [Next]_vars => [A]_vars
    <2> SUFFICES ASSUME LedgerInv, [Next]_vars, NEW n \in Nodes,
                        phase[n] = "replaying", phase'[n] = "running",
                        NEW b \in disk[n], ~Forked(b.acct), HistoryOnDisk(n, b)
                 PROVE  \E i \in DOMAIN chain'[n][b.acct] : chain'[n][b.acct][i] = b
      BY DEF HistoryOnDisk
    <2>0. IndInv /\ WellSigned /\ ReplayPlaces /\ TypeOK /\ TypeOK'
      BY TypeStep DEF LedgerInv, IndInv
    <2>1. PICK x \in toReplay[n] : Replay(n, x)
      <3>1. DeviceShape(n)
        BY <2>0, StepHasDeviceShape
      <3>2. ~Untouched(n) /\ ~LoadBlocks(n) /\ ~SaveDone(n)
        BY DEF Untouched, LoadBlocks, SaveDone
      <3> QED BY <3>1, <3>2 DEF DeviceShape
    <2>2. toReplay[n] = {x}
      BY <2>0, <2>1 DEF Replay, TypeOK
    <2>3. b.idx < Len(chain'[n][b.acct]) /\ chain'[n][b.acct][b.idx + 1] = b
      BY <2>0, <2>1, <2>2, ReplayTurn
    <2>4. b \in Blocks /\ b.idx \in Nat /\ b.acct \in Accounts
      BY <2>0, BlockFields DEF TypeOK
    <2>5. chain'[n][b.acct] \in Seq(Blocks)
      BY <2>0, <2>4 DEF TypeOK
    <2>6. b.idx + 1 \in DOMAIN chain'[n][b.acct]
      BY <2>3, <2>4, <2>5
    <2> QED BY <2>3, <2>6
  <1> QED BY <1>1, LedgerInvariant, PTL DEF Spec, ReloadRestores

\* What a node voids with a freeze stays void: the sends of a frozen account
\* are offered again only if its user signs them there or a replay puts them
\* back (freezeEquivocator, restoreVerifiedBlock).
THEOREM FrozenStayVoid == Spec => FrozenSendsVoid
  <1> DEFINE Free(m, s) ==
          s.acct \in frozen'[m] =>
             \/ s \in signed' \ signed
             \/ s \in unclaimed[m] /\ s.acct \in frozen[m]
             \/ phase[m] = "replaying" /\ s \in toReplay[m]
  <1>1. ASSUME LedgerInv, [Next]_vars, NEW m \in Nodes, NEW s \in unclaimed'[m]
        PROVE  Free(m, s)
    <2>0. TypeOK /\ ReplicaShape
      BY <1>1, StepIsReplicaShape DEF LedgerInv, IndInv
    <2>1. CASE SignShape
      <3>1. PICK n \in Nodes, b \in Blocks : Signs(n, b)
        BY <2>1 DEF SignShape
      <3>2. EnterEffect(n, b) /\ b \in signed' \ signed
        BY <2>0, <3>1, EnterHasEffect DEF Signs
      <3> QED BY <1>1, <3>2 DEF EnterEffect
    <2>2. CASE EnterShape
      <3>1. PICK n \in Nodes, b \in signed : Extends(n, b) /\ EnterEffect(n, b)
        BY <2>0, <2>2, EnterHasEffect DEF EnterShape
      <3> QED BY <1>1, <3>1 DEF EnterEffect, Extends
    <2>3. CASE RetainShape
      <3>1. PICK n \in Nodes, b \in signed : \E r \in {{}, Restored(n, b)} :
              RetainEffect(n, b, r) /\ (r = {} \/ Replaying(n, b))
        BY <2>0, <2>3, RetainHasEffect DEF RetainShape
      <3>2. PICK r : /\ RetainEffect(n, b, r) /\ r \subseteq {b}
                     /\ r = {} \/ Replaying(n, b)
        BY <3>1 DEF Restored
      <3> QED BY <1>1, <3>2 DEF RetainEffect, FreezeEffect, Replaying
    <2>4. CASE TakeInShape
      <3>1. PICK n \in Nodes, b \in signed :
              TakesInEffect(n, b) /\ (b.acct \notin frozen[n] \/ Replaying(n, b))
        BY <2>0, <2>4, TakesInHasEffect DEF TakeInShape
      <3> QED BY <1>1, <3>1 DEF TakesInEffect, Restored, Replaying
    <2>5. CASE EvidenceShape
      <3>1. PICK n \in Nodes, a \in Accounts : FreezeEffect(n, a, {})
        BY <2>0, <2>5, EvidenceHasEffect
      <3> QED BY <1>1, <3>1 DEF FreezeEffect
    <2>6. CASE ForgetShape
      BY <1>1, <2>0, <2>6, ForgetHasEffect DEF ForgetShape, ForgetEffect
    <2>7. CASE QuietShape
      BY <1>1, <2>7 DEF QuietShape
    <2> QED BY <2>0, <2>1, <2>2, <2>3, <2>4, <2>5, <2>6, <2>7 DEF ReplicaShape, TakingShape
  <1> DEFINE A == \A n \in Nodes : \A s \in unclaimed'[n] : Free(n, s)
  <1>2. LedgerInv /\ [Next]_vars => [A]_vars
    BY <1>1
  <1> QED BY <1>2, LedgerInvariant, PTL DEF Spec, FrozenSendsVoid

(***************************************************************************)
(* Bonds.                                                                  *)
(***************************************************************************)
\* No step but bondStake raises a bond.
BondKept == \A m \in Nodes, a \in Accounts : bonded'[m][a] \in {bonded[m][a], 0}

LEMMA FreezeBond ==
    ASSUME TypeOK, NEW n \in Nodes, NEW x, NEW y, NEW r, Freeze(n, x, y, r)
    PROVE  BondKept
  BY DEF TypeOK, Freeze, BondKept

LEMMA AddBlockBond ==
    ASSUME TypeOK, NEW n \in Nodes, NEW b, AddBlock(n, b) \/ AddOrRestoreBlock(n, b)
    PROVE  BondKept
  <1>1. CASE bonded' = bonded
    BY <1>1 DEF BondKept
  <1>2. CASE \E x, y, r : Freeze(n, x, y, r)
    BY <1>2, FreezeBond
  <1> QED BY <1>1, <1>2 DEF AddBlock, AddOrRestoreBlock, Enter, Retain, ledger

LEMMA BondChanges ==
    ASSUME TypeOK, [Next]_vars
    PROVE  BondKept \/ \E n \in Nodes, a \in Accounts, amt \in Bonds : BondStake(n, a, amt)
  <1>0. bonded' = bonded => BondKept
    BY DEF BondKept
  <1>1. ASSUME NEW n \in Nodes, NEW a, NEW s, CreateReceive(n, a, s)
        PROVE  bonded' = bonded
    BY <1>1 DEF CreateReceive, SignAndEnter, Enter
  <1>2. ASSUME NEW n \in Nodes, UserStep(n)
        PROVE  BondKept \/ \E a \in Accounts, amt \in Bonds : BondStake(n, a, amt)
    <2>1. ASSUME NEW b, SignAndEnter(n, b)
          PROVE  bonded' = bonded
      BY <2>1 DEF SignAndEnter, Enter
    <2>2. CASE \E a \in Accounts : OpenAccount(n, a)
      <3>1. \E b : SignAndEnter(n, b)
        BY <2>2 DEF OpenAccount
      <3> QED BY <1>0, <2>1, <3>1
    <2>3. CASE \E a \in Accounts, to \in Accounts, amt \in Amounts : CreateSend(n, a, to, amt)
      <3>1. \E b : SignAndEnter(n, b)
        BY <2>3 DEF CreateSend
      <3> QED BY <1>0, <2>1, <3>1
    <2>4. CASE \E a \in Accounts : RecoverAccount(n, a)
      BY <1>0, <2>4 DEF RecoverAccount, ledger
    <2> QED BY <1>2, <2>2, <2>3, <2>4 DEF UserStep
  <1>3. ASSUME NEW n \in Nodes, ClaimStep(n)
        PROVE  BondKept
    BY <1>0, <1>1, <1>3 DEF ClaimStep, RelayAnswer, ChallengeTimer, Sweep, AutoClaimPending,
                            ClaimViaProof, ClaimAndPublish, ledger
  <1>4. ASSUME NEW n \in Nodes, GossipStep(n)
        PROVE  BondKept
    BY <1>0, <1>4, AddBlockBond, FreezeBond DEF GossipStep, Deliver, DeliverEvidence,
                                                PublishLocalData, ledger
  <1>5. ASSUME NEW n \in Nodes, DeviceStep(n)
        PROVE  BondKept
    <2>1. CASE Restart(n)
      BY <2>1 DEF Restart, TypeOK, BondKept
    <2> QED BY <1>0, <1>5, <2>1, AddBlockBond DEF DeviceStep, SaveDone, LoadBlocks, Replay,
                                                  WalletOpen, ledger
  <1>6. ASSUME NEW b \in wire, ArchiveBlock(b)
        PROVE  BondKept
    BY <1>0, <1>6 DEF ArchiveBlock, ledger
  <1>7. CASE UNCHANGED vars
    BY <1>0, <1>7 DEF vars, ledger
  <1> QED BY <1>2, <1>3, <1>4, <1>5, <1>6, <1>7 DEF Next

\* The balance of an account on its only device: what it signs there leaves
\* the bond alone.
LEMMA BondedBalance ==
    ASSUME IndInv, ReplicaShape, NEW h \in Nodes, NEW a \in Accounts, Devices[a] = {h},
           KeysOnDevices', restarts'[h] = 0, restarts[h] = 0,
           Opened(h, a), bonded[h][a] <= Balance(h, a)
    PROVE  chain'[h][a] # <<>> /\ bonded[h][a] <= chain'[h][a][Len(chain'[h][a])].bal
  <1> USE DEF IndInv
  <1> DEFINE c == chain[h][a]
  <1>1. c \in Seq(Blocks) /\ bonded[h][a] \in Nat
    BY DEF TypeOK
  <1>2. CASE chain'[h][a] = c
    BY <1>2 DEF Opened, Balance, Head_
  <1>3. CASE SignShape
    <2>1. PICK n \in Nodes, b \in Blocks : Signs(n, b) /\ OwnMove(n, b)
      BY <1>3 DEF SignShape
    <2>2. chain'[h][a] = IF h = n /\ a = b.acct THEN Append(c, b) ELSE c
      BY <2>1, ChainGrows DEF Signs
    <2>3. CASE h = n /\ a = b.acct
      <3>1. chain'[h][a] # <<>> /\ chain'[h][a][Len(chain'[h][a])] = b
        <4>1. chain'[h][a] = Append(c, b)
          BY <2>2, <2>3
        <4>2. Append(c, b) # <<>> /\ Append(c, b)[Len(Append(c, b))] = b
          BY <1>1, <2>1
        <4> QED BY <4>1, <4>2
      <3>2. /\ Balance(h, a) \in Int /\ b.amt \in Nat /\ b.bal \in Int
        BY HeadType, TypeParts, BlockFields
      <3>3. bonded[h][a] <= b.bal
        BY <1>1, <2>1, <2>3, <3>2 DEF OwnMove, Opened
      <3> QED BY <3>1, <3>3
    <2> QED BY <1>2, <2>2, <2>3
  <1>4. CASE EnterShape
    <2>1. PICK n \in Nodes, b \in signed : Extends(n, b) /\ Enter(n, b)
      BY <1>4 DEF EnterShape
    <2>2. b \in Blocks /\ chain'[h][a] = IF h = n /\ a = b.acct THEN Append(c, b) ELSE c
      BY <2>1, ChainGrows DEF TypeOK
    <2>3. ~(h = n /\ a = b.acct)
      BY <1>1, <2>1 DEF SingleWriter, Extends
    <2> QED BY <1>2, <2>2, <2>3
  <1>5. CASE RetainShape \/ TakeInShape \/ EvidenceShape \/ QuietShape
    BY <1>2, <1>5 DEF RetainShape, Retain, TakeInShape, TakesIn, EvidenceShape, QuietShape
  <1>6. CASE ForgetShape
    <2>1. PICK n \in Nodes : Restart(n)
      BY <1>6 DEF ForgetShape
    <2>2. n # h
      BY <2>1 DEF Restart, TypeOK
    <2> QED BY <1>2, <2>1, <2>2, ForgetHasEffect DEF ForgetEffect
  <1> QED BY <1>3, <1>4, <1>5, <1>6 DEF ReplicaShape, TakingShape

LEMMA BondBackedStep ==
    ASSUME LedgerInv, BondBacked, [Next]_vars
    PROVE  BondBacked'
  <1>0. /\ IndInv /\ TypeOK /\ OnlySigned /\ Linked /\ KeysOnDevices
        /\ IndInv' /\ TypeOK' /\ KeysOnDevices'
    BY IndInvStep DEF LedgerInv, IndInv
  <1>1. SUFFICES ASSUME NEW h \in Nodes, NEW a \in Accounts, Devices[a] = {h},
                        restarts'[h] = 0, bonded'[h][a] > 0
                 PROVE  /\ chain'[h][a] # <<>>
                        /\ bonded'[h][a] <= chain'[h][a][Len(chain'[h][a])].bal
    BY DEF BondBacked, Opened, Balance, Head_
  <1>2. restarts[h] = 0
    <2>1. StepShape
      BY <1>0, StepHasShape
    <2>2. CASE restarts' = restarts
      BY <1>1, <2>2
    <2>3. CASE ForgetStep
      BY <1>0, <1>1, <2>3 DEF ForgetStep, Restart, TypeOK
    <2> QED BY <2>1, <2>2, <2>3 DEF StepShape, SignStep, EnterStep, OfferStep
  <1>3. CASE BondKept
    <2>1. bonded'[h][a] = bonded[h][a] /\ bonded[h][a] > 0
      BY <1>1, <1>3 DEF BondKept
    <2>2. Opened(h, a) /\ bonded[h][a] <= Balance(h, a)
      BY <1>1, <1>2, <2>1 DEF BondBacked
    <2> QED BY <1>0, <1>1, <1>2, <2>1, <2>2, StepIsReplicaShape, BondedBalance
  <1>4. ASSUME NEW n \in Nodes, NEW x \in Accounts, NEW amt \in Bonds, BondStake(n, x, amt)
        PROVE  /\ chain'[h][a] # <<>>
               /\ bonded'[h][a] <= chain'[h][a][Len(chain'[h][a])].bal
    <2>1. chain' = chain
      BY <1>4 DEF BondStake
    <2>2. CASE h = n /\ a = x
      <3>1. bonded'[h][a] = bonded[h][a] + amt /\ amt \in Nat /\ bonded[h][a] \in Nat
        BY <1>0, <1>4, <2>2, BondsAssumption DEF BondStake, TypeOK
      <3>2. Opened(h, a) /\ amt <= Balance(h, a) - bonded[h][a] /\ Balance(h, a) \in Int
        BY <1>0, <1>4, <2>2, HeadType, TypeParts DEF BondStake
      <3>3. bonded[h][a] + amt <= Balance(h, a)
        BY <3>1, <3>2
      <3> QED BY <2>1, <3>1, <3>2, <3>3 DEF Opened, Balance, Head_
    <2>3. CASE ~(h = n /\ a = x)
      <3>1. bonded'[h][a] = bonded[h][a]
        BY <1>0, <1>4, <2>3 DEF BondStake, TypeOK
      <3>2. Opened(h, a) /\ bonded[h][a] <= Balance(h, a)
        BY <1>1, <1>2, <3>1 DEF BondBacked
      <3> QED BY <2>1, <3>1, <3>2 DEF Opened, Balance, Head_
    <2> QED BY <2>2, <2>3
  <1> QED BY <1>0, <1>3, <1>4, BondChanges

\* On the only device of an account, until it restarts, the bond never
\* exceeds the balance (createSend, bondStake).
THEOREM BondsBacked == Spec => []BondBacked
  <1>1. Init => BondBacked
    BY DEF Init, BondBacked
  <1>2. LedgerInv /\ BondBacked /\ [Next]_vars => BondBacked'
    BY BondBackedStep
  <1> QED BY <1>1, <1>2, LedgerInvariant, PTL DEF Spec

-----------------------------------------------------------------------------
(***************************************************************************)
(* Refinement.  EngineLedger implements Payments, for every number of      *)
(* nodes, accounts, amounts and heights, as long as each account is        *)
(* written by one device that does not restart.  Only what owners sign is  *)
(* visible to Payments, so a step is an opening, a transfer, a claim, or a *)
(* stutter.  A second device or a restarted one can sign on a stale chain, *)
(* and the refinement fails: that is the hazard the freezes of             *)
(* EngineLedger are for.                                                   *)
(***************************************************************************)

\* Each account has at most one device, and that one never restarts.
OneSteadyDevice ==
    \A a \in Accounts : \A h, k \in Devices[a] : h = k /\ MaxRestarts[h] = 0

(***************************************************************************)
(* The invariant: LedgerInv, and where signed blocks come from.            *)
(***************************************************************************)
RestartsBounded == \A n \in Nodes : restarts[n] <= MaxRestarts[n]

SignedOnDevice == \A b \in signed : Devices[b.acct] # {}

LEMMA RestartsBoundedStep ==
    ASSUME TypeOK, RestartsBounded, StepShape
    PROVE  RestartsBounded'
  <1>1. CASE restarts' = restarts
    BY <1>1 DEF RestartsBounded
  <1>2. ASSUME NEW n \in Nodes, Restart(n)
        PROVE  RestartsBounded'
    <2>1. /\ \A m \in Nodes : restarts'[m] = IF m = n THEN restarts[m] + 1 ELSE restarts[m]
          /\ restarts[n] < MaxRestarts[n]
          /\ restarts[n] \in Nat /\ MaxRestarts[n] \in Nat
      BY <1>2, MaxRestartsAssumption DEF Restart, MayRestart, TypeOK
    <2> QED BY <2>1 DEF RestartsBounded
  <1> QED BY <1>1, <1>2 DEF StepShape, SignStep, EnterStep, OfferStep, ForgetStep

LEMMA SignedOnDeviceStep ==
    ASSUME TypeOK, KeysOnDevices', SignedOnDevice, ReplicaShape
    PROVE  SignedOnDevice'
  <1>1. CASE SignShape
    <2>1. PICK n \in Nodes, b \in Blocks : Signs(n, b) /\ b.acct \in keys'[n]
      BY <1>1 DEF SignShape
    <2>2. n \in Devices[b.acct] /\ signed' = signed \cup {b}
      BY <2>1 DEF KeysOnDevices, Signs
    <2> QED BY <2>2 DEF SignedOnDevice
  <1>2. CASE signed' = signed
    BY <1>2 DEF SignedOnDevice
  <1> QED BY <1>1, <1>2 DEF ReplicaShape

MoneyInv == LedgerInv /\ RestartsBounded /\ SignedOnDevice

LEMMA MoneyInvInit == Init => MoneyInv
  <1>1. ASSUME Init PROVE RestartsBounded /\ SignedOnDevice
    BY <1>1, MaxRestartsAssumption DEF Init, RestartsBounded, SignedOnDevice
  <1> QED BY <1>1, LedgerInvInit DEF MoneyInv

LEMMA MoneyInvStep == MoneyInv /\ [Next]_vars => MoneyInv'
  <1> SUFFICES ASSUME MoneyInv, [Next]_vars PROVE MoneyInv'
    OBVIOUS
  <1>1. LedgerInv' /\ TypeOK /\ OnlySigned /\ Linked /\ KeysOnDevices /\ KeysOnDevices'
    BY LedgerInvStep DEF MoneyInv, LedgerInv, IndInv
  <1>2. StepShape /\ ReplicaShape
    BY <1>1, StepHasShape, StepIsReplicaShape
  <1> QED BY <1>1, <1>2, RestartsBoundedStep, SignedOnDeviceStep DEF MoneyInv

(***************************************************************************)
(* The chain an account's device holds is what the account signed.         *)
(***************************************************************************)
\* The device n of account a, and the account's blocks.
Owns(n, a) ==
    /\ chain[n][a] \in Seq(Blocks)
    /\ \A x \in SignedOf(a) : x.idx \in Nat /\ InChain(n, x)
    /\ Opened(n, a) <=> SignedOf(a) # {}
    /\ Opened(n, a) => /\ Head_(n, a) \in SignedOf(a)
                       /\ Head_(n, a).idx = Len(chain[n][a]) - 1

LEMMA DeviceOwns ==
    ASSUME MoneyInv, OneSteadyDevice, NEW a \in Accounts, NEW n \in Devices[a]
    PROVE  Owns(n, a)
  <1>0. /\ TypeOK /\ Linked /\ SingleWriter
        /\ n \in Nodes /\ Devices[a] = {n} /\ restarts[n] = 0
    <2>1. n \in Nodes /\ Devices[a] = {n}
      BY DevicesAssumption DEF OneSteadyDevice
    <2>2. TypeOK /\ Linked /\ SingleWriter /\ RestartsBounded
      BY DEF MoneyInv, LedgerInv, IndInv
    <2>3. restarts[n] \in Nat /\ restarts[n] <= MaxRestarts[n]
      BY <2>1, <2>2 DEF TypeOK, RestartsBounded
    <2>4. MaxRestarts[n] = 0
      BY DEF OneSteadyDevice
    <2> QED BY <2>1, <2>2, <2>3, <2>4
  <1>1. chain[n][a] \in Seq(Blocks) /\ LinkedChain(a, chain[n][a], signed)
    BY <1>0 DEF TypeOK, Linked
  <1>2. \A x \in SignedOf(a) : x.idx \in Nat /\ x.acct = a /\ InChain(n, x)
    <2> TAKE x \in SignedOf(a)
    <2>1. x \in signed /\ x.acct = a /\ x \in Blocks
      BY <1>0 DEF SignedOf, TypeOK
    <2>2. x.idx < Len(chain[n][a]) /\ chain[n][a][x.idx + 1] = x
      BY <1>0, <2>1 DEF SingleWriter
    <2> QED BY <2>1, <2>2, BlockFields DEF InChain
  <1>3. ASSUME Opened(n, a)
        PROVE  Head_(n, a) \in SignedOf(a) /\ Head_(n, a).idx = Len(chain[n][a]) - 1
    BY <1>1, <1>3, HeadOfLinked DEF Opened, Head_, SignedOf
  <1>4. ASSUME NEW x \in SignedOf(a)
        PROVE  Opened(n, a)
    <2>1. x.idx \in Nat /\ x.idx < Len(chain[n][a])
      BY <1>2 DEF InChain
    <2> QED BY <1>1, <2>1 DEF Opened
  <1> QED BY <1>1, <1>2, <1>3, <1>4 DEF Owns

\* The newest block of a set in which heights are met once.
LEMMA NewestIs ==
    ASSUME NEW S, NEW b \in S,
           \A c \in S : c.idx <= b.idx,
           \A c \in S : b.idx <= c.idx => c = b
    PROVE  (CHOOSE x \in S : \A c \in S : c.idx <= x.idx) = b
  <1> DEFINE P(x) == x \in S /\ \A c \in S : c.idx <= x.idx
  <1>1. P(b)
    OBVIOUS
  <1>2. \A x : P(x) => x = b
    OBVIOUS
  <1>3. (CHOOSE x : P(x)) = b
    BY <1>1, <1>2
  <1> QED BY <1>3

LEMMA HeadIsNewest ==
    ASSUME NEW n \in Nodes, NEW a \in Accounts, Owns(n, a), Opened(n, a)
    PROVE  Newest(a) = Head_(n, a)
  <1> DEFINE c == chain[n][a]
             h == Head_(n, a)
  <1>1. /\ c \in Seq(Blocks) /\ Len(c) \in Nat /\ h = c[Len(c)] /\ h.idx = Len(c) - 1
        /\ h \in SignedOf(a)
    BY DEF Owns, Head_
  <1>2. ASSUME NEW x \in SignedOf(a)
        PROVE  x.idx <= h.idx /\ (h.idx <= x.idx => x = h)
    <2>1. x.idx \in Nat /\ x.idx < Len(c) /\ c[x.idx + 1] = x
      BY DEF Owns, InChain, SignedOf
    <2>2. x.idx <= h.idx
      BY <1>1, <2>1
    <2>3. ASSUME h.idx <= x.idx PROVE x = h
      <3>1. x.idx + 1 = Len(c)
        BY <1>1, <2>1, <2>3
      <3> QED BY <1>1, <2>1, <3>1
    <2> QED BY <2>2, <2>3
  <1> HIDE DEF h
  <1>3. (CHOOSE x \in SignedOf(a) : \A y \in SignedOf(a) : y.idx <= x.idx) = h
    BY <1>1, <1>2, NewestIs
  <1> QED BY <1>3 DEF Newest, h

(***************************************************************************)
(* The balances of Payments before and after a block is signed.            *)
(***************************************************************************)
BalanceOf(a) == IF SignedOf(a) = {} THEN 0 ELSE Newest(a).bal

\* What the owner signs on: the device of the account, and its chain.
Signing(n, b) ==
    /\ n \in Nodes /\ b \in Blocks /\ n \in Devices[b.acct]
    /\ b.idx = Len(chain[n][b.acct])
    /\ b \notin signed /\ signed' = signed \cup {b}
    /\ Owns(n, b.acct)

LEMMA BalanceNow ==
    ASSUME NEW n, NEW b, Signing(n, b)
    PROVE  /\ Opened(n, b.acct) <=> SignedOf(b.acct) # {}
           /\ BalanceOf(b.acct) = IF Opened(n, b.acct) THEN Balance(n, b.acct) ELSE 0
  <1>1. n \in Nodes /\ b.acct \in Accounts /\ Owns(n, b.acct)
    BY BlockFields DEF Signing
  <1>2. Opened(n, b.acct) <=> SignedOf(b.acct) # {}
    BY <1>1 DEF Owns
  <1>3. Opened(n, b.acct) => Newest(b.acct) = Head_(n, b.acct)
    BY <1>1, HeadIsNewest
  <1> QED BY <1>2, <1>3 DEF BalanceOf, Balance

LEMMA BalanceAfter ==
    ASSUME NEW n, NEW b, Signing(n, b), NEW a
    PROVE  BalanceOf(a)' = IF a = b.acct THEN b.bal ELSE BalanceOf(a)
  <1>1. SignedOf(a)' = IF a = b.acct THEN SignedOf(a) \cup {b} ELSE SignedOf(a)
    <2>1. CASE a = b.acct
      BY <2>1 DEF Signing, SignedOf
    <2>2. CASE a # b.acct
      BY <2>2 DEF Signing, SignedOf
    <2> QED BY <2>1, <2>2
  <1>2. CASE a # b.acct
    BY <1>1, <1>2 DEF BalanceOf, Newest
  <1>3. CASE a = b.acct
    <2> DEFINE S == SignedOf(a) \cup {b}
    <2>1. b.idx \in Nat /\ Owns(n, a) /\ b.idx = Len(chain[n][a])
      BY <1>3, BlockFields DEF Signing
    <2>2. \A x \in SignedOf(a) : x.idx \in Nat /\ x.idx < b.idx
      <3> TAKE x \in SignedOf(a)
      <3>1. x.idx \in Nat /\ InChain(n, x) /\ x.acct = a
        BY <2>1 DEF Owns, SignedOf
      <3> QED BY <2>1, <3>1 DEF InChain
    <2>3. b \in S /\ (\A x \in S : x.idx <= b.idx) /\ (\A x \in S : b.idx <= x.idx => x = b)
      BY <2>1, <2>2
    <2> HIDE DEF S
    <2>4. (CHOOSE x \in S : \A y \in S : y.idx <= x.idx) = b
      BY <2>3, NewestIs
    <2>5. SignedOf(a)' = S /\ S # {}
      BY <1>1, <1>3, <2>3 DEF S
    <2>6. Newest(a)' = CHOOSE x \in S : \A y \in S : y.idx <= x.idx
      BY <2>5 DEF Newest
    <2>7. Newest(a)' = b
      BY <2>4, <2>6
    <2>8. BalanceOf(a)' = IF SignedOf(a)' = {} THEN 0 ELSE (Newest(a)').bal
      BY DEF BalanceOf
    <2> QED BY <1>3, <2>5, <2>7, <2>8
  <1> QED BY <1>2, <1>3

LEMMA SignShapeSigns ==
    ASSUME MoneyInv, OneSteadyDevice, KeysOnDevices',
           NEW n \in Nodes, NEW b \in Blocks, Signs(n, b), b.acct \in keys'[n]
    PROVE  Signing(n, b)
  <1>1. n \in Devices[b.acct] /\ b.acct \in Accounts
    BY BlockFields DEF KeysOnDevices
  <1>2. Owns(n, b.acct)
    BY <1>1, DeviceOwns
  <1>3. b.idx = Len(chain[n][b.acct]) /\ b \notin signed /\ signed' = signed \cup {b}
    BY DEF Signs, Hash
  <1> QED BY <1>1, <1>2, <1>3 DEF Signing

(***************************************************************************)
(* The transfers in flight.                                                *)
(***************************************************************************)
InFlight == {x \in signed : IsSend(x) /\ \A r \in signed : r.src # Hash(x)}

Transfer(s) == [id |-> Hash(s), to |-> s.to, amt |-> s.amt]

LEMMA HashIsName == ASSUME NEW x PROVE Hash(x) # NoHash
  BY DEF Hash, NoHash

\* A signed block names a source only if it is a receive, and then a send
\* signed before and addressed to its account.
LEMMA SourcesSigned ==
    ASSUME TypeOK, WellSigned, NEW r \in signed, r.src # NoHash
    PROVE  /\ IsReceive(r)
           /\ \E s \in signed : Hash(s) = r.src /\ IsSend(s) /\ s.to = r.acct
  <1>1. WellFormed(r, signed) /\ r.idx \in Nat
    BY WellSignedForms, BlockFields DEF TypeOK
  <1>2. IsReceive(r)
    BY <1>1 DEF WellFormed
  <1>3. r.idx > 0 /\ ~IsSend(r)
    BY <1>1, <1>2 DEF WellFormed, IsReceive, IsSend
  <1> QED BY <1>1, <1>2, <1>3 DEF WellFormed

\* What an owner is offered, nobody has received.
LEMMA OfferIsInFlight ==
    ASSUME MoneyInv, NEW n \in Nodes, NEW s \in unclaimed[n], Owns(n, s.to)
    PROVE  s \in InFlight
  <1>1. /\ TypeOK /\ WellSigned /\ UniqueHash /\ ClaimsRecorded
        /\ s \in signed /\ IsSend(s) /\ s.to \in Accounts
    <2>1. /\ TypeOK /\ WellSigned /\ UniqueHash /\ ClaimsRecorded /\ OnlySigned /\ OffersSends
      BY DEF MoneyInv, LedgerInv, IndInv
    <2>2. s \in signed /\ IsSend(s)
      BY <2>1 DEF OnlySigned, HeldBlocks, OffersSends
    <2>3. s \in Blocks
      BY <2>1, <2>2 DEF TypeOK
    <2> QED BY <2>1, <2>2, <2>3, BlockFields
  <1>2. ASSUME NEW r \in signed, r.src = Hash(s)
        PROVE  FALSE
    <2>1. r.src # NoHash
      BY <1>2, HashIsName
    <2>2. PICK q \in signed : Hash(q) = r.src /\ q.to = r.acct
      BY <1>1, <2>1, SourcesSigned
    <2>3. IsReceive(r) /\ r.acct = s.to
      BY <1>1, <1>2, <2>1, <2>2, SourcesSigned DEF UniqueHash
    <2>4. /\ r.idx \in Nat /\ r.idx < Len(chain[n][s.to])
          /\ chain[n][s.to][r.idx + 1] = r /\ chain[n][s.to] \in Seq(Blocks)
      BY <2>3 DEF Owns, SignedOf, InChain
    <2>5. r.idx + 1 \in 1..Len(chain[n][s.to])
      BY <2>4
    <2>6. r.src \in claimed[n]
      BY <1>1, <2>3, <2>4, <2>5 DEF ClaimsRecorded
    <2> QED BY <1>1, <1>2, <2>6 DEF ClaimsRecorded
  <1> QED BY <1>1, <1>2 DEF InFlight

LEMMA InFlightAfter ==
    ASSUME TypeOK, WellSigned, UniqueHash, NEW b, b \notin signed, signed' = signed \cup {b},
           \A x \in signed : Hash(x) # Hash(b)
    PROVE  /\ ~IsSend(b) /\ b.src = NoHash => InFlight' = InFlight
           /\ IsSend(b) /\ b.src = NoHash => InFlight' = InFlight \cup {b}
           /\ \A s \in InFlight :
                 ~IsSend(b) /\ b.src = Hash(s) => InFlight' = InFlight \ {s}
  <1>1. \A x : x \in InFlight' <=>
          /\ x \in signed \cup {b} /\ IsSend(x)
          /\ \A r \in signed \cup {b} : r.src # Hash(x)
    BY DEF InFlight, IsSend, Hash
  <1>2. \A x \in signed : x \in InFlight' <=> x \in InFlight /\ b.src # Hash(x)
    BY <1>1 DEF InFlight
  <1>3. ASSUME NEW r \in signed, r.src = Hash(b)
        PROVE  FALSE
    <2>1. r.src # NoHash
      BY <1>3, HashIsName
    <2> QED BY <1>3, <2>1, SourcesSigned
  <1>4. b \in InFlight' <=> IsSend(b) /\ b.src # Hash(b)
    BY <1>1, <1>3
  <1>5. \A x : x \in InFlight => x \in signed
    BY DEF InFlight
  <1>6. \A x : x \in InFlight' => x \in signed \/ x = b
    BY <1>1
  <1>7. ASSUME b.src = NoHash
        PROVE  InFlight' = IF IsSend(b) THEN InFlight \cup {b} ELSE InFlight
    BY <1>2, <1>4, <1>5, <1>6, <1>7, HashIsName
  <1>8. ASSUME NEW s \in InFlight, ~IsSend(b), b.src = Hash(s)
        PROVE  InFlight' = InFlight \ {s}
    <2>1. \A x \in signed : b.src = Hash(x) <=> x = s
      BY <1>5, <1>8 DEF UniqueHash
    <2> QED BY <1>2, <1>4, <1>5, <1>6, <1>8, <2>1
  <1> QED BY <1>7, <1>8

(***************************************************************************)
(* The refinement.                                                         *)
(***************************************************************************)
\* The variables of Payments, under names of their own.
OpenedAccounts == {b.acct : b \in signed}
BalanceMap     == [a \in Accounts |-> BalanceOf(a)]
InFlightPays   == {Transfer(s) : s \in InFlight}
UsedNames      == {Hash(s) : s \in {x \in signed : IsSend(x)}}

PaymentInit ==
    /\ OpenedAccounts = {} /\ BalanceMap = [a \in Accounts |-> 0]
    /\ InFlightPays = {} /\ UsedNames = {}

PaymentOpens ==
    \E a \in Accounts :
        /\ a \notin OpenedAccounts
        /\ OpenedAccounts' = OpenedAccounts \cup {a}
        /\ BalanceMap' = [BalanceMap EXCEPT ![a] = Mint]
        /\ InFlightPays' = InFlightPays /\ UsedNames' = UsedNames

PaymentSends ==
    \E a \in OpenedAccounts, id \in Heights \ UsedNames, to \in Accounts :
        \E amt \in 1..BalanceMap[a] :
            /\ 0 < amt /\ amt <= BalanceMap[a]
            /\ BalanceMap' = [BalanceMap EXCEPT ![a] = @ - amt]
            /\ InFlightPays' = InFlightPays \cup {[id |-> id, to |-> to, amt |-> amt]}
            /\ UsedNames' = UsedNames \cup {id}
            /\ OpenedAccounts' = OpenedAccounts

PaymentClaims ==
    \E p \in InFlightPays :
        /\ p.to \in OpenedAccounts
        /\ BalanceMap' = [BalanceMap EXCEPT ![p.to] = @ + p.amt]
        /\ InFlightPays' = InFlightPays \ {p}
        /\ OpenedAccounts' = OpenedAccounts /\ UsedNames' = UsedNames

PaymentStutters ==
    /\ OpenedAccounts' = OpenedAccounts /\ BalanceMap' = BalanceMap
    /\ InFlightPays' = InFlightPays /\ UsedNames' = UsedNames

LEMMA PaymentNames ==
    /\ PaymentInit => Money!Init
    /\ PaymentOpens \/ PaymentSends \/ PaymentClaims \/ PaymentStutters => [Money!Next]_(Money!vars)
  <1>1. PaymentInit => Money!Init
    BY DEF PaymentInit, Money!Init, OpenedAccounts, BalanceMap, BalanceOf, InFlightPays,
           UsedNames, Transfer, InFlight
  <1>2. PaymentOpens => Money!Next
    BY DEF PaymentOpens, Money!Next, Money!Open, OpenedAccounts, BalanceMap, BalanceOf,
           InFlightPays, UsedNames, Transfer, InFlight
  <1>3. PaymentSends => Money!Next
    <2>1. ASSUME NEW a \in OpenedAccounts, NEW id \in Heights \ UsedNames, NEW to \in Accounts,
                 NEW amt \in 1..BalanceMap[a],
                 /\ 0 < amt /\ amt <= BalanceMap[a]
                 /\ BalanceMap' = [BalanceMap EXCEPT ![a] = @ - amt]
                 /\ InFlightPays' = InFlightPays \cup {[id |-> id, to |-> to, amt |-> amt]}
                 /\ UsedNames' = UsedNames \cup {id}
                 /\ OpenedAccounts' = OpenedAccounts
          PROVE  Money!Next
      <3> DEFINE p == [id |-> id, to |-> to, amt |-> amt]
      <3>1. p.id = id /\ p.amt = amt
        OBVIOUS
      <3> HIDE DEF p
      <3>2. Money!Send(a, p)
        BY <2>1, <3>1 DEF p, Money!Send, OpenedAccounts, BalanceMap, BalanceOf,
           InFlightPays, UsedNames, Transfer, InFlight
      <3>3. Money!Send(a, [id |-> id, to |-> to, amt |-> amt])
        BY <3>2 DEF p
      <3> QED BY <2>1, <3>3 DEF Money!Next, OpenedAccounts, UsedNames, BalanceMap, BalanceOf
    <2> QED BY <2>1 DEF PaymentSends
  <1>4. PaymentClaims => Money!Next
    BY DEF PaymentClaims, Money!Next, Money!Claim, OpenedAccounts, BalanceMap, BalanceOf,
           InFlightPays, UsedNames, Transfer, InFlight
  <1>5. PaymentStutters => UNCHANGED Money!vars
    BY DEF PaymentStutters, Money!vars, OpenedAccounts, BalanceMap, BalanceOf,
           InFlightPays, UsedNames, Transfer, InFlight
  <1> QED BY <1>1, <1>2, <1>3, <1>4, <1>5

\* The balances after a signature, as one function.
LEMMA BalanceMapAfter ==
    ASSUME NEW n, NEW b, Signing(n, b)
    PROVE  BalanceMap' = [BalanceMap EXCEPT ![b.acct] = b.bal]
  <1>1. \A a : BalanceOf(a)' = IF a = b.acct THEN b.bal ELSE BalanceOf(a)
    BY BalanceAfter
  <1>2. b.acct \in Accounts
    BY BlockFields DEF Signing
  <1>3. BalanceMap' = [a \in Accounts |-> BalanceOf(a)']
    BY DEF BalanceMap
  <1>4. BalanceMap' = [a \in Accounts |-> IF a = b.acct THEN b.bal ELSE BalanceOf(a)]
    BY <1>1, <1>3
  <1> QED BY <1>2, <1>4 DEF BalanceMap

LEMMA NamesAfter ==
    ASSUME NEW n, NEW b, Signing(n, b)
    PROVE  /\ OpenedAccounts' = OpenedAccounts \cup {b.acct}
           /\ UsedNames' = IF IsSend(b) THEN UsedNames \cup {Hash(b)} ELSE UsedNames
  <1>1. signed' = signed \cup {b}
    BY DEF Signing
  <1>2. OpenedAccounts' = OpenedAccounts \cup {b.acct}
    BY <1>1 DEF OpenedAccounts
  <1>3. CASE IsSend(b)
    <2>1. UsedNames' = UsedNames \cup {Hash(b)}
      BY <1>1, <1>3 DEF UsedNames, IsSend, Hash
    <2> QED BY <1>2, <1>3, <2>1
  <1>4. CASE ~IsSend(b)
    <2>1. UsedNames' = UsedNames
      BY <1>1, <1>4 DEF UsedNames, IsSend, Hash
    <2> QED BY <1>2, <1>4, <2>1
  <1> QED BY <1>3, <1>4

\* The images of the transfers in flight.
LEMMA PaysAfter ==
    ASSUME UniqueHash, NEW F, F = InFlight'
    PROVE  /\ F = InFlight => InFlightPays' = InFlightPays
           /\ \A b : F = InFlight \cup {b} => InFlightPays' = InFlightPays \cup {Transfer(b)}
           /\ \A s \in InFlight : F = InFlight \ {s} =>
                 InFlightPays' = InFlightPays \ {Transfer(s)}
  <1>1. InFlightPays' = {Transfer(x) : x \in F}
    BY DEF InFlightPays, Transfer, Hash
  <1>2. ASSUME NEW s \in InFlight, NEW x \in InFlight, Transfer(x) = Transfer(s)
        PROVE  x = s
    <2>1. Transfer(x).id = Hash(x) /\ Transfer(s).id = Hash(s)
      BY DEF Transfer
    <2> QED BY <1>2, <2>1 DEF UniqueHash, InFlight
  <1>3. ASSUME NEW s \in InFlight, F = InFlight \ {s}
        PROVE  InFlightPays' = InFlightPays \ {Transfer(s)}
    BY <1>1, <1>2, <1>3 DEF InFlightPays
  <1>4. ASSUME NEW b, F = InFlight \cup {b}
        PROVE  InFlightPays' = InFlightPays \cup {Transfer(b)}
    BY <1>1, <1>4 DEF InFlightPays
  <1> QED BY <1>1, <1>3, <1>4 DEF InFlightPays

\* A signature is an opening, a transfer or a claim.
LEMMA SignIsPayment ==
    ASSUME MoneyInv, OneSteadyDevice, KeysOnDevices', SignShape
    PROVE  PaymentOpens \/ PaymentSends \/ PaymentClaims
  <1>1. PICK n \in Nodes, b \in Blocks :
          Signs(n, b) /\ OwnMove(n, b) /\ b.acct \in keys'[n] /\ b.idx <= LastIndex[b.acct]
    BY DEF SignShape
  <1> DEFINE a == b.acct
  <1>2. Signing(n, b)
    BY <1>1, SignShapeSigns
  <1>3. /\ TypeOK /\ WellSigned /\ UniqueHash /\ OnlySigned
        /\ a \in Accounts /\ b.idx \in Nat /\ b.tag \in Tags /\ b.to \in Accounts
        /\ b.bal \in Int /\ b.amt \in Nat
    BY <1>1, BlockFields DEF MoneyInv, LedgerInv, IndInv
  <1>4. /\ BalanceMap' = [BalanceMap EXCEPT ![a] = b.bal]
        /\ OpenedAccounts' = OpenedAccounts \cup {a}
        /\ UsedNames' = IF IsSend(b) THEN UsedNames \cup {Hash(b)} ELSE UsedNames
    BY <1>2, BalanceMapAfter, NamesAfter
  <1>5. /\ ~IsSend(b) /\ b.src = NoHash => InFlight' = InFlight
        /\ IsSend(b) /\ b.src = NoHash => InFlight' = InFlight \cup {b}
        /\ \A s \in InFlight : ~IsSend(b) /\ b.src = Hash(s) => InFlight' = InFlight \ {s}
    BY <1>1, <1>2, <1>3, InFlightAfter DEF Signs, Signing
  <1> DEFINE F == InFlight'
  <1>6. /\ F = InFlight => InFlightPays' = InFlightPays
        /\ \A x : F = InFlight \cup {x} => InFlightPays' = InFlightPays \cup {Transfer(x)}
        /\ \A s \in InFlight : F = InFlight \ {s} =>
              InFlightPays' = InFlightPays \ {Transfer(s)}
    <2> HIDE DEF F
    <2>1. F = InFlight'
      BY DEF F
    <2> QED BY <1>3, <2>1, PaysAfter
  <1>7. /\ Opened(n, a) <=> a \in OpenedAccounts
        /\ Opened(n, a) => BalanceMap[a] = Balance(n, a)
    <2>1. /\ Opened(n, a) <=> SignedOf(a) # {}
          /\ BalanceOf(a) = IF Opened(n, a) THEN Balance(n, a) ELSE 0
      BY <1>2, BalanceNow
    <2>2. SignedOf(a) # {} <=> a \in OpenedAccounts
      BY DEF SignedOf, OpenedAccounts
    <2> QED BY <1>3, <2>1, <2>2 DEF BalanceMap
  <1>8. OwnMove(n, b)
    BY <1>1
  <1> HIDE DEF F
  <1>9. CASE /\ chain[n][a] = <<>> /\ b.type = "open" /\ b.bal = Mint /\ b.src = NoHash
    <2>1. ~IsSend(b) /\ a \notin OpenedAccounts
      BY <1>7, <1>9 DEF IsSend, Opened
    <2> QED BY <1>3, <1>4, <1>5, <1>6, <1>9, <2>1 DEF PaymentOpens, F
  <1>10. CASE /\ Opened(n, a) /\ IsSend(b) /\ b.amt > 0 /\ b.src = NoHash
              /\ b.bal = Balance(n, a) - b.amt /\ b.bal >= bonded[n][a]
    <2>1. InFlightPays' = InFlightPays \cup {Transfer(b)}
      BY <1>5, <1>6, <1>10 DEF F
    <2>2. Hash(b) \in Heights
      <3>1. LastIndex[a] \in Nat
        BY <1>3, LastIndexAssumption
      <3>2. <<b.acct, b.idx, b.tag>> \in {a} \X (0..LastIndex[a]) \X Tags
        BY <1>1, <1>3, <3>1
      <3> QED BY <1>3, <3>2 DEF Heights, Hash
    <2>3. Hash(b) \notin UsedNames
      BY <1>1 DEF UsedNames, Signs
    <2>4. bonded[n][a] \in Nat /\ Balance(n, a) \in Int
      <3>1. bonded[n][a] \in Nat
        BY <1>3 DEF TypeOK
      <3>2. Balance(n, a) \in Int
        BY <1>3, <1>10, HeadType, TypeParts
      <3> QED BY <3>1, <3>2
    <2>5. b.amt \in 1..BalanceMap[a] /\ 0 < b.amt /\ b.amt <= BalanceMap[a]
          /\ b.bal = BalanceMap[a] - b.amt
      BY <1>3, <1>7, <1>10, <2>4
    <2>6. a \in OpenedAccounts /\ OpenedAccounts' = OpenedAccounts
      BY <1>4, <1>7, <1>10
    <2>7. UsedNames' = UsedNames \cup {Hash(b)}
      BY <1>4, <1>10
    <2>8. BalanceMap' = [BalanceMap EXCEPT ![a] = @ - b.amt]
      BY <1>4, <2>5
    <2> HIDE DEF a
    <2>9. \E id \in Heights \ UsedNames, to \in Accounts : \E amt \in 1..BalanceMap[a] :
            /\ 0 < amt /\ amt <= BalanceMap[a]
            /\ BalanceMap' = [BalanceMap EXCEPT ![a] = @ - amt]
            /\ InFlightPays' = InFlightPays \cup {[id |-> id, to |-> to, amt |-> amt]}
            /\ UsedNames' = UsedNames \cup {id}
            /\ OpenedAccounts' = OpenedAccounts
      BY <1>3, <2>1, <2>2, <2>3, <2>5, <2>6, <2>7, <2>8 DEF Transfer
    <2> QED BY <2>6, <2>9 DEF PaymentSends
  <1>11. CASE /\ Opened(n, a) /\ IsReceive(b) /\ b.bal = Balance(n, a) + b.amt
              /\ \E s \in unclaimed[n] : s.to = a /\ b.src = Hash(s) /\ b.amt = s.amt
    <2>1. PICK s \in unclaimed[n] : s.to = a /\ b.src = Hash(s) /\ b.amt = s.amt
      BY <1>11
    <2>2. s \in InFlight /\ ~IsSend(b)
      BY <1>2, <1>11, <2>1, OfferIsInFlight DEF Signing, IsSend, IsReceive
    <2>3. InFlightPays' = InFlightPays \ {Transfer(s)} /\ Transfer(s) \in InFlightPays
      BY <1>5, <1>6, <2>1, <2>2 DEF F, InFlightPays
    <2>4. Transfer(s).to = a /\ Transfer(s).amt = b.amt
      BY <2>1 DEF Transfer
    <2>5. BalanceMap' = [BalanceMap EXCEPT ![Transfer(s).to] = @ + Transfer(s).amt]
      BY <1>4, <1>7, <1>11, <2>4
    <2>6. a \in OpenedAccounts /\ OpenedAccounts' = OpenedAccounts /\ UsedNames' = UsedNames
      BY <1>4, <1>7, <1>11, <2>2
    <2> QED BY <2>3, <2>4, <2>5, <2>6 DEF PaymentClaims
  <1> QED BY <1>8, <1>9, <1>10, <1>11 DEF OwnMove

LEMMA NoSignatureStutters == signed' = signed => PaymentStutters
  BY DEF PaymentStutters, OpenedAccounts, BalanceMap, BalanceOf, SignedOf, Newest,
         InFlightPays, InFlight, UsedNames, Transfer, IsSend, Hash

LEMMA StepIsPayment ==
    ASSUME OneSteadyDevice, MoneyInv, [Next]_vars
    PROVE  PaymentOpens \/ PaymentSends \/ PaymentClaims \/ PaymentStutters
  <1>1. TypeOK /\ OnlySigned /\ Linked /\ KeysOnDevices /\ KeysOnDevices'
    BY MoneyInvStep DEF MoneyInv, LedgerInv, IndInv
  <1>2. ReplicaShape
    BY <1>1, StepIsReplicaShape
  <1> QED BY <1>1, <1>2, SignIsPayment, NoSignatureStutters DEF ReplicaShape

\* Every behaviour of the ledger is one of Payments, when every account is
\* written by one device that keeps running (createSend, createReceive,
\* openAccount; whatever gossip, claims and other nodes do in between).
THEOREM Refinement ==
    ASSUME OneSteadyDevice
    PROVE  Spec => ImplementsPayments
  <1>1. Init => Money!Init
    <2>1. Init => PaymentInit
      BY DEF Init, PaymentInit, OpenedAccounts, BalanceMap, BalanceOf, SignedOf,
             InFlightPays, InFlight, UsedNames
    <2> QED BY <2>1, PaymentNames
  <1>2. ASSUME MoneyInv, [Next]_vars
        PROVE  [Money!Next]_(Money!vars)
    BY <1>2, StepIsPayment, PaymentNames
  <1>3. Init => MoneyInv
    BY MoneyInvInit
  <1>4. MoneyInv /\ [Next]_vars => MoneyInv'
    BY MoneyInvStep
  <1> QED BY <1>1, <1>2, <1>3, <1>4, PTL DEF Spec, ImplementsPayments, Money!Spec

(***************************************************************************)
(* Conservation: each step of Payments keeps the sum of balances and       *)
(* transfers in flight at one mint per account.                            *)
(***************************************************************************)
AmountIn(P) == [p \in P |-> p.amt]

\* The sum over transfers is a sum of weights.
LEMMA AmountSum ==
    ASSUME NEW P, IsFiniteSet(P), \A p \in P : p.amt \in Int
    PROVE  MapThenSumSet(LAMBDA p : p.amt, P) = SumOver(AmountIn(P), P)
  <1> DEFINE w == AmountIn(P)
             U(f) == f = [s \in SUBSET P |-> IF s = {} THEN 0 ELSE Pick(s).amt + f[s \ {Pick(s)}]]
             g == CHOOSE f : U(f)
  <1>1. \A p \in P : w[p] = p.amt /\ w[p] \in Int
    BY DEF AmountIn
  <1>2. MapThenSumSet(LAMBDA p : p.amt, P) = g[P]
    BY DEF MapThenSumSet, MapThenFoldSet, Pick
  <1>3. \A s \in SUBSET P : s # {} => w[Pick(s)] = Pick(s).amt
    BY <1>1, PickIn
  <1>4. \A f : U(f) <=> Unfolds(f, w, P)
    BY <1>3 DEF Unfolds, Step
  <1> HIDE DEF w, U, g
  <1>5. PICK f : Unfolds(f, w, P) /\ SumOver(w, P) = f[P]
    BY <1>1, SumsOfSubsets
  <1>6. U(g)
    BY <1>4, <1>5 DEF g
  <1>7. g[P] = f[P]
    BY <1>1, <1>4, <1>5, <1>6, RecursionsAgree
  <1> QED BY <1>2, <1>5, <1>7 DEF w

\* Adding and removing a transfer.
LEMMA AmountAdd ==
    ASSUME NEW P, IsFiniteSet(P), \A p \in P : p.amt \in Nat, NEW q, q \notin P, q.amt \in Nat
    PROVE  SumOver(AmountIn(P \cup {q}), P \cup {q}) = q.amt + SumOver(AmountIn(P), P)
  <1> DEFINE Q == P \cup {q}
  <1>1. /\ IsFiniteSet(Q) /\ \A p \in Q : AmountIn(Q)[p] = p.amt /\ AmountIn(Q)[p] \in Int
        /\ \A p \in P : AmountIn(P)[p] = p.amt /\ AmountIn(P)[p] \in Int
        /\ q \in Q /\ Q \ {q} = P
    BY FS_AddElement DEF AmountIn
  <1>2. \A p \in P : AmountIn(Q)[p] = AmountIn(P)[p]
    BY <1>1
  <1> HIDE DEF Q
  <1>3. SumOver(AmountIn(Q), Q) = AmountIn(Q)[q] + SumOver(AmountIn(Q), Q \ {q})
    BY <1>1, SumRemove
  <1>4. SumOver(AmountIn(Q), P) = SumOver(AmountIn(P), P)
    BY <1>1, <1>2, SumSame
  <1> QED BY <1>1, <1>3, <1>4 DEF Q

\* O the opened accounts, B the balances, F the transfers in flight.
Balanced(O, B, F) ==
    /\ O \subseteq Accounts
    /\ B \in [Accounts -> Nat]
    /\ \A a \in Accounts \ O : B[a] = 0
    /\ IsFiniteSet(F) /\ \A p \in F : p.amt \in Nat /\ p.to \in Accounts
    /\ SumOver(B, Accounts) + SumOver(AmountIn(F), F) = Mint * Cardinality(O)

\* Opening an account adds one mint to both sides.
LEMMA OpenKeepsSum ==
    ASSUME IsFiniteSet(Accounts), NEW O, NEW B, NEW F, Balanced(O, B, F),
           NEW a \in Accounts, a \notin O
    PROVE  Balanced(O \cup {a}, [B EXCEPT ![a] = Mint], F)
  <1> DEFINE C == [B EXCEPT ![a] = Mint]
             P == O \cup {a}
  <1>1. /\ O \subseteq Accounts /\ B \in [Accounts -> Nat] /\ B \in [Accounts -> Int]
        /\ B[a] = 0 /\ Mint \in Nat /\ Mint \in Int
        /\ \A x \in F : x.amt \in Nat
    BY MintAssumption DEF Balanced
  <1>2. P \subseteq Accounts /\ C \in [Accounts -> Nat] /\ \A x \in Accounts \ P : C[x] = 0
    BY <1>1 DEF Balanced
  <1>3. SumOver(C, Accounts) = SumOver(B, Accounts) - B[a] + Mint
    <2>1. /\ a \in Accounts /\ C[a] = Mint /\ \A z \in Accounts \ {a} : C[z] = B[z]
          /\ \A z \in Accounts : B[z] \in Int /\ C[z] \in Int
      BY <1>1
    <2> HIDE DEF C
    <2>2. SumOver(C, Accounts) = SumOver(B, Accounts) - B[a] + C[a]
      BY <2>1, SumUpdate
    <2> QED BY <2>1, <2>2
  <1>4. Cardinality(P) = Cardinality(O) + 1 /\ Cardinality(O) \in Nat
    <2>1. IsFiniteSet(O)
      BY <1>1, FS_Subset
    <2> QED BY <2>1, FS_AddElement, FS_CardinalityType
  <1> HIDE DEF C, P
  <1>5. SumOver(B, Accounts) \in Int /\ SumOver(AmountIn(F), F) \in Int
    <2>1. SumOver(B, Accounts) \in Int
      BY <1>1, SumType
    <2>2. \A x \in F : AmountIn(F)[x] \in Int
      BY <1>1 DEF AmountIn
    <2> QED BY <2>1, <2>2, SumType DEF Balanced
  <1>6. SumOver(C, Accounts) + SumOver(AmountIn(F), F) = Mint * Cardinality(P)
    <2> DEFINE s == SumOver(B, Accounts)
               f == SumOver(AmountIn(F), F)
               k == Cardinality(O)
    <2>1. s + f = Mint * k /\ s \in Int /\ f \in Int /\ k \in Nat
      BY <1>4, <1>5 DEF Balanced
    <2>2. SumOver(C, Accounts) = s - 0 + Mint /\ Cardinality(P) = k + 1
      BY <1>1, <1>3, <1>4
    <2> HIDE DEF s, k
    <2>3. Mint * (k + 1) = Mint * k + Mint
      BY <1>1, <2>1
    <2> QED BY <1>1, <2>1, <2>2, <2>3
  <1>7. Balanced(P, C, F)
    BY <1>2, <1>6 DEF Balanced
  <1> QED BY <1>7 DEF C, P

\* A send moves its amount from a balance into flight.
LEMMA SendKeepsSum ==
    ASSUME IsFiniteSet(Accounts), NEW O, NEW B, NEW F, Balanced(O, B, F),
           NEW a \in O, NEW p, p \notin F, p.to \in Accounts, p.amt \in Nat, p.amt <= B[a]
    PROVE  Balanced(O, [B EXCEPT ![a] = @ - p.amt], F \cup {p})
  <1> DEFINE C == [B EXCEPT ![a] = @ - p.amt]
             G == F \cup {p}
  <1>1. /\ a \in Accounts /\ B \in [Accounts -> Nat] /\ B \in [Accounts -> Int]
        /\ B[a] \in Nat /\ B[a] - p.amt \in Nat /\ B[a] - p.amt \in Int
        /\ IsFiniteSet(F) /\ \A x \in F : x.amt \in Nat
    BY DEF Balanced
  <1>2. C \in [Accounts -> Nat] /\ \A x \in Accounts \ O : C[x] = 0
    BY <1>1 DEF Balanced
  <1>3. SumOver(C, Accounts) = SumOver(B, Accounts) - B[a] + C[a] /\ C[a] = B[a] - p.amt
    <2>1. C[a] = B[a] - p.amt
      BY <1>1
    <2>2. \A z \in Accounts \ {a} : C[z] = B[z]
      BY <1>1
    <2> HIDE DEF C
    <2>3. a \in Accounts /\ \A z \in Accounts : B[z] \in Int /\ C[z] \in Int
      BY <1>1, <1>2
    <2>4. SumOver(C, Accounts) = SumOver(B, Accounts) - B[a] + C[a]
      BY <2>3, <2>2, SumUpdate
    <2> QED BY <2>1, <2>4
  <1>4. SumOver(AmountIn(G), G) = p.amt + SumOver(AmountIn(F), F)
    BY <1>1, AmountAdd
  <1>5. IsFiniteSet(G) /\ \A x \in G : x.amt \in Nat /\ x.to \in Accounts
    BY <1>1, FS_AddElement DEF Balanced
  <1> HIDE DEF C, G
  <1>6. SumOver(B, Accounts) \in Int /\ SumOver(AmountIn(F), F) \in Int
    <2>1. SumOver(B, Accounts) \in Int
      BY <1>1, SumType
    <2>2. \A x \in F : AmountIn(F)[x] \in Int
      BY <1>1 DEF AmountIn
    <2> QED BY <1>1, <2>1, <2>2, SumType
  <1>7. SumOver(C, Accounts) + SumOver(AmountIn(G), G)
          = SumOver(B, Accounts) + SumOver(AmountIn(F), F)
    BY <1>1, <1>3, <1>4, <1>6
  <1>8. Balanced(O, C, G)
    BY <1>2, <1>5, <1>7 DEF Balanced
  <1> QED BY <1>8 DEF C, G

\* A claim moves it from flight into the addressee's balance.
LEMMA ClaimKeepsSum ==
    ASSUME IsFiniteSet(Accounts), NEW O, NEW B, NEW F, Balanced(O, B, F),
           NEW p \in F, p.to \in O
    PROVE  Balanced(O, [B EXCEPT ![p.to] = @ + p.amt], F \ {p})
  <1> DEFINE a == p.to
             C == [B EXCEPT ![a] = @ + p.amt]
             G == F \ {p}
  <1>1. /\ a \in Accounts /\ B \in [Accounts -> Nat] /\ B \in [Accounts -> Int]
        /\ p.amt \in Nat /\ B[a] \in Nat /\ B[a] + p.amt \in Nat /\ B[a] + p.amt \in Int
        /\ IsFiniteSet(F) /\ \A x \in G : x.amt \in Nat
    BY DEF Balanced
  <1>2. C \in [Accounts -> Nat] /\ \A x \in Accounts \ O : C[x] = 0
    BY <1>1 DEF Balanced
  <1>3. SumOver(C, Accounts) = SumOver(B, Accounts) - B[a] + C[a] /\ C[a] = B[a] + p.amt
    <2>1. C[a] = B[a] + p.amt
      BY <1>1
    <2>2. \A z \in Accounts \ {a} : C[z] = B[z]
      BY <1>1
    <2> HIDE DEF C, a
    <2>3. a \in Accounts /\ \A z \in Accounts : B[z] \in Int /\ C[z] \in Int
      BY <1>1, <1>2
    <2>4. SumOver(C, Accounts) = SumOver(B, Accounts) - B[a] + C[a]
      BY <2>3, <2>2, SumUpdate
    <2> QED BY <2>1, <2>4
  <1>4. IsFiniteSet(G) /\ F = G \cup {p} /\ p \notin G
    BY <1>1, FS_RemoveElement
  <1>5. \A x \in G : x.amt \in Nat /\ x.to \in Accounts
    BY DEF Balanced
  <1> HIDE DEF C, G
  <1>6. SumOver(AmountIn(F), F) = p.amt + SumOver(AmountIn(G), G)
    BY <1>1, <1>4, AmountAdd
  <1>7. SumOver(B, Accounts) \in Int /\ SumOver(AmountIn(G), G) \in Int
    <2>1. SumOver(B, Accounts) \in Int
      BY <1>1, SumType
    <2>2. \A x \in G : AmountIn(G)[x] \in Int
      BY <1>1 DEF AmountIn
    <2> QED BY <1>4, <2>1, <2>2, SumType
  <1>8. SumOver(C, Accounts) + SumOver(AmountIn(G), G)
          = SumOver(B, Accounts) + SumOver(AmountIn(F), F)
    BY <1>1, <1>3, <1>6, <1>7
  <1>9. Balanced(O, C, G)
    BY <1>2, <1>4, <1>5, <1>8 DEF Balanced
  <1> QED BY <1>9 DEF C, G

PaymentsBalance == Balanced(OpenedAccounts, BalanceMap, InFlightPays)

LEMMA PaymentsBalanceInit ==
    ASSUME IsFiniteSet(Accounts), PaymentInit
    PROVE  PaymentsBalance
  <1>1. IsFiniteSet({}) /\ Cardinality({}) = 0
    BY FS_EmptySet
  <1>2. \A a \in Accounts : BalanceMap[a] = 0
    BY DEF PaymentInit
  <1>3. SumOver(BalanceMap, Accounts) = 0 /\ SumOver(AmountIn({}), {}) = 0
    BY <1>2, SumZero, SumEmpty
  <1>4. BalanceMap \in [Accounts -> Nat]
    BY DEF PaymentInit
  <1> QED
    BY <1>1, <1>2, <1>3, <1>4, MintAssumption DEF PaymentInit, PaymentsBalance, Balanced

LEMMA PaymentsBalanceStep ==
    ASSUME IsFiniteSet(Accounts), PaymentsBalance, OpenedAccounts \subseteq Accounts,
           PaymentOpens \/ PaymentSends \/ PaymentClaims \/ PaymentStutters
    PROVE  PaymentsBalance'
  <1> DEFINE O == OpenedAccounts
             B == BalanceMap
             F == InFlightPays
             N == OpenedAccounts'
             C == BalanceMap'
             G == InFlightPays'
  <1>1. Balanced(O, B, F)
    BY DEF PaymentsBalance
  <1>2. CASE PaymentOpens
    <2>1. PICK a \in Accounts : a \notin O /\ N = O \cup {a} /\ C = [B EXCEPT ![a] = Mint] /\ G = F
      BY <1>2 DEF PaymentOpens
    <2> HIDE DEF O, B, F, N, C, G
    <2>2. Balanced(N, C, G)
      BY <1>1, <2>1, OpenKeepsSum
    <2> QED BY <2>2 DEF PaymentsBalance, N, C, G
  <1>3. CASE PaymentSends
    <2>1. PICK a \in O, id \in Heights \ UsedNames, to \in Accounts :
            \E amt \in 1..B[a] :
              /\ C = [B EXCEPT ![a] = @ - amt]
              /\ G = F \cup {[id |-> id, to |-> to, amt |-> amt]} /\ N = O
      BY <1>3 DEF PaymentSends
    <2>2. PICK amt \in 1..B[a] :
              /\ C = [B EXCEPT ![a] = @ - amt]
              /\ G = F \cup {[id |-> id, to |-> to, amt |-> amt]} /\ N = O
      BY <2>1
    <2> DEFINE p == [id |-> id, to |-> to, amt |-> amt]
    <2>3. \A x \in F : x.id \in UsedNames
      BY DEF InFlightPays, Transfer, InFlight, UsedNames
    <2>4. B[a] \in Nat
      BY <1>1 DEF Balanced
    <2>5. /\ p.id = id /\ p.to \in Accounts /\ p.amt = amt
          /\ p.amt \in Nat /\ p.amt <= B[a] /\ p \notin F
      BY <2>3, <2>4
    <2>6. C = [B EXCEPT ![a] = @ - p.amt] /\ G = F \cup {p} /\ N = O
      BY <2>2
    <2> HIDE DEF O, B, F, N, C, G, p
    <2>7. Balanced(N, C, G)
      BY <1>1, <2>5, <2>6, SendKeepsSum
    <2> QED BY <2>7 DEF PaymentsBalance, N, C, G
  <1>4. CASE PaymentClaims
    <2>1. PICK p \in F : p.to \in O /\ C = [B EXCEPT ![p.to] = @ + p.amt] /\ G = F \ {p} /\ N = O
      BY <1>4 DEF PaymentClaims
    <2> HIDE DEF O, B, F, N, C, G
    <2>2. Balanced(N, C, G)
      BY <1>1, <2>1, ClaimKeepsSum
    <2> QED BY <2>2 DEF PaymentsBalance, N, C, G
  <1>5. CASE PaymentStutters
    <2>1. N = O /\ C = B /\ G = F
      BY <1>5 DEF PaymentStutters
    <2> HIDE DEF O, B, F, N, C, G
    <2> QED BY <1>1, <2>1 DEF PaymentsBalance, N, C, G
  <1> QED BY <1>2, <1>3, <1>4, <1>5

\* What the balances and the transfers in flight add up to is one mint per
\* account, for every number of accounts: money is made by openAccount alone,
\* and a claim credits what some send debited, once.
THEOREM Conservation ==
    ASSUME OneSteadyDevice, IsFiniteSet(Accounts)
    PROVE  Spec => []MoneyConserved
  <1>1. Init => PaymentsBalance
    <2>1. Init => PaymentInit
      BY DEF Init, PaymentInit, OpenedAccounts, BalanceMap, BalanceOf, SignedOf,
             InFlightPays, InFlight, UsedNames
    <2> QED BY <2>1, PaymentsBalanceInit
  <1>2. ASSUME MoneyInv, PaymentsBalance, [Next]_vars
        PROVE  PaymentsBalance'
    <2>1. PaymentOpens \/ PaymentSends \/ PaymentClaims \/ PaymentStutters
      BY <1>2, StepIsPayment
    <2>2. OpenedAccounts \subseteq Accounts
      BY <1>2 DEF PaymentsBalance, Balanced
    <2> QED BY <1>2, <2>1, <2>2, PaymentsBalanceStep
  <1>3. PaymentsBalance => MoneyConserved
    <2> SUFFICES ASSUME PaymentsBalance PROVE MoneyConserved
      OBVIOUS
    <2> DEFINE F == InFlightPays
    <2>1. IsFiniteSet(F) /\ \A p \in F : p.amt \in Int
      BY DEF PaymentsBalance, Balanced
    <2> HIDE DEF F
    <2>2. MapThenSumSet(LAMBDA p : p.amt, F) = SumOver(AmountIn(F), F)
      BY <2>1, AmountSum
    <2>3. MapThenSumSet(LAMBDA p : p.amt, InFlightPays) = SumOver(AmountIn(InFlightPays), InFlightPays)
      BY <2>2 DEF F
    <2>4. MapThenSumSet(LAMBDA a : BalanceMap[a], Accounts) = SumOver(BalanceMap, Accounts)
      BY DEF SumOver
    <2>5. MapThenSumSet(LAMBDA a : BalanceMap[a], Accounts)
            + MapThenSumSet(LAMBDA p : p.amt, InFlightPays) = Mint * Cardinality(OpenedAccounts)
      BY <2>3, <2>4 DEF PaymentsBalance, Balanced
    <2>6. /\ Money!MapThenSumSet(LAMBDA a : BalanceMap[a], Accounts)
               = MapThenSumSet(LAMBDA a : BalanceMap[a], Accounts)
          /\ Money!MapThenSumSet(LAMBDA p : p.amt, InFlightPays)
               = MapThenSumSet(LAMBDA p : p.amt, InFlightPays)
      BY DEF Money!MapThenSumSet, MapThenSumSet, Money!MapThenFoldSet, MapThenFoldSet
    <2>7. Money!Cardinality(OpenedAccounts) = Cardinality(OpenedAccounts)
      BY DEF Money!Cardinality, Cardinality
    <2> QED
      BY <2>5, <2>6, <2>7 DEF MoneyConserved, Money!Conserved, BalanceMap, BalanceOf, InFlightPays,
                              InFlight, Transfer, OpenedAccounts
  <1>4. Init => MoneyInv
    BY MoneyInvInit
  <1>5. MoneyInv /\ [Next]_vars => MoneyInv'
    BY MoneyInvStep
  <1> QED BY <1>1, <1>2, <1>3, <1>4, <1>5, PTL DEF Spec
====
