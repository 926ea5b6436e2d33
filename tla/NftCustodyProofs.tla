------------------------- MODULE NftCustodyProofs -------------------------
(***************************************************************************)
(* The custody records of every node stay tied to its chains, for any      *)
(* accounts, devices, tokens, orders of delivery and reloads.              *)
(*                                                                         *)
(* CustodyInv is inductive together with the types: an account's record    *)
(* only moves up its chain, so a chain that grows by its own account's     *)
(* next block, and a restored send that belongs to no chain, both leave    *)
(* the record at the latest word; the owner is derived anew whenever a     *)
(* record changes.                                                         *)
(***************************************************************************)
EXTENDS NftCustody, FiniteSetTheorems, WellFoundedInduction, TLAPS

\* The types of what a ledger keeps in memory.
LedgerType ==
    /\ chain \in [Nodes -> [Accounts -> Seq(Blocks)]]
    /\ all \in [Nodes -> SUBSET Blocks]
    /\ info \in [Nodes -> SUBSET Tokens]
    /\ custody \in [Nodes -> [Tokens -> [Accounts -> Records]]]
    /\ owner \in [Nodes -> [Tokens -> Accounts \cup {NoOne}]]
    /\ offered \in [Nodes -> SUBSET Sends]
    /\ claimed \in [Nodes -> SUBSET Hashes]
    /\ burned \in [Nodes -> SUBSET Tokens]
    /\ frozen \in [Nodes -> SUBSET Accounts]

\* The types of the wire and the devices.
DeviceType ==
    /\ wire \subseteq Blocks
    /\ disk \in [Nodes -> SUBSET Blocks]
    /\ toReplay \in [Nodes -> SUBSET Blocks]
    /\ restarts \in [Nodes -> Nat]

\* The type invariant is these two.
LEMMA Types == TypeOK <=> LedgerType /\ DeviceType
  BY DEF TypeOK, LedgerType, DeviceType

\* What a block's fields are.
LEMMA BlockType ==
    ASSUME NEW b \in Blocks
    PROVE  /\ b.acct \in Accounts /\ b.idx \in Nat /\ b.tag \in Tags /\ b.to \in Accounts
           /\ b.type # "open" <=> b.token \in Tokens
           /\ IsReceive(b) => b.src \in Hashes
           /\ Hash(b) \in Hashes
           /\ Holding(b) \in BOOLEAN
  BY DEF Blocks, BlockFields, Hash, Hashes, Holding, IsMint, IsReceive

\* An account's open block.
LEMMA OpenBlockType ==
    ASSUME NEW a \in Accounts
    PROVE  OpenBlock(a) \in Blocks /\ OpenBlock(a).acct = a /\ OpenBlock(a).idx = 0
           /\ OpenBlock(a).token \notin Tokens
  <1>1. <<>> \notin Tokens
    BY DEF Tokens
  <1> QED BY <1>1, CustodyAssumption DEF OpenBlock, Blocks, BlockFields, IsReceive

\* A record moves up and takes the word it is given; the others stay.
LEMMA RecordShape ==
    ASSUME NEW c \in [Accounts -> Records], NEW a \in Accounts, NEW i \in Nat, NEW h \in BOOLEAN
    PROVE  /\ Record(c, a, i, h) \in [Accounts -> Records]
           /\ \A x \in Accounts :
                 /\ c[x].idx <= Record(c, a, i, h)[x].idx
                 /\ \/ Record(c, a, i, h)[x] = c[x]
                    \/ /\ x = a
                       /\ Record(c, a, i, h)[x].idx = i
                       /\ Record(c, a, i, h)[x].holds = h
           /\ i <= Record(c, a, i, h)[a].idx
  <1> DEFINE S == {x \in Accounts : c[x].idx = -1}
  <1>1. Cardinality(S) \in Nat
    BY CustodyAssumption, FS_Subset, FS_CardinalityType
  <1> HIDE DEF S
  <1>2. \A x \in Accounts : c[x].idx \in Nat \cup {-1} /\ c[x].left \in Nat
    BY DEF Records
  <1> DEFINE r == [idx |-> i, holds |-> h, left |-> IF c[a].idx = -1 THEN Cardinality(S) ELSE c[a].left]
  <1>3. r \in Records /\ r.idx = i /\ r.holds = h
    BY <1>1, <1>2 DEF Records
  <1>4. Record(c, a, i, h) = IF c[a].idx >= i THEN c ELSE [c EXCEPT ![a] = r]
    BY DEF Record, S
  <1> HIDE DEF r
  <1>5. CASE c[a].idx >= i
    BY <1>2, <1>4, <1>5
  <1>6. CASE ~(c[a].idx >= i)
    <2>1. Record(c, a, i, h) = [c EXCEPT ![a] = r]
      BY <1>4, <1>6
    <2>2. c[a].idx <= i
      BY <1>2, <1>6
    <2> QED BY <1>2, <1>3, <2>1, <2>2
  <1> QED BY <1>5, <1>6

\* The owner is one of the holders, if there is any.
LEMMA OwnerIsHolder ==
    ASSUME NEW c \in [Accounts -> Records], NEW o
    PROVE  IF Holders(c) = {} THEN OwnerOf(c, o) = NoOne ELSE OwnerOf(c, o) \in Holders(c)
  <1>1. SUFFICES ASSUME Holders(c) # {}, o \notin Holders(c)
                 PROVE  \E a \in Holders(c) : \A x \in Holders(c) : c[a].left <= c[x].left
    BY DEF OwnerOf
  <1> DEFINE T == {c[a].left : a \in Holders(c)}
  <1>2. \A a \in Holders(c) : c[a].left \in Nat
    BY DEF Holders, Records
  <1>3. T \subseteq Nat /\ T # {}
    BY <1>1, <1>2
  <1>4. PICK m \in T : \A y \in T : <<y, m>> \notin OpToRel(<, Nat)
    BY <1>3, NatLessThanWellFounded, WFMin
  <1>5. ASSUME NEW y \in T PROVE m <= y
    <2>1. y \in Nat /\ m \in Nat
      BY <1>3
    <2>2. OpToRel(<, Nat) = {ss \in Nat \X Nat : ss[1] < ss[2]}
      BY Zenon DEF OpToRel
    <2>3. ~(y < m)
      BY <1>4, <2>1, <2>2
    <2> QED BY <2>1, <2>3
  <1>6. PICK a \in Holders(c) : c[a].left = m
    BY <1>4
  <1>7. \A x \in Holders(c) : c[x].left \in T
    OBVIOUS
  <1> QED BY <1>5, <1>6, <1>7

\* Entering a block's word into the records keeps them backed by blocks and
\* never behind, and derives an owner who holds the token.
LEMMA CustodyStep ==
    ASSUME LedgerType, CustodyInv, NEW n \in Nodes, NEW b \in Blocks, b.type # "open",
           ApplyCustody(n, b), burned' \in [Nodes -> SUBSET Tokens],
           \A k \in Nodes, t \in Tokens :
               t \in burned'[k] <=> t \in burned[k] \/ (k = n /\ t = b.token /\ IsBurn(b)),
           b \in all'[n], \A k \in Nodes : all[k] \subseteq all'[k]
    PROVE  /\ custody' \in [Nodes -> [Tokens -> [Accounts -> Records]]]
           /\ owner' \in [Nodes -> [Tokens -> Accounts \cup {NoOne}]]
           /\ WordOfABlock'
           /\ OwnerHolds'
           /\ \A k \in Nodes, t \in Tokens, a \in Accounts : custody[k][t][a].idx <= custody'[k][t][a].idx
           /\ b.idx <= custody'[n][b.token][b.acct].idx
  <1> DEFINE u   == b.token
             old == custody[n][u]
             new == Record(old, b.acct, b.idx, Holding(b))
  <1>1. u \in Tokens /\ b.acct \in Accounts /\ b.idx \in Nat /\ Holding(b) \in BOOLEAN
    BY BlockType
  <1>2. old \in [Accounts -> Records]
    BY <1>1 DEF LedgerType
  <1>3. /\ new \in [Accounts -> Records]
        /\ \A x \in Accounts :
              /\ old[x].idx <= new[x].idx
              /\ new[x] = old[x] \/ (x = b.acct /\ new[x].idx = b.idx /\ new[x].holds = Holding(b))
        /\ b.idx <= new[b.acct].idx
    <2> HIDE DEF old
    <2> QED BY <1>1, <1>2, RecordShape
  <1>4. IF Holders(new) = {} THEN OwnerOf(new, owner[n][u]) = NoOne
        ELSE OwnerOf(new, owner[n][u]) \in Holders(new)
    <2> HIDE DEF new
    <2> QED BY <1>3, OwnerIsHolder
  <1>5. custody' = [custody EXCEPT ![n][u] = new]
    BY DEF ApplyCustody
  <1> DEFINE w == IF IsBurn(b) \/ (u \in burned[n] /\ new # old) THEN NoOne
                  ELSE IF new = old THEN owner[n][u] ELSE OwnerOf(new, owner[n][u])
  <1>6. owner' = [owner EXCEPT ![n][u] = w]
    BY DEF ApplyCustody
  <1> HIDE DEF u, old, new
  <1>7. \A k \in Nodes, t \in Tokens :
           /\ custody'[k][t] = IF k = n /\ t = u THEN new ELSE custody[k][t]
           /\ owner'[k][t] = IF k = n /\ t = u THEN w ELSE owner[k][t]
    <2> HIDE DEF w
    <2> QED BY <1>1, <1>5, <1>6 DEF LedgerType
  <1>8. IF u \in burned'[n] \/ Holders(new) = {} THEN w = NoOne ELSE w \in Holders(new)
    <2>1. u \in burned'[n] <=> u \in burned[n] \/ IsBurn(b)
      BY <1>1 DEF u
    <2>2. IF u \in burned[n] \/ Holders(old) = {} THEN owner[n][u] = NoOne
          ELSE owner[n][u] \in Holders(old)
      BY <1>1 DEF CustodyInv, OwnerHolds, old, u
    <2>3. CASE IsBurn(b)
      <3>1. b.type = "nft-burn"
        BY <2>3 DEF IsBurn
      <3> QED BY <2>1, <2>3
    <2>4. CASE ~IsBurn(b) /\ new = old
      BY <2>1, <2>2, <2>4
    <2>5. CASE ~IsBurn(b) /\ new # old
      BY <1>4, <2>1, <2>5
    <2> QED BY <2>3, <2>4, <2>5
  <1>9. w \in Accounts \cup {NoOne}
    BY <1>8 DEF Holders
  <1>10. custody' \in [Nodes -> [Tokens -> [Accounts -> Records]]]
    BY <1>3, <1>5, <1>1 DEF LedgerType
  <1>11. owner' \in [Nodes -> [Tokens -> Accounts \cup {NoOne}]]
    <2> HIDE DEF w
    <2> QED BY <1>1, <1>6, <1>9 DEF LedgerType
  <1>12. WordOfABlock'
    <2> SUFFICES ASSUME NEW k \in Nodes, NEW t \in Tokens, NEW a \in Accounts
                 PROVE  LET c == custody'[k][t][a] IN
                        IF c.idx = -1 THEN ~c.holds
                        ELSE \E x \in all'[k] : x.acct = a /\ x.token = t /\ x.idx = c.idx
                                               /\ Holding(x) = c.holds
      BY DEF WordOfABlock
    <2>1. CASE custody'[k][t][a] = custody[k][t][a]
      BY <2>1 DEF CustodyInv, WordOfABlock
    <2>2. CASE custody'[k][t][a] # custody[k][t][a]
      <3>1. k = n /\ t = u
        BY <1>7, <2>2
      <3>2. custody'[k][t][a] = new[a] /\ custody[k][t][a] = old[a]
        BY <1>7, <3>1 DEF old
      <3>3. a = b.acct /\ new[a].idx = b.idx /\ new[a].holds = Holding(b)
        BY <1>3, <2>2, <3>2
      <3> QED BY <1>1, <3>1, <3>2, <3>3 DEF u
    <2> QED BY <2>1, <2>2
  <1>13. OwnerHolds'
    <2> HIDE DEF w
    <2> SUFFICES ASSUME NEW k \in Nodes, NEW t \in Tokens
                 PROVE  IF t \in burned'[k] \/ Holders(custody'[k][t]) = {} THEN owner'[k][t] = NoOne
                        ELSE owner'[k][t] \in Holders(custody'[k][t])
      BY DEF OwnerHolds, Holders
    <2>1. CASE k = n /\ t = u
      BY <1>7, <1>8, <2>1
    <2>2. CASE ~(k = n /\ t = u)
      <3>1. custody'[k][t] = custody[k][t] /\ owner'[k][t] = owner[k][t]
        BY <1>7, <2>2
      <3>2. t \in burned'[k] <=> t \in burned[k]
        BY <2>2 DEF u
      <3> QED BY <3>1, <3>2 DEF CustodyInv, OwnerHolds
    <2> QED BY <2>1, <2>2
  <1>14. \A k \in Nodes, t \in Tokens, a \in Accounts : custody[k][t][a].idx <= custody'[k][t][a].idx
    <2> SUFFICES ASSUME NEW k \in Nodes, NEW t \in Tokens, NEW a \in Accounts
                 PROVE  custody[k][t][a].idx <= custody'[k][t][a].idx
      OBVIOUS
    <2>1. custody[k][t][a].idx \in Nat \cup {-1}
      BY DEF LedgerType, Records
    <2>2. CASE k = n /\ t = u
      BY <1>3, <1>7, <2>2 DEF old
    <2>3. CASE ~(k = n /\ t = u)
      BY <1>7, <2>1, <2>3
    <2> QED BY <2>2, <2>3
  <1>15. b.idx <= custody'[n][b.token][b.acct].idx
    BY <1>1, <1>3, <1>7 DEF u
  <1> QED BY <1>10, <1>11, <1>12, <1>13, <1>14, <1>15

\* What leaves chains, records, owners and burns alone, and forgets no block,
\* keeps the invariant.
LEMMA Undisturbed ==
    ASSUME CustodyInv, UNCHANGED <<chain, custody, owner, burned>>,
           \A k \in Nodes : all[k] \subseteq all'[k]
    PROVE  CustodyInv'
  <1>1. ChainShape' /\ NeverRewound' /\ OwnerHolds'
    <2>1. ChainShape' /\ NeverRewound'
      BY DEF CustodyInv, ChainShape, NeverRewound
    <2>2. OwnerHolds'
      BY DEF CustodyInv, OwnerHolds, Holders
    <2> QED BY <2>1, <2>2
  <1>2. WordOfABlock'
    <2> SUFFICES ASSUME NEW k \in Nodes, NEW t \in Tokens, NEW a \in Accounts
                 PROVE  LET c == custody[k][t][a] IN
                        IF c.idx = -1 THEN ~c.holds
                        ELSE \E x \in all'[k] : x.acct = a /\ x.token = t /\ x.idx = c.idx
                                               /\ Holding(x) = c.holds
      BY DEF WordOfABlock
    <2> QED BY DEF CustodyInv, WordOfABlock
  <1> QED BY <1>1, <1>2 DEF CustodyInv

\* A chain that grows by the next block of its account, whose word is entered.
LEMMA GrownChain ==
    ASSUME LedgerType, CustodyInv, NEW n \in Nodes, NEW b \in Blocks,
           b.idx = Len(chain[n][b.acct]),
           chain' = [chain EXCEPT ![n][b.acct] = Append(@, b)],
           \A k \in Nodes, t \in Tokens, a \in Accounts : custody[k][t][a].idx <= custody'[k][t][a].idx,
           custody' \in [Nodes -> [Tokens -> [Accounts -> Records]]],
           b.token \in Tokens => b.idx <= custody'[n][b.token][b.acct].idx
    PROVE  chain' \in [Nodes -> [Accounts -> Seq(Blocks)]] /\ ChainShape' /\ NeverRewound'
  <1>1. b.acct \in Accounts /\ b.idx \in Nat
    BY BlockType
  <1>2. chain[n][b.acct] \in Seq(Blocks)
    BY <1>1 DEF LedgerType
  <1> DEFINE grown == Append(chain[n][b.acct], b)
  <1>3. /\ grown \in Seq(Blocks)
        /\ \A i \in 1..Len(grown) :
              (i \in 1..Len(chain[n][b.acct]) /\ grown[i] = chain[n][b.acct][i]) \/ (i = b.idx + 1 /\ grown[i] = b)
    <2> DEFINE q == chain[n][b.acct]
    <2>1. q \in Seq(Blocks) /\ b.idx = Len(q)
      BY <1>2
    <2> HIDE DEF q
    <2>2. /\ Append(q, b) \in Seq(Blocks) /\ Len(Append(q, b)) = Len(q) + 1
          /\ \A i \in 1..Len(q) : Append(q, b)[i] = q[i]
          /\ Append(q, b)[Len(q) + 1] = b
      BY <2>1
    <2>3. Len(q) \in Nat
      BY <2>1
    <2>4. \A i \in 1..(Len(q) + 1) : i \in 1..Len(q) \/ i = Len(q) + 1
      BY <2>3
    <2> QED BY <2>1, <2>2, <2>4 DEF q
  <1> HIDE DEF grown
  <1>4. chain' = [chain EXCEPT ![n][b.acct] = grown]
    BY DEF grown
  <1>5. chain' \in [Nodes -> [Accounts -> Seq(Blocks)]]
    BY <1>1, <1>3, <1>4 DEF LedgerType
  <1>6. ASSUME NEW k \in Nodes, NEW a \in Accounts, NEW i \in 1..Len(chain'[k][a])
        PROVE  \/ i \in 1..Len(chain[k][a]) /\ chain'[k][a][i] = chain[k][a][i]
               \/ k = n /\ a = b.acct /\ i = b.idx + 1 /\ chain'[k][a][i] = b
    <2>1. CASE k = n /\ a = b.acct
      <3>1. chain'[k][a] = grown
        BY <1>1, <1>4, <2>1 DEF LedgerType
      <3>2. i \in 1..Len(grown)
        BY <1>6, <3>1
      <3> QED BY <1>3, <2>1, <3>1, <3>2
    <2>2. CASE ~(k = n /\ a = b.acct)
      <3>1. chain'[k][a] = chain[k][a]
        BY <1>1, <1>4, <2>2 DEF LedgerType
      <3> QED BY <1>6, <3>1
    <2> QED BY <2>1, <2>2
  <1>7. \A k \in Nodes, t \in Tokens, a \in Accounts :
           custody[k][t][a].idx \in Int /\ custody'[k][t][a].idx \in Int
    <2>1. ASSUME NEW f \in [Nodes -> [Tokens -> [Accounts -> Records]]],
                 NEW k \in Nodes, NEW t \in Tokens, NEW a \in Accounts
          PROVE  f[k][t][a].idx \in Int
      <3>1. f[k][t][a] \in Records
        OBVIOUS
      <3> QED BY <3>1 DEF Records
    <2> QED BY <2>1 DEF LedgerType
  <1>8. ChainShape'
    <2> SUFFICES ASSUME NEW k \in Nodes, NEW a \in Accounts, NEW i \in 1..Len(chain'[k][a])
                 PROVE  chain'[k][a][i].acct = a /\ chain'[k][a][i].idx = i - 1
      BY DEF ChainShape
    <2>1. CASE i \in 1..Len(chain[k][a]) /\ chain'[k][a][i] = chain[k][a][i]
      BY <2>1 DEF CustodyInv, ChainShape
    <2>2. CASE k = n /\ a = b.acct /\ i = b.idx + 1 /\ chain'[k][a][i] = b
      BY <1>1, <2>2
    <2> QED BY <1>6, <2>1, <2>2
  <1>9. NeverRewound'
    <2> SUFFICES ASSUME NEW k \in Nodes, NEW a \in Accounts, NEW i \in 1..Len(chain'[k][a]),
                        chain'[k][a][i].token \in Tokens
                 PROVE  chain'[k][a][i].idx <= custody'[k][chain'[k][a][i].token][a].idx
      BY DEF NeverRewound
    <2>1. CASE i \in 1..Len(chain[k][a]) /\ chain'[k][a][i] = chain[k][a][i]
      <3> DEFINE x == chain[k][a][i]
      <3>1. chain[k][a] \in Seq(Blocks)
        BY DEF LedgerType
      <3>2. x \in Blocks /\ x.token \in Tokens
        BY <2>1, <3>1
      <3>3. x.idx <= custody[k][x.token][a].idx /\ x.idx \in Nat
        BY <2>1, <3>2, BlockType DEF CustodyInv, NeverRewound
      <3>4. custody[k][x.token][a].idx <= custody'[k][x.token][a].idx
        BY <3>2
      <3>5. custody[k][x.token][a].idx \in Int /\ custody'[k][x.token][a].idx \in Int
        BY <1>7, <3>2
      <3>6. x = chain'[k][a][i]
        BY <2>1
      <3> HIDE DEF x
      <3>7. x.idx <= custody'[k][x.token][a].idx
        BY <3>3, <3>4, <3>5
      <3> QED BY <3>6, <3>7
    <2>2. CASE k = n /\ a = b.acct /\ i = b.idx + 1 /\ chain'[k][a][i] = b
      BY <2>2
    <2> QED BY <1>6, <2>1, <2>2
  <1> QED BY <1>5, <1>8, <1>9

\* Adding to the sets a node keeps.
LEMMA OfferType ==
    ASSUME NEW n, NEW b \in Blocks
    PROVE  Offer(n, b) \subseteq Sends
  BY DEF Offer, Sends

\* Entering a block.
LEMMA EnterStep ==
    ASSUME LedgerType, CustodyInv, NEW n \in Nodes, NEW b \in Blocks,
           b.idx = Len(chain[n][b.acct]), Enter(n, b)
    PROVE  LedgerType' /\ CustodyInv'
  <1>1. b.acct \in Accounts /\ (b.type # "open" => b.token \in Tokens) /\ (IsReceive(b) => b.src \in Hashes)
    BY BlockType
  <1>2. all' = [all EXCEPT ![n] = @ \cup {b}]
    BY DEF Enter
  <1>3. all' \in [Nodes -> SUBSET Blocks] /\ b \in all'[n] /\ \A k \in Nodes : all[k] \subseteq all'[k]
    BY <1>2 DEF LedgerType
  <1>4. info' \in [Nodes -> SUBSET Tokens]
    <2>1. IsMint(b) => b.token \in Tokens
      BY <1>1 DEF IsMint
    <2>2. info' = [info EXCEPT ![n] = IF IsMint(b) THEN @ \cup {b.token} ELSE @]
      BY DEF Enter
    <2> QED BY <2>1, <2>2 DEF LedgerType
  <1>5. claimed' \in [Nodes -> SUBSET Hashes]
    <2>1. claimed' = [claimed EXCEPT ![n] = IF IsReceive(b) THEN @ \cup {b.src} ELSE @]
      BY DEF Enter
    <2> QED BY <1>1, <2>1 DEF LedgerType
  <1>6. offered' \in [Nodes -> SUBSET Sends]
    <2>1. offered' = [offered EXCEPT ![n] =
                        {x \in @ : ~(IsReceive(b) /\ Hash(x) = b.src)} \cup Offer(n, b)]
      BY DEF Enter
    <2> QED BY <2>1, OfferType DEF LedgerType
  <1>7. /\ burned' \in [Nodes -> SUBSET Tokens]
        /\ \A k \in Nodes, t \in Tokens :
              t \in burned'[k] <=> t \in burned[k] \/ (k = n /\ t = b.token /\ IsBurn(b))
    <2>1. IsBurn(b) => b.token \in Tokens
      BY <1>1 DEF IsBurn
    <2>2. burned' = [burned EXCEPT ![n] = IF IsBurn(b) THEN @ \cup {b.token} ELSE @]
      BY DEF Enter
    <2> QED BY <2>1, <2>2 DEF LedgerType
  <1>8. frozen' \in [Nodes -> SUBSET Accounts]
    BY DEF Enter, LedgerType
  <1>9. chain' = [chain EXCEPT ![n][b.acct] = Append(@, b)]
    BY DEF Enter
  <1>10. CASE b.type # "open"
    <2>1. ApplyCustody(n, b)
      BY <1>10 DEF Enter
    <2>2. /\ custody' \in [Nodes -> [Tokens -> [Accounts -> Records]]]
          /\ owner' \in [Nodes -> [Tokens -> Accounts \cup {NoOne}]]
          /\ WordOfABlock' /\ OwnerHolds'
          /\ \A k \in Nodes, t \in Tokens, a \in Accounts : custody[k][t][a].idx <= custody'[k][t][a].idx
          /\ b.idx <= custody'[n][b.token][b.acct].idx
      BY <1>3, <1>7, <1>10, <2>1, CustodyStep
    <2>3. chain' \in [Nodes -> [Accounts -> Seq(Blocks)]] /\ ChainShape' /\ NeverRewound'
      BY <1>9, <2>2, GrownChain
    <2> QED BY <1>3, <1>4, <1>5, <1>6, <1>7, <1>8, <2>2, <2>3 DEF LedgerType, CustodyInv
  <1>11. CASE b.type = "open"
    <2>1. custody' = custody /\ owner' = owner
      BY <1>11 DEF Enter
    <2>2. burned' = burned
      BY <1>11 DEF Enter, IsBurn, LedgerType
    <2>3. \A k \in Nodes, t \in Tokens, a \in Accounts : custody[k][t][a].idx <= custody'[k][t][a].idx
      <3>1. \A k \in Nodes, t \in Tokens, a \in Accounts : custody[k][t][a] \in Records
        BY DEF LedgerType
      <3>2. \A k \in Nodes, t \in Tokens, a \in Accounts : custody[k][t][a].idx \in Int
        BY <3>1 DEF Records
      <3> QED BY <2>1, <3>2
    <2>4. b.token \notin Tokens
      BY <1>11, BlockType
    <2>5. chain' \in [Nodes -> [Accounts -> Seq(Blocks)]] /\ ChainShape' /\ NeverRewound'
      BY <1>9, <2>1, <2>3, <2>4, GrownChain DEF LedgerType
    <2>6. WordOfABlock' /\ OwnerHolds'
      <3>1. OwnerHolds'
        BY <2>1, <2>2 DEF CustodyInv, OwnerHolds
      <3>2. ASSUME NEW k \in Nodes, NEW t \in Tokens, NEW a \in Accounts
            PROVE  LET c == custody[k][t][a] IN
                   IF c.idx = -1 THEN ~c.holds
                   ELSE \E x \in all'[k] : x.acct = a /\ x.token = t /\ x.idx = c.idx
                                          /\ Holding(x) = c.holds
        BY <1>3 DEF CustodyInv, WordOfABlock
      <3> QED BY <2>1, <3>1, <3>2 DEF WordOfABlock
    <2> QED BY <1>3, <1>4, <1>5, <1>6, <1>7, <1>8, <2>1, <2>5, <2>6 DEF LedgerType, CustodyInv
  <1> QED BY <1>10, <1>11

\* A retained sibling.
LEMMA RetainStep ==
    ASSUME LedgerType, NEW n \in Nodes, NEW b \in Blocks, NEW stay \in SUBSET Sends, Retain(n, b, stay)
    PROVE  /\ all' \in [Nodes -> SUBSET Blocks] /\ b \in all'[n] /\ \A k \in Nodes : all[k] \subseteq all'[k]
           /\ frozen' \in [Nodes -> SUBSET Accounts]
           /\ offered' \in [Nodes -> SUBSET Sends]
  <1>1. b.acct \in Accounts
    BY BlockType
  <1>2. all' = [all EXCEPT ![n] = @ \cup {b}]
    BY DEF Retain
  <1> DEFINE fork == DoubleSpend(chain[n][b.acct][b.idx + 1], b)
  <1>3. frozen' = [frozen EXCEPT ![n] = IF fork THEN @ \cup {b.acct} ELSE @]
    BY DEF Retain
  <1>4. offered' = [offered EXCEPT ![n] = (IF fork THEN AfterFreeze(n, b.acct) ELSE @) \cup stay]
    BY DEF Retain
  <1> HIDE DEF fork
  <1>5. AfterFreeze(n, b.acct) \subseteq Sends
    BY DEF AfterFreeze, LedgerType
  <1>6. all' \in [Nodes -> SUBSET Blocks] /\ b \in all'[n] /\ \A k \in Nodes : all[k] \subseteq all'[k]
    BY <1>2 DEF LedgerType
  <1>7. frozen' \in [Nodes -> SUBSET Accounts]
    BY <1>1, <1>3 DEF LedgerType
  <1>8. offered' \in [Nodes -> SUBSET Sends]
    BY <1>4, <1>5 DEF LedgerType
  <1> QED BY <1>6, <1>7, <1>8

\* addBlock keeps types and custody.
LEMMA AddBlockStep ==
    ASSUME LedgerType, CustodyInv, NEW n \in Nodes, NEW b \in Blocks, AddBlock(n, b)
    PROVE  LedgerType' /\ CustodyInv'
  <1>1. CASE Extends(n, b) /\ Enter(n, b)
    BY <1>1, EnterStep DEF Extends
  <1>2. CASE Retain(n, b, {}) /\ UNCHANGED <<chain, info, custody, owner, claimed, burned>>
    <2>1. /\ all' \in [Nodes -> SUBSET Blocks] /\ \A k \in Nodes : all[k] \subseteq all'[k]
          /\ frozen' \in [Nodes -> SUBSET Accounts]
          /\ offered' \in [Nodes -> SUBSET Sends]
      BY <1>2, RetainStep
    <2>2. LedgerType'
      BY <1>2, <2>1 DEF LedgerType
    <2> QED BY <1>2, <2>1, <2>2, Undisturbed
  <1>3. CASE UNCHANGED ledger
    <2>1. LedgerType'
      BY <1>3 DEF ledger, tokens, LedgerType
    <2> QED BY <1>3, <2>1, Undisturbed DEF ledger, tokens
  <1> QED BY <1>1, <1>2, <1>3 DEF AddBlock

\* restoreVerifiedBlock keeps types and custody: a restored send is retained,
\* so its word is a block's.
LEMMA RestoreStep ==
    ASSUME LedgerType, CustodyInv, NEW n \in Nodes, NEW b \in Blocks, Restore(n, b)
    PROVE  LedgerType' /\ CustodyInv'
  <1>1. chain' = chain /\ claimed' = claimed /\ burned' = burned
    BY DEF Restore
  <1>2. b.type # "open" <=> b.token \in Tokens
    BY BlockType
  <1>3. info' \in [Nodes -> SUBSET Tokens]
    <2>1. IsMint(b) => b.token \in Tokens
      BY <1>2 DEF IsMint
    <2>2. info' = [info EXCEPT ![n] = IF IsMint(b) /\ Reseats(n, b) THEN @ \cup {b.token} ELSE @]
      BY DEF Restore
    <2> QED BY <2>1, <2>2 DEF LedgerType
  <1>4. /\ all' \in [Nodes -> SUBSET Blocks] /\ \A k \in Nodes : all[k] \subseteq all'[k]
        /\ Reseats(n, b) => b \in all'[n]
        /\ frozen' \in [Nodes -> SUBSET Accounts]
        /\ offered' \in [Nodes -> SUBSET Sends]
    <2> DEFINE stay == IF Reseats(n, b) THEN Offer(n, b) ELSE {}
    <2>1. stay \in SUBSET Sends
      BY OfferType
    <2>2. CASE Conflicts(n, b)
      <3>1. Retain(n, b, stay)
        BY <2>2 DEF Restore
      <3> HIDE DEF stay
      <3> QED BY <2>1, <3>1, RetainStep
    <2>3. CASE ~Conflicts(n, b)
      <3>1. /\ all' = [all EXCEPT ![n] = IF Reseats(n, b) THEN @ \cup {b} ELSE @]
            /\ offered' = [offered EXCEPT ![n] = IF Reseats(n, b) THEN @ \cup Offer(n, b) ELSE @]
            /\ frozen' = frozen
        BY <2>3 DEF Restore
      <3> QED BY <3>1, OfferType DEF LedgerType
    <2> QED BY <2>2, <2>3
  <1>5. CASE IsSend(b)
    <2>1. Reseats(n, b) /\ ApplyCustody(n, b) /\ ~IsBurn(b) /\ b.type # "open"
      BY <1>5 DEF Restore, Reseats, IsSend, IsBurn
    <2>2. /\ custody' \in [Nodes -> [Tokens -> [Accounts -> Records]]]
          /\ owner' \in [Nodes -> [Tokens -> Accounts \cup {NoOne}]]
          /\ WordOfABlock' /\ OwnerHolds'
          /\ \A k \in Nodes, t \in Tokens, a \in Accounts : custody[k][t][a].idx <= custody'[k][t][a].idx
      <3>1. burned' \in [Nodes -> SUBSET Tokens]
        BY <1>1 DEF LedgerType
      <3> QED BY <1>1, <1>4, <2>1, <3>1, CustodyStep
    <2>3. ChainShape'
      BY <1>1 DEF CustodyInv, ChainShape
    <2>4. NeverRewound'
      <3> SUFFICES ASSUME NEW k \in Nodes, NEW a \in Accounts, NEW i \in 1..Len(chain[k][a]),
                          chain[k][a][i].token \in Tokens
                   PROVE  chain[k][a][i].idx <= custody'[k][chain[k][a][i].token][a].idx
        BY <1>1 DEF NeverRewound
      <3> DEFINE x == chain[k][a][i]
      <3>1. chain[k][a] \in Seq(Blocks)
        BY DEF LedgerType
      <3>2. x \in Blocks /\ x.token \in Tokens
        BY <3>1
      <3>3. x.idx <= custody[k][x.token][a].idx
        BY <3>2 DEF CustodyInv, NeverRewound
      <3> HIDE DEF x
      <3>4. x.idx \in Nat
        BY <3>2, BlockType
      <3>5. custody[k][x.token][a] \in Records /\ custody'[k][x.token][a] \in Records
        BY <2>2, <3>2 DEF LedgerType
      <3>6. custody[k][x.token][a].idx <= custody'[k][x.token][a].idx
        BY <2>2, <3>2
      <3>7. x.idx <= custody'[k][x.token][a].idx
        BY <3>3, <3>4, <3>5, <3>6 DEF Records
      <3> QED BY <3>7 DEF x
    <2>5. LedgerType'
      BY <1>1, <1>3, <1>4, <2>2 DEF LedgerType
    <2> QED BY <2>2, <2>3, <2>4, <2>5 DEF CustodyInv
  <1>6. CASE ~IsSend(b)
    <2>1. custody' = custody /\ owner' = owner
      BY <1>6 DEF Restore
    <2>2. LedgerType'
      BY <1>1, <1>3, <1>4, <2>1 DEF LedgerType
    <2> QED BY <1>1, <1>4, <2>1, <2>2, Undisturbed
  <1> QED BY <1>5, <1>6

\* A block signed by its owner.
LEMMA SignStep ==
    ASSUME LedgerType, DeviceType, CustodyInv, NEW a \in Accounts, chain[Home[a]][a] # <<>>,
           NEW type \in {"nft-mint", "nft-send", "nft-receive", "nft-burn"},
           NEW token, NEW to \in Accounts, NEW src,
           Len(chain[Home[a]][a]) <= LastIndex[a] => token \in Tokens,
           src \in Hashes \cup {<<>>}, type = "nft-receive" => src \in Hashes,
           Sign(a, type, token, to, src)
    PROVE  LedgerType' /\ DeviceType' /\ CustodyInv'
  <1> DEFINE n == Home[a]
             q == chain[n][a]
  <1>1. n \in Nodes
    BY CustodyAssumption
  <1>2. q \in Seq(Blocks) /\ q # <<>>
    BY <1>1 DEF LedgerType
  <1>3. q[Len(q)] \in Blocks /\ Len(q) \in Nat
    BY <1>2
  <1>4. Hash(q[Len(q)]) \in Hashes
    <2> HIDE DEF q
    <2> QED BY <1>3, BlockType
  <1> DEFINE blk(t) == [acct |-> a, idx |-> Len(q), tag |-> t, prev |-> Hash(q[Len(q)]),
                        type |-> type, token |-> token, to |-> to, src |-> src]
  <1>5. PICK t \in Tags : /\ Len(q) <= LastIndex[a]
                          /\ wire' = wire \cup {blk(t)}
                          /\ Enter(n, blk(t))
                          /\ Persist(n, {blk(t)})
                          /\ UNCHANGED <<toReplay, restarts>>
    BY DEF Sign, HeadOf
  <1> DEFINE b == blk(t)
  <1>6. b \in Blocks /\ b.idx = Len(chain[n][b.acct])
    <2>1. token \in Tokens
      BY <1>5
    <2> HIDE DEF q, n
    <2>2. b \in BlockFields
      BY <1>3, <1>4, <2>1 DEF BlockFields
    <2>3. (b.type # "open" <=> b.token \in Tokens) /\ (IsReceive(b) => b.src \in Hashes)
      BY <2>1 DEF IsReceive
    <2> QED BY <2>2, <2>3 DEF Blocks, q
  <1> HIDE DEF b, n
  <1>7. Enter(n, b)
    BY <1>5 DEF b
  <1>8. LedgerType' /\ CustodyInv'
    BY <1>1, <1>6, <1>7, EnterStep
  <1>9. wire' = wire \cup {b} /\ disk' = [disk EXCEPT ![n] = @ \cup {b}] /\ UNCHANGED <<toReplay, restarts>>
    BY <1>5 DEF b, Persist
  <1>10. DeviceType'
    BY <1>1, <1>6, <1>9 DEF DeviceType
  <1> QED BY <1>8, <1>10

\* A reload forgets one node's ledger and keeps the others.
LEMMA RestartStep ==
    ASSUME LedgerType, DeviceType, CustodyInv, NEW n \in Nodes, Restart(n)
    PROVE  LedgerType' /\ DeviceType' /\ CustodyInv'
  <1> DEFINE none == [t \in Tokens |-> [a \in Accounts |-> NoRecord]]
  <1>1. NoRecord \in Records /\ NoRecord.idx = -1 /\ ~NoRecord.holds
    BY DEF NoRecord, Records
  <1>2. none \in [Tokens -> [Accounts -> Records]] /\ \A t \in Tokens, a \in Accounts : none[t][a] = NoRecord
    BY <1>1
  <1>3. custody' = [custody EXCEPT ![n] = none]
    BY DEF Restart
  <1> HIDE DEF none
  <1>4. custody' \in [Nodes -> [Tokens -> [Accounts -> Records]]]
    BY <1>2, <1>3 DEF LedgerType
  <1>5. [a \in Accounts |-> <<>>] \in [Accounts -> Seq(Blocks)]
    OBVIOUS
  <1>6. chain' \in [Nodes -> [Accounts -> Seq(Blocks)]]
    BY <1>5 DEF Restart, LedgerType
  <1>7. LedgerType'
    BY <1>4, <1>6 DEF Restart, LedgerType
  <1>8. DeviceType'
    BY DEF Restart, DeviceType
  <1>9. \A k \in Nodes : k # n =>
           /\ chain'[k] = chain[k] /\ all'[k] = all[k] /\ custody'[k] = custody[k]
           /\ owner'[k] = owner[k] /\ burned'[k] = burned[k]
    BY DEF Restart, LedgerType
  <1>10. /\ \A a \in Accounts : chain'[n][a] = <<>>
         /\ custody'[n] = none
         /\ \A t \in Tokens : owner'[n][t] = NoOne
    BY <1>3 DEF Restart, LedgerType
  <1>11. ChainShape'
    BY <1>9, <1>10 DEF CustodyInv, ChainShape
  <1>12. NeverRewound'
    <2> SUFFICES ASSUME NEW k \in Nodes, NEW a \in Accounts, NEW i \in 1..Len(chain'[k][a])
                 PROVE  chain'[k][a][i].token \in Tokens =>
                          chain'[k][a][i].idx <= custody'[k][chain'[k][a][i].token][a].idx
      BY DEF NeverRewound
    <2>1. k # n
      BY <1>10
    <2>2. chain'[k] = chain[k] /\ custody'[k] = custody[k]
      BY <1>9, <2>1
    <2> QED BY <2>2 DEF CustodyInv, NeverRewound
  <1>13. WordOfABlock'
    BY <1>1, <1>2, <1>9, <1>10 DEF CustodyInv, WordOfABlock
  <1>14. OwnerHolds'
    <2>1. \A t \in Tokens : Holders(none[t]) = {}
      BY <1>1, <1>2 DEF Holders
    <2> SUFFICES ASSUME NEW k \in Nodes, NEW t \in Tokens
                 PROVE  IF t \in burned'[k] \/ Holders(custody'[k][t]) = {}
                        THEN owner'[k][t] = NoOne ELSE owner'[k][t] \in Holders(custody'[k][t])
      BY DEF OwnerHolds, Holders
    <2>2. CASE k = n
      BY <1>10, <2>1, <2>2
    <2>3. CASE k # n
      BY <1>9, <2>3 DEF CustodyInv, OwnerHolds
    <2> QED BY <2>2, <2>3
  <1> QED BY <1>7, <1>8, <1>11, <1>12, <1>13, <1>14 DEF CustodyInv

\* Every step of Next keeps types and custody.
LEMMA NextKeeps ==
    ASSUME LedgerType, DeviceType, CustodyInv, [Next]_vars
    PROVE  LedgerType' /\ DeviceType' /\ CustodyInv'
  <1>1. ASSUME NEW a \in Accounts, CreateMintNft(a)
        PROVE  LedgerType' /\ DeviceType' /\ CustodyInv'
    <2>1. Home[a] \in Nodes
      BY CustodyAssumption
    <2>2. chain[Home[a]][a] # <<>> /\ chain[Home[a]][a] \in Seq(Blocks)
      BY <1>1, <2>1 DEF CreateMintNft, May, LedgerType
    <2>3. Len(chain[Home[a]][a]) \in Nat \ {0}
      BY <2>2
    <2>4. Len(chain[Home[a]][a]) <= LastIndex[a] => <<a, Len(chain[Home[a]][a])>> \in Tokens
      <3> DEFINE l == Len(chain[Home[a]][a])
      <3>1. a \in Minters /\ LastIndex[a] \in Nat
        BY <1>1, CustodyAssumption DEF CreateMintNft
      <3>2. l \in Nat \ {0}
        BY <2>3
      <3> HIDE DEF l
      <3>3. l <= LastIndex[a] => l \in 1..LastIndex[a]
        BY <3>1, <3>2
      <3>4. l <= LastIndex[a] => <<a, l>> \in Tokens
        BY <3>1, <3>3 DEF Tokens
      <3> QED BY <3>4 DEF l
    <2> QED BY <1>1, <2>2, <2>4, SignStep DEF CreateMintNft
  <1>2. ASSUME NEW a \in Accounts, NEW t \in Tokens, NEW to \in Accounts, CreateTransferNft(a, t, to)
        PROVE  LedgerType' /\ DeviceType' /\ CustodyInv'
    BY <1>2, SignStep DEF CreateTransferNft, May
  <1>3. ASSUME NEW a \in Accounts, NEW s \in offered[Home[a]], CreateReceiveNft(a, s)
        PROVE  LedgerType' /\ DeviceType' /\ CustodyInv'
    <2>1. Home[a] \in Nodes
      BY CustodyAssumption
    <2>2. s \in Blocks /\ IsSend(s)
      BY <2>1 DEF LedgerType, Sends
    <2>3. s.token \in Tokens /\ Hash(s) \in Hashes
      BY <2>2, BlockType DEF IsSend
    <2> QED BY <1>3, <2>3, SignStep DEF CreateReceiveNft, May
  <1>4. ASSUME NEW a \in Accounts, NEW t \in Tokens, CreateBurnNft(a, t)
        PROVE  LedgerType' /\ DeviceType' /\ CustodyInv'
    BY <1>4, SignStep DEF CreateBurnNft, May
  <1>5. ASSUME NEW n \in Nodes, NEW b \in wire, Deliver(n, b)
        PROVE  LedgerType' /\ DeviceType' /\ CustodyInv'
    <2>1. b \in Blocks
      BY DEF DeviceType
    <2>2. LedgerType' /\ CustodyInv'
      BY <1>5, <2>1, AddBlockStep DEF Deliver
    <2>3. DeviceType'
      BY <1>5, <2>1 DEF Deliver, Persist, DeviceType
    <2> QED BY <2>2, <2>3
  <1>6. ASSUME NEW n \in Nodes, NEW s \in wire, NEW mint \in wire, RegisterMint(n, s, mint)
        PROVE  LedgerType' /\ DeviceType' /\ CustodyInv'
    <2>1. mint \in Blocks /\ IsMint(mint)
      BY <1>6 DEF DeviceType, RegisterMint
    <2>2. mint.token \in Tokens
      BY <2>1, BlockType DEF IsMint
    <2>3. LedgerType'
      BY <1>6, <2>1, <2>2 DEF RegisterMint, LedgerType
    <2>4. CustodyInv'
      <3>1. \A k \in Nodes : all[k] \subseteq all'[k]
        BY <1>6 DEF RegisterMint, LedgerType
      <3> QED BY <1>6, <3>1, Undisturbed DEF RegisterMint
    <2>5. DeviceType'
      BY <1>6, <2>1 DEF RegisterMint, Persist, DeviceType
    <2> QED BY <2>3, <2>4, <2>5
  <1>7. ASSUME NEW n \in Nodes, NEW s \in wire, RegisterSend(n, s)
        PROVE  LedgerType' /\ DeviceType' /\ CustodyInv'
    <2>1. s \in Blocks
      BY DEF DeviceType
    <2>2. LedgerType'
      BY <1>7, <2>1 DEF RegisterSend, Wanted, LedgerType, Sends
    <2>3. CustodyInv'
      <3>1. \A k \in Nodes : all[k] \subseteq all'[k]
        BY <1>7 DEF RegisterSend, LedgerType
      <3> QED BY <1>7, <3>1, Undisturbed DEF RegisterSend
    <2>4. DeviceType'
      BY <1>7, <2>1 DEF RegisterSend, Persist, DeviceType
    <2> QED BY <2>2, <2>3, <2>4
  <1>8. ASSUME NEW n \in Nodes, NEW x \in wire, NEW y \in wire, DeliverEvidence(n, x, y)
        PROVE  LedgerType' /\ DeviceType' /\ CustodyInv'
    <2>1. x.acct \in Accounts
      BY BlockType DEF DeviceType
    <2>2. AfterFreeze(n, x.acct) \subseteq Sends
      BY DEF AfterFreeze, LedgerType
    <2>3. LedgerType'
      BY <1>8, <2>1, <2>2 DEF DeliverEvidence, LedgerType
    <2>4. CustodyInv'
      BY <1>8, Undisturbed DEF DeliverEvidence
    <2>5. DeviceType'
      BY <1>8 DEF DeliverEvidence, device, DeviceType
    <2> QED BY <2>3, <2>4, <2>5
  <1>9. ASSUME NEW n \in Nodes, Restart(n)
        PROVE  LedgerType' /\ DeviceType' /\ CustodyInv'
    BY <1>9, RestartStep
  <1>10. ASSUME NEW n \in Nodes, NEW b \in toReplay[n], Replay(n, b)
        PROVE  LedgerType' /\ DeviceType' /\ CustodyInv'
    <2>1. b \in Blocks
      BY DEF DeviceType
    <2>2. DeviceType'
      BY <1>10 DEF Replay, DeviceType
    <2>3. CASE Extends(n, b) /\ Enter(n, b)
      BY <2>1, <2>2, <2>3, EnterStep DEF Extends
    <2>4. CASE UNCHANGED ledger
      <3>1. LedgerType'
        BY <2>4 DEF ledger, tokens, LedgerType
      <3> QED BY <2>2, <2>4, <3>1, Undisturbed DEF ledger, tokens
    <2>5. CASE Restore(n, b)
      BY <2>1, <2>2, <2>5, RestoreStep
    <2> QED BY <1>10, <2>3, <2>4, <2>5 DEF Replay
  <1>11. CASE UNCHANGED vars
    <2>1. LedgerType' /\ DeviceType'
      BY <1>11 DEF vars, ledger, tokens, device, LedgerType, DeviceType
    <2> QED BY <1>11, <2>1, Undisturbed DEF vars, ledger, tokens
  <1> QED BY <1>1, <1>2, <1>3, <1>4, <1>5, <1>6, <1>7, <1>8, <1>9, <1>10, <1>11
          DEF Next, OwnerStep, NodeStep

\* Initially a node has open blocks and no token.
LEMMA InitKeeps ==
    ASSUME Init
    PROVE  LedgerType /\ DeviceType /\ CustodyInv
  <1> DEFINE c0 == [t \in Tokens |-> [a \in Accounts |-> NoRecord]]
  <1>1. NoRecord \in Records /\ NoRecord.idx = -1 /\ ~NoRecord.holds
    BY DEF NoRecord, Records
  <1>2. custody \in [Nodes -> [Tokens -> [Accounts -> Records]]]
        /\ \A k \in Nodes, t \in Tokens, a \in Accounts : custody[k][t][a] = NoRecord
    BY <1>1 DEF Init
  <1>3. ASSUME NEW k \in Nodes, NEW a \in Accounts
        PROVE  chain[k][a] = (IF a \in Follows[k] THEN <<OpenBlock(a)>> ELSE <<>>)
    BY DEF Init
  <1>4. ASSUME NEW k \in Nodes, NEW a \in Accounts
        PROVE  /\ chain[k][a] \in Seq(Blocks)
               /\ \A i \in 1..Len(chain[k][a]) : i = 1 /\ chain[k][a][i] = OpenBlock(a)
    <2>1. CASE a \in Follows[k]
      <3> DEFINE o == OpenBlock(a)
      <3>1. o \in Blocks
        BY OpenBlockType
      <3>2. chain[k][a] = <<o>>
        BY <1>3, <2>1
      <3> HIDE DEF o
      <3>3. <<o>> \in Seq(Blocks) /\ Len(<<o>>) = 1 /\ <<o>>[1] = o
        BY <3>1
      <3> QED BY <3>2, <3>3 DEF o
    <2>2. CASE a \notin Follows[k]
      <3>1. chain[k][a] = <<>>
        BY <1>3, <2>2
      <3>2. <<>> \in Seq(Blocks) /\ Len(<<>>) = 0
        OBVIOUS
      <3> QED BY <3>1, <3>2
    <2> QED BY <2>1, <2>2
  <1>5. chain \in [Nodes -> [Accounts -> Seq(Blocks)]]
    <2>1. \A k \in Nodes, a \in Accounts : (IF a \in Follows[k] THEN <<OpenBlock(a)>> ELSE <<>>) \in Seq(Blocks)
      BY OpenBlockType
    <2> QED BY <2>1 DEF Init
  <1>6. \A k \in Nodes : {OpenBlock(a) : a \in Follows[k]} \subseteq Blocks
    BY OpenBlockType, CustodyAssumption
  <1>7. LedgerType
    BY <1>2, <1>5, <1>6 DEF Init, LedgerType
  <1>8. DeviceType
    BY <1>6 DEF Init, DeviceType
  <1>9. ChainShape /\ NeverRewound
    BY <1>4, OpenBlockType DEF ChainShape, NeverRewound
  <1>10. WordOfABlock
    BY <1>1, <1>2 DEF WordOfABlock
  <1>11. OwnerHolds
    <2>1. \A k \in Nodes, t \in Tokens : owner[k][t] = NoOne
      BY DEF Init
    <2>2. \A k \in Nodes, t \in Tokens : Holders(custody[k][t]) = {}
      BY <1>1, <1>2 DEF Holders
    <2> QED BY <2>1, <2>2 DEF OwnerHolds
  <1> QED BY <1>7, <1>8, <1>9, <1>10, <1>11 DEF CustodyInv

\* Every variable of the NFT system keeps its type.
THEOREM CustodyTypeCorrect == Spec => []TypeOK
  <1>1. Init => LedgerType /\ DeviceType /\ CustodyInv
    BY InitKeeps
  <1>2. LedgerType /\ DeviceType /\ CustodyInv /\ [Next]_vars => (LedgerType /\ DeviceType /\ CustodyInv)'
    BY NextKeeps
  <1>3. LedgerType /\ DeviceType => TypeOK
    BY Types
  <1> QED BY <1>1, <1>2, <1>3, PTL DEF Spec

\* On every node the custody records are never behind its chains, say only
\* what some block said, and name an owner exactly when an account holds the
\* token by them, whatever order blocks, proofs, evidence and replays come in
\* (recordNftCustody, recomputeNftOwner, restoreVerifiedBlock).
THEOREM CustodySound == Spec => []CustodyInv
  <1>1. Init => LedgerType /\ DeviceType /\ CustodyInv
    BY InitKeeps
  <1>2. LedgerType /\ DeviceType /\ CustodyInv /\ [Next]_vars => (LedgerType /\ DeviceType /\ CustodyInv)'
    BY NextKeeps
  <1> QED BY <1>1, <1>2, PTL DEF Spec

----------------------------------------------------------------------------
(***************************************************************************)
(* A token is in one place, for any accounts, devices, tokens, forks,      *)
(* orders of delivery and reloads.                                         *)
(*                                                                         *)
(* The argument is about lines: sets of published blocks that have at most *)
(* one block at each height of an account and the predecessor of each of   *)
(* their blocks.  A chain of a node is a line, and so is the whole wire as *)
(* long as nobody forks.  What a device signs extends its own chain, and   *)
(* with it every line the new block can be in; so each line that has the   *)
(* source of its receives has one last place of every token.               *)
(***************************************************************************)

Opens == {OpenBlock(a) : a \in Accounts}
Known == wire \cup Opens

Precedes(p, x) == p.acct = x.acct /\ p.idx = x.idx - 1 /\ Hash(p) = x.prev

\* One block at each height, and the predecessors.
Line(S) ==
    /\ \A x, y \in S : x.acct = y.acct /\ x.idx = y.idx => x = y
    /\ \A x \in S : x.idx > 1 => \E p \in S : Precedes(p, x)

\* The transfers of t received in S are in S.
HasSources(S, t) ==
    \A r \in S : IsReceive(r) /\ r.token = t => \E s \in S : Hash(s) = r.src

\* The last places of t that S tells of.
LastHolding(S, t, b) ==
    Holding(b) /\ \A x \in S : x.acct = b.acct /\ x.token = t => x.idx <= b.idx
InTransfer(S, b) == IsSend(b) /\ \A r \in S : r.src # Hash(b)
Tips(S, t) == {b \in S : b.token = t /\ (LastHolding(S, t, b) \/ InTransfer(S, b))}

OneTip(S, t) == \A x, y \in Tips(S, t) : x = y

\* A token that is spoken of has been minted by the account it names, at the
\* height it names.
Minted(S, t) ==
    (\E x \in S : x.token = t) => \E m \in S : IsMint(m) /\ m.token = t

OneReceive(S) == \A x, y \in S : IsReceive(x) /\ IsReceive(y) /\ x.src = y.src => x = y

LineSound(S) ==
    /\ OneReceive(S)
    /\ \A t \in Tokens : HasSources(S, t) => OneTip(S, t) /\ Minted(S, t)

\* Every line of published blocks is sound.
LinesSound == \A S \in SUBSET wire : Line(S) => LineSound(S)

\* What is published: a block of a device, whose hash nobody else's has, on
\* top of a published one, a mint that names its token, a receive of a
\* transfer to its account.
WireShape ==
    /\ \A b \in wire : b.idx > 0 /\ b.type # "open" /\ b.prev \in Hashes
    /\ \A x, y \in wire : Hash(x) = Hash(y) => x = y
    /\ \A b \in wire : \E p \in Known : Precedes(p, b)
    /\ \A b \in wire : IsMint(b) => b.token = <<b.acct, b.idx>>
    /\ \A b \in wire : ~IsReceive(b) => b.src = <<>>
    /\ \A r \in wire : IsReceive(r) =>
          \E s \in wire : IsSend(s) /\ Hash(s) = r.src /\ s.to = r.acct /\ s.token = r.token

\* A node has what was published, and the open blocks.
DiskKnows == \A n \in Nodes : disk[n] \subseteq Known /\ toReplay[n] \subseteq Known
NodeKnows ==
    \A n \in Nodes :
        /\ all[n] \subseteq Known
        /\ offered[n] \subseteq wire
        /\ \A a \in Accounts : \A i \in 1..Len(chain[n][a]) : chain[n][a][i] \in Known

\* Each block of a chain names the one before it.
ChainLinked ==
    \A n \in Nodes, a \in Accounts : \A i \in 1..Len(chain[n][a]) :
        i > 1 => chain[n][a][i].prev = Hash(chain[n][a][i - 1])

\* What a chain receives is claimed, and what is claimed is not offered.
ClaimsKept ==
    \A n \in Nodes :
        /\ \A a \in Accounts : \A i \in 1..Len(chain[n][a]) :
              IsReceive(chain[n][a][i]) => chain[n][a][i].src \in claimed[n]
        /\ \A s \in offered[n] : Hash(s) \notin claimed[n]

\* A record that holds a token is the word of a block in the chain.
HeldInChain ==
    \A n \in Nodes, t \in Tokens, a \in Accounts :
        custody[n][t][a].holds =>
          \E i \in 1..Len(chain[n][a]) :
             LET b == chain[n][a][i] IN
             b.token = t /\ b.idx = custody[n][t][a].idx /\ Holding(b)

\* A token is burned on a node when a chain of the node burns it.
BurnsInChain ==
    \A n \in Nodes, t \in Tokens :
        t \in burned[n] <=>
          \E a \in Accounts : \E i \in 1..Len(chain[n][a]) :
             IsBurn(chain[n][a][i]) /\ chain[n][a][i].token = t

NodeInv == DiskKnows /\ NodeKnows /\ ChainLinked /\ ClaimsKept /\ HeldInChain /\ BurnsInChain

HistoryInv == WireShape /\ NodeInv /\ LinesSound

(***************************************************************************)
(* Published blocks.                                                       *)
(***************************************************************************)

\* A hash tells the account and the height.
LEMMA HashTells ==
    ASSUME NEW x, NEW y, Hash(x) = Hash(y)
    PROVE  x.acct = y.acct /\ x.idx = y.idx
  BY DEF Hash

\* Open blocks have index 0, no token and no source; what is published has none of it.
LEMMA KnownKinds ==
    ASSUME WireShape, DeviceType, NEW b \in Known
    PROVE  /\ b \in Blocks
           /\ b.idx = 0 => b.type = "open" /\ b = OpenBlock(b.acct) /\ b \in Opens
           /\ b.idx > 0 <=> b \in wire
           /\ b.token \in Tokens <=> b \in wire
           /\ b.type # "open" <=> b \in wire
  <1>1. CASE b \in Opens
    <2>1. PICK a \in Accounts : b = OpenBlock(a)
      BY <1>1 DEF Opens
    <2>2. b.acct = a /\ b.type = "open" /\ b.idx = 0 /\ b \in Blocks /\ b.token \notin Tokens
      BY <2>1, OpenBlockType DEF OpenBlock
    <2>3. b \notin wire
      BY <2>2 DEF WireShape
    <2> QED BY <1>1, <2>1, <2>2, <2>3
  <1>2. CASE b \in wire
    <2>1. b \in Blocks /\ b.idx > 0 /\ b.type # "open"
      BY <1>2 DEF WireShape, DeviceType
    <2>2. b.token \in Tokens /\ b.idx \in Nat
      BY <2>1, BlockType
    <2> QED BY <1>2, <2>1, <2>2
  <1> QED BY <1>1, <1>2 DEF Known

\* Among these blocks a hash is one block's.
LEMMA KnownHash ==
    ASSUME WireShape, DeviceType, NEW x \in Known, NEW y \in Known, Hash(x) = Hash(y)
    PROVE  x = y
  <1>1. x.acct = y.acct /\ x.idx = y.idx
    BY HashTells
  <1>2. x.idx \in Nat
    BY KnownKinds, BlockType
  <1>3. CASE x.idx = 0
    BY <1>1, <1>3, KnownKinds
  <1>4. CASE x.idx > 0
    <2>1. x \in wire /\ y \in wire
      BY <1>1, <1>4, KnownKinds
    <2> QED BY <2>1 DEF WireShape
  <1> QED BY <1>2, <1>3, <1>4

\* A set of numbers that is not empty has a least one.
LEMMA LeastNumber ==
    ASSUME NEW T \in SUBSET Nat, T # {}
    PROVE  \E m \in T : \A y \in T : m <= y
  <1>1. PICK m \in T : \A y \in T : <<y, m>> \notin OpToRel(<, Nat)
    BY NatLessThanWellFounded, WFMin
  <1>2. ASSUME NEW y \in T PROVE m <= y
    <2>1. y \in Nat /\ m \in Nat
      OBVIOUS
    <2>2. OpToRel(<, Nat) = {ss \in Nat \X Nat : ss[1] < ss[2]}
      BY Zenon DEF OpToRel
    <2>3. ~(y < m)
      BY <1>1, <2>1, <2>2
    <2> QED BY <2>1, <2>3
  <1> QED BY <1>2

(***************************************************************************)
(* What a node keeps.                                                      *)
(***************************************************************************)

\* Only the record of the block's account of the block's token moves.
LEMMA RecordsMove ==
    ASSUME LedgerType, NEW n \in Nodes, NEW b \in Blocks, b.type # "open", ApplyCustody(n, b)
    PROVE  \A k \in Nodes, t \in Tokens, a \in Accounts :
              \/ custody'[k][t][a] = custody[k][t][a]
              \/ /\ k = n /\ t = b.token /\ a = b.acct
                 /\ custody'[k][t][a].idx = b.idx /\ custody'[k][t][a].holds = Holding(b)
  <1> DEFINE u   == b.token
             old == custody[n][u]
             new == Record(old, b.acct, b.idx, Holding(b))
  <1>1. u \in Tokens /\ b.acct \in Accounts /\ b.idx \in Nat /\ Holding(b) \in BOOLEAN
    BY BlockType
  <1>2. old \in [Accounts -> Records]
    BY <1>1 DEF LedgerType
  <1>3. \A x \in Accounts :
           new[x] = old[x] \/ (x = b.acct /\ new[x].idx = b.idx /\ new[x].holds = Holding(b))
    <2> HIDE DEF old
    <2> QED BY <1>1, <1>2, RecordShape
  <1>4. custody' = [custody EXCEPT ![n][u] = new]
    BY DEF ApplyCustody
  <1> HIDE DEF new
  <1>5. \A k \in Nodes, t \in Tokens :
           custody'[k][t] = IF k = n /\ t = u THEN new ELSE custody[k][t]
    BY <1>1, <1>4 DEF LedgerType
  <1> QED BY <1>3, <1>5

\* Updating one entry of a table.
LEMMA TableUpdate ==
    ASSUME NEW R, NEW C, NEW V, NEW f \in [R -> [C -> V]], NEW r \in R, NEW c \in C, NEW v
    PROVE  \A k \in R, a \in C : [f EXCEPT ![r][c] = v][k][a] = IF k = r /\ a = c THEN v ELSE f[k][a]
  OBVIOUS

\* The chains after b has entered its own: b is at its end, the rest is as before.
GrowsBy(n, b) ==
    /\ \A k \in Nodes, a \in Accounts : \A i \in 1..Len(chain'[k][a]) :
          \/ i \in 1..Len(chain[k][a]) /\ chain'[k][a][i] = chain[k][a][i]
          \/ k = n /\ a = b.acct /\ i = Len(chain[n][a]) + 1 /\ chain'[k][a][i] = b
    /\ \A k \in Nodes, a \in Accounts : \A i \in 1..Len(chain[k][a]) :
          i \in 1..Len(chain'[k][a]) /\ chain'[k][a][i] = chain[k][a][i]
    /\ Len(chain[n][b.acct]) + 1 \in 1..Len(chain'[n][b.acct])
    /\ chain'[n][b.acct][Len(chain[n][b.acct]) + 1] = b

\* That is how Enter changes them.
LEMMA Appended ==
    ASSUME LedgerType, NEW n \in Nodes, NEW b \in Blocks,
           chain' = [chain EXCEPT ![n][b.acct] = Append(@, b)]
    PROVE  GrowsBy(n, b)
  <1>1. b.acct \in Accounts
    BY BlockType
  <1> DEFINE q == chain[n][b.acct]
             g == Append(q, b)
  <1>2. q \in Seq(Blocks)
    BY <1>1 DEF LedgerType
  <1>3. \A k \in Nodes, a \in Accounts :
           chain'[k][a] = IF k = n /\ a = b.acct THEN g ELSE chain[k][a]
    <2>1. chain' = [chain EXCEPT ![n][b.acct] = g]
      OBVIOUS
    <2>2. chain \in [Nodes -> [Accounts -> Seq(Blocks)]]
      BY DEF LedgerType
    <2> HIDE DEF g
    <2>3. \A k \in Nodes, a \in Accounts :
             [chain EXCEPT ![n][b.acct] = g][k][a] = IF k = n /\ a = b.acct THEN g ELSE chain[k][a]
      BY <1>1, <2>2, TableUpdate
    <2> QED BY <2>1, <2>3, Zenon
  <1> HIDE DEF q
  <1>4. /\ Len(q) \in Nat /\ Len(g) = Len(q) + 1
        /\ \A i \in 1..Len(q) : g[i] = q[i]
        /\ g[Len(q) + 1] = b
    BY <1>2
  <1> HIDE DEF g
  <1>5. /\ \A i \in 1..Len(g) : i \in 1..Len(q) \/ i = Len(q) + 1
        /\ \A i \in 1..Len(q) : i \in 1..Len(g)
        /\ Len(q) + 1 \in 1..Len(g)
    BY <1>4
  <1>6. ASSUME NEW k \in Nodes, NEW a \in Accounts
        PROVE  /\ \A i \in 1..Len(chain'[k][a]) :
                     \/ i \in 1..Len(chain[k][a]) /\ chain'[k][a][i] = chain[k][a][i]
                     \/ k = n /\ a = b.acct /\ i = Len(chain[n][a]) + 1 /\ chain'[k][a][i] = b
               /\ \A i \in 1..Len(chain[k][a]) :
                     i \in 1..Len(chain'[k][a]) /\ chain'[k][a][i] = chain[k][a][i]
    <2>1. CASE k = n /\ a = b.acct
      <3>1. chain'[k][a] = g /\ chain[k][a] = q /\ chain[n][a] = q
        BY <1>3, <2>1 DEF q
      <3> QED BY <1>4, <1>5, <2>1, <3>1
    <2>2. CASE ~(k = n /\ a = b.acct)
      BY <1>3, <2>2
    <2> QED BY <2>1, <2>2
  <1>7. chain'[n][b.acct] = g
    BY <1>1, <1>3
  <1>8. /\ Len(chain[n][b.acct]) + 1 \in 1..Len(chain'[n][b.acct])
        /\ chain'[n][b.acct][Len(chain[n][b.acct]) + 1] = b
    BY <1>4, <1>5, <1>7 DEF q
  <1> QED BY <1>6, <1>8 DEF GrowsBy

\* A step that lets no block into a chain and gives no account a token.
LEMMA ChainsStill ==
    ASSUME NodeInv, wire \subseteq wire', UNCHANGED <<chain, claimed, burned>>,
           \A k \in Nodes :
              /\ disk'[k] \subseteq Known' /\ toReplay'[k] \subseteq Known'
              /\ all'[k] \subseteq Known' /\ offered'[k] \subseteq wire'
              /\ \A s \in offered'[k] : Hash(s) \notin claimed[k],
           \A k \in Nodes, t \in Tokens, a \in Accounts :
              custody'[k][t][a] = custody[k][t][a] \/ ~custody'[k][t][a].holds
    PROVE  NodeInv'
  <1>1. DiskKnows'
    BY DEF DiskKnows
  <1>2. NodeKnows'
    <2>1. Known \subseteq Known'
      BY DEF Known
    <2> QED BY <2>1 DEF NodeInv, NodeKnows
  <1>3. ChainLinked' /\ BurnsInChain'
    BY DEF NodeInv, ChainLinked, BurnsInChain
  <1>4. ClaimsKept'
    BY DEF NodeInv, ClaimsKept
  <1>5. HeldInChain'
    BY DEF NodeInv, HeldInChain
  <1> QED BY <1>1, <1>2, <1>3, <1>4, <1>5 DEF NodeInv

\* A step that lets the next block of its account into a chain.
LEMMA ChainsGrow ==
    ASSUME LedgerType, DeviceType', WireShape', DiskKnows', NodeInv, wire \subseteq wire',
           NEW n \in Nodes, NEW b \in Blocks, b \in Known', b.idx = Len(chain[n][b.acct]),
           b.idx > 0 => b.prev = Hash(HeadOf(n, b.acct)), Enter(n, b)
    PROVE  NodeInv'
  <1>1. b.acct \in Accounts /\ b.idx \in Nat
    BY BlockType
  <1>2. chain' = [chain EXCEPT ![n][b.acct] = Append(@, b)]
    BY DEF Enter
  <1>0. GrowsBy(n, b)
    BY <1>2, Appended
  <1>3. /\ \A k \in Nodes, a \in Accounts : \A i \in 1..Len(chain'[k][a]) :
              \/ i \in 1..Len(chain[k][a]) /\ chain'[k][a][i] = chain[k][a][i]
              \/ k = n /\ a = b.acct /\ i = Len(chain[n][a]) + 1 /\ chain'[k][a][i] = b
        /\ \A k \in Nodes, a \in Accounts : \A i \in 1..Len(chain[k][a]) :
              i \in 1..Len(chain'[k][a]) /\ chain'[k][a][i] = chain[k][a][i]
        /\ Len(chain[n][b.acct]) + 1 \in 1..Len(chain'[n][b.acct])
        /\ chain'[n][b.acct][Len(chain[n][b.acct]) + 1] = b
    BY <1>0, Zenon DEF GrowsBy
  <1>4. \A k \in Nodes, a \in Accounts : Len(chain[k][a]) \in Nat
    <2>1. \A k \in Nodes, a \in Accounts : chain[k][a] \in Seq(Blocks)
      BY DEF LedgerType
    <2> QED BY <2>1
  <1>5. Known \subseteq Known'
    BY DEF Known
  <1>6. IsSend(b) => b \in wire'
    <2>1. \A a \in Accounts : ~IsSend(OpenBlock(a))
      BY DEF OpenBlock, IsSend
    <2> QED BY <2>1 DEF Known, Opens
  <1>7. offered' = [offered EXCEPT ![n] = {s \in @ : ~(IsReceive(b) /\ Hash(s) = b.src)} \cup Offer(n, b)]
    BY DEF Enter
  <1>8. claimed' = [claimed EXCEPT ![n] = IF IsReceive(b) THEN @ \cup {b.src} ELSE @]
    BY DEF Enter
  <1>9. NodeKnows'
    <2>1. \A k \in Nodes : all'[k] \subseteq Known'
      <3>1. all' = [all EXCEPT ![n] = @ \cup {b}]
        BY DEF Enter
      <3> QED BY <1>5, <3>1 DEF NodeInv, NodeKnows, LedgerType
    <2>2. \A k \in Nodes : offered'[k] \subseteq wire'
      <3>1. \A k \in Nodes : offered[k] \subseteq wire
        BY DEF NodeInv, NodeKnows
      <3>2. Offer(n, b) \subseteq wire'
        BY <1>6 DEF Offer
      <3>3. offered'[n] \subseteq offered[n] \cup Offer(n, b)
            /\ \A k \in Nodes : k # n => offered'[k] = offered[k]
        BY <1>7 DEF LedgerType
      <3> QED BY <3>1, <3>2, <3>3
    <2>3. \A k \in Nodes, a \in Accounts : \A i \in 1..Len(chain'[k][a]) : chain'[k][a][i] \in Known'
      BY <1>3, <1>5 DEF NodeInv, NodeKnows
    <2> QED BY <2>1, <2>2, <2>3 DEF NodeKnows
  <1>10. ChainLinked'
    <2> SUFFICES ASSUME NEW k \in Nodes, NEW a \in Accounts, NEW i \in 1..Len(chain'[k][a]), i > 1
                 PROVE  chain'[k][a][i].prev = Hash(chain'[k][a][i - 1])
      BY DEF ChainLinked
    <2>1. CASE i \in 1..Len(chain[k][a]) /\ chain'[k][a][i] = chain[k][a][i]
      <3>1. i - 1 \in 1..Len(chain[k][a])
        BY <1>4, <2>1
      <3>2. chain'[k][a][i - 1] = chain[k][a][i - 1]
        BY <1>3, <3>1
      <3>3. chain[k][a][i].prev = Hash(chain[k][a][i - 1])
        BY <2>1 DEF NodeInv, ChainLinked
      <3> QED BY <2>1, <3>2, <3>3
    <2>2. CASE k = n /\ a = b.acct /\ i = Len(chain[n][a]) + 1 /\ chain'[k][a][i] = b
      <3>1. i - 1 = Len(chain[n][a]) /\ i - 1 \in 1..Len(chain[k][a])
        BY <1>1, <1>4, <2>2
      <3>2. chain'[k][a][i - 1] = HeadOf(n, a)
        <4>1. chain'[k][a][i - 1] = chain[k][a][i - 1]
          BY <1>3, <3>1
        <4> QED BY <2>2, <3>1, <4>1 DEF HeadOf
      <3>3. b.idx > 0
        BY <1>4, <2>2, <3>1
      <3> QED BY <2>2, <3>2, <3>3
    <2> QED BY <1>3, <2>1, <2>2
  <1>11. ClaimsKept'
    <2>1. ASSUME NEW k \in Nodes, NEW a \in Accounts, NEW i \in 1..Len(chain'[k][a]), IsReceive(chain'[k][a][i])
          PROVE  chain'[k][a][i].src \in claimed'[k]
      <3>1. CASE i \in 1..Len(chain[k][a]) /\ chain'[k][a][i] = chain[k][a][i]
        <4>1. chain[k][a][i].src \in claimed[k]
          BY <2>1, <3>1 DEF NodeInv, ClaimsKept
        <4>2. claimed[k] \subseteq claimed'[k]
          BY <1>8 DEF LedgerType
        <4> QED BY <3>1, <4>1, <4>2
      <3>2. CASE k = n /\ chain'[k][a][i] = b
        BY <1>8, <2>1, <3>2 DEF LedgerType
      <3> QED BY <1>3, <3>1, <3>2
    <2>2. ASSUME NEW k \in Nodes, NEW s \in offered'[k]
          PROVE  Hash(s) \notin claimed'[k]
      <3>1. CASE k # n
        <4>1. offered'[k] = offered[k] /\ claimed'[k] = claimed[k]
          BY <1>7, <1>8, <3>1 DEF LedgerType
        <4> QED BY <4>1 DEF NodeInv, ClaimsKept
      <3>2. CASE k = n
        <4>1. /\ offered'[n] = {x \in offered[n] : ~(IsReceive(b) /\ Hash(x) = b.src)} \cup Offer(n, b)
              /\ claimed'[n] = IF IsReceive(b) THEN claimed[n] \cup {b.src} ELSE claimed[n]
          BY <1>7, <1>8 DEF LedgerType
        <4>2. CASE s \in Offer(n, b)
          <5>1. s = b /\ IsSend(b) /\ ~IsReceive(b) /\ Hash(s) \notin claimed[n]
            BY <4>2 DEF Offer, IsSend, IsReceive
          <5> QED BY <3>2, <4>1, <5>1
        <4>3. CASE s \in offered[n] /\ ~(IsReceive(b) /\ Hash(s) = b.src)
          <5>1. Hash(s) \notin claimed[n]
            BY <4>3 DEF NodeInv, ClaimsKept
          <5> QED BY <3>2, <4>1, <4>3, <5>1
        <4> QED BY <3>2, <4>1, <4>2, <4>3
      <3> QED BY <3>1, <3>2
    <2> QED BY <2>1, <2>2 DEF ClaimsKept
  <1>12. \A k \in Nodes, t \in Tokens, a \in Accounts :
            \/ custody'[k][t][a] = custody[k][t][a]
            \/ /\ k = n /\ t = b.token /\ a = b.acct
               /\ custody'[k][t][a].idx = b.idx /\ custody'[k][t][a].holds = Holding(b)
    <2>1. CASE b.type = "open"
      BY <2>1 DEF Enter
    <2>2. CASE b.type # "open"
      <3>1. ApplyCustody(n, b)
        BY <2>2 DEF Enter
      <3> QED BY <2>2, <3>1, RecordsMove
    <2> QED BY <2>1, <2>2
  <1>13. HeldInChain'
    <2> SUFFICES ASSUME NEW k \in Nodes, NEW t \in Tokens, NEW a \in Accounts, custody'[k][t][a].holds
                 PROVE  \E i \in 1..Len(chain'[k][a]) :
                           /\ chain'[k][a][i].token = t /\ chain'[k][a][i].idx = custody'[k][t][a].idx
                           /\ Holding(chain'[k][a][i])
      BY DEF HeldInChain
    <2>1. CASE custody'[k][t][a] = custody[k][t][a]
      <3>1. PICK i \in 1..Len(chain[k][a]) :
                /\ chain[k][a][i].token = t /\ chain[k][a][i].idx = custody[k][t][a].idx
                /\ Holding(chain[k][a][i])
        BY <2>1 DEF NodeInv, HeldInChain
      <3>2. i \in 1..Len(chain'[k][a]) /\ chain'[k][a][i] = chain[k][a][i]
        BY <1>3
      <3> QED BY <2>1, <3>1, <3>2
    <2>2. CASE /\ k = n /\ t = b.token /\ a = b.acct
               /\ custody'[k][t][a].idx = b.idx /\ custody'[k][t][a].holds = Holding(b)
      <3> DEFINE j == Len(chain[n][b.acct]) + 1
      <3>1. j \in 1..Len(chain'[k][a]) /\ chain'[k][a][j] = b /\ Holding(b)
        BY <1>3, <2>2
      <3> HIDE DEF j
      <3> QED BY <2>2, <3>1
    <2>3. \/ custody'[k][t][a] = custody[k][t][a]
          \/ /\ k = n /\ t = b.token /\ a = b.acct
             /\ custody'[k][t][a].idx = b.idx /\ custody'[k][t][a].holds = Holding(b)
      BY <1>12
    <2> QED BY <2>1, <2>2, <2>3
  <1>14. BurnsInChain'
    <2> SUFFICES ASSUME NEW k \in Nodes, NEW t \in Tokens
                 PROVE  t \in burned'[k] <=>
                          \E a \in Accounts : \E i \in 1..Len(chain'[k][a]) :
                             IsBurn(chain'[k][a][i]) /\ chain'[k][a][i].token = t
      BY DEF BurnsInChain
    <2>1. t \in burned'[k] <=> t \in burned[k] \/ (k = n /\ IsBurn(b) /\ t = b.token)
      <3>1. burned' = [burned EXCEPT ![n] = IF IsBurn(b) THEN @ \cup {b.token} ELSE @]
        BY DEF Enter
      <3> QED BY <3>1 DEF LedgerType
    <2>2. t \in burned[k] <=>
             \E a \in Accounts : \E i \in 1..Len(chain[k][a]) :
                IsBurn(chain[k][a][i]) /\ chain[k][a][i].token = t
      BY DEF NodeInv, BurnsInChain
    <2>3. ASSUME t \in burned'[k]
          PROVE  \E a \in Accounts : \E i \in 1..Len(chain'[k][a]) :
                    IsBurn(chain'[k][a][i]) /\ chain'[k][a][i].token = t
      <3>1. CASE t \in burned[k]
        <4>1. PICK a \in Accounts : \E i \in 1..Len(chain[k][a]) :
                  IsBurn(chain[k][a][i]) /\ chain[k][a][i].token = t
          BY <2>2, <3>1
        <4>2. PICK i \in 1..Len(chain[k][a]) : IsBurn(chain[k][a][i]) /\ chain[k][a][i].token = t
          BY <4>1
        <4>3. i \in 1..Len(chain'[k][a]) /\ chain'[k][a][i] = chain[k][a][i]
          BY <1>3
        <4> QED BY <4>2, <4>3
      <3>2. CASE k = n /\ IsBurn(b) /\ t = b.token
        <4> DEFINE j == Len(chain[n][b.acct]) + 1
        <4>1. j \in 1..Len(chain'[k][b.acct]) /\ chain'[k][b.acct][j] = b
          BY <1>3, <3>2
        <4> HIDE DEF j
        <4> QED BY <1>1, <3>2, <4>1
      <3> QED BY <2>1, <2>3, <3>1, <3>2
    <2>4. ASSUME NEW a \in Accounts, NEW i \in 1..Len(chain'[k][a]),
                 IsBurn(chain'[k][a][i]), chain'[k][a][i].token = t
          PROVE  t \in burned'[k]
      BY <1>3, <2>1, <2>2, <2>4
    <2> QED BY <2>3, <2>4
  <1> QED BY <1>9, <1>10, <1>11, <1>13, <1>14 DEF NodeInv

(***************************************************************************)
(* A line that a device's own block is in.                                 *)
(***************************************************************************)

\* The block a device signs: on top of its chain, by a hash of its own, under
\* the rule of its type.
NewBlock(n, b) ==
    /\ b.idx = Len(chain[n][b.acct]) /\ b.idx > 0 /\ b.prev = Hash(HeadOf(n, b.acct))
    /\ \A x \in wire : Hash(x) # Hash(b)
    /\ wire' = wire \cup {b}
    /\ IsSend(b) \/ IsBurn(b) => owner[n][b.token] = b.acct
    /\ IsReceive(b) => \E s \in offered[n] : Hash(s) = b.src /\ s.token = b.token /\ s.to = b.acct

\* No known block has its hash, so nothing published is on top of it or
\* receives from it.
LEMMA Unreferenced ==
    ASSUME DeviceType, WireShape, NEW n \in Nodes, NEW b \in Blocks, NewBlock(n, b)
    PROVE  /\ b \notin wire
           /\ \A p \in Known : Hash(p) # Hash(b)
           /\ \A x \in wire : x.prev # Hash(b) /\ x.src # Hash(b)
  <1>1. \A p \in Known : Hash(p) # Hash(b)
    <2> SUFFICES ASSUME NEW p \in Known, Hash(p) = Hash(b)
                 PROVE  FALSE
      OBVIOUS
    <2>1. p.idx > 0
      BY HashTells DEF NewBlock
    <2> QED BY <2>1, KnownKinds DEF NewBlock
  <1>2. ASSUME NEW x \in wire PROVE x.prev # Hash(b)
    BY <1>1 DEF WireShape, Precedes
  <1>3. ASSUME NEW x \in wire PROVE x.src # Hash(b)
    <2>1. CASE IsReceive(x)
      BY <2>1, <1>1 DEF WireShape, Known
    <2>2. CASE ~IsReceive(x)
      BY <2>2 DEF WireShape, Hash
    <2> QED BY <2>1, <2>2
  <1> QED BY <1>1, <1>2, <1>3 DEF NewBlock

\* A line with the new block has the chain below it, and of its account
\* nothing else.
LEMMA OwnLine ==
    ASSUME LedgerType, DeviceType, DeviceType', WireShape, WireShape', ChainShape, NodeInv,
           NEW n \in Nodes, NEW b \in Blocks, NewBlock(n, b),
           NEW S \in SUBSET wire', Line(S), b \in S
    PROVE  /\ \A i \in 2..Len(chain[n][b.acct]) : chain[n][b.acct][i] \in S
           /\ \A x \in S : x.acct = b.acct /\ x # b =>
                 x.idx < b.idx /\ \E i \in 2..Len(chain[n][b.acct]) : x = chain[n][b.acct][i]
  <1> DEFINE q == chain[n][b.acct]
             l == Len(q)
  <1>1. b.acct \in Accounts
    BY BlockType
  <1>2. q \in Seq(Blocks)
    BY <1>1 DEF LedgerType
  <1>3. l \in Nat /\ l > 0 /\ b.idx = l /\ b.prev = Hash(q[l])
    BY <1>2 DEF NewBlock, HeadOf
  <1>4. \A i \in 1..l : q[i] \in Known /\ q[i].acct = b.acct /\ q[i].idx = i - 1
    BY <1>1 DEF NodeInv, NodeKnows, ChainShape
  <1>5. \A i \in 1..l : i > 1 => q[i].prev = Hash(q[i - 1])
    BY <1>1 DEF NodeInv, ChainLinked
  <1>7. \A x \in S : x \in wire' /\ x.idx \in Nat /\ x.idx > 0
    <2>1. \A x \in wire' : x \in Blocks /\ x.idx > 0
      BY DEF WireShape, DeviceType
    <2> QED BY <2>1, BlockType
  <1> HIDE DEF q, l
  <1>8. ASSUME NEW i \in 1..l, NEW x \in S, x.prev = Hash(q[i]), x.idx > 1
        PROVE  q[i] \in S
    <2>1. PICK y \in S : Precedes(y, x)
      BY <1>8 DEF Line
    <2>2. Hash(y) = Hash(q[i])
      BY <1>8, <2>1 DEF Precedes
    <2>3. y \in wire' /\ q[i] \in wire'
      <3>1. q[i].idx = y.idx /\ y.idx > 0 /\ q[i] \in Known
        BY <1>4, <1>7, <2>2, HashTells
      <3>2. q[i] \in wire
        BY <3>1, KnownKinds
      <3> QED BY <1>7, <3>2 DEF NewBlock
    <2>4. y = q[i]
      BY <2>2, <2>3 DEF WireShape
    <2> QED BY <2>4
  <1>9. \A i \in 2..l : q[i] \in S
    <2> DEFINE T == {j \in 0..(l - 2) : q[l - j] \notin S}
    <2> SUFFICES ASSUME T # {} PROVE FALSE
      <3>1. ASSUME NEW i \in 2..l PROVE q[i] \in S \/ l - i \in T
        <4>1. l - i \in 0..(l - 2) /\ l - (l - i) = i
          BY <1>3
        <4> QED BY <4>1
      <3> QED BY <3>1
    <2>0. T \in SUBSET Nat
      OBVIOUS
    <2>1. PICK m \in T : \A y \in T : m <= y
      <3> HIDE DEF T
      <3> QED BY LeastNumber, <2>0
    <2>2. m \in 0..(l - 2) /\ q[l - m] \notin S
      BY <2>1
    <2>3. CASE m = 0
      BY <1>3, <1>8, <2>2, <2>3
    <2>4. CASE m > 0
      <3>1. m - 1 \in 0..(l - 2) /\ ~(m <= m - 1)
        BY <2>2, <2>4, <1>3
      <3>2. q[l - (m - 1)] \in S
        BY <2>1, <3>1
      <3>3. l - (m - 1) \in 1..l /\ l - (m - 1) > 1 /\ (l - (m - 1)) - 1 = l - m /\ l - m \in 1..l
            /\ l - (m - 1) > 2
        BY <1>3, <2>2, <2>4
      <3>4. q[l - (m - 1)].prev = Hash(q[l - m])
        BY <1>5, <3>3
      <3>5. q[l - (m - 1)].idx > 1
        BY <1>4, <3>3
      <3> QED BY <1>8, <2>2, <3>2, <3>3, <3>4, <3>5
    <2> QED BY <1>3, <2>2, <2>3, <2>4
  <1>10. \A x \in S : x.acct = b.acct => x.idx <= b.idx
    <2> DEFINE T == {i \in Nat : i > b.idx /\ \E x \in S : x.acct = b.acct /\ x.idx = i}
    <2> SUFFICES ASSUME T # {} PROVE FALSE
      <3>1. ASSUME NEW x \in S, x.acct = b.acct PROVE x.idx <= b.idx \/ x.idx \in T
        BY <1>3, <1>7, <3>1
      <3> QED BY <3>1
    <2>1. PICK m \in T : \A y \in T : m <= y
      BY LeastNumber
    <2>2. PICK x \in S : x.acct = b.acct /\ x.idx = m /\ m > b.idx /\ m \in Nat
      BY <2>1
    <2>3. x.idx > 1
      BY <1>3, <2>2
    <2>4. PICK y \in S : Precedes(y, x)
      BY <2>3 DEF Line
    <2>5. y.acct = b.acct /\ y.idx = m - 1 /\ Hash(y) = x.prev
      BY <2>2, <2>4 DEF Precedes
    <2>6. m - 1 \notin T
      BY <2>1, <2>2
    <2>7. y.idx = b.idx
      BY <1>3, <2>2, <2>5, <2>6
    <2>8. y = b
      BY <2>5, <2>7 DEF Line
    <2>9. x \in wire
      BY <1>3, <2>2 DEF NewBlock
    <2> QED BY <2>5, <2>8, <2>9, Unreferenced
  <1>11. ASSUME NEW x \in S, x.acct = b.acct, x # b
         PROVE  x.idx < b.idx /\ \E i \in 2..l : x = q[i]
    <2>1. x.idx # b.idx
      BY <1>11 DEF Line
    <2>2. x.idx < b.idx /\ x.idx + 1 \in 2..l
      BY <1>3, <1>7, <1>10, <1>11, <2>1
    <2>3. q[x.idx + 1] \in S /\ q[x.idx + 1].acct = b.acct /\ q[x.idx + 1].idx = x.idx
      <3>1. x.idx + 1 \in 1..l /\ (x.idx + 1) - 1 = x.idx
        BY <1>7, <2>2, <1>3
      <3> QED BY <1>4, <1>9, <2>2, <3>1
    <2>4. x = q[x.idx + 1]
      BY <1>11, <2>3 DEF Line
    <2> QED BY <2>2, <2>4
  <1> QED BY <1>9, <1>11 DEF q, l

\* Without the new block the line is one of what was published before.
LEMMA LineBefore ==
    ASSUME DeviceType, WireShape, NEW n \in Nodes, NEW b \in Blocks, NewBlock(n, b),
           NEW S \in SUBSET wire', Line(S)
    PROVE  /\ S \ {b} \in SUBSET wire
           /\ Line(S \ {b})
           /\ \A t \in Tokens : HasSources(S, t) => HasSources(S \ {b}, t)
  <1> DEFINE R == S \ {b}
  <1>1. R \subseteq wire
    BY DEF NewBlock
  <1>2. Line(R)
    <2>1. \A x, y \in R : x.acct = y.acct /\ x.idx = y.idx => x = y
      BY DEF Line
    <2>2. ASSUME NEW x \in R, x.idx > 1 PROVE \E p \in R : Precedes(p, x)
      <3>1. PICK p \in S : Precedes(p, x)
        BY <2>2 DEF Line
      <3>2. p # b
        BY <1>1, <3>1, Unreferenced DEF Precedes
      <3> QED BY <3>1, <3>2
    <2> QED BY <2>1, <2>2 DEF Line
  <1>3. ASSUME NEW t \in Tokens, HasSources(S, t) PROVE HasSources(R, t)
    <2> SUFFICES ASSUME NEW r \in R, IsReceive(r), r.token = t
                 PROVE  \E s \in R : Hash(s) = r.src
      BY DEF HasSources
    <2>1. PICK s \in S : Hash(s) = r.src
      BY <1>3 DEF HasSources
    <2>2. s # b
      BY <1>1, <2>1, Unreferenced
    <2> QED BY <2>1, <2>2
  <1> QED BY <1>1, <1>2, <1>3

\* No receive of the account's line has the source of the new one.
LEMMA FreshReceive ==
    ASSUME LedgerType, DeviceType, DeviceType', WireShape, WireShape', ChainShape, NodeInv,
           NEW n \in Nodes, NEW b \in Blocks, NewBlock(n, b), IsReceive(b),
           NEW S \in SUBSET wire', Line(S), b \in S
    PROVE  \A r \in S : r # b => r.src # b.src
  <1> SUFFICES ASSUME NEW r \in S, r # b, r.src = b.src
               PROVE  FALSE
    OBVIOUS
  <1>1. b.acct \in Accounts
    BY BlockType
  <1>2. PICK s \in offered[n] : Hash(s) = b.src /\ s.token = b.token /\ s.to = b.acct
    BY DEF NewBlock
  <1>3. s \in wire /\ Hash(s) \notin claimed[n]
    BY DEF NodeInv, NodeKnows, ClaimsKept
  <1>4. r \in wire
    BY DEF NewBlock
  <1>5. IsReceive(r)
    <2>1. Hash(s) # <<>>
      BY DEF Hash
    <2>2. ~IsReceive(r) => r.src = <<>>
      BY <1>4 DEF WireShape
    <2> QED BY <1>2, <2>1, <2>2
  <1>6. PICK u \in wire : Hash(u) = r.src /\ u.to = r.acct
    BY <1>4, <1>5 DEF WireShape
  <1>7. u = s
    BY <1>2, <1>3, <1>6 DEF WireShape
  <1>8. r.acct = b.acct
    BY <1>2, <1>6, <1>7
  <1>9. PICK i \in 2..Len(chain[n][b.acct]) : r = chain[n][b.acct][i]
    BY <1>8, OwnLine
  <1>10. i \in 1..Len(chain[n][b.acct])
    <2>1. chain[n][b.acct] \in Seq(Blocks)
      BY <1>1 DEF LedgerType
    <2>2. Len(chain[n][b.acct]) \in Nat
      BY <2>1
    <2> QED BY <2>2
  <1>11. r.src \in claimed[n]
    BY <1>1, <1>5, <1>9, <1>10 DEF NodeInv, ClaimsKept
  <1> QED BY <1>2, <1>3, <1>11

\* What an account sends or burns, the last word on its line was to hold.
LEMMA HeldBefore ==
    ASSUME LedgerType, DeviceType, DeviceType', WireShape, WireShape', CustodyInv, NodeInv,
           NEW n \in Nodes, NEW b \in Blocks, NewBlock(n, b), IsSend(b) \/ IsBurn(b),
           NEW S \in SUBSET wire', Line(S), b \in S
    PROVE  \E h \in S : /\ h # b /\ h.acct = b.acct /\ h.token = b.token
                        /\ LastHolding(S \ {b}, b.token, h)
  <1> DEFINE a == b.acct
             t == b.token
             q == chain[n][a]
  <1>1. a \in Accounts /\ t \in Tokens
    BY BlockType DEF IsSend, IsBurn
  <1>2. q \in Seq(Blocks) /\ Len(q) \in Nat
    <2>1. q \in Seq(Blocks)
      BY <1>1 DEF LedgerType
    <2> HIDE DEF q
    <2> QED BY <2>1
  <1>3. owner[n][t] = a
    BY DEF NewBlock
  <1>4. a # NoOne
    <2>1. a \in Nat
      BY <1>1, CustodyAssumption
    <2> QED BY <2>1 DEF NoOne
  <1>5. custody[n][t][a].holds
    <2>1. a \in Holders(custody[n][t])
      BY <1>1, <1>3, <1>4 DEF CustodyInv, OwnerHolds
    <2> QED BY <2>1 DEF Holders
  <1>6. PICK i \in 1..Len(q) : q[i].token = t /\ q[i].idx = custody[n][t][a].idx /\ Holding(q[i])
    BY <1>1, <1>5 DEF NodeInv, HeldInChain
  <1>7. q[i] \in Known /\ q[i].acct = a /\ q[i].idx = i - 1
    <2>1. n \in Nodes /\ a \in Accounts /\ i \in 1..Len(chain[n][a])
      BY <1>1
    <2> HIDE DEF a
    <2> QED BY <2>1 DEF CustodyInv, ChainShape, NodeInv, NodeKnows
  <1>8. q[i] \in wire
    BY <1>1, <1>6, <1>7, KnownKinds
  <1>9. i \in 2..Len(q) /\ q[i] # b
    <2> HIDE DEF q
    <2>1. q[i].idx > 0
      BY <1>8 DEF WireShape
    <2>2. i \in 2..Len(q)
      BY <1>2, <1>7, <2>1
    <2>3. b \notin wire
      BY Unreferenced
    <2> QED BY <1>8, <2>2, <2>3
  <1>0. ChainShape
    BY DEF CustodyInv
  <1>10. q[i] \in S
    BY <1>0, <1>9, OwnLine
  <1>11. ASSUME NEW x \in S \ {b}, x.acct = a, x.token = t
         PROVE  x.idx <= q[i].idx
    <2>1. PICK j \in 2..Len(q) : x = q[j]
      BY <1>0, <1>11, OwnLine
    <2>2. j \in 1..Len(q)
      BY <1>2
    <2>3. x.idx <= custody[n][t][a].idx
      BY <1>1, <1>11, <2>1, <2>2 DEF CustodyInv, NeverRewound
    <2> QED BY <1>6, <2>3
  <1>12. LastHolding(S \ {b}, t, q[i])
    BY <1>6, <1>7, <1>11 DEF LastHolding
  <1> QED BY <1>6, <1>7, <1>9, <1>10, <1>12

\* A last place of the longer line, the new block aside, was one before.
LEMMA TipsBefore ==
    ASSUME NEW S, NEW b, NEW t, NEW x \in Tips(S, t), x # b
    PROVE  x \in Tips(S \ {b}, t)
  BY DEF Tips, LastHolding, InTransfer

\* The new block has its token in one place: what was the last place before
\* is not one any more.
LEMMA TipStep ==
    ASSUME LedgerType, DeviceType, DeviceType', WireShape, WireShape', CustodyInv, NodeInv,
           NEW n \in Nodes, NEW b \in Blocks, NewBlock(n, b),
           NEW S \in SUBSET wire', Line(S), b \in S,
           NEW t \in Tokens, HasSources(S, t), OneTip(S \ {b}, t), Minted(S \ {b}, t)
    PROVE  OneTip(S, t) /\ Minted(S, t)
  <1> DEFINE R == S \ {b}
  <1>0. ChainShape
    BY DEF CustodyInv
  <1>1. b \in wire' /\ b.type # "open"
    BY DEF NewBlock, WireShape
  <1>2. b.idx \in Nat /\ \A x \in S : x.idx \in Nat
    BY BlockType DEF DeviceType
  <1>3. CASE b.token # t
    <2>1. Tips(S, t) \subseteq Tips(R, t)
      BY <1>3, TipsBefore DEF Tips
    <2> QED BY <1>3, <2>1 DEF OneTip, Minted
  <1>4. CASE b.token = t /\ IsMint(b)
    <2>1. b.token = <<b.acct, b.idx>>
      BY <1>1, <1>4 DEF WireShape
    <2>2. ASSUME NEW x \in R, x.token = t PROVE FALSE
      <3>1. PICK m \in R : IsMint(m) /\ m.token = t
        BY <2>2 DEF Minted
      <3>2. m.token = <<m.acct, m.idx>>
        BY <3>1 DEF WireShape
      <3>3. m.acct = b.acct /\ m.idx = b.idx
        BY <1>4, <2>1, <3>1, <3>2
      <3> QED BY <3>1, <3>3 DEF Line
    <2>3. OneTip(S, t)
      BY <2>2 DEF OneTip, Tips
    <2> QED BY <1>4, <2>3 DEF Minted
  <1>5. CASE b.token = t /\ (IsSend(b) \/ IsBurn(b))
    <2>1. PICK h \in S : h # b /\ h.acct = b.acct /\ h.token = t /\ LastHolding(R, t, h)
      BY <1>5, HeldBefore
    <2>2. h \in Tips(R, t)
      BY <2>1 DEF Tips
    <2>3. h.idx < b.idx
      BY <1>0, <2>1, OwnLine
    <2>4. h \notin Tips(S, t)
      <3>1. ~(b.idx <= h.idx)
        BY <1>2, <2>3
      <3>2. ~LastHolding(S, t, h)
        BY <1>5, <2>1, <3>1 DEF LastHolding
      <3>3. ~InTransfer(S, h)
        BY <2>1 DEF LastHolding, InTransfer, Holding, IsMint, IsReceive, IsSend
      <3> QED BY <3>2, <3>3 DEF Tips
    <2>5. Tips(S, t) \subseteq {b}
      BY <2>2, <2>4, TipsBefore DEF OneTip
    <2>6. Minted(S, t)
      BY <2>1 DEF Minted
    <2> QED BY <2>5, <2>6 DEF OneTip
  <1>6. CASE b.token = t /\ IsReceive(b)
    <2>1. PICK s \in offered[n] : Hash(s) = b.src /\ s.token = t /\ s.to = b.acct
      BY <1>6 DEF NewBlock
    <2>2. s \in wire /\ IsSend(s)
      BY DEF NodeInv, NodeKnows, LedgerType, Sends
    <2>3. PICK z \in S : Hash(z) = b.src
      BY <1>6 DEF HasSources
    <2>4. z = s /\ s # b
      <3>1. z \in wire' /\ s \in wire'
        BY <2>2 DEF NewBlock
      <3>2. s # b
        BY <2>2, Unreferenced
      <3> QED BY <2>1, <2>3, <3>1, <3>2 DEF WireShape
    <2>5. s \in R
      BY <2>3, <2>4
    <2>6. \A r \in R : r.src # Hash(s)
      BY <1>0, <1>6, <2>1, FreshReceive
    <2>7. s \in Tips(R, t)
      BY <2>1, <2>2, <2>5, <2>6 DEF Tips, InTransfer
    <2>8. s \notin Tips(S, t)
      <3>1. ~InTransfer(S, s)
        BY <2>1 DEF InTransfer
      <3>2. ~LastHolding(S, t, s)
        BY <2>2 DEF LastHolding, Holding, IsMint, IsReceive, IsSend
      <3> QED BY <3>1, <3>2 DEF Tips
    <2>9. Tips(S, t) \subseteq {b}
      BY <2>7, <2>8, TipsBefore DEF OneTip
    <2>10. Minted(S, t)
      BY <2>1, <2>5 DEF Minted
    <2> QED BY <2>9, <2>10 DEF OneTip
  <1>7. IsMint(b) \/ IsSend(b) \/ IsBurn(b) \/ IsReceive(b)
    BY <1>1 DEF Blocks, BlockFields, IsMint, IsSend, IsBurn, IsReceive
  <1> QED BY <1>3, <1>4, <1>5, <1>6, <1>7

\* Every line stays sound.
LEMMA LinesStep ==
    ASSUME LedgerType, DeviceType, DeviceType', WireShape, WireShape', CustodyInv, NodeInv, LinesSound,
           NEW n \in Nodes, NEW b \in Blocks, NewBlock(n, b)
    PROVE  LinesSound'
  <1> SUFFICES ASSUME NEW S \in SUBSET wire', Line(S)
               PROVE  LineSound(S)
    BY DEF LinesSound
  <1> DEFINE R == S \ {b}
  <1>0. ChainShape
    BY DEF CustodyInv
  <1>1. R \in SUBSET wire /\ Line(R) /\ \A t \in Tokens : HasSources(S, t) => HasSources(R, t)
    BY LineBefore
  <1>2. LineSound(R)
    BY <1>1 DEF LinesSound
  <1>3. CASE b \notin S
    <2>1. S = R
      BY <1>3
    <2> QED BY <1>2, <2>1
  <1>4. CASE b \in S
    <2>1. OneReceive(S)
      <3> SUFFICES ASSUME NEW x \in S, NEW y \in S, IsReceive(x), IsReceive(y), x.src = y.src, x # y
                   PROVE  FALSE
        BY DEF OneReceive
      <3>1. CASE x = b
        BY <1>0, <1>4, <3>1, FreshReceive
      <3>2. CASE y = b
        BY <1>0, <1>4, <3>2, FreshReceive
      <3>3. CASE x # b /\ y # b
        BY <1>2, <3>3 DEF LineSound, OneReceive
      <3> QED BY <3>1, <3>2, <3>3
    <2>2. ASSUME NEW t \in Tokens, HasSources(S, t)
          PROVE  OneTip(S, t) /\ Minted(S, t)
      <3>1. OneTip(R, t) /\ Minted(R, t)
        BY <1>1, <1>2, <2>2 DEF LineSound
      <3> QED BY <1>4, <2>2, <3>1, TipStep
    <2> QED BY <2>1, <2>2 DEF LineSound
  <1> QED BY <1>3, <1>4

(***************************************************************************)
(* The steps.                                                              *)
(***************************************************************************)
Sound == LedgerType /\ DeviceType /\ CustodyInv /\ HistoryInv

\* What a signed block must satisfy, by its type.
LEMMA WireGrows ==
    ASSUME Sound, NEW n \in Nodes, NEW b \in Blocks, b \notin wire, NewBlock(n, b), b.type # "open",
           IsMint(b) => b.token = <<b.acct, b.idx>>, ~IsReceive(b) => b.src = <<>>
    PROVE  WireShape'
  <1>1. b.acct \in Accounts
    BY BlockType
  <1> DEFINE q == chain[n][b.acct]
  <1>2. q \in Seq(Blocks)
    BY <1>1 DEF Sound, LedgerType
  <1>3. Len(q) \in 1..Len(q) /\ Len(q) = b.idx /\ q[Len(q)] = HeadOf(n, b.acct)
    <2> HIDE DEF q
    <2>1. Len(q) \in Nat
      BY <1>2
    <2>2. Len(q) = b.idx /\ b.idx > 0
      BY DEF NewBlock, q
    <2> QED BY <2>1, <2>2 DEF HeadOf, q
  <1>4. HeadOf(n, b.acct) \in Known /\ HeadOf(n, b.acct).acct = b.acct /\ HeadOf(n, b.acct).idx = b.idx - 1
    BY <1>1, <1>3 DEF Sound, CustodyInv, ChainShape, HistoryInv, NodeInv, NodeKnows
  <1>5. HeadOf(n, b.acct) \in Blocks
    BY <1>4, KnownKinds DEF Sound, HistoryInv
  <1>6. b.prev \in Hashes
    BY <1>5, BlockType DEF NewBlock
  <1>7. wire' = wire \cup {b} /\ \A x \in wire : Hash(x) # Hash(b)
    BY DEF NewBlock
  <1>8. \A x \in wire' : x.idx > 0 /\ x.type # "open" /\ x.prev \in Hashes
    BY <1>6, <1>7 DEF Sound, HistoryInv, WireShape, NewBlock
  <1>9. \A x, y \in wire' : Hash(x) = Hash(y) => x = y
    BY <1>7 DEF Sound, HistoryInv, WireShape
  <1>10. \A x \in wire' : \E p \in Known' : Precedes(p, x)
    <2>1. Known \subseteq Known'
      BY <1>7 DEF Known
    <2>2. Precedes(HeadOf(n, b.acct), b)
      BY <1>4 DEF Precedes, NewBlock
    <2> QED BY <1>4, <1>7, <2>1, <2>2 DEF Sound, HistoryInv, WireShape
  <1>11. \A x \in wire' : (IsMint(x) => x.token = <<x.acct, x.idx>>) /\ (~IsReceive(x) => x.src = <<>>)
    BY <1>7 DEF Sound, HistoryInv, WireShape
  <1>12. \A r \in wire' : IsReceive(r) =>
            \E s \in wire' : IsSend(s) /\ Hash(s) = r.src /\ s.to = r.acct /\ s.token = r.token
    <2> SUFFICES ASSUME NEW r \in wire', IsReceive(r)
                 PROVE  \E s \in wire' : IsSend(s) /\ Hash(s) = r.src /\ s.to = r.acct /\ s.token = r.token
      OBVIOUS
    <2>1. CASE r \in wire
      <3>1. PICK s \in wire : IsSend(s) /\ Hash(s) = r.src /\ s.to = r.acct /\ s.token = r.token
        BY <2>1 DEF Sound, HistoryInv, WireShape
      <3> QED BY <1>7, <3>1
    <2>2. CASE r = b
      <3>1. PICK s \in offered[n] : Hash(s) = b.src /\ s.token = b.token /\ s.to = b.acct
        BY <2>2 DEF NewBlock
      <3>2. s \in wire /\ IsSend(s)
        BY DEF Sound, HistoryInv, NodeInv, NodeKnows, LedgerType, Sends
      <3> QED BY <1>7, <2>2, <3>1, <3>2
    <2> QED BY <1>7, <2>1, <2>2
  <1> QED BY <1>8, <1>9, <1>10, <1>11, <1>12 DEF WireShape

\* A block signed by its owner.
LEMMA SignHistory ==
    ASSUME Sound, DeviceType', NEW a \in Accounts, chain[Home[a]][a] # <<>>,
           NEW type \in {"nft-mint", "nft-send", "nft-receive", "nft-burn"},
           NEW token \in Tokens, NEW to \in Accounts, NEW src \in Hashes \cup {<<>>},
           type = "nft-mint" => token = <<a, Len(chain[Home[a]][a])>>,
           type \in {"nft-send", "nft-burn"} => owner[Home[a]][token] = a,
           type = "nft-receive" =>
              \E s \in offered[Home[a]] : Hash(s) = src /\ s.token = token /\ s.to = a,
           type # "nft-receive" => src = <<>>,
           Sign(a, type, token, to, src)
    PROVE  HistoryInv'
  <1> DEFINE n == Home[a]
             q == chain[n][a]
  <1>1. n \in Nodes
    BY CustodyAssumption
  <1>2. q \in Seq(Blocks) /\ q # <<>>
    BY <1>1 DEF Sound, LedgerType
  <1>3. q[Len(q)] \in Blocks /\ Len(q) \in Nat /\ Len(q) > 0
    BY <1>2
  <1>4. Hash(q[Len(q)]) \in Hashes
    <2> HIDE DEF q
    <2> QED BY <1>3, BlockType
  <1> DEFINE blk(t) == [acct |-> a, idx |-> Len(q), tag |-> t, prev |-> Hash(q[Len(q)]),
                        type |-> type, token |-> token, to |-> to, src |-> src]
  <1>5. PICK t \in Tags : /\ \A x \in wire : Hash(x) # Hash(blk(t))
                          /\ wire' = wire \cup {blk(t)}
                          /\ Enter(n, blk(t))
                          /\ Persist(n, {blk(t)})
                          /\ UNCHANGED <<toReplay, restarts>>
    BY DEF Sign, HeadOf
  <1> DEFINE b == blk(t)
  <1>6. /\ b.acct = a /\ b.idx = Len(q) /\ b.prev = Hash(q[Len(q)])
        /\ b.type = type /\ b.token = token /\ b.src = src /\ b.to = to
    OBVIOUS
  <1>7. b \in Blocks
    <2> HIDE DEF q, n
    <2>1. b \in BlockFields
      BY <1>3, <1>4 DEF BlockFields
    <2>2. (b.type # "open" <=> b.token \in Tokens) /\ (IsReceive(b) => b.src \in Hashes)
      <3>1. \A s : Hash(s) # <<>>
        BY DEF Hash
      <3> QED BY <3>1 DEF IsReceive
    <2> QED BY <2>1, <2>2 DEF Blocks
  <1> HIDE DEF b
  <1>8. NewBlock(n, b)
    <2>1. b.idx = Len(chain[n][b.acct]) /\ b.idx > 0 /\ b.prev = Hash(HeadOf(n, b.acct))
      BY <1>3, <1>6 DEF HeadOf
    <2>2. IsSend(b) \/ IsBurn(b) => owner[n][b.token] = b.acct
      BY <1>6 DEF IsSend, IsBurn
    <2>3. IsReceive(b) => \E s \in offered[n] : Hash(s) = b.src /\ s.token = b.token /\ s.to = b.acct
      BY <1>6 DEF IsReceive
    <2> QED BY <1>5, <2>1, <2>2, <2>3 DEF NewBlock, b
  <1>9. WireShape'
    <2>1. b \notin wire /\ b.type # "open"
      BY <1>5, <1>6 DEF b
    <2>2. (IsMint(b) => b.token = <<b.acct, b.idx>>) /\ (~IsReceive(b) => b.src = <<>>)
      BY <1>6 DEF IsMint, IsReceive
    <2> QED BY <1>1, <1>7, <1>8, <2>1, <2>2, WireGrows
  <1>10. wire \subseteq wire' /\ b \in wire'
    BY <1>5 DEF b
  <1>11. DiskKnows'
    <2>1. Known \subseteq Known' /\ b \in Known'
      BY <1>10 DEF Known
    <2>2. disk' = [disk EXCEPT ![n] = @ \cup {b}] /\ toReplay' = toReplay
      BY <1>5 DEF Persist, b
    <2> QED BY <2>1, <2>2 DEF Sound, HistoryInv, NodeInv, DiskKnows, DeviceType
  <1>12. Enter(n, b)
    BY <1>5 DEF b
  <1>13. b \in Known' /\ b.idx = Len(chain[n][b.acct]) /\ (b.idx > 0 => b.prev = Hash(HeadOf(n, b.acct)))
    BY <1>8, <1>10 DEF NewBlock, Known
  <1> HIDE DEF n
  <1>14. NodeInv'
    BY <1>1, <1>7, <1>9, <1>10, <1>11, <1>12, <1>13, ChainsGrow DEF Sound, HistoryInv
  <1>15. LinesSound'
    BY <1>1, <1>7, <1>8, <1>9, LinesStep DEF Sound, HistoryInv
  <1> QED BY <1>9, <1>14, <1>15 DEF HistoryInv

\* A step that publishes nothing.
LEMMA WireStill ==
    ASSUME WireShape, LinesSound, UNCHANGED wire
    PROVE  WireShape' /\ LinesSound' /\ Known' = Known
  <1>1. Known' = Known
    BY DEF Known
  <1>2. WireShape'
    BY <1>1 DEF WireShape
  <1>3. LinesSound'
    BY DEF LinesSound
  <1> QED BY <1>1, <1>2, <1>3

\* The open block has no transfer.
LEMMA SendKnown ==
    ASSUME WireShape, DeviceType, NEW b \in Known, IsSend(b)
    PROVE  b \in wire
  BY KnownKinds DEF IsSend

\* A retained sibling.
LEMMA RetainHistory ==
    ASSUME Sound, NEW n \in Nodes, NEW b \in Known, NEW stay \in SUBSET {x \in wire : Hash(x) \notin claimed[n]},
           Retain(n, b, stay)
    PROVE  \A k \in Nodes : /\ all'[k] \subseteq Known /\ offered'[k] \subseteq wire
                            /\ \A s \in offered'[k] : Hash(s) \notin claimed[k]
  <1> DEFINE fork == DoubleSpend(chain[n][b.acct][b.idx + 1], b)
  <1>1. all' = [all EXCEPT ![n] = @ \cup {b}]
    BY DEF Retain
  <1>2. offered' = [offered EXCEPT ![n] = (IF fork THEN AfterFreeze(n, b.acct) ELSE @) \cup stay]
    BY DEF Retain
  <1> HIDE DEF fork
  <1>3. \A k \in Nodes : all'[k] \subseteq Known
    BY <1>1 DEF Sound, LedgerType, HistoryInv, NodeInv, NodeKnows
  <1>4. AfterFreeze(n, b.acct) \subseteq offered[n]
    BY DEF AfterFreeze
  <1>5. \A k \in Nodes : offered'[k] \subseteq offered[k] \cup (IF k = n THEN stay ELSE {})
    BY <1>2, <1>4 DEF Sound, LedgerType
  <1>6. \A k \in Nodes : \A s \in offered[k] : s \in wire /\ Hash(s) \notin claimed[k]
    BY DEF Sound, HistoryInv, NodeInv, NodeKnows, ClaimsKept
  <1> QED BY <1>3, <1>5, <1>6

\* A block given to addBlock.
LEMMA AddHistory ==
    ASSUME Sound, DeviceType', DiskKnows', UNCHANGED wire, NEW n \in Nodes, NEW b \in Known, AddBlock(n, b)
    PROVE  HistoryInv'
  <1>1. WireShape' /\ LinesSound' /\ Known' = Known
    BY WireStill DEF Sound, HistoryInv
  <1>2. b \in Blocks
    BY KnownKinds DEF Sound, HistoryInv
  <1>3. CASE Extends(n, b) /\ Enter(n, b)
    <2>1. b.idx = Len(chain[n][b.acct]) /\ (b.idx > 0 => b.prev = Hash(HeadOf(n, b.acct)))
      BY <1>3 DEF Extends
    <2>2. NodeInv'
      BY <1>1, <1>2, <1>3, <2>1, ChainsGrow DEF Sound, HistoryInv
    <2> QED BY <1>1, <2>2 DEF HistoryInv
  <1>4. CASE Retain(n, b, {}) /\ UNCHANGED <<chain, info, custody, owner, claimed, burned>>
    <2>1. \A k \in Nodes : /\ all'[k] \subseteq Known /\ offered'[k] \subseteq wire
                           /\ \A s \in offered'[k] : Hash(s) \notin claimed[k]
      <3>1. {} \in SUBSET {x \in wire : Hash(x) \notin claimed[n]}
        OBVIOUS
      <3> QED BY <1>4, <3>1, RetainHistory
    <2>2. NodeInv'
      BY <1>1, <1>4, <2>1, ChainsStill DEF Sound, HistoryInv, DiskKnows
    <2> QED BY <1>1, <2>2 DEF HistoryInv
  <1>5. CASE UNCHANGED ledger
    <2>1. UNCHANGED <<chain, all, custody, offered, claimed, burned>>
      BY <1>5 DEF ledger, tokens
    <2>2. NodeInv'
      BY <1>1, <2>1, ChainsStill DEF Sound, HistoryInv, NodeInv, NodeKnows, ClaimsKept, DiskKnows
    <2> QED BY <1>1, <2>2 DEF HistoryInv
  <1> QED BY <1>3, <1>4, <1>5 DEF AddBlock

\* A block that addBlock refused in the replay: a send it restores leaves its
\* account without the token.
LEMMA RestoreHistory ==
    ASSUME Sound, DeviceType', DiskKnows', UNCHANGED wire, NEW n \in Nodes, NEW b \in Known, Restore(n, b)
    PROVE  HistoryInv'
  <1>1. WireShape' /\ LinesSound' /\ Known' = Known
    BY WireStill DEF Sound, HistoryInv
  <1>2. b \in Blocks
    BY KnownKinds DEF Sound, HistoryInv
  <1>3. UNCHANGED <<chain, claimed, burned>>
    BY DEF Restore
  <1>4. \A k \in Nodes : \A s \in offered[k] : s \in wire /\ Hash(s) \notin claimed[k]
    BY DEF Sound, HistoryInv, NodeInv, NodeKnows, ClaimsKept
  <1>5. Offer(n, b) \in SUBSET {x \in wire : Hash(x) \notin claimed[n]}
    BY SendKnown DEF Offer, Sound, HistoryInv
  <1>6. \A k \in Nodes : /\ all'[k] \subseteq Known /\ offered'[k] \subseteq wire
                         /\ \A s \in offered'[k] : Hash(s) \notin claimed[k]
    <2> DEFINE stay == IF Reseats(n, b) THEN Offer(n, b) ELSE {}
    <2>1. stay \in SUBSET {x \in wire : Hash(x) \notin claimed[n]}
      BY <1>5
    <2>2. CASE Conflicts(n, b)
      <3>1. Retain(n, b, stay)
        BY <2>2 DEF Restore
      <3> HIDE DEF stay
      <3> QED BY <2>1, <3>1, RetainHistory
    <2>3. CASE ~Conflicts(n, b)
      <3>1. /\ all' = [all EXCEPT ![n] = IF Reseats(n, b) THEN @ \cup {b} ELSE @]
            /\ offered' = [offered EXCEPT ![n] = IF Reseats(n, b) THEN @ \cup Offer(n, b) ELSE @]
        BY <2>3 DEF Restore
      <3>2. \A k \in Nodes : all'[k] \subseteq all[k] \cup {b}
        BY <3>1 DEF Sound, LedgerType
      <3>3. \A k \in Nodes : offered'[k] \subseteq offered[k] \cup (IF k = n THEN Offer(n, b) ELSE {})
        BY <3>1 DEF Sound, LedgerType
      <3>4. \A k \in Nodes : all[k] \subseteq Known
        BY DEF Sound, HistoryInv, NodeInv, NodeKnows
      <3> QED BY <1>4, <1>5, <3>2, <3>3, <3>4
    <2> QED BY <2>2, <2>3
  <1>7. \A k \in Nodes, t \in Tokens, a \in Accounts :
           custody'[k][t][a] = custody[k][t][a] \/ ~custody'[k][t][a].holds
    <2>1. CASE IsSend(b)
      <3>1. ApplyCustody(n, b) /\ b.type # "open" /\ ~Holding(b)
        BY <2>1 DEF Restore, Reseats, IsSend, Holding, IsMint, IsReceive
      <3> QED BY <1>2, <3>1, RecordsMove DEF Sound
    <2>2. CASE ~IsSend(b)
      BY <2>2 DEF Restore
    <2> QED BY <2>1, <2>2
  <1>8. NodeInv'
    BY <1>1, <1>3, <1>6, <1>7, ChainsStill DEF Sound, HistoryInv, DiskKnows
  <1> QED BY <1>1, <1>8 DEF HistoryInv

\* A reload.
LEMMA RestartHistory ==
    ASSUME Sound, NEW n \in Nodes, Restart(n)
    PROVE  HistoryInv'
  <1>1. WireShape' /\ LinesSound' /\ Known' = Known
    BY WireStill DEF Sound, HistoryInv, Restart
  <1>2. \A k \in Nodes : k # n =>
           /\ chain'[k] = chain[k] /\ all'[k] = all[k] /\ custody'[k] = custody[k]
           /\ offered'[k] = offered[k] /\ claimed'[k] = claimed[k] /\ burned'[k] = burned[k]
    BY DEF Restart, Sound, LedgerType
  <1>3. /\ \A a \in Accounts : chain'[n][a] = <<>>
        /\ all'[n] = {} /\ offered'[n] = {} /\ burned'[n] = {}
        /\ \A t \in Tokens, a \in Accounts : custody'[n][t][a] = NoRecord
    BY DEF Restart, Sound, LedgerType
  <1>4. \A a \in Accounts : \A i \in 1..Len(chain'[n][a]) : FALSE
    BY <1>3
  <1>5. DiskKnows'
    BY <1>1 DEF Restart, Sound, DeviceType, HistoryInv, NodeInv, DiskKnows
  <1>6. NodeKnows'
    <2> SUFFICES ASSUME NEW k \in Nodes
                 PROVE  /\ all'[k] \subseteq Known /\ offered'[k] \subseteq wire
                        /\ \A a \in Accounts : \A i \in 1..Len(chain'[k][a]) : chain'[k][a][i] \in Known
      BY <1>1 DEF NodeKnows, Restart
    <2>1. CASE k = n
      BY <1>3, <1>4, <2>1
    <2>2. CASE k # n
      BY <1>2, <2>2 DEF Sound, HistoryInv, NodeInv, NodeKnows
    <2> QED BY <2>1, <2>2
  <1>7. ChainLinked'
    BY <1>2, <1>4 DEF Sound, HistoryInv, NodeInv, ChainLinked
  <1>8. ClaimsKept'
    BY <1>2, <1>3, <1>4 DEF Sound, HistoryInv, NodeInv, ClaimsKept
  <1>9. HeldInChain'
    <2>1. \A t \in Tokens, a \in Accounts : ~custody'[n][t][a].holds
      BY <1>3 DEF NoRecord
    <2> SUFFICES ASSUME NEW k \in Nodes, NEW t \in Tokens, NEW a \in Accounts, custody'[k][t][a].holds
                 PROVE  \E i \in 1..Len(chain'[k][a]) :
                           /\ chain'[k][a][i].token = t /\ chain'[k][a][i].idx = custody'[k][t][a].idx
                           /\ Holding(chain'[k][a][i])
      BY DEF HeldInChain
    <2>2. chain'[k] = chain[k] /\ custody'[k] = custody[k]
      BY <1>2, <2>1
    <2> QED BY <2>2 DEF Sound, HistoryInv, NodeInv, HeldInChain
  <1>10. BurnsInChain'
    BY <1>2, <1>3, <1>4 DEF Sound, HistoryInv, NodeInv, BurnsInChain
  <1> QED BY <1>1, <1>5, <1>6, <1>7, <1>8, <1>9, <1>10 DEF HistoryInv, NodeInv

\* Every step of Next.
LEMMA NextHistory ==
    ASSUME Sound, [Next]_vars
    PROVE  Sound'
  <1>0. LedgerType' /\ DeviceType' /\ CustodyInv'
    BY NextKeeps DEF Sound
  <1>a. \A a \in Accounts : Home[a] \in Nodes
    BY CustodyAssumption
  <1>b. \A n \in Nodes : offered[n] \subseteq wire /\ toReplay[n] \subseteq Known /\ disk[n] \subseteq Known
                         /\ all[n] \subseteq Known
    BY DEF Sound, HistoryInv, NodeInv, NodeKnows, DiskKnows
  <1>1. ASSUME NEW a \in Accounts, CreateMintNft(a)
        PROVE  HistoryInv'
    <2> DEFINE token == <<a, Len(chain[Home[a]][a])>>
    <2>1. Sign(a, "nft-mint", token, a, <<>>) /\ chain[Home[a]][a] # <<>> /\ a \in Minters
      BY <1>1 DEF CreateMintNft, May
    <2>2. Len(chain[Home[a]][a]) \in Nat \ {0}
      <3>1. chain[Home[a]][a] \in Seq(Blocks)
        BY <1>a DEF Sound, LedgerType
      <3> QED BY <2>1, <3>1
    <2>3. Len(chain[Home[a]][a]) <= LastIndex[a]
      BY <2>1 DEF Sign
    <2>4. token \in Tokens
      <3> DEFINE l == Len(chain[Home[a]][a])
      <3>1. LastIndex[a] \in Nat
        BY CustodyAssumption
      <3> HIDE DEF l
      <3>2. l \in Nat \ {0} /\ l <= LastIndex[a]
        BY <2>2, <2>3 DEF l
      <3>3. l \in 1..LastIndex[a]
        BY <3>1, <3>2
      <3>4. <<a, l>> \in Tokens
        BY <2>1, <3>3 DEF Tokens
      <3> QED BY <3>4 DEF l
    <2> QED BY <1>0, <2>1, <2>4, SignHistory
  <1>2. ASSUME NEW a \in Accounts, NEW t \in Tokens, NEW to \in Accounts, CreateTransferNft(a, t, to)
        PROVE  HistoryInv'
    BY <1>0, <1>2, SignHistory DEF CreateTransferNft, May
  <1>3. ASSUME NEW a \in Accounts, NEW s \in offered[Home[a]], CreateReceiveNft(a, s)
        PROVE  HistoryInv'
    <2>1. s \in Blocks /\ IsSend(s)
      BY <1>a DEF Sound, LedgerType, Sends
    <2>2. s.token \in Tokens /\ Hash(s) \in Hashes
      BY <2>1, BlockType DEF IsSend
    <2>3. s.to = a /\ chain[Home[a]][a] # <<>> /\ Sign(a, "nft-receive", s.token, a, Hash(s))
      BY <1>3 DEF CreateReceiveNft, May
    <2> QED BY <1>0, <2>2, <2>3, SignHistory
  <1>4. ASSUME NEW a \in Accounts, NEW t \in Tokens, CreateBurnNft(a, t)
        PROVE  HistoryInv'
    BY <1>0, <1>4, SignHistory DEF CreateBurnNft, May
  <1>5. ASSUME NEW n \in Nodes, NEW b \in wire, Deliver(n, b)
        PROVE  HistoryInv'
    <2>1. DiskKnows' /\ b \in Known
      BY <1>5, <1>b DEF Deliver, Persist, Known, DiskKnows, Sound, DeviceType
    <2> QED BY <1>0, <1>5, <2>1, AddHistory DEF Deliver
  <1>6. ASSUME NEW n \in Nodes, UNCHANGED <<wire, chain, custody, claimed, burned>>, DiskKnows',
               \A k \in Nodes : /\ all'[k] \subseteq Known /\ offered'[k] \subseteq wire
                                /\ \A s \in offered'[k] : Hash(s) \notin claimed[k]
        PROVE  HistoryInv'
    <2>1. WireShape' /\ LinesSound' /\ Known' = Known
      BY <1>6, WireStill DEF Sound, HistoryInv
    <2>2. NodeInv'
      BY <1>6, <2>1, ChainsStill DEF Sound, HistoryInv, DiskKnows
    <2> QED BY <2>1, <2>2 DEF HistoryInv
  <1>7. ASSUME NEW n \in Nodes, NEW s \in wire, NEW mint \in wire, RegisterMint(n, s, mint)
        PROVE  HistoryInv'
    <2>1. DiskKnows'
      BY <1>7, <1>b DEF RegisterMint, Persist, Known, DiskKnows, Sound, DeviceType
    <2>2. \A k \in Nodes : all'[k] \subseteq Known
      BY <1>7, <1>b DEF RegisterMint, Known, Sound, LedgerType
    <2>3. \A k \in Nodes : offered'[k] \subseteq wire /\ \A x \in offered'[k] : Hash(x) \notin claimed[k]
      BY <1>7, <1>b DEF RegisterMint, Sound, HistoryInv, NodeInv, ClaimsKept
    <2> QED BY <1>6, <1>7, <2>1, <2>2, <2>3 DEF RegisterMint
  <1>8. ASSUME NEW n \in Nodes, NEW s \in wire, RegisterSend(n, s)
        PROVE  HistoryInv'
    <2>1. DiskKnows'
      BY <1>8, <1>b DEF RegisterSend, Persist, Known, DiskKnows, Sound, DeviceType
    <2>2. \A k \in Nodes : all'[k] \subseteq Known
      BY <1>8, <1>b DEF RegisterSend, Known, Sound, LedgerType
    <2>3. ASSUME NEW k \in Nodes
          PROVE  offered'[k] \subseteq wire /\ \A x \in offered'[k] : Hash(x) \notin claimed[k]
      <3>1. offered'[k] \subseteq offered[k] \cup (IF k = n THEN {s} ELSE {}) /\ Hash(s) \notin claimed[n]
        BY <1>8 DEF RegisterSend, Sound, LedgerType
      <3> QED BY <1>b, <3>1 DEF Sound, HistoryInv, NodeInv, ClaimsKept
    <2> QED BY <1>6, <1>8, <2>1, <2>2, <2>3 DEF RegisterSend
  <1>9. ASSUME NEW n \in Nodes, NEW x \in wire, NEW y \in wire, DeliverEvidence(n, x, y)
        PROVE  HistoryInv'
    <2>1. DiskKnows'
      BY <1>9, <1>b DEF DeliverEvidence, device, Known, DiskKnows
    <2>2. \A k \in Nodes : offered'[k] \subseteq offered[k]
      BY <1>9 DEF DeliverEvidence, AfterFreeze, Sound, LedgerType
    <2>3. \A k \in Nodes : offered'[k] \subseteq wire /\ \A s \in offered'[k] : Hash(s) \notin claimed[k]
      BY <1>b, <2>2 DEF Sound, HistoryInv, NodeInv, ClaimsKept
    <2> QED BY <1>6, <1>9, <1>b, <2>1, <2>3 DEF DeliverEvidence
  <1>10. ASSUME NEW n \in Nodes, Restart(n)
         PROVE  HistoryInv'
    BY <1>10, RestartHistory
  <1>11. ASSUME NEW n \in Nodes, NEW b \in toReplay[n], Replay(n, b)
         PROVE  HistoryInv'
    <2>1. b \in Known /\ wire' = wire /\ disk' = disk
      BY <1>11, <1>b DEF Replay
    <2>2. DiskKnows'
      BY <1>11, <1>b, <2>1 DEF Replay, DiskKnows, Known, Sound, DeviceType
    <2>3. CASE Extends(n, b) /\ Enter(n, b)
      BY <1>0, <2>1, <2>2, <2>3, AddHistory DEF AddBlock
    <2>4. CASE UNCHANGED ledger
      <3>1. UNCHANGED <<chain, all, custody, offered, claimed, burned>>
        BY <2>4 DEF ledger, tokens
      <3>2. \A k \in Nodes : offered[k] \subseteq wire /\ \A s \in offered[k] : Hash(s) \notin claimed[k]
        BY <1>b DEF Sound, HistoryInv, NodeInv, ClaimsKept
      <3> QED BY <1>6, <1>b, <2>1, <2>2, <3>1, <3>2
    <2>5. CASE Restore(n, b)
      BY <1>0, <2>1, <2>2, <2>5, RestoreHistory
    <2> QED BY <1>11, <2>3, <2>4, <2>5 DEF Replay
  <1>12. CASE UNCHANGED vars
    <2>1. UNCHANGED <<wire, chain, all, custody, offered, claimed, burned, disk, toReplay>>
      BY <1>12 DEF vars, ledger, tokens, device
    <2>2. WireShape' /\ LinesSound' /\ Known' = Known
      BY <2>1, WireStill DEF Sound, HistoryInv
    <2>3. NodeInv'
      BY <1>b, <2>1, <2>2, ChainsStill DEF Sound, HistoryInv, NodeInv, ClaimsKept
    <2> QED BY <1>0, <2>2, <2>3 DEF Sound, HistoryInv
  <1>13. HistoryInv'
    BY <1>1, <1>2, <1>3, <1>4, <1>5, <1>7, <1>8, <1>9, <1>10, <1>11, <1>12
       DEF Next, OwnerStep, NodeStep, Sound
  <1> QED BY <1>0, <1>13 DEF Sound

\* Initially nothing is published.
LEMMA InitHistory ==
    ASSUME Init
    PROVE  Sound
  <1>1. LedgerType /\ DeviceType /\ CustodyInv
    BY InitKeeps
  <1>2. WireShape
    BY DEF Init, WireShape
  <1>3. LinesSound
    <2> SUFFICES ASSUME NEW S \in SUBSET wire
                 PROVE  LineSound(S)
      BY DEF LinesSound
    <2>1. S = {}
      BY DEF Init
    <2>2. OneReceive(S) /\ \A t \in Tokens : Minted(S, t) /\ Tips(S, t) = {}
      BY <2>1 DEF OneReceive, Tips, Minted
    <2> QED BY <2>2 DEF LineSound, OneTip
  <1>4. ASSUME NEW n \in Nodes, NEW a \in Accounts
        PROVE  \A i \in 1..Len(chain[n][a]) : i = 1 /\ chain[n][a][i] = OpenBlock(a)
    <2>1. chain[n][a] = (IF a \in Follows[n] THEN <<OpenBlock(a)>> ELSE <<>>)
      BY DEF Init
    <2>2. CASE a \in Follows[n]
      <3> DEFINE o == OpenBlock(a)
      <3>1. chain[n][a] = <<o>>
        BY <2>1, <2>2
      <3> HIDE DEF o
      <3>2. Len(<<o>>) = 1 /\ <<o>>[1] = o
        OBVIOUS
      <3>3. \A i \in 1..Len(<<o>>) : i = 1 /\ <<o>>[i] = o
        BY <3>2
      <3> QED BY <3>1, <3>3 DEF o
    <2>3. CASE a \notin Follows[n]
      BY <2>1, <2>3
    <2> QED BY <2>2, <2>3
  <1>5. \A n \in Nodes : {OpenBlock(a) : a \in Follows[n]} \subseteq Known
    BY CustodyAssumption DEF Known, Opens
  <1>6. DiskKnows /\ NodeKnows
    <2>1. \A a \in Accounts : OpenBlock(a) \in Known
      BY DEF Known, Opens
    <2> QED BY <1>4, <1>5, <2>1 DEF Init, DiskKnows, NodeKnows
  <1>7. ChainLinked
    BY <1>4 DEF ChainLinked
  <1>8. ClaimsKept
    <2>1. \A a \in Accounts : ~IsReceive(OpenBlock(a))
      BY DEF OpenBlock, IsReceive
    <2> QED BY <1>4, <2>1 DEF Init, ClaimsKept
  <1>9. HeldInChain
    BY DEF Init, HeldInChain, NoRecord
  <1>10. BurnsInChain
    <2>1. \A a \in Accounts : ~IsBurn(OpenBlock(a))
      BY DEF OpenBlock, IsBurn
    <2> QED BY <1>4, <2>1 DEF Init, BurnsInChain
  <1> QED BY <1>1, <1>2, <1>3, <1>6, <1>7, <1>8, <1>9, <1>10 DEF Sound, HistoryInv, NodeInv

(***************************************************************************)
(* What follows.                                                           *)
(***************************************************************************)

\* The chains of a node, their open blocks aside, are a line.
LEMMA ViewIsLine ==
    ASSUME Sound, NEW n \in Nodes
    PROVE  /\ View(n) \ Opens \in SUBSET wire
           /\ Line(View(n) \ Opens)
           /\ \A x \in View(n), t \in Tokens : x.token = t => x \in View(n) \ Opens
           /\ \A x, y \in View(n) : x.acct = y.acct /\ x.idx = y.idx => x = y
  <1> DEFINE S == View(n) \ Opens
  <1>1. ASSUME NEW x \in View(n)
        PROVE  \E a \in Accounts : \E i \in 1..Len(chain[n][a]) :
                  /\ x = chain[n][a][i] /\ x.acct = a /\ x.idx = i - 1 /\ x \in Known
                  /\ i > 1 => x.prev = Hash(chain[n][a][i - 1])
    <2>1. PICK a \in Accounts : x \in BlocksOf(n, a)
      BY DEF View
    <2>2. PICK i \in 1..Len(chain[n][a]) : x = chain[n][a][i]
      BY <2>1 DEF BlocksOf
    <2> QED BY <2>2 DEF Sound, CustodyInv, ChainShape, HistoryInv, NodeInv, NodeKnows, ChainLinked
  <1>2. \A a \in Accounts : \A i \in 1..Len(chain[n][a]) : chain[n][a][i] \in View(n)
    BY DEF View, BlocksOf
  <1>3. S \in SUBSET wire
    BY <1>1 DEF Known
  <1>4. \A x, y \in View(n) : x.acct = y.acct /\ x.idx = y.idx => x = y
    <2> SUFFICES ASSUME NEW x \in View(n), NEW y \in View(n), x.acct = y.acct, x.idx = y.idx
                 PROVE  x = y
      OBVIOUS
    <2>1. PICK a \in Accounts : \E i \in 1..Len(chain[n][a]) : x = chain[n][a][i] /\ x.acct = a /\ x.idx = i - 1
      BY <1>1
    <2>2. PICK i \in 1..Len(chain[n][a]) : x = chain[n][a][i] /\ x.idx = i - 1
      BY <2>1
    <2>3. PICK j \in 1..Len(chain[n][a]) : y = chain[n][a][j] /\ y.idx = j - 1
      BY <1>1, <2>1
    <2>4. i = j
      BY <2>2, <2>3
    <2> QED BY <2>2, <2>3, <2>4
  <1>5. ASSUME NEW x \in S, x.idx > 1 PROVE \E p \in S : Precedes(p, x)
    <2>1. PICK a \in Accounts : \E i \in 1..Len(chain[n][a]) :
                  /\ x = chain[n][a][i] /\ x.acct = a /\ x.idx = i - 1
                  /\ i > 1 => x.prev = Hash(chain[n][a][i - 1])
      BY <1>1
    <2>2. PICK i \in 1..Len(chain[n][a]) :
                  /\ x = chain[n][a][i] /\ x.acct = a /\ x.idx = i - 1
                  /\ i > 1 => x.prev = Hash(chain[n][a][i - 1])
      BY <2>1
    <2>3. Len(chain[n][a]) \in Nat
      <3>1. chain[n][a] \in Seq(Blocks)
        BY DEF Sound, LedgerType
      <3> QED BY <3>1
    <2> DEFINE p == chain[n][a][i - 1]
    <2>4. i - 1 \in 1..Len(chain[n][a]) /\ i > 2
      BY <1>5, <2>2, <2>3
    <2>5. p \in View(n) /\ p.acct = a /\ p.idx = i - 2 /\ p \in Known
      <3>1. p \in Known /\ p.acct = a /\ p.idx = (i - 1) - 1
        BY <2>4 DEF Sound, CustodyInv, ChainShape, HistoryInv, NodeInv, NodeKnows
      <3> QED BY <1>2, <2>4, <3>1
    <2>6. Hash(p) = x.prev
      BY <2>2, <2>4
    <2> HIDE DEF p
    <2>7. p \notin Opens
      <3>1. p.idx > 0
        BY <2>4, <2>5
      <3> QED BY <3>1 DEF Opens, OpenBlock
    <2> QED BY <2>2, <2>4, <2>5, <2>6, <2>7 DEF Precedes
  <1>6. Line(S)
    BY <1>4, <1>5 DEF Line
  <1>7. ASSUME NEW x \in View(n), NEW t \in Tokens, x.token = t PROVE x \notin Opens
    BY <1>7, OpenBlockType DEF Opens
  <1> QED BY <1>3, <1>4, <1>6, <1>7

\* What NoDoubleClaim says follows.
LEMMA ClaimedOnce ==
    ASSUME Sound
    PROVE  NoDoubleClaim
  <1> SUFFICES ASSUME NEW n \in Nodes, NEW x \in View(n), NEW y \in View(n),
                      IsReceive(x), IsReceive(y), x.src = y.src
               PROVE  x = y
    BY DEF NoDoubleClaim
  <1>1. x \notin Opens /\ y \notin Opens
    BY DEF Opens, OpenBlock, IsReceive
  <1> QED BY <1>1, ViewIsLine DEF Sound, HistoryInv, LinesSound, LineSound, OneReceive

\* Without a fork all that is published is one line.
LEMMA WireIsLine ==
    ASSUME Sound, \A a \in Accounts : ~Forked(a)
    PROVE  Line(wire)
  <1>1. \A x \in wire : x \in Blocks /\ x.acct \in Accounts /\ x.idx \in Nat /\ x.idx > 0
    <2>1. \A x \in wire : x \in Blocks /\ x.idx > 0
      BY DEF Sound, DeviceType, HistoryInv, WireShape
    <2> QED BY <2>1, BlockType
  <1>2. ASSUME NEW x \in wire, NEW y \in wire, x.acct = y.acct, x.idx = y.idx, x.prev = y.prev
        PROVE  x = y
    <2>1. ~DoubleSpend(x, y)
      BY <1>1 DEF Forked
    <2>2. Hash(x) = Hash(y)
      BY <1>2, <2>1 DEF DoubleSpend
    <2> QED BY <2>2 DEF Sound, HistoryInv, WireShape
  <1> DEFINE T == {i \in Nat : \E x, y \in wire : x.acct = y.acct /\ x.idx = i /\ y.idx = i /\ x # y}
  <1>3. T = {}
    <2> SUFFICES ASSUME T # {} PROVE FALSE
      OBVIOUS
    <2>1. T \in SUBSET Nat
      OBVIOUS
    <2>2. PICK m \in T : \A i \in T : m <= i
      <3> HIDE DEF T
      <3> QED BY <2>1, LeastNumber
    <2>3. PICK x \in wire, y \in wire : x.acct = y.acct /\ x.idx = m /\ y.idx = m /\ x # y
      BY <2>2
    <2>4. PICK p \in Known : Precedes(p, x)
      BY DEF Sound, HistoryInv, WireShape
    <2>5. PICK r \in Known : Precedes(r, y)
      BY DEF Sound, HistoryInv, WireShape
    <2>6. p.acct = r.acct /\ p.idx = m - 1 /\ r.idx = m - 1 /\ Hash(p) = x.prev /\ Hash(r) = y.prev
      BY <2>3, <2>4, <2>5 DEF Precedes
    <2>7. m \in Nat /\ m > 0
      BY <1>1, <2>3
    <2>8. p = r
      <3>1. CASE m = 1
        BY <2>6, <3>1, KnownKinds DEF Sound, HistoryInv
      <3>2. CASE m > 1
        <4>1. p \in wire /\ r \in wire
          BY <2>6, <2>7, <3>2, KnownKinds DEF Sound, HistoryInv
        <4>2. m - 1 \in Nat /\ ~(m <= m - 1)
          BY <2>7
        <4>3. m - 1 \notin T
          <5> HIDE DEF T
          <5> QED BY <2>2, <4>2
        <4> QED BY <2>6, <4>1, <4>2, <4>3
      <3> QED BY <2>7, <3>1, <3>2
    <2> QED BY <1>2, <2>3, <2>6, <2>8
  <1>4. \A x, y \in wire : x.acct = y.acct /\ x.idx = y.idx => x = y
    BY <1>1, <1>3
  <1>5. ASSUME NEW x \in wire, x.idx > 1 PROVE \E p \in wire : Precedes(p, x)
    <2>1. PICK p \in Known : Precedes(p, x)
      BY DEF Sound, HistoryInv, WireShape
    <2>2. p.idx > 0
      BY <1>1, <1>5, <2>1 DEF Precedes
    <2> QED BY <2>1, <2>2, KnownKinds DEF Sound, HistoryInv
  <1> QED BY <1>4, <1>5 DEF Line

\* An owner that the blocks of a line tell of has a last place of the token.
LEMMA OwnerHasTip ==
    ASSUME NEW S, NEW t, NEW a \in OwnersTold(S, t)
    PROVE  \E b \in Tips(S, t) : Holding(b) /\ b.acct = a
  <1>1. PICK b \in LastWord(S, a, t) : Holding(b)
    BY DEF OwnersTold
  <1> QED BY <1>1 DEF LastWord, Tips, LastHolding

\* What OneOwner says follows.
LEMMA OwnedOnce ==
    ASSUME Sound
    PROVE  OneOwner
  <1> SUFFICES ASSUME \A a \in Accounts : ~Forked(a), NEW t \in Tokens
               PROVE  Cardinality(OwnersTold(wire, t)
                         \cup {Hash(s) : s \in {x \in wire : IsSend(x) /\ x.token = t
                                                     /\ \A r \in wire : r.src # Hash(x)}}) <= 1
    BY DEF OneOwner
  <1> DEFINE A == OwnersTold(wire, t)
             U == {x \in wire : IsSend(x) /\ x.token = t /\ \A r \in wire : r.src # Hash(x)}
             D == A \cup {Hash(s) : s \in U}
  <1>1. HasSources(wire, t)
    BY DEF Sound, HistoryInv, WireShape, HasSources
  <1>2. OneTip(wire, t)
    BY <1>1, WireIsLine DEF Sound, HistoryInv, LinesSound, LineSound
  <1>3. \A s \in U : s \in Tips(wire, t) /\ IsSend(s)
    BY DEF Tips, InTransfer
  <1>4. \A a \in A : \E b \in Tips(wire, t) : ~IsSend(b) /\ b.acct = a
    <2>1. \A b : Holding(b) => ~IsSend(b)
      BY DEF Holding, IsMint, IsReceive, IsSend
    <2> QED BY <2>1, OwnerHasTip
  <1> HIDE DEF A, U
  <1>5. ASSUME NEW x \in D, NEW y \in D PROVE x = y
    <2>1. CASE x \in A /\ y \in A
      BY <1>2, <1>4, <2>1 DEF OneTip
    <2>2. CASE x \in A /\ y \notin A
      BY <1>2, <1>3, <1>4, <2>2 DEF OneTip
    <2>3. CASE x \notin A /\ y \in A
      BY <1>2, <1>3, <1>4, <2>3 DEF OneTip
    <2>4. CASE x \notin A /\ y \notin A
      BY <1>2, <1>3, <2>4 DEF OneTip
    <2> QED BY <2>1, <2>2, <2>3, <2>4
  <1> HIDE DEF D
  <1>6. Cardinality(D) <= 1
    <2>1. CASE D = {}
      BY <2>1, FS_EmptySet
    <2>2. CASE D # {}
      <3>1. PICK x : x \in D
        BY <2>2
      <3>2. D = {x}
        BY <1>5, <3>1
      <3>3. Cardinality({x}) = 1
        BY FS_Singleton
      <3> QED BY <3>2, <3>3
    <2> QED BY <2>1, <2>2
  <1> QED BY <1>6 DEF D, A, U

\* What OwnerByHistory says follows.
LEMMA OwnerFromHistory ==
    ASSUME Sound
    PROVE  OwnerByHistory
  <1> SUFFICES ASSUME NEW n \in Nodes, NEW t \in Tokens,
                      \A b \in all[n] : b.token = t => b \in View(n),
                      \A b \in View(n) : b.token = t /\ IsReceive(b) => \E s \in View(n) : Hash(s) = b.src
               PROVE  {owner[n][t]} \ {NoOne} = OwnersTold(View(n), t)
    BY DEF OwnerByHistory
  <1> DEFINE V == View(n)
             S == V \ Opens
             c == custody[n][t]
  <1>1. /\ S \in SUBSET wire /\ Line(S)
        /\ \A x \in V : x.token = t => x \in S
        /\ \A x, y \in V : x.acct = y.acct /\ x.idx = y.idx => x = y
    BY ViewIsLine
  <1>2. HasSources(S, t)
    <2> SUFFICES ASSUME NEW r \in S, IsReceive(r), r.token = t
                 PROVE  \E s \in S : Hash(s) = r.src
      BY DEF HasSources
    <2>1. PICK s \in V : Hash(s) = r.src
      OBVIOUS
    <2>2. PICK u \in wire : Hash(u) = r.src
      BY <1>1 DEF Sound, HistoryInv, WireShape
    <2>3. s \notin Opens
      <3>1. s.idx = u.idx
        BY <2>1, <2>2, HashTells
      <3>2. u.idx > 0
        BY DEF Sound, HistoryInv, WireShape
      <3> QED BY <3>1, <3>2 DEF Opens, OpenBlock
    <2> QED BY <2>1, <2>3
  <1>3. OneTip(S, t)
    BY <1>1, <1>2 DEF Sound, HistoryInv, LinesSound, LineSound
  <1>4. \A a \in Accounts : \A i \in 1..Len(chain[n][a]) :
           chain[n][a][i] \in V /\ chain[n][a][i].acct = a
    BY DEF View, BlocksOf, Sound, CustodyInv, ChainShape
  <1>5. \A x \in V : \E a \in Accounts : \E i \in 1..Len(chain[n][a]) : x = chain[n][a][i] /\ x.acct = a
    BY DEF View, BlocksOf, Sound, CustodyInv, ChainShape
  <1>6. t \in burned[n] <=> \E b \in V : IsBurn(b) /\ b.token = t
    <2>1. t \in burned[n] <=> \E a \in Accounts : \E i \in 1..Len(chain[n][a]) :
                                  IsBurn(chain[n][a][i]) /\ chain[n][a][i].token = t
      BY DEF Sound, HistoryInv, NodeInv, BurnsInChain
    <2> HIDE DEF V
    <2> QED BY <1>4, <1>5, <2>1
  <1>7. \A x \in V : x.token = t => x.idx <= c[x.acct].idx /\ x.acct \in Accounts
    BY <1>5 DEF Sound, CustodyInv, NeverRewound
  <1>8. \A a \in Accounts : c[a].idx \in Nat \cup {-1}
    <2>1. \A a \in Accounts : c[a] \in Records
      BY DEF Sound, LedgerType
    <2> QED BY <2>1 DEF Records
  <1>9. \A x \in V : x.idx \in Nat
    <2>1. \A x \in V : x \in Known
      BY <1>5 DEF Sound, HistoryInv, NodeInv, NodeKnows
    <2>2. \A x \in V : x \in Blocks
      BY <2>1, KnownKinds DEF Sound, HistoryInv
    <2> QED BY <2>2, BlockType
  <1>10. \A a \in Accounts : c[a].idx # -1 =>
            \E b \in V : b.acct = a /\ b.token = t /\ b.idx = c[a].idx /\ Holding(b) = c[a].holds
    BY DEF Sound, CustodyInv, WordOfABlock
  <1>11. \A a \in Accounts : c[a].holds => c[a].idx # -1
    BY DEF Sound, CustodyInv, WordOfABlock
  <1>12. ASSUME NEW a \in Accounts
         PROVE  a \in Holders(c) <=> \E b \in LastWord(V, a, t) : Holding(b)
    <2>1. ASSUME a \in Holders(c) PROVE \E b \in LastWord(V, a, t) : Holding(b)
      <3>1. c[a].holds /\ c[a].idx # -1
        BY <1>11, <2>1 DEF Holders
      <3>2. PICK b \in V : b.acct = a /\ b.token = t /\ b.idx = c[a].idx /\ Holding(b)
        BY <1>10, <3>1
      <3>3. b \in LastWord(V, a, t)
        BY <1>7, <3>2 DEF LastWord
      <3> QED BY <3>2, <3>3
    <2>2. ASSUME NEW b \in LastWord(V, a, t), Holding(b) PROVE a \in Holders(c)
      <3>1. b \in V /\ b.acct = a /\ b.token = t /\ \A x \in V : x.acct = a /\ x.token = t => x.idx <= b.idx
        BY DEF LastWord
      <3>2. b.idx <= c[a].idx /\ b.idx \in Nat
        BY <1>7, <1>9, <3>1
      <3>3. c[a].idx # -1 /\ c[a].idx \in Nat
        BY <1>8, <3>2
      <3>4. PICK x \in V : x.acct = a /\ x.token = t /\ x.idx = c[a].idx /\ Holding(x) = c[a].holds
        BY <1>10, <3>3
      <3>5. x.idx = b.idx
        BY <3>1, <3>2, <3>3, <3>4
      <3>6. x = b
        BY <1>1, <3>1, <3>4, <3>5
      <3> QED BY <2>2, <3>4, <3>6 DEF Holders
    <2> QED BY <2>1, <2>2
  <1> HIDE DEF V, c
  <1>13. IF t \in burned[n] \/ Holders(c) = {} THEN owner[n][t] = NoOne ELSE owner[n][t] \in Holders(c)
    BY DEF Sound, CustodyInv, OwnerHolds, c
  <1>14. Holders(c) \subseteq Accounts /\ NoOne \notin Accounts
    <2>1. \A a \in Accounts : a \in Nat
      BY CustodyAssumption
    <2> QED BY <2>1 DEF Holders, NoOne
  <1>15. CASE t \in burned[n]
    BY <1>6, <1>13, <1>15 DEF OwnersTold, V
  <1>16. CASE t \notin burned[n]
    <2>1. OwnersTold(V, t) = Holders(c)
      BY <1>6, <1>12, <1>14, <1>16 DEF OwnersTold
    <2>2. ASSUME NEW a \in OwnersTold(V, t), NEW e \in OwnersTold(V, t)
          PROVE  a = e
      <3>1. PICK x \in Tips(V, t) : Holding(x) /\ x.acct = a
        BY OwnerHasTip
      <3>2. PICK y \in Tips(V, t) : Holding(y) /\ y.acct = e
        BY OwnerHasTip
      <3>3. x \in Tips(S, t) /\ y \in Tips(S, t)
        BY <1>1, <3>1, <3>2 DEF Tips, LastHolding, InTransfer
      <3> QED BY <1>3, <3>1, <3>2, <3>3 DEF OneTip
    <2>3. CASE Holders(c) = {}
      BY <1>13, <2>1, <2>3 DEF V
    <2>4. CASE Holders(c) # {}
      <3>1. owner[n][t] \in OwnersTold(V, t) /\ owner[n][t] # NoOne
        BY <1>13, <1>14, <1>16, <2>1, <2>4
      <3>2. OwnersTold(V, t) = {owner[n][t]}
        BY <2>2, <3>1
      <3> QED BY <3>1, <3>2 DEF V
    <2> QED BY <2>3, <2>4
  <1> QED BY <1>15, <1>16

\* The invariant that all this rests on holds throughout.
THEOREM HistorySound == Spec => []HistoryInv
  <1>1. Init => Sound
    BY InitHistory
  <1>2. Sound /\ [Next]_vars => Sound'
    BY NextHistory
  <1>3. Sound => HistoryInv
    BY DEF Sound
  <1> QED BY <1>1, <1>2, <1>3, PTL DEF Spec

\* No chain on any node receives a transfer twice, though addBlock does not
\* look for an earlier receive: the claimed set of the device that signs
\* (createReceiveNft, registerVerifiedSend) and the hashes are enough, forks,
\* truncated replays and restored transfers included.
THEOREM NftClaimedOnce == Spec => []NoDoubleClaim
  <1>1. Init => Sound
    BY InitHistory
  <1>2. Sound /\ [Next]_vars => Sound'
    BY NextHistory
  <1>3. Sound => NoDoubleClaim
    BY ClaimedOnce
  <1> QED BY <1>1, <1>2, <1>3, PTL DEF Spec

\* As long as no account has forked, a token is with one account or in one
\* transfer, whatever a device has replayed or lost of its own chain: the owner
\* index that createTransferNft and createBurnNft ask is never behind what the
\* account has published.
THEOREM NftOwnedOnce == Spec => []OneOwner
  <1>1. Init => Sound
    BY InitHistory
  <1>2. Sound /\ [Next]_vars => Sound'
    BY NextHistory
  <1>3. Sound => OneOwner
    BY OwnedOnce
  <1> QED BY <1>1, <1>2, <1>3, PTL DEF Spec

\* The owner a node names is the one its chains tell of, in whatever order it
\* has learned them, forks of others included: ownership is a function of the
\* blocks (the comment on nftCustody).
THEOREM NftOwnerByHistory == Spec => []OwnerByHistory
  <1>1. Init => Sound
    BY InitHistory
  <1>2. Sound /\ [Next]_vars => Sound'
    BY NextHistory
  <1>3. Sound => OwnerByHistory
    BY OwnerFromHistory
  <1> QED BY <1>1, <1>2, <1>3, PTL DEF Spec
=============================================================================
