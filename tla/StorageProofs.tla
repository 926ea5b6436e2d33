----------------------------- MODULE StorageProofs -----------------------------
(***************************************************************************)
(* The storage services: the economy that pays providers, and the custody  *)
(* of the content they are handed.  For any readers, devices, providers,   *)
(* blocks, caps and events.                                                *)
(*                                                                         *)
(* The economy (StorageEconomy).  Without any assumption on the devices: a *)
(* receipt claims what its reader attested on every way from a read into a *)
(* block, and a ledger is what its chain says, so no chain mints more than *)
(* the baselines moved and no baseline is above what was attested          *)
(* (BooksAgree, an inductive invariant).  Every block was due on the chain *)
(* it was signed on; and while one device signs, its writes are done and   *)
(* nothing it signed is refused, the blocks that anybody may know form one *)
(* path, so nothing freezes (ChainInv).                                    *)
(*                                                                         *)
(* The custody (ContentCustody), in the second half: what a receipt in     *)
(* flight, a counted holder and a served proof stand for (InCustodyInv).   *)
(***************************************************************************)
EXTENDS StorageEconomy, ContentCustody, SumTheorems


(***************************************************************************)
(* The greatest and the least element, and images of finite sets.          *)
(***************************************************************************)
LEMMA ImageFinite ==
    ASSUME NEW S, IsFiniteSet(S), NEW f
    PROVE  IsFiniteSet({f[x] : x \in S})
  <1> DEFINE T == {f[x] : x \in S}
             g == [x \in S |-> f[x]]
  <1>1. g \in Surjection(S, T)
    BY DEF Surjection
  <1> HIDE DEF T, g
  <1>2. IsFiniteSet(T)
    BY <1>1, FS_Surjection
  <1> QED BY <1>2 DEF T

LEMMA MaxIsIn ==
    ASSUME NEW S \in SUBSET Int, IsFiniteSet(S), S # {}
    PROVE  Max(S) \in S /\ \A x \in S : x <= Max(S)
  <1> DEFINE Top(T) == \E m \in T : \A y \in T : m >= y
             C == {T \in SUBSET S : T = {} \/ Top(T)}
  <1>1. C \in SUBSET SUBSET S /\ {} \in C
    OBVIOUS
  <1>2. ASSUME NEW T \in C, NEW x \in S \ T
        PROVE  T \cup {x} \in C
    <2>1. CASE T = {}
      <3>1. x >= x /\ x \in T \cup {x} /\ \A y \in T \cup {x} : y = x
        BY <2>1
      <3> QED BY <3>1
    <2>2. CASE Top(T)
      <3>1. PICK m \in T : \A y \in T : m >= y
        BY <2>2
      <3>2. m \in Int /\ x \in Int /\ \A y \in T : y \in Int
        OBVIOUS
      <3>3. CASE m >= x
        BY <3>1, <3>2, <3>3
      <3>4. CASE ~(m >= x)
        <4>1. \A y \in T \cup {x} : x >= y
          BY <3>1, <3>2, <3>4
        <4> QED BY <4>1
      <3> QED BY <3>3, <3>4
    <2> QED BY <2>1, <2>2
  <1> HIDE DEF C
  <1>3. C = SUBSET S
    BY <1>1, <1>2, FiniteSetInduction
  <1>4. PICK m \in S : \A y \in S : m >= y
    BY <1>3 DEF C
  <1>5. Max(S) \in S /\ \A y \in S : Max(S) >= y
    BY <1>4 DEF Max
  <1> QED BY <1>5

LEMMA MinIsIn ==
    ASSUME NEW S \in SUBSET Nat, S # {}
    PROVE  Min(S) \in S /\ \A x \in S : Min(S) <= x
  <1>1. PICK m \in S : \A y \in S : <<y, m>> \notin OpToRel(<, Nat)
    BY NatLessThanWellFounded, WFMin
  <1>2. \A y \in S : m <= y
    <2> SUFFICES ASSUME NEW y \in S, ~(m <= y) PROVE FALSE
      OBVIOUS
    <2>1. y < m /\ y \in Nat /\ m \in Nat
      OBVIOUS
    <2>2. <<y, m>> \in OpToRel(<, Nat)
      BY <2>1 DEF OpToRel
    <2> QED BY <1>1, <2>2
  <1> QED BY <1>2 DEF Min

\* Weights that are smaller one by one are smaller together.
LEMMA SumBelow ==
    ASSUME NEW S, IsFiniteSet(S), NEW u, NEW v, NEW w,
           \A x \in S : u[x] \in Int /\ v[x] \in Int /\ w[x] \in Int,
           \A x \in S : u[x] + v[x] <= w[x]
    PROVE  SumOver(u, S) + SumOver(v, S) <= SumOver(w, S)
  <1> DEFINE C == {T \in SUBSET S : SumOver(u, T) + SumOver(v, T) <= SumOver(w, T)}
  <1>1. C \in SUBSET SUBSET S /\ {} \in C
    <2>1. SumOver(u, {}) = 0 /\ SumOver(v, {}) = 0 /\ SumOver(w, {}) = 0
      BY SumEmpty
    <2> QED BY <2>1
  <1>2. ASSUME NEW T \in C, NEW x \in S \ T
        PROVE  T \cup {x} \in C
    <2>1. /\ IsFiniteSet(T) /\ T \in SUBSET S /\ x \notin T /\ x \in S
          /\ u[x] \in Int /\ v[x] \in Int /\ w[x] \in Int
          /\ \A y \in T : u[y] \in Int /\ v[y] \in Int /\ w[y] \in Int
      BY FS_Subset
    <2>2. /\ SumOver(u, T \cup {x}) = u[x] + SumOver(u, T)
          /\ SumOver(v, T \cup {x}) = v[x] + SumOver(v, T)
          /\ SumOver(w, T \cup {x}) = w[x] + SumOver(w, T)
      BY <2>1, SumAdd
    <2>3. SumOver(u, T) \in Int /\ SumOver(v, T) \in Int /\ SumOver(w, T) \in Int
      BY <2>1, SumType
    <2>4. SumOver(u, T) + SumOver(v, T) <= SumOver(w, T) /\ u[x] + v[x] <= w[x]
      BY <2>1
    <2>5. SumOver(u, T \cup {x}) + SumOver(v, T \cup {x}) <= SumOver(w, T \cup {x})
      BY <2>1, <2>2, <2>3, <2>4
    <2> QED BY <2>1, <2>5
  <1> HIDE DEF C
  <1>3. C = SUBSET S
    BY <1>1, <1>2, FiniteSetInduction
  <1> QED BY <1>3 DEF C

(***************************************************************************)
(* What is owed: the first envelope of a reader, and the moved baselines.  *)
(***************************************************************************)
LEMMA ReceiptIn ==
    ASSUME NEW rs \in Seq(Receipt), NEW i \in 1..Len(rs)
    PROVE  rs[i] \in Receipt /\ rs[i].reader \in Readers /\ rs[i].bytes \in Nat /\ rs[i].counter \in Nat
  <1>1. rs[i] \in Receipt
    OBVIOUS
  <1> QED BY <1>1 DEF Receipt

LEMMA FromReaderType ==
    ASSUME NEW rs \in Seq(Receipt), NEW r
    PROVE  /\ FromReader(rs, r) \subseteq 1..Len(rs) /\ FromReader(rs, r) \in SUBSET Nat
           /\ IsFiniteSet(FromReader(rs, r))
           /\ \A i \in FromReader(rs, r) : rs[i].reader = r /\ rs[i].bytes \in Nat
  <1>1. Len(rs) \in Nat /\ DOMAIN rs = 1..Len(rs)
    OBVIOUS
  <1>2. FromReader(rs, r) \subseteq 1..Len(rs)
    BY <1>1 DEF FromReader
  <1>3. IsFiniteSet(1..Len(rs))
    BY <1>1, FS_Interval
  <1>4. IsFiniteSet(FromReader(rs, r))
    BY <1>2, <1>3, FS_Subset
  <1>5. \A i \in FromReader(rs, r) : rs[i].reader = r /\ rs[i].bytes \in Nat
    BY <1>2, ReceiptIn DEF FromReader
  <1> QED BY <1>1, <1>2, <1>4, <1>5

\* What a reader's first envelope claims is what one of its envelopes claims.
LEMMA FirstOfIn ==
    ASSUME NEW rs \in Seq(Receipt), NEW r
    PROVE  /\ FirstOf(rs, r).bytes \in Nat
           /\ FirstOf(rs, r).bytes > 0 =>
                \E i \in FromReader(rs, r) : FirstOf(rs, r).bytes = rs[i].bytes
  <1>1. CASE FromReader(rs, r) = {}
    BY <1>1 DEF FirstOf, NoTally
  <1>2. CASE FromReader(rs, r) # {}
    <2>1. Min(FromReader(rs, r)) \in FromReader(rs, r)
      BY <1>2, FromReaderType, MinIsIn
    <2>2. FirstOf(rs, r) = rs[Min(FromReader(rs, r))]
      BY <1>2 DEF FirstOf
    <2> QED BY <2>1, <2>2, FromReaderType
  <1> QED BY <1>1, <1>2

\* The baselines after a settlement: raised to the most a receipt claims.
Moved(m, baseline, rs) ==
    /\ m \in [Readers -> Nat]
    /\ \A r \in Readers : baseline[r] <= m[r]
    /\ \A r \in Readers : \A i \in FromReader(rs, r) : rs[i].bytes <= m[r]
    /\ \A r \in Readers : m[r] # baseline[r] => \E i \in FromReader(rs, r) : m[r] = rs[i].bytes

LEMMA BaselinesMove ==
    ASSUME NEW baseline \in [Readers -> Nat], NEW rs \in Seq(Receipt)
    PROVE  Moved(MoveBaselines(baseline, rs), baseline, rs)
  <1> DEFINE claims == [i \in 1..Len(rs) |-> rs[i].bytes]
             C(r) == {rs[i].bytes : i \in FromReader(rs, r)}
             M(r) == {baseline[r]} \cup C(r)
  <1>1. ASSUME NEW r \in Readers
        PROVE  Max(M(r)) \in M(r) /\ M(r) \subseteq Nat /\ \A x \in M(r) : x <= Max(M(r))
    <2>1. \A i \in FromReader(rs, r) : claims[i] = rs[i].bytes
      BY FromReaderType
    <2>2. C(r) = {claims[i] : i \in FromReader(rs, r)}
      BY <2>1
    <2> HIDE DEF claims
    <2>3. IsFiniteSet(C(r))
      <3> DEFINE F == FromReader(rs, r)
      <3>0. IsFiniteSet(F)
        BY FromReaderType
      <3>1. IsFiniteSet({claims[i] : i \in F})
        <4> HIDE DEF F
        <4> QED BY <3>0, ImageFinite
      <3> QED BY <2>2, <3>1
    <2>4. C(r) \subseteq Nat /\ baseline[r] \in Nat
      BY FromReaderType
    <2> HIDE DEF C
    <2>5. IsFiniteSet({baseline[r]})
      BY FS_Singleton
    <2>6. IsFiniteSet(M(r)) /\ M(r) \in SUBSET Int /\ M(r) # {} /\ M(r) \subseteq Nat
      <3>1. IsFiniteSet({baseline[r]} \cup C(r))
        BY <2>3, <2>5, FS_Union
      <3>2. M(r) \subseteq Nat /\ baseline[r] \in M(r)
        BY <2>4
      <3>3. Nat \subseteq Int
        OBVIOUS
      <3> QED BY <3>1, <3>2, <3>3
    <2> HIDE DEF M
    <2> QED BY <2>6, MaxIsIn
  <1> DEFINE m == MoveBaselines(baseline, rs)
  <1>2. m = [r \in Readers |-> Max(M(r))]
    BY DEF MoveBaselines
  <1> HIDE DEF m
  <1>3. \A r \in Readers : m[r] = Max(M(r))
    BY <1>2
  <1>4. m \in [Readers -> Nat]
    <2>1. \A r \in Readers : Max(M(r)) \in Nat
      BY <1>1
    <2> HIDE DEF M
    <2> QED BY <1>2, <2>1
  <1>5. ASSUME NEW r \in Readers
        PROVE  /\ baseline[r] <= m[r]
               /\ \A i \in FromReader(rs, r) : rs[i].bytes <= m[r]
               /\ m[r] # baseline[r] => \E i \in FromReader(rs, r) : m[r] = rs[i].bytes
    <2>1. m[r] \in M(r) /\ \A x \in M(r) : x <= m[r]
      BY <1>1, <1>3
    <2> QED BY <2>1
  <1>6. Moved(m, baseline, rs)
    BY <1>4, <1>5 DEF Moved
  <1> QED BY <1>6 DEF m

LEMMA TotalIsSum == ASSUME NEW f PROVE Total(f) = SumOver(f, DOMAIN f)
  BY DEF Total, SumOver

(***************************************************************************)
(* A settlement is worth no more than it raises the baselines by: what a   *)
(* reader is paid for lies between its baseline and what its envelope      *)
(* claims, and the baseline moves to the claim.                            *)
(***************************************************************************)
\* What a reader contributes to a payment.
Share(owed, r) == IF owed[r] > 0 THEN Minimum(owed[r], ReaderCap) ELSE 0

LEMMA PayableIsShares ==
    ASSUME NEW owed \in [Readers -> Nat]
    PROVE  /\ Payable(owed) \in Nat
           /\ Payable(owed) <= SumOver([r \in Readers |-> Share(owed, r)], Readers)
  <1> DEFINE paying == {r \in Readers : owed[r] > 0}
             part == [r \in paying |-> Minimum(owed[r], ReaderCap)]
             w == [r \in Readers |-> Share(owed, r)]
  <1>1. IsFiniteSet(Readers) /\ ReaderCap \in Nat
    BY EconomyAssumption
  <1>2. \A r \in Readers : w[r] \in Nat
    BY <1>1 DEF Share, Minimum
  <1>3. \A r \in paying : part[r] = w[r]
    BY DEF Share
  <1>4. Payable(owed) = 0 \/ Payable(owed) = Total(part)
    BY DEF Payable
  <1>5. DOMAIN part = paying /\ paying \in SUBSET Readers /\ {} \in SUBSET Readers /\ paying \cap {} = {}
    OBVIOUS
  <1> HIDE DEF paying, part, w
  <1>6. IsFiniteSet(paying) /\ \A r \in paying : w[r] \in Int
    BY <1>1, <1>2, <1>5, FS_Subset
  <1>7. Total(part) = SumOver(w, paying)
    <2>1. SumOver(part, paying) = SumOver(w, paying)
      BY <1>3, <1>6, SumSame
    <2> QED BY <1>5, <2>1, TotalIsSum
  <1>8. /\ SumOver(w, paying) \in Nat /\ SumOver(w, Readers) \in Nat /\ SumOver(w, {}) \in Nat
        /\ SumOver(w, paying) + SumOver(w, {}) <= SumOver(w, Readers)
    BY <1>1, <1>2, <1>5, SumParts
  <1>9. Payable(owed) \in Nat /\ Payable(owed) <= SumOver(w, Readers)
    BY <1>4, <1>7, <1>8
  <1> QED BY <1>9 DEF w

LEMMA CreditIsMoved ==
    ASSUME NEW l, l.baseline \in [Readers -> Nat], NEW rs \in Seq(Receipt)
    PROVE  /\ SettlementCredit(l, rs) \in Nat
           /\ Total(l.baseline) + SettlementCredit(l, rs) <= Total(MoveBaselines(l.baseline, rs))
  <1> DEFINE baseline == l.baseline
             tally == [r \in Readers |-> FirstOf(rs, r)]
             owed == Owed(tally, baseline)
             w == [r \in Readers |-> Share(owed, r)]
             m == MoveBaselines(baseline, rs)
  <1>1. IsFiniteSet(Readers) /\ ReaderCap \in Nat
    BY EconomyAssumption
  <1>2. \A r \in Readers : /\ baseline[r] \in Nat /\ FirstOf(rs, r).bytes \in Nat
                           /\ owed[r] = Maximum(0, FirstOf(rs, r).bytes - baseline[r])
    BY FirstOfIn DEF Owed
  <1>3. owed \in [Readers -> Nat]
    <2>1. ASSUME NEW r \in Readers
          PROVE  Maximum(0, FirstOf(rs, r).bytes - baseline[r]) \in Nat
      <3>1. baseline[r] \in Nat /\ FirstOf(rs, r).bytes \in Nat
        BY FirstOfIn
      <3> QED BY <3>1 DEF Maximum
    <2>2. owed = [r \in Readers |-> Maximum(0, FirstOf(rs, r).bytes - baseline[r])]
      BY DEF Owed
    <2> HIDE DEF owed, baseline
    <2> QED BY <2>1, <2>2
  <1>4. Moved(m, baseline, rs)
    BY BaselinesMove
  <1>5. SettlementCredit(l, rs) = Payable(owed)
    BY DEF SettlementCredit
  <1> HIDE DEF owed, m
  <1>6. ASSUME NEW r \in Readers
        PROVE  w[r] \in Nat /\ m[r] \in Nat /\ baseline[r] \in Nat /\ baseline[r] + w[r] <= m[r]
    <2>1. w[r] = Share(owed, r) /\ owed[r] \in Nat /\ baseline[r] \in Nat
      BY <1>2, <1>3
    <2>2. m[r] \in Nat /\ baseline[r] <= m[r]
      BY <1>4 DEF Moved
    <2>3. CASE ~(owed[r] > 0)
      BY <2>1, <2>2, <2>3 DEF Share
    <2>4. CASE owed[r] > 0
      <3> DEFINE b == FirstOf(rs, r).bytes
      <3>1. b \in Nat /\ owed[r] = Maximum(0, b - baseline[r])
        BY <1>2
      <3>2. w[r] = Minimum(owed[r], ReaderCap)
        BY <2>1, <2>4 DEF Share
      <3>3. b > 0 => b <= m[r]
        BY <1>4, FirstOfIn DEF Moved
      <3> HIDE DEF b, w
      <3>4. owed[r] = b - baseline[r] /\ b > 0
        BY <2>1, <2>4, <3>1 DEF Maximum
      <3>5. w[r] \in Nat /\ w[r] <= owed[r]
        BY <1>1, <2>1, <3>2 DEF Minimum
      <3> QED BY <2>1, <2>2, <3>1, <3>3, <3>4, <3>5
    <2> QED BY <2>3, <2>4
  <1>7. Payable(owed) \in Nat /\ Payable(owed) <= SumOver(w, Readers)
    BY <1>3, PayableIsShares
  <1>8. DOMAIN baseline = Readers /\ DOMAIN m = Readers
    BY <1>4 DEF Moved
  <1> HIDE DEF w, baseline
  <1>9. SumOver(baseline, Readers) + SumOver(w, Readers) <= SumOver(m, Readers)
    <2>1. \A r \in Readers : baseline[r] \in Int /\ w[r] \in Int /\ m[r] \in Int
      BY <1>6
    <2>2. \A r \in Readers : baseline[r] + w[r] <= m[r]
      BY <1>6
    <2> QED BY <1>1, <2>1, <2>2, SumBelow
  <1>10. SumOver(baseline, Readers) \in Int /\ SumOver(w, Readers) \in Int /\ SumOver(m, Readers) \in Int
    <2>1. \A r \in Readers : baseline[r] \in Int /\ w[r] \in Int /\ m[r] \in Int
      BY <1>6
    <2> QED BY <1>1, <2>1, SumType
  <1>11. Total(baseline) = SumOver(baseline, Readers) /\ Total(m) = SumOver(m, Readers)
    BY <1>8, TotalIsSum
  <1>12. Payable(owed) \in Nat /\ Total(baseline) + Payable(owed) <= Total(m)
    BY <1>7, <1>9, <1>10, <1>11
  <1> QED BY <1>5, <1>12 DEF baseline, m

(***************************************************************************)
(* The ledger a chain says: the recursion of Derived, block by block.      *)
(***************************************************************************)
Unrolled(f, c, n) ==
    f = [i \in 0..n |-> IF i = 0 THEN EmptyLedger ELSE Apply(f[i - 1], c[i])]

LEMMA DerivedIsUnrolled ==
    ASSUME NEW c
    PROVE  Derived(c) = (CHOOSE f : Unrolled(f, c, Len(c)))[Len(c)]
  BY DEF Derived, Unrolled

LEMMA UnrolledExists ==
    ASSUME NEW c, NEW n \in Nat
    PROVE  \E f : Unrolled(f, c, n)
  <1> DEFINE N == {k \in Nat : \E f : Unrolled(f, c, k)}
  <1>1. 0 \in N
    <2> DEFINE f == [i \in 0..0 |-> EmptyLedger]
    <2>1. \A i \in 0..0 : i = 0
      OBVIOUS
    <2>2. f = [i \in 0..0 |-> IF i = 0 THEN EmptyLedger ELSE Apply(f[i - 1], c[i])]
      BY <2>1
    <2> HIDE DEF f
    <2> QED BY <2>2 DEF Unrolled
  <1>2. ASSUME NEW k \in N PROVE k + 1 \in N
    <2>1. PICK f : Unrolled(f, c, k)
      OBVIOUS
    <2> DEFINE g == [i \in 0..(k + 1) |-> IF i = k + 1 THEN Apply(f[k], c[k + 1]) ELSE f[i]]
    <2>2. k \in Nat /\ f = [i \in 0..k |-> IF i = 0 THEN EmptyLedger ELSE Apply(f[i - 1], c[i])]
      BY <2>1 DEF Unrolled
    <2>3. ASSUME NEW i \in 0..(k + 1)
          PROVE  g[i] = IF i = 0 THEN EmptyLedger ELSE Apply(g[i - 1], c[i])
      <3>1. CASE i = k + 1
        <4>1. i # 0 /\ i - 1 = k /\ k \in 0..(k + 1) /\ k # k + 1
          BY <2>2, <3>1
        <4>2. g[i] = Apply(f[k], c[k + 1]) /\ g[k] = f[k]
          BY <3>1, <4>1
        <4> QED BY <3>1, <4>1, <4>2
      <3>2. CASE i # k + 1
        <4>1. i \in 0..k /\ (i # 0 => i - 1 \in 0..(k + 1) /\ i - 1 # k + 1)
          BY <2>2, <3>2
        <4>2. g[i] = f[i] /\ (i # 0 => g[i - 1] = f[i - 1])
          BY <3>2, <4>1
        <4>3. f[i] = IF i = 0 THEN EmptyLedger ELSE Apply(f[i - 1], c[i])
          BY <2>2, <4>1
        <4> QED BY <4>2, <4>3
      <3> QED BY <3>1, <3>2
    <2>4. g = [i \in 0..(k + 1) |-> IF i = 0 THEN EmptyLedger ELSE Apply(g[i - 1], c[i])]
      <3>1. g = [i \in 0..(k + 1) |-> g[i]]
        OBVIOUS
      <3> HIDE DEF g
      <3> QED BY <2>3, <3>1
    <2> HIDE DEF g
    <2> QED BY <2>2, <2>4 DEF Unrolled
  <1>3. N \in SUBSET Nat
    OBVIOUS
  <1> HIDE DEF N
  <1>4. N = Nat
    BY <1>1, <1>2, <1>3, NatSetInduction
  <1> QED BY <1>4 DEF N

\* Only the blocks up to a height matter for the ledger at that height.
LEMMA UnrolledAgree ==
    ASSUME NEW c, NEW d, NEW n \in Nat, NEW m \in Nat, n <= m, \A i \in 1..n : c[i] = d[i],
           NEW f, Unrolled(f, c, n), NEW g, Unrolled(g, d, m)
    PROVE  f[n] = g[n]
  <1> DEFINE N == {k \in Nat : k <= n => f[k] = g[k]}
  <1>1. /\ f = [i \in 0..n |-> IF i = 0 THEN EmptyLedger ELSE Apply(f[i - 1], c[i])]
        /\ g = [i \in 0..m |-> IF i = 0 THEN EmptyLedger ELSE Apply(g[i - 1], d[i])]
    BY DEF Unrolled
  <1>2. 0 \in N
    BY <1>1
  <1>3. ASSUME NEW k \in N PROVE k + 1 \in N
    <2>1. k \in Nat /\ (k <= n => f[k] = g[k])
      OBVIOUS
    <2>2. ASSUME k + 1 <= n PROVE f[k + 1] = g[k + 1]
      <3>1. k + 1 \in 0..n /\ k + 1 \in 0..m /\ k + 1 \in 1..n /\ k + 1 # 0 /\ (k + 1) - 1 = k /\ k <= n
        BY <2>1, <2>2
      <3>2. f[k + 1] = Apply(f[k], c[k + 1]) /\ g[k + 1] = Apply(g[k], d[k + 1])
        BY <1>1, <3>1
      <3> QED BY <2>1, <3>1, <3>2
    <2> QED BY <2>1, <2>2
  <1>4. N \in SUBSET Nat
    OBVIOUS
  <1> HIDE DEF N
  <1>5. N = Nat
    BY <1>2, <1>3, <1>4, NatSetInduction
  <1> QED BY <1>5 DEF N

LEMMA DerivedEmpty == Derived(<<>>) = EmptyLedger
  <1>1. Len(<<>>) = 0
    OBVIOUS
  <1> DEFINE f == CHOOSE h : Unrolled(h, <<>>, 0)
  <1>2. Unrolled(f, <<>>, 0)
    BY UnrolledExists
  <1>3. Derived(<<>>) = f[0]
    BY <1>1, DerivedIsUnrolled
  <1> HIDE DEF f
  <1> QED BY <1>2, <1>3 DEF Unrolled

LEMMA DerivedAppend ==
    ASSUME NEW c \in Seq(Block), NEW b \in Block
    PROVE  Derived(Append(c, b)) = Apply(Derived(c), b)
  <1> DEFINE n == Len(c)
             e == Append(c, b)
             f == CHOOSE h : Unrolled(h, c, n)
             g == CHOOSE h : Unrolled(h, e, n + 1)
  <1>1. n \in Nat /\ Len(e) = n + 1 /\ e[n + 1] = b /\ \A i \in 1..n : c[i] = e[i]
    OBVIOUS
  <1>2. Derived(c) = f[n] /\ Derived(e) = g[n + 1]
    BY <1>1, DerivedIsUnrolled
  <1> HIDE DEF n, e
  <1>3. Unrolled(f, c, n) /\ Unrolled(g, e, n + 1)
    <2>1. n \in Nat /\ n + 1 \in Nat
      BY <1>1
    <2>2. (\E h : Unrolled(h, c, n)) /\ \E h : Unrolled(h, e, n + 1)
      BY <2>1, UnrolledExists
    <2> QED BY <2>2
  <1> HIDE DEF f, g
  <1>4. f[n] = g[n]
    BY <1>1, <1>3, UnrolledAgree
  <1>5. g[n + 1] = Apply(g[n], e[n + 1])
    <2>1. g = [i \in 0..(n + 1) |-> IF i = 0 THEN EmptyLedger ELSE Apply(g[i - 1], e[i])]
      BY <1>3 DEF Unrolled
    <2>2. n + 1 \in 0..(n + 1) /\ n + 1 # 0 /\ (n + 1) - 1 = n
      BY <1>1
    <2> QED BY <2>1, <2>2
  <1>6. Derived(e) = Apply(Derived(c), b)
    BY <1>1, <1>2, <1>4, <1>5
  <1> QED BY <1>6 DEF e

\* What the settlements of a chain pay grows by what the next block pays.
LEMMA PaidEmpty == Paid(<<>>) = 0
  <1> DEFINE w == [i \in 1..Len(<<>>) |-> <<>>[i].amount]
  <1>1. DOMAIN w = {}
    OBVIOUS
  <1>2. Paid(<<>>) = Total(w)
    BY DEF Paid
  <1> HIDE DEF w
  <1> QED BY <1>1, <1>2, TotalIsSum, SumEmpty

LEMMA PaidAppend ==
    ASSUME NEW c \in Seq(Block), NEW b \in Block
    PROVE  Paid(Append(c, b)) = Paid(c) + b.amount /\ Paid(c) \in Nat
  <1> DEFINE n == Len(c)
             e == Append(c, b)
             w == [i \in 1..n |-> c[i].amount]
             v == [i \in 1..Len(e) |-> e[i].amount]
  <1>1. /\ n \in Nat /\ Len(e) = n + 1 /\ e[n + 1] = b
        /\ \A i \in 1..n : c[i] = e[i] /\ c[i] \in Block
    OBVIOUS
  <1>2. Paid(c) = Total(w) /\ Paid(e) = Total(v)
    BY DEF Paid
  <1>3. b.amount \in Nat /\ \A i \in 1..n : w[i] \in Nat
    BY <1>1 DEF Block
  <1>4. v[n + 1] = b.amount /\ \A i \in 1..n : v[i] = w[i]
    BY <1>1
  <1>5. DOMAIN w = 1..n /\ DOMAIN v = 1..Len(e)
    OBVIOUS
  <1> HIDE DEF n, e, w, v
  <1>6. 1..Len(e) = 1..n \cup {n + 1} /\ n + 1 \notin 1..n /\ IsFiniteSet(1..n)
    <2>1. n \in Nat /\ Len(e) = n + 1
      BY <1>1
    <2>2. 1..(n + 1) = 1..n \cup {n + 1} /\ n + 1 \notin 1..n
      BY <2>1
    <2>3. IsFiniteSet(1..n)
      BY <2>1, FS_Interval
    <2> QED BY <2>1, <2>2, <2>3
  <1>7. v[n + 1] \in Int /\ \A i \in 1..n : w[i] \in Int /\ v[i] \in Int
    BY <1>3, <1>4
  <1>8. SumOver(v, 1..n \cup {n + 1}) = v[n + 1] + SumOver(v, 1..n)
    BY <1>6, <1>7, SumAdd
  <1>9. SumOver(v, 1..n) = SumOver(w, 1..n)
    BY <1>4, <1>6, <1>7, SumSame
  <1>10. SumOver(w, 1..n) \in Nat
    BY <1>3, <1>6, SumNat
  <1>11. Paid(e) = SumOver(v, 1..n \cup {n + 1}) /\ Paid(c) = SumOver(w, 1..n)
    BY <1>2, <1>5, <1>6, TotalIsSum
  <1>12. Paid(e) = Paid(c) + b.amount /\ Paid(c) \in Nat
    BY <1>3, <1>4, <1>8, <1>9, <1>10, <1>11
  <1> QED BY <1>12 DEF e

(***************************************************************************)
(* Ledgers whose settlements pay what was attested.                        *)
(***************************************************************************)
AttestedIn(b, a) ==
    /\ b.kind # "settle" => b.amount = 0
    /\ \A i \in 1..Len(b.receipts) : b.receipts[i].bytes <= a[b.receipts[i].reader]

SoundLedger(l, a) ==
    /\ l \in Ledgers
    /\ \A i \in 1..Len(l.chain) : l.chain[i].index = i
    /\ \A i \in 1..Len(l.chain) : AttestedIn(l.chain[i], a)
    /\ [l EXCEPT !.frozen = FALSE] = Derived(l.chain)
    /\ Paid(l.chain) <= Total(l.baseline)
    /\ \A r \in Readers : l.baseline[r] <= a[r]

\* What a block makes of a ledger, field by field.
Settles(b) == b.kind = "settle"
Applied(l, b) ==
    [chain |-> Append(l.chain, b),
     baseline |-> IF Settles(b) THEN MoveBaselines(l.baseline, b.receipts) ELSE l.baseline,
     lastPeriod |-> IF Settles(b) THEN b.period ELSE l.lastPeriod,
     registered |-> IF Settles(b) THEN l.registered ELSE b.kind = "register",
     shown |-> IF Settles(b) THEN (IF l.registered THEN b.period ELSE l.shown) ELSE Never,
     frozen |-> l.frozen]

LEMMA ApplyIs ==
    ASSUME NEW l \in Ledgers, NEW b \in Block
    PROVE  Apply(l, b) = Applied(l, b)
  <1>1. l = [chain |-> l.chain, baseline |-> l.baseline, lastPeriod |-> l.lastPeriod,
             registered |-> l.registered, shown |-> l.shown, frozen |-> l.frozen]
    BY DEF Ledgers
  <1>2. b.kind \in {"register", "deregister", "settle"}
    BY DEF Block
  <1>3. CASE b.kind = "register"
    BY <1>1, <1>3 DEF Apply, Applied, Settles
  <1>4. CASE b.kind = "deregister"
    BY <1>1, <1>4 DEF Apply, Applied, Settles
  <1>5. CASE b.kind = "settle"
    BY <1>1, <1>5 DEF Apply, Applied, Settles
  <1> QED BY <1>2, <1>3, <1>4, <1>5

LEMMA AppliedIn ==
    ASSUME NEW l \in Ledgers, NEW b \in Block
    PROVE  Applied(l, b) \in Ledgers
  <1>1. /\ l.chain \in Seq(Block) /\ l.baseline \in [Readers -> Nat] /\ l.registered \in BOOLEAN
        /\ l.lastPeriod \in Nat \cup {Never} /\ l.shown \in Nat \cup {Never} /\ l.frozen \in BOOLEAN
        /\ b.period \in Nat /\ b.receipts \in Seq(Receipt)
    BY DEF Ledgers, Block
  <1>2. MoveBaselines(l.baseline, b.receipts) \in [Readers -> Nat]
    BY <1>1, BaselinesMove DEF Moved
  <1>3. Append(l.chain, b) \in Seq(Block)
    BY <1>1
  <1> QED BY <1>1, <1>2, <1>3 DEF Ledgers, Applied

LEMMA AppliedType ==
    ASSUME NEW l \in Ledgers, NEW b \in Block
    PROVE  /\ Applied(l, b) \in Ledgers
           /\ [Applied(l, b) EXCEPT !.frozen = FALSE] = Applied([l EXCEPT !.frozen = FALSE], b)
           /\ [l EXCEPT !.frozen = FALSE] \in Ledgers
  <1>4. Applied(l, b) \in Ledgers
    BY AppliedIn
  <1>5. /\ [l EXCEPT !.frozen = FALSE] \in Ledgers
        /\ [l EXCEPT !.frozen = FALSE].chain = l.chain
        /\ [l EXCEPT !.frozen = FALSE].baseline = l.baseline
        /\ [l EXCEPT !.frozen = FALSE].lastPeriod = l.lastPeriod
        /\ [l EXCEPT !.frozen = FALSE].registered = l.registered
        /\ [l EXCEPT !.frozen = FALSE].shown = l.shown
        /\ [l EXCEPT !.frozen = FALSE].frozen = FALSE
    BY DEF Ledgers
  <1> DEFINE k == [l EXCEPT !.frozen = FALSE]
  <1>6. [Applied(l, b) EXCEPT !.frozen = FALSE] = Applied(k, b)
    <2>1. /\ k.chain = l.chain /\ k.baseline = l.baseline /\ k.lastPeriod = l.lastPeriod
          /\ k.registered = l.registered /\ k.shown = l.shown /\ k.frozen = FALSE
      BY <1>5
    <2>2. Applied(k, b) = [Applied(l, b) EXCEPT !.frozen = FALSE]
      <3> DEFINE x == Applied(l, b)
                 y == Applied(k, b)
      <3>1. /\ y.chain = x.chain /\ y.baseline = x.baseline /\ y.lastPeriod = x.lastPeriod
            /\ y.registered = x.registered /\ y.shown = x.shown /\ y.frozen = FALSE
        <4> HIDE DEF k
        <4> QED BY <2>1 DEF Applied
      <3>2. y = [chain |-> y.chain, baseline |-> y.baseline, lastPeriod |-> y.lastPeriod,
                 registered |-> y.registered, shown |-> y.shown, frozen |-> y.frozen]
        <4>1. k \in Ledgers
          BY <1>5
        <4>2. y \in Ledgers
          <5> HIDE DEF k
          <5> QED BY <4>1, AppliedIn
        <4> HIDE DEF y
        <4> QED BY <4>2 DEF Ledgers
      <3> HIDE DEF x, y, k
      <3>3. x \in Ledgers
        BY <1>4 DEF x
      <3>4. [x EXCEPT !.frozen = FALSE]
              = [chain |-> x.chain, baseline |-> x.baseline, lastPeriod |-> x.lastPeriod,
                 registered |-> x.registered, shown |-> x.shown, frozen |-> FALSE]
        <4> DEFINE u == [x EXCEPT !.frozen = FALSE]
        <4>1. /\ u \in Ledgers /\ u.chain = x.chain /\ u.baseline = x.baseline
              /\ u.lastPeriod = x.lastPeriod /\ u.registered = x.registered /\ u.shown = x.shown
              /\ u.frozen = FALSE
          BY <3>3 DEF Ledgers
        <4> HIDE DEF u
        <4>2. u = [chain |-> u.chain, baseline |-> u.baseline, lastPeriod |-> u.lastPeriod,
                   registered |-> u.registered, shown |-> u.shown, frozen |-> u.frozen]
          BY <4>1 DEF Ledgers
        <4> QED BY <4>1, <4>2 DEF u
      <3>5. y = [x EXCEPT !.frozen = FALSE]
        BY <3>1, <3>2, <3>4
      <3> QED BY <3>5 DEF x, y
    <2> QED BY <2>2
  <1> QED BY <1>4, <1>5, <1>6

LEMMA EmptyIsSound ==
    ASSUME NEW a \in [Readers -> Nat]
    PROVE  SoundLedger(EmptyLedger, a)
  <1>1. EmptyLedger \in Ledgers
    <2>1. [r \in Readers |-> 0] \in [Readers -> Nat] /\ <<>> \in Seq(Block)
      OBVIOUS
    <2> QED BY <2>1 DEF EmptyLedger, Ledgers, Never
  <1>2. EmptyLedger.chain = <<>> /\ [EmptyLedger EXCEPT !.frozen = FALSE] = EmptyLedger
    <2>1. EmptyLedger.chain = <<>> /\ EmptyLedger.frozen = FALSE
      BY DEF EmptyLedger
    <2> QED BY <1>1, <2>1 DEF Ledgers
  <1>3. Len(<<>>) = 0 /\ 1..0 = {}
    OBVIOUS
  <1>4. Total(EmptyLedger.baseline) = 0 /\ \A r \in Readers : EmptyLedger.baseline[r] <= a[r]
    <2> DEFINE w == [r \in Readers |-> 0]
    <2>1. EmptyLedger.baseline = w
      BY DEF EmptyLedger
    <2>2. DOMAIN w = Readers /\ \A r \in Readers : w[r] = 0
      OBVIOUS
    <2> HIDE DEF w
    <2>3. SumOver(w, Readers) = 0
      BY <2>2, SumZero, EconomyAssumption
    <2> QED BY <2>1, <2>2, <2>3, TotalIsSum
  <1> QED BY <1>1, <1>2, <1>3, <1>4, DerivedEmpty, PaidEmpty DEF SoundLedger

\* A block may be applied when it was attested and pays no more than its credit.
Payable1(l, b) == Settles(b) => b.amount <= SettlementCredit(l, b.receipts)

LEMMA ApplyIsSound ==
    ASSUME NEW a \in [Readers -> Nat], NEW l, SoundLedger(l, a), NEW b \in Block,
           b.index = Len(l.chain) + 1, AttestedIn(b, a), Payable1(l, b)
    PROVE  SoundLedger(Apply(l, b), a) /\ Apply(l, b).chain = Append(l.chain, b)
  <1> DEFINE k == Apply(l, b)
             c == l.chain
             n == Len(c)
  <1>1. /\ l \in Ledgers /\ c \in Seq(Block) /\ n \in Nat /\ l.baseline \in [Readers -> Nat]
        /\ b.receipts \in Seq(Receipt) /\ b.amount \in Nat
    BY DEF SoundLedger, Ledgers, Block
  <1>2. k = Applied(l, b) /\ k \in Ledgers /\ k.chain = Append(c, b)
    <2>1. k = Applied(l, b) /\ Applied(l, b) \in Ledgers
      BY <1>1, ApplyIs, AppliedType
    <2> QED BY <2>1 DEF Applied
  <1>3. /\ \A i \in 1..Len(Append(c, b)) : Append(c, b)[i].index = i
        /\ \A i \in 1..Len(Append(c, b)) : AttestedIn(Append(c, b)[i], a)
    <2> DEFINE e == Append(c, b)
    <2>1. Len(e) = n + 1 /\ e[n + 1] = b /\ \A i \in 1..n : e[i] = c[i]
      BY <1>1
    <2> HIDE DEF e
    <2>2. ASSUME NEW i \in 1..Len(e) PROVE e[i].index = i /\ AttestedIn(e[i], a)
      <3>1. CASE i = n + 1
        BY <2>1, <3>1
      <3>2. CASE i # n + 1
        <4>1. i \in 1..n
          BY <1>1, <2>1, <3>2
        <4>2. c[i].index = i /\ AttestedIn(c[i], a)
          BY <4>1 DEF SoundLedger
        <4> QED BY <2>1, <4>1, <4>2
      <3> QED BY <3>1, <3>2
    <2> QED BY <2>2 DEF e
  <1>4. [k EXCEPT !.frozen = FALSE] = Derived(Append(c, b))
    <2> DEFINE u == [l EXCEPT !.frozen = FALSE]
    <2>1. u \in Ledgers /\ [k EXCEPT !.frozen = FALSE] = Applied(u, b)
      BY <1>1, <1>2, AppliedType
    <2>2. u = Derived(c)
      BY DEF SoundLedger
    <2> HIDE DEF u
    <2>3. Apply(u, b) = Applied(u, b)
      BY <2>1, ApplyIs
    <2>4. Derived(Append(c, b)) = Apply(Derived(c), b)
      BY <1>1, DerivedAppend
    <2> QED BY <2>1, <2>2, <2>3, <2>4
  <1>5. /\ Paid(Append(c, b)) <= Total(k.baseline)
        /\ \A r \in Readers : k.baseline[r] <= a[r]
    <2>1. Paid(Append(c, b)) = Paid(c) + b.amount /\ Paid(c) \in Nat
      BY <1>1, PaidAppend
    <2>2. Paid(c) <= Total(l.baseline) /\ \A r \in Readers : l.baseline[r] <= a[r]
      BY DEF SoundLedger
    <2>3. CASE Settles(b)
      <3> DEFINE m == MoveBaselines(l.baseline, b.receipts)
      <3>1. k.baseline = m
        BY <1>2, <2>3 DEF Applied
      <3>2. Moved(m, l.baseline, b.receipts)
        BY <1>1, BaselinesMove
      <3>3. /\ SettlementCredit(l, b.receipts) \in Nat
            /\ Total(l.baseline) + SettlementCredit(l, b.receipts) <= Total(m)
        BY <1>1, CreditIsMoved
      <3>4. Total(l.baseline) \in Int /\ Total(m) \in Int
        <4>1. ASSUME NEW f \in [Readers -> Nat] PROVE Total(f) \in Int
          BY TotalIsSum, SumType, EconomyAssumption
        <4> QED BY <1>1, <3>2, <4>1 DEF Moved
      <3>5. b.amount <= SettlementCredit(l, b.receipts)
        BY <2>3 DEF Payable1
      <3>6. Paid(Append(c, b)) <= Total(m)
        BY <1>1, <2>1, <2>2, <3>3, <3>4, <3>5
      <3>7. ASSUME NEW r \in Readers PROVE m[r] <= a[r]
        <4>1. CASE m[r] = l.baseline[r]
          BY <2>2, <4>1
        <4>2. CASE m[r] # l.baseline[r]
          <5>1. PICK i \in FromReader(b.receipts, r) : m[r] = b.receipts[i].bytes
            BY <3>2, <4>2 DEF Moved
          <5>2. i \in 1..Len(b.receipts) /\ b.receipts[i].reader = r
            BY <1>1, FromReaderType
          <5> QED BY <5>1, <5>2 DEF AttestedIn
        <4> QED BY <4>1, <4>2
      <3> HIDE DEF m
      <3> QED BY <3>1, <3>6, <3>7
    <2>4. CASE ~Settles(b)
      <3>1. k.baseline = l.baseline
        BY <1>2, <2>4 DEF Applied
      <3>2. b.amount = 0
        BY <2>4 DEF AttestedIn, Settles
      <3> QED BY <2>1, <2>2, <3>1, <3>2
    <2> QED BY <2>3, <2>4
  <1> HIDE DEF k
  <1>6. SoundLedger(k, a)
    BY <1>2, <1>3, <1>4, <1>5 DEF SoundLedger
  <1> QED BY <1>2, <1>6 DEF k

\* A mark on the account leaves its ledger sound.
LEMMA MarkedIsSound ==
    ASSUME NEW a, NEW l, SoundLedger(l, a), NEW x \in BOOLEAN
    PROVE  SoundLedger([l EXCEPT !.frozen = x], a)
  <1> DEFINE k == [l EXCEPT !.frozen = x]
  <1>1. /\ k \in Ledgers /\ k.chain = l.chain /\ k.baseline = l.baseline
        /\ [k EXCEPT !.frozen = FALSE] = [l EXCEPT !.frozen = FALSE]
    BY DEF SoundLedger, Ledgers
  <1> HIDE DEF k
  <1>2. SoundLedger(k, a)
    BY <1>1 DEF SoundLedger
  <1> QED BY <1>2 DEF k

LEMMA AddBlockIsSound ==
    ASSUME NEW a \in [Readers -> Nat], NEW l, SoundLedger(l, a), NEW b \in Block, AttestedIn(b, a)
    PROVE  SoundLedger(AddBlock(l, b), a)
  <1>1. l.frozen \in BOOLEAN /\ b.index \in Nat /\ Len(l.chain) \in Nat
    BY DEF SoundLedger, Ledgers, Block
  <1>2. CASE l.frozen
    BY <1>2 DEF AddBlock
  <1>3. CASE ~l.frozen /\ b.index <= Len(l.chain)
    <2> DEFINE x == l.chain[b.index].id # b.id /\ l.chain[b.index].prev = b.prev
    <2>1. AddBlock(l, b) = [l EXCEPT !.frozen = x] /\ x \in BOOLEAN
      BY <1>1, <1>3 DEF AddBlock
    <2> HIDE DEF x
    <2> QED BY <2>1, MarkedIsSound
  <1>4. CASE ~l.frozen /\ b.index > Len(l.chain)
    <2>1. AddBlock(l, b) = IF b.index = Len(l.chain) + 1 /\ b.prev = HeadId(l) /\ Valid(l, b)
                           THEN Apply(l, b) ELSE l
      BY <1>1, <1>4 DEF AddBlock
    <2>2. CASE b.index = Len(l.chain) + 1 /\ b.prev = HeadId(l) /\ Valid(l, b)
      <3>1. Payable1(l, b)
        BY <2>2 DEF Payable1, Valid, Settles
      <3> QED BY <2>1, <2>2, <3>1, ApplyIsSound
    <2>3. CASE ~(b.index = Len(l.chain) + 1 /\ b.prev = HeadId(l) /\ Valid(l, b))
      BY <2>1, <2>3
    <2> QED BY <2>2, <2>3
  <1> QED BY <1>1, <1>2, <1>3, <1>4

(***************************************************************************)
(* The replay of a reload.                                                 *)
(***************************************************************************)
Offered(f, s, n) ==
    f = [i \in 0..n |-> IF i = 0 THEN EmptyLedger ELSE AddBlock(f[i - 1], s[i])]

LEMMA OfferedExists ==
    ASSUME NEW s, NEW n \in Nat
    PROVE  \E f : Offered(f, s, n)
  <1> DEFINE N == {k \in Nat : \E f : Offered(f, s, k)}
  <1>1. 0 \in N
    <2> DEFINE f == [i \in 0..0 |-> EmptyLedger]
    <2>1. \A i \in 0..0 : i = 0
      OBVIOUS
    <2>2. f = [i \in 0..0 |-> IF i = 0 THEN EmptyLedger ELSE AddBlock(f[i - 1], s[i])]
      BY <2>1
    <2> HIDE DEF f
    <2> QED BY <2>2 DEF Offered
  <1>2. ASSUME NEW k \in N PROVE k + 1 \in N
    <2>1. PICK f : Offered(f, s, k)
      OBVIOUS
    <2> DEFINE g == [i \in 0..(k + 1) |-> IF i = k + 1 THEN AddBlock(f[k], s[k + 1]) ELSE f[i]]
    <2>2. k \in Nat /\ f = [i \in 0..k |-> IF i = 0 THEN EmptyLedger ELSE AddBlock(f[i - 1], s[i])]
      BY <2>1 DEF Offered
    <2>3. ASSUME NEW i \in 0..(k + 1)
          PROVE  g[i] = IF i = 0 THEN EmptyLedger ELSE AddBlock(g[i - 1], s[i])
      <3>1. CASE i = k + 1
        <4>1. i # 0 /\ i - 1 = k /\ k \in 0..(k + 1) /\ k # k + 1
          BY <2>2, <3>1
        <4>2. g[i] = AddBlock(f[k], s[k + 1]) /\ g[k] = f[k]
          BY <3>1, <4>1
        <4> QED BY <3>1, <4>1, <4>2
      <3>2. CASE i # k + 1
        <4>1. i \in 0..k /\ (i # 0 => i - 1 \in 0..(k + 1) /\ i - 1 # k + 1)
          BY <2>2, <3>2
        <4>2. g[i] = f[i] /\ (i # 0 => g[i - 1] = f[i - 1])
          BY <3>2, <4>1
        <4>3. f[i] = IF i = 0 THEN EmptyLedger ELSE AddBlock(f[i - 1], s[i])
          BY <2>2, <4>1
        <4> QED BY <4>2, <4>3
      <3> QED BY <3>1, <3>2
    <2>4. g = [i \in 0..(k + 1) |-> IF i = 0 THEN EmptyLedger ELSE AddBlock(g[i - 1], s[i])]
      <3>1. g = [i \in 0..(k + 1) |-> g[i]]
        OBVIOUS
      <3> HIDE DEF g
      <3> QED BY <2>3, <3>1
    <2> HIDE DEF g
    <2> QED BY <2>2, <2>4 DEF Offered
  <1>3. N \in SUBSET Nat
    OBVIOUS
  <1> HIDE DEF N
  <1>4. N = Nat
    BY <1>1, <1>2, <1>3, NatSetInduction
  <1> QED BY <1>4 DEF N

LEMMA ReplayedIsSound ==
    ASSUME NEW a \in [Readers -> Nat], NEW d, NEW k \in Nat, NEW s \in [1..k -> Block],
           \A i \in 1..k : AttestedIn(s[i], a)
    PROVE  SoundLedger(Replayed(d, s), a)
  <1> DEFINE f == CHOOSE h : Offered(h, s, k)
  <1>1. s \in Seq(Block) /\ Len(s) = k
    OBVIOUS
  <1>2. Replayed(d, s) = f[k]
    BY <1>1 DEF Replayed, Offered
  <1>3. Offered(f, s, k)
    BY OfferedExists
  <1> HIDE DEF f
  <1>4. f = [i \in 0..k |-> IF i = 0 THEN EmptyLedger ELSE AddBlock(f[i - 1], s[i])]
    BY <1>3 DEF Offered
  <1> DEFINE N == {i \in Nat : i <= k => SoundLedger(f[i], a)}
  <1>5. 0 \in N
    BY <1>4, EmptyIsSound
  <1>6. ASSUME NEW i \in N PROVE i + 1 \in N
    <2>1. i \in Nat /\ (i <= k => SoundLedger(f[i], a))
      OBVIOUS
    <2>2. ASSUME i + 1 <= k PROVE SoundLedger(f[i + 1], a)
      <3>1. i + 1 \in 0..k /\ i + 1 \in 1..k /\ i + 1 # 0 /\ (i + 1) - 1 = i /\ i <= k
        BY <2>1, <2>2
      <3>2. f[i + 1] = AddBlock(f[i], s[i + 1])
        BY <1>4, <3>1
      <3>3. s[i + 1] \in Block /\ AttestedIn(s[i + 1], a)
        BY <3>1
      <3> QED BY <2>1, <3>1, <3>2, <3>3, AddBlockIsSound
    <2> QED BY <2>1, <2>2
  <1>7. N \in SUBSET Nat
    OBVIOUS
  <1> HIDE DEF N
  <1>8. N = Nat
    BY <1>5, <1>6, <1>7, NatSetInduction
  <1> QED BY <1>2, <1>8 DEF N

\* What was attested stays attested.
LEMMA AttestedLater ==
    ASSUME NEW a, NEW a2, \A r \in Readers : a[r] \in Nat /\ a2[r] \in Nat /\ a[r] <= a2[r],
           NEW b \in Block, AttestedIn(b, a)
    PROVE  AttestedIn(b, a2)
  <1>1. b.receipts \in Seq(Receipt)
    BY DEF Block
  <1>2. ASSUME NEW i \in 1..Len(b.receipts)
        PROVE  b.receipts[i].bytes <= a2[b.receipts[i].reader]
    <2>1. b.receipts[i].reader \in Readers /\ b.receipts[i].bytes \in Nat
      BY <1>1, ReceiptIn
    <2>2. b.receipts[i].bytes <= a[b.receipts[i].reader]
      BY DEF AttestedIn
    <2> QED BY <2>1, <2>2
  <1> QED BY <1>2 DEF AttestedIn

LEMMA SoundLater ==
    ASSUME NEW a, NEW a2, \A r \in Readers : a[r] \in Nat /\ a2[r] \in Nat /\ a[r] <= a2[r],
           NEW l, SoundLedger(l, a)
    PROVE  SoundLedger(l, a2)
  <1>1. l.chain \in Seq(Block) /\ l.baseline \in [Readers -> Nat]
    BY DEF SoundLedger, Ledgers
  <1>2. \A i \in 1..Len(l.chain) : AttestedIn(l.chain[i], a2)
    <2> TAKE i \in 1..Len(l.chain)
    <2>1. l.chain[i] \in Block /\ AttestedIn(l.chain[i], a)
      BY <1>1 DEF SoundLedger
    <2> QED BY <2>1, AttestedLater
  <1>3. \A r \in Readers : l.baseline[r] <= a2[r]
    <2> TAKE r \in Readers
    <2>1. l.baseline[r] \in Nat /\ l.baseline[r] <= a[r]
      BY <1>1 DEF SoundLedger
    <2> QED BY <2>1
  <1> QED BY <1>2, <1>3 DEF SoundLedger

(***************************************************************************)
(* The inductive invariant.                                                *)
(***************************************************************************)
PapersGenuine ==
    /\ \A r \in Readers : book[r].bytes <= attested[r]
    /\ \A rc \in wire : Genuine(rc)
    /\ \A d \in Devices, r \in Readers : inbound[d][r].bytes <= attested[r]
    /\ \A d \in Devices : \A i \in 1..Len(pending[d]) : Genuine(pending[d][i])

GossipSound ==
    /\ SavedIsGossiped
    /\ \A b \in gossiped : AttestedIn(b, attested)

LedgersSound == \A n \in Nodes : SoundLedger(ledger[n], attested)

BooksAgree == TypeOK /\ PapersGenuine /\ OneEnvelopeEach /\ GossipSound /\ LedgersSound

LEMMA BooksGiveInv == BooksAgree => EconomyInv
  <1> SUFFICES ASSUME BooksAgree PROVE EconomyInv
    OBVIOUS
  <1>1. ASSUME NEW n \in Nodes
        PROVE  /\ \A i \in 1..Len(ledger[n].chain) :
                    ledger[n].chain[i].index = i /\ AttestedIn(ledger[n].chain[i], attested)
               /\ [ledger[n] EXCEPT !.frozen = FALSE] = Derived(ledger[n].chain)
               /\ Paid(ledger[n].chain) <= Total(ledger[n].baseline)
               /\ \A r \in Readers : ledger[n].baseline[r] <= attested[r]
    BY DEF BooksAgree, LedgersSound, SoundLedger
  <1>2. ASSUME NEW b, AttestedIn(b, attested) PROVE AttestedBlock(b)
    BY <1>2 DEF AttestedIn, AttestedBlock, Genuine
  <1>3. ReceiptsGenuine
    <2>1. \A n \in Nodes : \A i \in 1..Len(ledger[n].chain) : AttestedBlock(ledger[n].chain[i])
      <3> TAKE n \in Nodes
      <3> TAKE i \in 1..Len(ledger[n].chain)
      <3>1. AttestedIn(ledger[n].chain[i], attested)
        BY <1>1
      <3> QED BY <1>2, <3>1
    <2>2. \A b \in gossiped : AttestedBlock(b)
      BY <1>2 DEF BooksAgree, GossipSound
    <2> QED BY <2>1, <2>2 DEF BooksAgree, PapersGenuine, ReceiptsGenuine
  <1>4. ChainsNumbered
    BY <1>1 DEF ChainsNumbered
  <1>5. LedgersDerived
    BY <1>1 DEF LedgersDerived
  <1>6. PaidIsAttested
    BY <1>1 DEF PaidIsAttested
  <1>7. TypeOK /\ OneEnvelopeEach /\ SavedIsGossiped
    BY DEF BooksAgree, GossipSound
  <1> QED BY <1>3, <1>4, <1>5, <1>6, <1>7 DEF EconomyInv

LEMMA BooksAgreeAtFirst == Init => BooksAgree
  <1> SUFFICES ASSUME Init PROVE BooksAgree
    OBVIOUS
  <1> USE DEF Init
  <1>1. attested \in [Readers -> Nat]
    OBVIOUS
  <1>2. \A n \in Nodes : ledger[n] = EmptyLedger
    OBVIOUS
  <1>3. LedgersSound
    BY <1>1, <1>2, EmptyIsSound DEF LedgersSound
  <1>4. NoTally \in Tally /\ NoTally.bytes = 0 /\ NoTallies \in [Readers -> Tally]
    BY DEF NoTally, Tally, NoTallies
  <1>5. TypeOK
    <2>1. EmptyLedger \in Ledgers
      BY <1>1, EmptyIsSound DEF SoundLedger
    <2>2. ledger \in [Nodes -> Ledgers]
      BY <2>1
    <2>3. /\ inbound \in [Devices -> [Readers -> Tally]] /\ book \in [Readers -> Tally]
          /\ pending \in [Devices -> Seq(Receipt)]
      BY <1>4
    <2>4. 0 \in 0..MaxPeriod /\ 0 \in 0..MaxSigned /\ 0 \in 0..MaxReloads /\ 0 \in 0..Len(Credit)
      BY EconomyAssumption
    <2>5. reads \in [Readers -> 0..Len(Credit)]
      BY <2>4
    <2> QED BY <1>1, <2>2, <2>3, <2>4, <2>5 DEF TypeOK
  <1>6. PapersGenuine
    <2>1. \A d \in Devices, r \in Readers : inbound[d][r].bytes = 0 /\ attested[r] = 0
      BY <1>4 DEF NoTallies
    <2>2. \A r \in Readers : book[r].bytes = 0 /\ attested[r] = 0
      BY <1>4
    <2>3. \A d \in Devices : 1..Len(pending[d]) = {}
      OBVIOUS
    <2> QED BY <2>1, <2>2, <2>3 DEF PapersGenuine
  <1>7. OneEnvelopeEach
    <2>1. \A d \in Devices : 1..Len(pending[d]) = {}
      OBVIOUS
    <2> QED BY <2>1 DEF OneEnvelopeEach
  <1>8. GossipSound
    BY FS_EmptySet DEF GossipSound, SavedIsGossiped
  <1> QED BY <1>3, <1>5, <1>6, <1>7, <1>8 DEF BooksAgree

\* A step that leaves the books of readers and devices alone.
LEMMA PapersStay ==
    ASSUME BooksAgree, UNCHANGED <<book, attested, wire, inbound, pending>>
    PROVE  PapersGenuine' /\ OneEnvelopeEach'
  BY DEF BooksAgree, PapersGenuine, OneEnvelopeEach, Genuine

\* A step that leaves the chain alone and attests nothing.
LEMMA ChainsStay ==
    ASSUME BooksAgree, UNCHANGED <<attested, chainVars>>
    PROVE  GossipSound' /\ LedgersSound'
  BY DEF BooksAgree, GossipSound, LedgersSound, SavedIsGossiped, chainVars, Nodes

(***************************************************************************)
(* The readers' steps.                                                     *)
(***************************************************************************)
LEMMA TypeFacts ==
    ASSUME TypeOK
    PROVE  /\ period \in Nat /\ signed \in Nat /\ reloads \in Nat
           /\ \A r \in Readers : /\ book[r] \in Tally /\ book[r].bytes \in Nat /\ book[r].counter \in Nat
                                 /\ attested[r] \in Nat
           /\ \A d \in Devices : /\ pending[d] \in Seq(Receipt) /\ Len(pending[d]) \in Nat
                                 /\ inbound[d] \in [Readers -> Tally]
           /\ \A n \in Nodes : ledger[n] \in Ledgers
  <1>1. MaxPeriod \in Nat /\ MaxSigned \in Nat /\ MaxReloads \in Nat
    BY EconomyAssumption
  <1>2. period \in Nat /\ signed \in Nat /\ reloads \in Nat
    BY <1>1 DEF TypeOK
  <1>3. \A r \in Readers : /\ book[r] \in Tally /\ book[r].bytes \in Nat /\ book[r].counter \in Nat
                           /\ attested[r] \in Nat
    BY DEF TypeOK, Tally
  <1>4. \A d \in Devices : /\ pending[d] \in Seq(Receipt) /\ Len(pending[d]) \in Nat
                           /\ inbound[d] \in [Readers -> Tally]
    BY DEF TypeOK
  <1>5. \A n \in Nodes : ledger[n] \in Ledgers
    BY DEF TypeOK
  <1> QED BY <1>2, <1>3, <1>4, <1>5

\* Attesting more keeps every claim of before covered.
AttestsMore == \A r \in Readers : attested[r] \in Nat /\ attested'[r] \in Nat /\ attested[r] <= attested'[r]

LEMMA ChainsStayCovered ==
    ASSUME BooksAgree, AttestsMore, UNCHANGED chainVars
    PROVE  GossipSound' /\ LedgersSound'
  <1>1. ledger' = ledger /\ saved' = saved /\ unsaved' = unsaved /\ gossiped' = gossiped
    BY DEF chainVars
  <1>2. \A b \in gossiped : AttestedIn(b, attested')
    <2> TAKE b \in gossiped
    <2>1. b \in Block /\ AttestedIn(b, attested)
      BY DEF BooksAgree, GossipSound, TypeOK
    <2> QED BY <2>1, AttestedLater DEF AttestsMore
  <1>3. \A n \in Nodes : SoundLedger(ledger[n], attested')
    <2> TAKE n \in Nodes
    <2>1. SoundLedger(ledger[n], attested)
      BY DEF BooksAgree, LedgersSound
    <2> QED BY <2>1, SoundLater DEF AttestsMore
  <1>4. GossipSound'
    BY <1>1, <1>2 DEF GossipSound, SavedIsGossiped, BooksAgree
  <1>5. LedgersSound'
    BY <1>1, <1>3 DEF LedgersSound, Nodes
  <1> QED BY <1>4, <1>5

LEMMA ReadStep ==
    ASSUME BooksAgree, NEW r \in Readers, Read(r)
    PROVE  BooksAgree'
  <1> DEFINE worth == Credit[reads[r] + 1]
             next == [counter |-> book[r].counter + 1, bytes |-> book[r].bytes + worth]
             rc == [reader |-> r, counter |-> next.counter, bytes |-> next.bytes]
  <1>1. TypeOK
    BY DEF BooksAgree
  <1>2. worth \in Nat /\ reads' = [reads EXCEPT ![r] = @ + 1] /\ reads' \in [Readers -> 0..Len(Credit)]
    <2>1. reads \in [Readers -> 0..Len(Credit)] /\ reads[r] < Len(Credit) /\ Credit \in Seq(Nat) /\ Len(Credit) \in Nat
      <3>1. reads \in [Readers -> 0..Len(Credit)]
        BY <1>1 DEF TypeOK
      <3>2. reads[r] < Len(Credit)
        BY DEF Read
      <3>3. Credit \in Seq(Nat)
        BY EconomyAssumption
      <3>4. Len(Credit) \in Nat
        BY <3>3
      <3> QED BY <3>1, <3>2, <3>3, <3>4
    <2>2. reads[r] + 1 \in 1..Len(Credit)
      BY <2>1
    <2>3. reads' = [reads EXCEPT ![r] = @ + 1]
      BY DEF Read
    <2>4. worth \in Nat
      BY <2>1, <2>2
    <2>5. reads[r] + 1 \in 0..Len(Credit)
      BY <2>1, <2>2
    <2>6. reads' \in [Readers -> 0..Len(Credit)]
      <3> HIDE DEF worth
      <3>1. reads' = [reads EXCEPT ![r] = reads[r] + 1]
        BY <2>3
      <3> QED BY <2>1, <2>5, <3>1
    <2> HIDE DEF worth
    <2> QED BY <2>3, <2>4, <2>6
  <1>3. UNCHANGED <<period, inbound, pending, ledger, saved, unsaved, gossiped, signed,
                    writers, refused, dropped, reloads>>
    BY DEF Read, inboxVars, chainVars
  <1>4. CASE worth = 0
    <2>1. UNCHANGED <<book, attested, wire>>
      BY <1>4 DEF Read
    <2>2. TypeOK'
      BY <1>1, <1>2, <1>3, <2>1 DEF TypeOK, Nodes, Receipt, Tally, Ledgers, Block
    <2>3. PapersGenuine' /\ OneEnvelopeEach' /\ GossipSound' /\ LedgersSound'
      BY <1>3, <2>1, PapersStay, ChainsStay DEF chainVars
    <2> QED BY <2>2, <2>3 DEF BooksAgree
  <1>5. CASE worth # 0
    <2>1. /\ book' = [book EXCEPT ![r] = next]
          /\ attested' = [attested EXCEPT ![r] = @ + worth]
          /\ wire' = wire \cup {rc}
      BY <1>5 DEF Read
    <2>2. /\ book[r].counter \in Nat /\ book[r].bytes \in Nat /\ attested[r] \in Nat
          /\ attested \in [Readers -> Nat] /\ book \in [Readers -> Tally] /\ wire \subseteq Receipt
      BY <1>1, TypeFacts DEF TypeOK
    <2>3. next \in Tally /\ rc \in Receipt /\ next.bytes = book[r].bytes + worth /\ rc.bytes = next.bytes
          /\ rc.reader = r
      <3>1. next.counter = book[r].counter + 1 /\ next.bytes = book[r].bytes + worth
        OBVIOUS
      <3>2. next.counter \in Nat /\ next.bytes \in Nat
        <4> HIDE DEF worth
        <4> QED BY <1>2, <2>2, <3>1
      <3>3. next \in Tally
        <4> HIDE DEF worth
        <4> QED BY <3>2 DEF Tally
      <3>4. rc.bytes = next.bytes /\ rc.reader = r
        OBVIOUS
      <3>5. rc \in Receipt
        <4> HIDE DEF worth, next
        <4> QED BY <3>2 DEF Receipt
      <3> QED BY <3>1, <3>3, <3>4, <3>5
    <2>4. /\ attested' \in [Readers -> Nat] /\ AttestsMore /\ attested'[r] = attested[r] + worth
          /\ \A q \in Readers \ {r} : attested'[q] = attested[q]
      <3> HIDE DEF worth
      <3>1. attested'[r] = attested[r] + worth /\ \A q \in Readers \ {r} : attested'[q] = attested[q]
        BY <2>1, <2>2
      <3>2. attested' \in [Readers -> Nat]
        BY <1>2, <2>1, <2>2
      <3>3. AttestsMore
        <4> SUFFICES ASSUME NEW q \in Readers
                     PROVE  attested[q] \in Nat /\ attested'[q] \in Nat /\ attested[q] <= attested'[q]
          BY DEF AttestsMore
        <4>1. attested[q] \in Nat /\ attested'[q] \in Nat
          BY <2>2, <3>2
        <4>2. attested'[q] = attested[q] + worth \/ attested'[q] = attested[q]
          BY <3>1
        <4> QED BY <1>2, <4>1, <4>2
      <3> QED BY <3>1, <3>2, <3>3
    <2> HIDE DEF worth, next, rc
    <2>5. TypeOK'
      <3>1. book' \in [Readers -> Tally] /\ wire' \subseteq Receipt
        BY <2>1, <2>2, <2>3
      <3> QED BY <1>1, <1>2, <1>3, <2>4, <3>1 DEF TypeOK, Nodes
    <2>6. GossipSound' /\ LedgersSound'
      BY <1>3, <2>4, ChainsStayCovered DEF chainVars
    <2>7. OneEnvelopeEach'
      BY <1>3 DEF BooksAgree, OneEnvelopeEach
    <2>8. PapersGenuine'
      <3>1. PapersGenuine
        BY DEF BooksAgree
      <3>2. ASSUME NEW q \in Readers PROVE book'[q].bytes <= attested'[q]
        <4>1. book[q].bytes <= attested[q]
          BY <3>1 DEF PapersGenuine
        <4>2. CASE q = r
          <5>1. book'[q] = next
            BY <2>1, <2>2, <4>2
          <5> QED BY <1>2, <2>2, <2>3, <2>4, <4>1, <4>2, <5>1
        <4>3. CASE q # r
          BY <2>1, <2>2, <2>4, <4>1, <4>3
        <4> QED BY <4>2, <4>3
      <3>3. \A c \in wire : c.bytes <= attested'[c.reader]
        <4> TAKE c \in wire
        <4>1. c.reader \in Readers /\ c.bytes \in Nat /\ c.bytes <= attested[c.reader]
          BY <2>2, <3>1 DEF PapersGenuine, Genuine, Receipt
        <4> QED BY <2>4, <4>1 DEF AttestsMore
      <3>4. rc.bytes <= attested'[rc.reader]
        BY <2>3, <3>2, <2>1, <2>2
      <3>5. \A d \in Devices, q \in Readers : inbound'[d][q].bytes <= attested'[q]
        <4> TAKE d \in Devices, q \in Readers
        <4>1. inbound[d][q].bytes \in Nat /\ inbound[d][q].bytes <= attested[q]
          BY <1>1, <3>1, TypeFacts DEF PapersGenuine, Tally
        <4> QED BY <1>3, <2>4, <4>1 DEF AttestsMore
      <3>6. \A d \in Devices : \A i \in 1..Len(pending'[d]) : pending'[d][i].bytes <= attested'[pending'[d][i].reader]
        <4> TAKE d \in Devices
        <4> TAKE i \in 1..Len(pending'[d])
        <4>1. pending[d] \in Seq(Receipt) /\ i \in 1..Len(pending[d]) /\ pending'[d] = pending[d]
          BY <1>1, <1>3, TypeFacts
        <4>2. pending[d][i].reader \in Readers /\ pending[d][i].bytes \in Nat
          BY <4>1, ReceiptIn
        <4>3. pending[d][i].bytes <= attested[pending[d][i].reader]
          BY <3>1, <4>1 DEF PapersGenuine, Genuine
        <4> QED BY <2>4, <4>1, <4>2, <4>3 DEF AttestsMore
      <3> QED BY <2>1, <3>2, <3>3, <3>4, <3>5, <3>6 DEF PapersGenuine, Genuine
    <2> QED BY <2>5, <2>6, <2>7, <2>8 DEF BooksAgree
  <1> QED BY <1>4, <1>5

LEMMA ReaderReloadStep ==
    ASSUME BooksAgree, NEW r \in Readers, ReaderReload(r)
    PROVE  BooksAgree'
  <1>1. TypeOK
    BY DEF BooksAgree
  <1>2. /\ book' = [book EXCEPT ![r] = NoTally] /\ reads' = [reads EXCEPT ![r] = 0]
        /\ reloads' = reloads + 1 /\ reloads < MaxReloads
        /\ UNCHANGED <<period, attested, wire, inbound, pending, ledger, saved, unsaved, gossiped, signed,
                    writers, refused, dropped>>
    BY DEF ReaderReload, inboxVars, chainVars
  <1>3. NoTally \in Tally /\ NoTally.bytes = 0
    BY DEF NoTally, Tally
  <1>4. TypeOK'
    <2>1. book' \in [Readers -> Tally]
      BY <1>1, <1>2, <1>3 DEF TypeOK
    <2>2. reads' \in [Readers -> 0..Len(Credit)]
      <3>1. 0 \in 0..Len(Credit)
        BY EconomyAssumption
      <3> QED BY <1>1, <1>2, <3>1 DEF TypeOK
    <2>3. reloads' \in 0..MaxReloads
      <3>1. MaxReloads \in Nat
        BY EconomyAssumption
      <3> QED BY <1>1, <1>2, <3>1 DEF TypeOK
    <2> QED BY <1>1, <1>2, <2>1, <2>2, <2>3 DEF TypeOK, Nodes
  <1>5. PapersGenuine'
    <2>1. \A q \in Readers : book'[q].bytes <= attested[q]
      <3> TAKE q \in Readers
      <3>1. book[q].bytes <= attested[q] /\ attested[q] \in Nat /\ book \in [Readers -> Tally]
        BY <1>1, TypeFacts DEF BooksAgree, PapersGenuine, TypeOK
      <3> QED BY <1>2, <1>3, <3>1
    <2> QED BY <1>2, <2>1 DEF BooksAgree, PapersGenuine, Genuine
  <1>6. OneEnvelopeEach'
    BY <1>2 DEF BooksAgree, OneEnvelopeEach
  <1>7. GossipSound' /\ LedgersSound'
    BY <1>2, ChainsStay DEF chainVars
  <1> QED BY <1>4, <1>5, <1>6, <1>7 DEF BooksAgree

LEMMA LoseReceiptStep ==
    ASSUME BooksAgree, NEW rc \in wire, LoseReceipt(rc)
    PROVE  BooksAgree'
  <1>1. TypeOK
    BY DEF BooksAgree
  <1>2. /\ wire' = wire \ {rc}
        /\ UNCHANGED <<period, reads, book, attested, inbound, pending, ledger, saved, unsaved, gossiped, signed,
                    writers, refused, dropped, reloads>>
    BY DEF LoseReceipt, readerVars, inboxVars, chainVars
  <1>3. TypeOK'
    BY <1>1, <1>2 DEF TypeOK, Nodes
  <1>4. PapersGenuine' /\ OneEnvelopeEach'
    BY <1>2 DEF BooksAgree, PapersGenuine, Genuine, OneEnvelopeEach
  <1>5. GossipSound' /\ LedgersSound'
    BY <1>2, ChainsStay DEF chainVars
  <1> QED BY <1>3, <1>4, <1>5 DEF BooksAgree

LEMMA NextPeriodStep ==
    ASSUME BooksAgree, NextPeriod
    PROVE  BooksAgree'
  <1>1. TypeOK
    BY DEF BooksAgree
  <1>2. /\ period' = period + 1 /\ period < MaxPeriod
        /\ UNCHANGED <<reads, book, attested, wire, inbound, pending, ledger, saved, unsaved, gossiped, signed,
                    writers, refused, dropped, reloads>>
    BY DEF NextPeriod, readerVars, inboxVars, chainVars
  <1>3. TypeOK'
    <2>1. MaxPeriod \in Nat
      BY EconomyAssumption
    <2>2. period' \in 0..MaxPeriod
      BY <1>1, <1>2, <2>1 DEF TypeOK
    <2> QED BY <1>1, <1>2, <2>2 DEF TypeOK, Nodes
  <1>4. PapersGenuine' /\ OneEnvelopeEach' /\ GossipSound' /\ LedgersSound'
    BY <1>2, PapersStay, ChainsStay DEF chainVars
  <1> QED BY <1>3, <1>4 DEF BooksAgree

(***************************************************************************)
(* The devices' inboxes.                                                   *)
(***************************************************************************)
OneEach(queue) ==
    \A i, j \in 1..Len(queue) : queue[i].reader = queue[j].reader => i = j

FiledWell(new, queue, rc) ==
    /\ new \in Seq(Receipt) /\ OneEach(new)
    /\ \A i \in 1..Len(new) : new[i] = rc \/ \E j \in 1..Len(queue) : new[i] = queue[j]

LEMMA FiledIsWell ==
    ASSUME NEW queue \in Seq(Receipt), OneEach(queue), NEW rc \in Receipt
    PROVE  FiledWell(Filed(queue, rc), queue, rc)
  <1>1. DOMAIN queue = 1..Len(queue) /\ Len(queue) \in Nat /\ \A i \in 1..Len(queue) : queue[i] \in Receipt
    OBVIOUS
  <1>2. CASE \E i \in DOMAIN queue : queue[i].reader = rc.reader
    <2> DEFINE new == [i \in 1..Len(queue) |-> IF queue[i].reader = rc.reader THEN rc ELSE queue[i]]
    <2>1. Filed(queue, rc) = new
      BY <1>1, <1>2 DEF Filed
    <2>2. new \in [1..Len(queue) -> Receipt] /\ \A i \in 1..Len(queue) : new[i].reader = queue[i].reader
      BY <1>1
    <2>3. \A i \in 1..Len(queue) : new[i] = rc \/ new[i] = queue[i]
      OBVIOUS
    <2> HIDE DEF new
    <2>4. new \in Seq(Receipt) /\ Len(new) = Len(queue)
      BY <1>1, <2>2
    <2>5. OneEach(new)
      BY <2>2, <2>4 DEF OneEach
    <2>6. FiledWell(new, queue, rc)
      BY <2>3, <2>4, <2>5 DEF FiledWell
    <2> QED BY <2>1, <2>6
  <1>3. CASE ~(\E i \in DOMAIN queue : queue[i].reader = rc.reader)
    <2> DEFINE new == Append(queue, rc)
               n == Len(queue)
    <2>1. Filed(queue, rc) = new
      BY <1>3 DEF Filed
    <2>2. /\ new \in Seq(Receipt) /\ Len(new) = n + 1 /\ new[n + 1] = rc /\ n \in Nat
          /\ \A i \in 1..n : new[i] = queue[i] /\ queue[i].reader # rc.reader
      BY <1>1, <1>3
    <2>3. \A i \in 1..(n + 1) : i = n + 1 \/ i \in 1..n
      BY <2>2
    <2> HIDE DEF new
    <2>4. OneEach(new)
      <3> SUFFICES ASSUME NEW i \in 1..(n + 1), NEW j \in 1..(n + 1), new[i].reader = new[j].reader
                   PROVE  i = j
        BY <2>2 DEF OneEach
      <3>1. CASE i \in 1..n /\ j \in 1..n
        BY <2>2, <3>1 DEF OneEach
      <3>2. CASE i = n + 1 /\ j \in 1..n
        BY <2>2, <3>2
      <3>3. CASE i \in 1..n /\ j = n + 1
        BY <2>2, <3>3
      <3> QED BY <2>3, <3>1, <3>2, <3>3
    <2>5. FiledWell(new, queue, rc)
      BY <2>2, <2>3, <2>4 DEF FiledWell
    <2> QED BY <2>1, <2>5
  <1> QED BY <1>2, <1>3

LEMMA AcceptReadReceiptStep ==
    ASSUME BooksAgree, NEW rc \in wire, NEW d \in Devices, AcceptReadReceipt(d, rc)
    PROVE  BooksAgree'
  <1>1. TypeOK /\ PapersGenuine /\ OneEnvelopeEach
    BY DEF BooksAgree
  <1>2. /\ wire' = wire \ {rc}
        /\ UNCHANGED <<period, reads, book, attested, ledger, saved, unsaved, gossiped, signed,
                    writers, refused, dropped, reloads>>
    BY DEF AcceptReadReceipt, readerVars, chainVars
  <1>3. GossipSound' /\ LedgersSound'
    BY <1>2, ChainsStay DEF chainVars
  <1>4. CASE ~Supersedes(d, rc)
    <2>1. UNCHANGED <<inbound, pending>>
      BY <1>4 DEF AcceptReadReceipt, inboxVars
    <2>2. TypeOK'
      BY <1>1, <1>2, <2>1 DEF TypeOK, Nodes
    <2>3. PapersGenuine' /\ OneEnvelopeEach'
      BY <1>1, <1>2, <2>1 DEF PapersGenuine, Genuine, OneEnvelopeEach
    <2> QED BY <1>3, <2>2, <2>3 DEF BooksAgree
  <1>5. CASE Supersedes(d, rc)
    <2> DEFINE tally == [counter |-> rc.counter, bytes |-> rc.bytes]
               queue == Filed(pending[d], rc)
    <2>1. /\ inbound' = [inbound EXCEPT ![d][rc.reader] = tally]
          /\ pending' = [pending EXCEPT ![d] = queue]
      BY <1>5 DEF AcceptReadReceipt
    <2>2. /\ rc \in Receipt /\ rc.reader \in Readers /\ rc.bytes \in Nat /\ rc.bytes <= attested[rc.reader]
          /\ tally \in Tally
      BY <1>1 DEF TypeOK, Receipt, Tally, PapersGenuine, Genuine
    <2>3. pending[d] \in Seq(Receipt) /\ OneEach(pending[d])
      BY <1>1, TypeFacts DEF OneEnvelopeEach, OneEach
    <2>4. FiledWell(queue, pending[d], rc)
      BY <2>2, <2>3, FiledIsWell
    <2>5. tally.bytes = rc.bytes
      OBVIOUS
    <2>6. inbound \in [Devices -> [Readers -> Tally]] /\ pending \in [Devices -> Seq(Receipt)]
      BY <1>1 DEF TypeOK
    <2> HIDE DEF tally, queue
    <2>7. TypeOK'
      <3>1. inbound' \in [Devices -> [Readers -> Tally]]
        BY <2>1, <2>2, <2>6
      <3>2. pending' \in [Devices -> Seq(Receipt)]
        BY <2>1, <2>4, <2>6 DEF FiledWell
      <3>3. wire' \subseteq Receipt
        BY <1>1, <1>2 DEF TypeOK
      <3> QED BY <1>1, <1>2, <3>1, <3>2, <3>3 DEF TypeOK, Nodes
    <2>8. \A e \in Devices : pending'[e] = IF e = d THEN queue ELSE pending[e]
      BY <2>1, <2>6
    <2>9. OneEnvelopeEach'
      <3>1. \A e \in Devices : OneEach(pending'[e])
        BY <1>1, <2>4, <2>8 DEF OneEnvelopeEach, OneEach, FiledWell
      <3> QED BY <3>1 DEF OneEnvelopeEach, OneEach
    <2>10. PapersGenuine'
      <3>1. \A e \in Devices, r \in Readers : inbound'[e][r].bytes <= attested[r]
        <4> TAKE e \in Devices, r \in Readers
        <4>1. inbound[e][r].bytes <= attested[r] /\ inbound[e] \in [Readers -> Tally]
          BY <1>1, <2>6 DEF PapersGenuine
        <4>2. CASE e = d /\ r = rc.reader
          <5>1. inbound'[e][r] = tally
            BY <2>1, <2>6, <4>2
          <5> QED BY <2>2, <2>5, <4>2, <5>1
        <4>3. CASE ~(e = d /\ r = rc.reader)
          <5>1. inbound'[e][r] = inbound[e][r]
            BY <2>1, <2>6, <4>3
          <5> QED BY <4>1, <5>1
        <4> QED BY <4>2, <4>3
      <3>2. \A e \in Devices : \A i \in 1..Len(pending'[e]) :
              pending'[e][i].bytes <= attested[pending'[e][i].reader]
        <4> TAKE e \in Devices
        <4>1. \A i \in 1..Len(pending[e]) : pending[e][i].bytes <= attested[pending[e][i].reader]
          BY <1>1 DEF PapersGenuine, Genuine
        <4>2. CASE e # d
          BY <2>8, <4>1, <4>2
        <4>3. CASE e = d
          <5>1. pending'[e] = queue
            BY <2>8, <4>3
          <5> TAKE i \in 1..Len(pending'[e])
          <5>2. queue[i] = rc \/ \E j \in 1..Len(pending[d]) : queue[i] = pending[d][j]
            BY <2>4, <5>1 DEF FiledWell
          <5> QED BY <2>2, <4>1, <4>3, <5>1, <5>2
        <4> QED BY <4>2, <4>3
      <3>3. /\ \A r \in Readers : book'[r].bytes <= attested'[r]
            /\ \A c \in wire' : c.bytes <= attested'[c.reader]
        BY <1>1, <1>2 DEF PapersGenuine, Genuine
      <3> QED BY <1>2, <3>1, <3>2, <3>3 DEF PapersGenuine, Genuine
    <2> QED BY <1>3, <2>7, <2>9, <2>10 DEF BooksAgree
  <1> QED BY <1>4, <1>5

(***************************************************************************)
(* The chain's steps.                                                      *)
(***************************************************************************)
LEMMA OneLedgerMoves ==
    ASSUME BooksAgree, NEW n \in Nodes, NEW k, SoundLedger(k, attested),
           ledger' = [ledger EXCEPT ![n] = k], attested' = attested
    PROVE  LedgersSound' /\ ledger' \in [Nodes -> Ledgers]
  <1>1. ledger \in [Nodes -> Ledgers] /\ k \in Ledgers
    BY DEF BooksAgree, TypeOK, SoundLedger
  <1>2. \A m \in Nodes : SoundLedger(ledger'[m], attested)
    <2> TAKE m \in Nodes
    <2>1. SoundLedger(ledger[m], attested)
      BY DEF BooksAgree, LedgersSound
    <2> QED BY <1>1, <2>1
  <1>3. ledger' \in [Nodes -> Ledgers]
    BY <1>1
  <1> QED BY <1>2, <1>3 DEF LedgersSound, Nodes

SavedType == /\ saved' \in [Devices -> SUBSET Block] /\ unsaved' \in [Devices -> SUBSET Block]
             /\ gossiped' \subseteq Block

\* What the histories record is of their types.
HistoryType == writers' \subseteq Devices /\ refused' \subseteq Block /\ dropped' \subseteq Block

LEMMA HistoriesTyped ==
    ASSUME BooksAgree
    PROVE  (UNCHANGED <<writers, refused>> => writers' \subseteq Devices /\ refused' \subseteq Block)
           /\ (UNCHANGED dropped => dropped' \subseteq Block)
  BY DEF BooksAgree, TypeOK

LEMMA BlocksGoOut ==
    ASSUME BooksAgree, NEW d \in Devices, NEW out \in SUBSET Block, IsFiniteSet(out),
           \A b \in out : AttestedIn(b, attested), NEW wait \in SUBSET out,
           gossiped' = gossiped \cup out, unsaved' = [unsaved EXCEPT ![d] = @ \cup wait],
           UNCHANGED <<saved, attested>>
    PROVE  GossipSound' /\ SavedType
  <1>1. /\ saved \in [Devices -> SUBSET Block] /\ gossiped \subseteq Block /\ IsFiniteSet(gossiped)
        /\ unsaved \in [Devices -> SUBSET Block]
        /\ \A e \in Devices : saved[e] \cup unsaved[e] \subseteq gossiped
        /\ \A b \in gossiped : AttestedIn(b, attested)
    BY DEF BooksAgree, TypeOK, GossipSound, SavedIsGossiped
  <1>2. IsFiniteSet(gossiped')
    BY <1>1, FS_Union
  <1>3. \A e \in Devices : saved'[e] \cup unsaved'[e] \subseteq gossiped'
    BY <1>1
  <1>4. \A b \in gossiped' : AttestedIn(b, attested')
    BY <1>1
  <1>5. SavedType
    <2>1. unsaved' \in [Devices -> SUBSET Block]
      BY <1>1
    <2> QED BY <1>1, <2>1 DEF SavedType
  <1> QED BY <1>2, <1>3, <1>4, <1>5 DEF GossipSound, SavedIsGossiped

\* A device applies a block of its own.
OwnBlock(d, b) ==
    /\ b \in Block /\ AttestedIn(b, attested)
    /\ ledger' = [ledger EXCEPT ![d] = Apply(ledger[d], b)]
    /\ SoundLedger(Apply(ledger[d], b), attested)
    /\ Apply(ledger[d], b).chain = Append(ledger[d].chain, b)

LEMMA SignedBlock ==
    ASSUME BooksAgree, NEW d \in Devices, NEW kind \in {"register", "deregister", "settle"},
           NEW claims \in Seq(Receipt), NEW amount \in Nat,
           \A i \in 1..Len(claims) : Genuine(claims[i]),
           kind # "settle" => amount = 0,
           kind = "settle" => amount <= SettlementCredit(ledger[d], claims),
           Sign(d, kind, claims, amount)
    PROVE  /\ signed' \in 0..MaxSigned /\ writers' \subseteq Devices /\ refused' \subseteq Block
           /\ \E b \in Block : OwnBlock(d, b)
  <1> DEFINE own == ledger[d]
             b == [index |-> Len(own.chain) + 1, id |-> signed + 1, prev |-> HeadId(own),
                   kind |-> kind, period |-> period, receipts |-> claims, amount |-> amount]
  <1>1. /\ signed < MaxSigned /\ signed' = signed + 1
        /\ ledger' = [ledger EXCEPT ![d] = Apply(own, b)]
        /\ writers' = writers \cup {d} /\ refused' \subseteq refused \cup {b}
    BY DEF Sign
  <1>2. TypeOK /\ d \in Nodes /\ SoundLedger(own, attested) /\ attested \in [Readers -> Nat]
    BY DEF BooksAgree, TypeOK, LedgersSound, Nodes
  <1>3. signed' \in 0..MaxSigned /\ signed \in Nat
    <2>1. MaxSigned \in Nat /\ signed \in 0..MaxSigned
      BY <1>2, EconomyAssumption DEF TypeOK
    <2> QED BY <1>1, <2>1
  <1>4. own.chain \in Seq(Block) /\ Len(own.chain) \in Nat
    BY <1>2 DEF SoundLedger, Ledgers
  <1>5. HeadId(own) \in Nat
    <2>1. CASE own.chain = <<>>
      BY <2>1 DEF HeadId
    <2>2. CASE own.chain # <<>>
      <3>1. own.chain[Len(own.chain)] \in Block
        BY <1>4, <2>2
      <3> QED BY <2>2, <3>1 DEF HeadId, Block
    <2> QED BY <2>1, <2>2
  <1>6. b \in Block
    <2>1. period \in Nat
      BY <1>2, TypeFacts
    <2> QED BY <1>3, <1>4, <1>5, <2>1 DEF Block
  <1>7. b.index = Len(own.chain) + 1 /\ b.kind = kind /\ b.receipts = claims /\ b.amount = amount
    OBVIOUS
  <1> HIDE DEF b, own
  <1>8. AttestedIn(b, attested)
    BY <1>7 DEF AttestedIn, Genuine
  <1>9. Payable1(own, b)
    BY <1>7 DEF Payable1, Settles, own
  <1>10. SoundLedger(Apply(own, b), attested) /\ Apply(own, b).chain = Append(own.chain, b)
    BY <1>2, <1>6, <1>7, <1>8, <1>9, ApplyIsSound
  <1>11. OwnBlock(d, b)
    BY <1>1, <1>6, <1>8, <1>10 DEF OwnBlock, own
  <1>12. writers' \subseteq Devices /\ refused' \subseteq Block
    BY <1>1, <1>2, <1>6 DEF TypeOK
  <1> QED BY <1>3, <1>6, <1>11, <1>12

LEMMA SubmittedStep ==
    ASSUME BooksAgree, NEW d \in Devices, NEW kind \in {"register", "deregister"},
           Sign(d, kind, <<>>, 0), Submitted(d),
           UNCHANGED <<period, readerVars, wire, inboxVars, saved, dropped, reloads>>
    PROVE  BooksAgree'
  <1>1. UNCHANGED <<period, reads, book, attested, wire, inbound, pending, saved, dropped, reloads>>
    BY DEF readerVars, inboxVars
  <1>2. /\ <<>> \in Seq(Receipt) /\ 0 \in Nat /\ kind \in {"register", "deregister", "settle"}
        /\ kind # "settle" /\ \A i \in 1..Len(<<>>) : Genuine(<<>>[i])
    OBVIOUS
  <1>3. /\ signed' \in 0..MaxSigned /\ writers' \subseteq Devices /\ refused' \subseteq Block
        /\ \E b \in Block : OwnBlock(d, b)
    BY <1>2, SignedBlock
  <1>4. PICK b \in Block : OwnBlock(d, b)
    BY <1>3
  <1>5. TypeOK /\ d \in Nodes /\ ledger[d].chain \in Seq(Block)
    BY DEF BooksAgree, TypeOK, Nodes, Ledgers
  <1>6. ledger'[d].chain = Append(ledger[d].chain, b)
    <2>1. ledger'[d] = Apply(ledger[d], b)
      BY <1>4, <1>5 DEF OwnBlock, TypeOK
    <2> QED BY <1>4, <2>1 DEF OwnBlock
  <1>7. ledger'[d].chain[Len(ledger'[d].chain)] = b
    BY <1>4, <1>5, <1>6
  <1> DEFINE out == IF ledger[d].frozen THEN {} ELSE {b}
  <1>8. gossiped' = gossiped \cup out /\ unsaved' = [unsaved EXCEPT ![d] = @ \cup out]
    BY <1>7 DEF Submitted
  <1>9. out \in SUBSET Block /\ IsFiniteSet(out) /\ \A c \in out : AttestedIn(c, attested)
    BY <1>4, FS_EmptySet, FS_Singleton DEF OwnBlock
  <1> HIDE DEF out
  <1>10. GossipSound' /\ SavedType
    <2>1. out \in SUBSET out
      OBVIOUS
    <2> QED BY <1>1, <1>8, <1>9, <2>1, BlocksGoOut
  <1>11. LedgersSound' /\ ledger' \in [Nodes -> Ledgers]
    BY <1>1, <1>4, <1>5, OneLedgerMoves DEF OwnBlock
  <1>12. TypeOK'
    <2>1. HistoryType
      BY <1>1, <1>3, HistoriesTyped DEF HistoryType
    <2> QED BY <1>1, <1>3, <1>5, <1>10, <1>11, <2>1 DEF TypeOK, SavedType, HistoryType, Nodes
  <1>13. PapersGenuine' /\ OneEnvelopeEach'
    BY <1>1, PapersStay
  <1> QED BY <1>10, <1>11, <1>12, <1>13 DEF BooksAgree

LEMMA RegisterStep ==
    ASSUME BooksAgree, NEW d \in Serving, Register(d)
    PROVE  BooksAgree'
  <1>1. d \in Devices
    BY EconomyAssumption
  <1> QED BY <1>1, SubmittedStep DEF Register

LEMMA DeregisterStep ==
    ASSUME BooksAgree, NEW d \in Serving, Deregister(d)
    PROVE  BooksAgree'
  <1>1. d \in Devices
    BY EconomyAssumption
  <1> QED BY <1>1, SubmittedStep DEF Deregister

\* A settlement carries the envelopes that waited longest.
LEMMA ReceiptsCarried ==
    ASSUME BooksAgree, NEW d \in Devices
    PROVE  /\ SettlementReceipts(d) \in Seq(Receipt) /\ Len(SettlementReceipts(d)) <= MaxReceipts
           /\ \A i \in 1..Len(SettlementReceipts(d)) : Genuine(SettlementReceipts(d)[i])
  <1> DEFINE q == pending[d]
             n == Minimum(Len(q), MaxReceipts)
             rs == SettlementReceipts(d)
  <1>1. q \in Seq(Receipt) /\ Len(q) \in Nat /\ MaxReceipts \in Nat
    BY TypeFacts, EconomyAssumption DEF BooksAgree
  <1>2. n \in 0..Len(q) /\ n <= MaxReceipts
    BY <1>1 DEF Minimum
  <1>3. rs = SubSeq(q, 1, n)
    BY DEF SettlementReceipts
  <1>4. \A i \in 1..Len(q) : Genuine(q[i])
    BY DEF BooksAgree, PapersGenuine
  <1> HIDE DEF q, n, rs
  <1>5. Len(rs) = n /\ rs \in Seq(Receipt) /\ \A i \in 1..n : rs[i] = q[i]
    BY <1>1, <1>2, <1>3
  <1>6. \A i \in 1..Len(rs) : Genuine(rs[i])
    BY <1>1, <1>2, <1>4, <1>5
  <1> QED BY <1>2, <1>5, <1>6 DEF rs

LEMMA SettleIfDueStep ==
    ASSUME BooksAgree, NEW d \in Devices, SettleIfDue(d)
    PROVE  BooksAgree'
  <1> DEFINE rs == SettlementReceipts(d)
             credit == SettlementCredit(ledger[d], rs)
  <1>1. /\ Sign(d, "settle", rs, credit) /\ pending' = [pending EXCEPT ![d] = <<>>]
        /\ UNCHANGED <<period, reads, book, attested, wire, inbound, saved, unsaved, gossiped, dropped, reloads>>
    BY DEF SettleIfDue, readerVars
  <1>2. TypeOK /\ PapersGenuine /\ OneEnvelopeEach /\ d \in Nodes /\ ledger[d] \in Ledgers
    BY DEF BooksAgree, Nodes, TypeOK
  <1>3. rs \in Seq(Receipt) /\ \A i \in 1..Len(rs) : Genuine(rs[i])
    BY ReceiptsCarried
  <1>4. credit \in Nat
    <2>1. ledger[d].baseline \in [Readers -> Nat]
      BY <1>2 DEF Ledgers
    <2> HIDE DEF rs
    <2> QED BY <1>3, <2>1, CreditIsMoved
  <1>5. credit <= SettlementCredit(ledger[d], rs)
    BY <1>4
  <1>6. /\ signed' \in 0..MaxSigned /\ writers' \subseteq Devices /\ refused' \subseteq Block
        /\ \E b \in Block : OwnBlock(d, b)
    <2> HIDE DEF credit, rs
    <2> QED BY <1>1, <1>3, <1>4, <1>5, SignedBlock
  <1>7. PICK b \in Block : OwnBlock(d, b)
    BY <1>6
  <1>8. LedgersSound' /\ ledger' \in [Nodes -> Ledgers]
    BY <1>1, <1>2, <1>7, OneLedgerMoves DEF OwnBlock
  <1> HIDE DEF credit, rs
  <1>9. GossipSound'
    BY <1>1 DEF BooksAgree, GossipSound, SavedIsGossiped
  <1>10. \A e \in Devices : pending'[e] = IF e = d THEN <<>> ELSE pending[e]
    BY <1>1, <1>2 DEF TypeOK
  <1>11. TypeOK'
    <2>1. pending' \in [Devices -> Seq(Receipt)]
      BY <1>1, <1>2 DEF TypeOK
    <2>2. HistoryType
      BY <1>1, <1>6, HistoriesTyped DEF HistoryType
    <2> QED BY <1>1, <1>2, <1>6, <1>8, <2>1, <2>2 DEF TypeOK, HistoryType, Nodes
  <1>12. PapersGenuine' /\ OneEnvelopeEach'
    <2>1. 1..Len(<<>>) = {}
      OBVIOUS
    <2>2. \A e \in Devices : \A i \in 1..Len(pending'[e]) : e # d /\ pending'[e] = pending[e]
      BY <1>10, <2>1
    <2>3. OneEnvelopeEach'
      BY <1>2, <2>2 DEF OneEnvelopeEach
    <2>4. PapersGenuine'
      BY <1>1, <1>2, <2>2 DEF PapersGenuine, Genuine
    <2> QED BY <2>3, <2>4
  <1> QED BY <1>8, <1>9, <1>11, <1>12 DEF BooksAgree

LEMMA PublishLocalDataStep ==
    ASSUME BooksAgree, NEW d \in Devices, PublishLocalData(d)
    PROVE  BooksAgree'
  <1> DEFINE c == ledger[d].chain
             out == Range(c)
             wait == out \ saved[d]
  <1>1. /\ gossiped' = gossiped \cup out /\ unsaved' = [unsaved EXCEPT ![d] = @ \cup wait]
        /\ UNCHANGED <<period, reads, book, attested, wire, inbound, pending, ledger, saved, signed,
                       writers, refused, dropped, reloads>>
    BY DEF PublishLocalData, readerVars, inboxVars
  <1>2. TypeOK /\ d \in Nodes /\ SoundLedger(ledger[d], attested)
    BY DEF BooksAgree, LedgersSound, Nodes
  <1>3. c \in Seq(Block) /\ Len(c) \in Nat /\ DOMAIN c = 1..Len(c)
    BY <1>2 DEF SoundLedger, Ledgers
  <1>4. out = {c[i] : i \in 1..Len(c)}
    BY <1>3 DEF Range
  <1>5. IsFiniteSet(out)
    <2>1. IsFiniteSet(1..Len(c))
      BY <1>3, FS_Interval
    <2> QED BY <1>4, <2>1, ImageFinite
  <1>6. out \in SUBSET Block /\ \A b \in out : AttestedIn(b, attested)
    BY <1>2, <1>3, <1>4 DEF SoundLedger
  <1> DEFINE o == out
             w == wait
  <1>7. GossipSound' /\ SavedType
    <2>1. /\ o \in SUBSET Block /\ IsFiniteSet(o) /\ \A b \in o : AttestedIn(b, attested)
          /\ w \in SUBSET o
      BY <1>5, <1>6
    <2>2. gossiped' = gossiped \cup o /\ unsaved' = [unsaved EXCEPT ![d] = @ \cup w]
      BY <1>1
    <2> HIDE DEF o, w
    <2> QED BY <1>1, <2>1, <2>2, BlocksGoOut
  <1>8. LedgersSound'
    BY <1>1 DEF BooksAgree, LedgersSound, Nodes
  <1>9. TypeOK'
    BY <1>1, <1>2, <1>7 DEF TypeOK, SavedType, Nodes
  <1>10. PapersGenuine' /\ OneEnvelopeEach'
    BY <1>1, PapersStay
  <1> QED BY <1>7, <1>8, <1>9, <1>10 DEF BooksAgree

LEMMA SaveDoneStep ==
    ASSUME BooksAgree, NEW d \in Devices, SaveDone(d)
    PROVE  BooksAgree'
  <1>1. PICK b \in unsaved[d] : /\ saved' = [saved EXCEPT ![d] = @ \cup {b}]
                                /\ unsaved' = [unsaved EXCEPT ![d] = @ \ {b}]
    BY DEF SaveDone
  <1>2. UNCHANGED <<period, reads, book, attested, wire, inbound, pending, ledger, gossiped, signed,
                    writers, refused, dropped, reloads>>
    BY DEF SaveDone, readerVars, inboxVars
  <1>3. /\ TypeOK /\ saved \in [Devices -> SUBSET Block] /\ unsaved \in [Devices -> SUBSET Block]
        /\ IsFiniteSet(gossiped) /\ \A e \in Devices : saved[e] \cup unsaved[e] \subseteq gossiped
    BY DEF BooksAgree, GossipSound, SavedIsGossiped, TypeOK
  <1>4. saved' \in [Devices -> SUBSET Block] /\ unsaved' \in [Devices -> SUBSET Block]
    BY <1>1, <1>3
  <1>5. \A e \in Devices : saved'[e] \cup unsaved'[e] \subseteq gossiped
    BY <1>1, <1>3
  <1>6. GossipSound' /\ LedgersSound'
    BY <1>2, <1>3, <1>5 DEF BooksAgree, GossipSound, SavedIsGossiped, LedgersSound, Nodes
  <1>7. TypeOK'
    BY <1>2, <1>3, <1>4 DEF TypeOK, Nodes
  <1>8. PapersGenuine' /\ OneEnvelopeEach'
    BY <1>2, PapersStay
  <1> QED BY <1>6, <1>7, <1>8 DEF BooksAgree

LEMMA ProviderReloadStep ==
    ASSUME BooksAgree, NEW d \in Devices, ProviderReload(d)
    PROVE  BooksAgree'
  <1>1. /\ reloads < MaxReloads /\ reloads' = reloads + 1
        /\ inbound' = [inbound EXCEPT ![d] = NoTallies] /\ pending' = [pending EXCEPT ![d] = <<>>]
        /\ unsaved' = [unsaved EXCEPT ![d] = {}] /\ dropped' = dropped \cup (unsaved[d] \ saved[d])
        /\ UNCHANGED <<period, reads, book, attested, wire, saved, gossiped, signed, writers, refused>>
    BY DEF ProviderReload, readerVars
  <1>2. PICK s \in ReplayOrders(saved[d]) : ledger' = [ledger EXCEPT ![d] = Replayed(d, s)]
    BY DEF ProviderReload
  <1>3. /\ TypeOK /\ PapersGenuine /\ OneEnvelopeEach /\ d \in Nodes /\ attested \in [Readers -> Nat]
        /\ saved[d] \subseteq gossiped /\ IsFiniteSet(gossiped) /\ gossiped \subseteq Block
        /\ \A b \in gossiped : AttestedIn(b, attested)
        /\ unsaved \in [Devices -> SUBSET Block]
    BY DEF BooksAgree, TypeOK, GossipSound, SavedIsGossiped, Nodes
  <1>4. SoundLedger(Replayed(d, s), attested)
    <2> DEFINE k == Cardinality(saved[d])
    <2>1. k \in Nat
      BY <1>3, FS_Subset, FS_CardinalityType
    <2>2. s \in [1..k -> saved[d]]
      BY <1>2 DEF ReplayOrders
    <2> HIDE DEF k
    <2>3. s \in [1..k -> Block] /\ \A i \in 1..k : AttestedIn(s[i], attested)
      BY <1>3, <2>2
    <2> QED BY <1>3, <2>1, <2>3, ReplayedIsSound
  <1>5. LedgersSound' /\ ledger' \in [Nodes -> Ledgers]
    BY <1>1, <1>2, <1>3, <1>4, OneLedgerMoves
  <1>6. GossipSound'
    <2>1. \A e \in Devices : unsaved'[e] \subseteq unsaved[e]
      BY <1>1, <1>3
    <2> QED BY <1>1, <2>1 DEF BooksAgree, GossipSound, SavedIsGossiped
  <1>7. NoTallies \in [Readers -> Tally] /\ \A r \in Readers : NoTallies[r].bytes = 0
    BY DEF NoTallies, NoTally, Tally
  <1>8. TypeOK'
    <2>1. pending' \in [Devices -> Seq(Receipt)]
      BY <1>1, <1>3 DEF TypeOK
    <2>2. inbound' \in [Devices -> [Readers -> Tally]]
      BY <1>1, <1>3, <1>7 DEF TypeOK
    <2>3. reloads' \in 0..MaxReloads
      <3>1. MaxReloads \in Nat
        BY EconomyAssumption
      <3> QED BY <1>1, <1>3, <3>1 DEF TypeOK
    <2>4. unsaved' \in [Devices -> SUBSET Block]
      BY <1>1, <1>3
    <2>5. HistoryType
      <3>1. unsaved[d] \subseteq Block /\ dropped \subseteq Block
        BY <1>3 DEF TypeOK
      <3>2. dropped' \subseteq Block
        BY <1>1, <3>1
      <3> QED BY <1>1, <3>2, HistoriesTyped DEF HistoryType
    <2> QED BY <1>1, <1>3, <1>5, <2>1, <2>2, <2>3, <2>4, <2>5 DEF TypeOK, HistoryType, Nodes
  <1>9. PapersGenuine' /\ OneEnvelopeEach'
    <2>1. \A e \in Devices : pending'[e] = IF e = d THEN <<>> ELSE pending[e]
      BY <1>1, <1>3 DEF TypeOK
    <2>2. 1..Len(<<>>) = {}
      OBVIOUS
    <2>3. \A e \in Devices : \A i \in 1..Len(pending'[e]) : e # d /\ pending'[e] = pending[e]
      BY <2>1, <2>2
    <2>4. OneEnvelopeEach'
      BY <1>3, <2>3 DEF OneEnvelopeEach
    <2>5. \A e \in Devices, r \in Readers : inbound'[e][r].bytes <= attested[r]
      <3> TAKE e \in Devices, r \in Readers
      <3>1. inbound[e][r].bytes <= attested[r] /\ attested[r] \in Nat
        BY <1>3 DEF PapersGenuine
      <3>2. inbound'[e] = IF e = d THEN NoTallies ELSE inbound[e]
        BY <1>1, <1>3 DEF TypeOK
      <3> QED BY <1>7, <3>1, <3>2
    <2>6. PapersGenuine'
      BY <1>1, <1>3, <2>3, <2>5 DEF PapersGenuine, Genuine
    <2> QED BY <2>4, <2>6
  <1> QED BY <1>5, <1>6, <1>8, <1>9 DEF BooksAgree

LEMMA NodeReceivesStep ==
    ASSUME BooksAgree, NEW n \in Nodes, NEW b \in gossiped, NodeReceives(n, b)
    PROVE  BooksAgree'
  <1>1. /\ ledger' = [ledger EXCEPT ![n] = AddBlock(ledger[n], b)]
        /\ saved' = [d \in Devices |-> saved[d] \cup IF d = n THEN {b} ELSE {}]
        /\ UNCHANGED <<period, reads, book, attested, wire, inbound, pending, unsaved, gossiped, signed,
                       writers, refused, dropped, reloads>>
    BY DEF NodeReceives, readerVars, inboxVars
  <1>2. /\ TypeOK /\ attested \in [Readers -> Nat] /\ b \in Block /\ AttestedIn(b, attested)
        /\ SoundLedger(ledger[n], attested) /\ gossiped \subseteq Block
    BY DEF BooksAgree, TypeOK, GossipSound, LedgersSound
  <1>3. SoundLedger(AddBlock(ledger[n], b), attested)
    BY <1>2, AddBlockIsSound
  <1>4. LedgersSound' /\ ledger' \in [Nodes -> Ledgers]
    BY <1>1, <1>3, OneLedgerMoves
  <1>5. GossipSound' /\ SavedType
    <2>1. \A d \in Devices : /\ saved[d] \subseteq gossiped /\ unsaved[d] \subseteq gossiped
                              /\ saved[d] \subseteq Block /\ unsaved[d] \subseteq Block
      BY <1>2 DEF BooksAgree, GossipSound, SavedIsGossiped
    <2>2. \A d \in Devices : saved'[d] \subseteq gossiped
      BY <1>1, <2>1
    <2>3. saved' \in [Devices -> SUBSET Block]
      BY <1>1, <1>2, <2>1
    <2>4. unsaved' \in [Devices -> SUBSET Block]
      BY <1>1, <1>2 DEF TypeOK
    <2> QED BY <1>1, <1>2, <2>1, <2>2, <2>3, <2>4 DEF BooksAgree, GossipSound, SavedIsGossiped, SavedType
  <1>6. TypeOK'
    BY <1>1, <1>2, <1>4, <1>5 DEF TypeOK, SavedType, Nodes
  <1>7. PapersGenuine' /\ OneEnvelopeEach'
    BY <1>1, PapersStay
  <1> QED BY <1>4, <1>5, <1>6, <1>7 DEF BooksAgree

(***************************************************************************)
(* The theorems.                                                           *)
(***************************************************************************)
LEMMA BooksAgreeStays == BooksAgree /\ [Next]_vars => BooksAgree'
  <1> SUFFICES ASSUME BooksAgree, [Next]_vars PROVE BooksAgree'
    OBVIOUS
  <1>1. ASSUME NEW r \in Readers, Read(r) \/ ReaderReload(r) PROVE BooksAgree'
    BY <1>1, ReadStep, ReaderReloadStep
  <1>2. ASSUME NEW rc \in wire, LoseReceipt(rc) PROVE BooksAgree'
    BY <1>2, LoseReceiptStep
  <1>3. ASSUME NEW rc \in wire, NEW d \in Devices, AcceptReadReceipt(d, rc) PROVE BooksAgree'
    BY <1>3, AcceptReadReceiptStep
  <1>4. ASSUME NEW d \in Serving, Register(d) \/ Deregister(d) PROVE BooksAgree'
    BY <1>4, RegisterStep, DeregisterStep
  <1>5. ASSUME NEW d \in Devices, SettleIfDue(d) \/ PublishLocalData(d) \/ SaveDone(d) \/ ProviderReload(d)
        PROVE  BooksAgree'
    BY <1>5, SettleIfDueStep, PublishLocalDataStep, SaveDoneStep, ProviderReloadStep
  <1>6. ASSUME NEW n \in Nodes, NEW b \in gossiped, NodeReceives(n, b) PROVE BooksAgree'
    BY <1>6, NodeReceivesStep
  <1>7. CASE NextPeriod
    BY <1>7, NextPeriodStep
  <1>8. CASE UNCHANGED vars
    <2>1. UNCHANGED <<period, reads, book, attested, wire, inbound, pending,
                      ledger, saved, unsaved, gossiped, signed,
                    writers, refused, dropped, reloads>>
      BY <1>8 DEF vars, readerVars, inboxVars, chainVars
    <2>2. TypeOK'
      BY <2>1 DEF BooksAgree, TypeOK, Nodes
    <2>3. PapersGenuine' /\ OneEnvelopeEach' /\ GossipSound' /\ LedgersSound'
      BY <2>1, PapersStay, ChainsStay DEF chainVars
    <2> QED BY <2>2, <2>3 DEF BooksAgree
  <1> QED BY <1>1, <1>2, <1>3, <1>4, <1>5, <1>6, <1>7, <1>8 DEF Next

LEMMA BooksAlwaysAgree == Spec => []BooksAgree
  BY BooksAgreeAtFirst, BooksAgreeStays, PTL DEF Spec

\* The books of readers, provider and nodes agree: receipts are genuine wherever
\* they are, each waits once, and a ledger is derived from its chain, through
\* reloads and replays (read-receipts.ts, provider-ledger.ts).
THEOREM EconomySound == Spec => []EconomyInv
  BY BooksAlwaysAgree, BooksGiveInv, PTL

\* No served byte is paid twice: a chain mints no more than its baselines moved,
\* and no baseline is above what its reader ever attested (applySettle).
THEOREM PaidOnce == Spec => []PaidIsAttested
  <1>1. EconomyInv => PaidIsAttested
    BY DEF EconomyInv
  <1> QED BY <1>1, EconomySound, PTL

\* Two nodes that hold the same chain cannot disagree, although one applied its
\* blocks unvalidated and forgot its receipts in a reload (ProviderLedger).
THEOREM LedgersAgree == Spec => []SameChainSameBaselines
  <1>1. EconomyInv => SameChainSameBaselines
    <2> SUFFICES ASSUME EconomyInv, NEW n \in Nodes, NEW m \in Nodes, ledger[n].chain = ledger[m].chain
                 PROVE  ledger[n].baseline = ledger[m].baseline /\ ledger[n].lastPeriod = ledger[m].lastPeriod
      BY DEF SameChainSameBaselines
    <2>1. ledger[n] \in Ledgers /\ ledger[m] \in Ledgers
      BY DEF EconomyInv, TypeOK
    <2>2. [ledger[n] EXCEPT !.frozen = FALSE] = [ledger[m] EXCEPT !.frozen = FALSE]
      BY DEF EconomyInv, LedgersDerived
    <2> DEFINE x == [ledger[n] EXCEPT !.frozen = FALSE]
               y == [ledger[m] EXCEPT !.frozen = FALSE]
    <2>3. /\ x.baseline = ledger[n].baseline /\ x.lastPeriod = ledger[n].lastPeriod
          /\ y.baseline = ledger[m].baseline /\ y.lastPeriod = ledger[m].lastPeriod
      BY <2>1 DEF Ledgers
    <2> QED BY <2>2, <2>3
  <1> QED BY <1>1, EconomySound, PTL

(***************************************************************************)
(* What was signed.  Whichever devices sign, and whatever reloads cut off, *)
(* the blocks that left a device or are part of a chain have dates and     *)
(* names of their own, and a block was due on the chain it was signed on   *)
(* (BlocksInOrder).  While one device signs, every write it began is done  *)
(* and nothing it signed is refused, these blocks are one path: what a     *)
(* reload makes the device forget nobody else has seen, and what it has    *)
(* published it finds again, so it never signs a second block after the    *)
(* same one (AccountUndivided).                                            *)
(***************************************************************************)
Everything == gossiped \cup UNION {Range(ledger[n].chain) : n \in Nodes}

Extends(b, l) == b.index = Len(l.chain) + 1 /\ b.prev = HeadId(l)

\* Signed in the past, after the block it links to.
Dated(K, s, p) ==
    \A b \in K : b \in Block /\ 1 <= b.index /\ b.prev < b.id /\ b.id <= s /\ b.period <= p

UniqueIds(K) == \A b, c \in K : b.id = c.id => b = c
Forkless(K) == \A b, c \in K : b.prev = c.prev /\ b.index = c.index => b = c

\* The paths of n linked blocks, the block a path ends with.
Linked(c, n) == \A i \in 1..n : c[i].index = i /\ c[i].prev = IF i = 1 THEN 0 ELSE c[i - 1].id
Paths(K, n) == {c \in [1..n -> K] : Linked(c, n)}
EndId(c, n) == IF n = 0 THEN 0 ELSE c[n].id

\* A block is valid on the chain it was signed on, or is one of the blocks ref
\* that settle a period again.
Due(l, b, ref) == Valid(l, b) \/ (b \in ref /\ SettlesAgain(l, b))
Issued(K, ref) ==
    \A b \in K : \A c \in Paths(K, b.index - 1) :
        EndId(c, b.index - 1) = b.prev => Due(Derived(c), b, ref)

\* What the settlement trigger reads is what the rule of payment reads, or nothing.
ShownRight(l, p) == l.lastPeriod <= p /\ (l.shown # Never => l.shown = l.lastPeriod /\ l.registered)

Follows(l, p) == Linked(l.chain, Len(l.chain)) /\ ShownRight(l, p)

BlocksInOrder ==
    /\ Dated(Everything, signed, period) /\ UniqueIds(Everything) /\ Issued(Everything, refused)
    /\ \A n \in Nodes : Follows(ledger[n], period)

OnlyWriter(d) == writers \subseteq {d} /\ dropped = {} /\ refused = {}
Undivided(d) ==
    /\ saved[d] \cup unsaved[d] = gossiped
    /\ Forkless(Everything)
    /\ \A b \in gossiped : ~Extends(b, ledger[d])
    /\ \A n \in Nodes : ~ledger[n].frozen /\ (n # d => Range(ledger[n].chain) \subseteq gossiped)

AccountUndivided == \A d \in Devices : OnlyWriter(d) => Undivided(d)

(***************************************************************************)
(* Paths of linked blocks.                                                 *)
(***************************************************************************)
LEMMA PathIs ==
    ASSUME NEW K \in SUBSET Block, NEW n \in Nat, NEW c \in Paths(K, n)
    PROVE  /\ c \in Seq(Block) /\ Len(c) = n
           /\ \A i \in 1..n : /\ c[i] \in K /\ c[i] \in Block /\ c[i].index = i
                              /\ c[i].id \in Nat /\ c[i].prev \in Nat
                              /\ c[i].prev = IF i = 1 THEN 0 ELSE c[i - 1].id
           /\ EndId(c, n) \in Nat
  <1>1. /\ c \in [1..n -> K]
        /\ \A i \in 1..n : c[i].index = i /\ c[i].prev = IF i = 1 THEN 0 ELSE c[i - 1].id
    BY DEF Paths, Linked
  <1>2. c \in [1..n -> Block]
    BY <1>1
  <1>3. c \in Seq(Block) /\ Len(c) = n
    BY <1>2
  <1>4. \A i \in 1..n : c[i] \in K /\ c[i] \in Block /\ c[i].id \in Nat /\ c[i].prev \in Nat
    <2> TAKE i \in 1..n
    <2>1. c[i] \in K /\ c[i] \in Block
      BY <1>1
    <2> QED BY <2>1 DEF Block
  <1>5. EndId(c, n) \in Nat
    BY <1>4 DEF EndId
  <1> QED BY <1>1, <1>3, <1>4, <1>5

LEMMA PathsGrow ==
    ASSUME NEW K, NEW M, K \subseteq M, NEW n
    PROVE  Paths(K, n) \subseteq Paths(M, n)
  BY DEF Paths

LEMMA HeadIsEnd ==
    ASSUME NEW l \in Ledgers
    PROVE  HeadId(l) = EndId(l.chain, Len(l.chain)) /\ Len(l.chain) \in Nat /\ l.chain \in Seq(Block)
  <1>1. l.chain \in Seq(Block)
    BY DEF Ledgers
  <1>2. l.chain = <<>> <=> Len(l.chain) = 0
    BY <1>1
  <1> QED BY <1>1, <1>2 DEF HeadId, EndId

\* A linked chain of known blocks is a path.
LEMMA ChainIsPath ==
    ASSUME NEW l \in Ledgers, NEW K, Range(l.chain) \subseteq K, Linked(l.chain, Len(l.chain))
    PROVE  l.chain \in Paths(K, Len(l.chain))
  <1> DEFINE c == l.chain
             n == Len(c)
  <1>1. n \in Nat /\ c \in Seq(Block) /\ DOMAIN c = 1..n
    BY HeadIsEnd
  <1>2. \A i \in 1..n : c[i] \in Range(c)
    BY <1>1 DEF Range
  <1>3. c \in [1..n -> K]
    BY <1>1, <1>2
  <1>4. Linked(c, n)
    OBVIOUS
  <1> HIDE DEF c, n
  <1>5. c \in Paths(K, n)
    BY <1>3, <1>4 DEF Paths
  <1> QED BY <1>5 DEF c, n

\* Along a path the blocks were signed one after the other.
LEMMA PathRises ==
    ASSUME NEW K \in SUBSET Block, \A b \in K : b.prev < b.id, NEW n \in Nat, NEW c \in Paths(K, n)
    PROVE  \A i \in 1..n : c[i].id <= EndId(c, n)
  <1> DEFINE N == {j \in Nat : j < n => c[n - j].id <= c[n].id}
  <1>1. \A i \in 1..n : /\ c[i].id \in Nat /\ c[i].prev \in Nat /\ c[i].prev < c[i].id
                        /\ (i # 1 => c[i].prev = c[i - 1].id)
    BY PathIs
  <1>2. 0 \in N
    <2>1. n > 0 => n \in 1..n /\ n - 0 = n
      OBVIOUS
    <2>2. n > 0 => c[n].id \in Nat
      BY <1>1, <2>1
    <2> QED BY <2>1, <2>2
  <1>3. ASSUME NEW j \in N PROVE j + 1 \in N
    <2>1. j \in Nat /\ (j < n => c[n - j].id <= c[n].id)
      OBVIOUS
    <2>2. ASSUME j + 1 < n PROVE c[n - (j + 1)].id <= c[n].id
      <3>1. /\ j < n /\ n - j \in 1..n /\ n - j # 1 /\ (n - j) - 1 = n - (j + 1)
            /\ n - (j + 1) \in 1..n /\ n \in 1..n
        BY <2>1, <2>2
      <3>2. c[n - j].prev = c[n - (j + 1)].id /\ c[n - j].prev < c[n - j].id
        BY <1>1, <3>1
      <3>3. c[n - j].id \in Nat /\ c[n - (j + 1)].id \in Nat /\ c[n].id \in Nat
        BY <1>1, <3>1
      <3> QED BY <2>1, <3>1, <3>2, <3>3
    <2> QED BY <2>1, <2>2
  <1>4. N \in SUBSET Nat
    OBVIOUS
  <1> HIDE DEF N
  <1>5. N = Nat
    BY <1>2, <1>3, <1>4, NatSetInduction
  <1>6. ASSUME NEW i \in 1..n PROVE c[i].id <= EndId(c, n)
    <2>1. n - i \in Nat /\ n - i < n /\ n - (n - i) = i /\ n # 0
      OBVIOUS
    <2>2. c[n - (n - i)].id <= c[n].id
      <3> DEFINE j == n - i
      <3>1. j \in N
        BY <1>5, <2>1
      <3> HIDE DEF j
      <3>2. j < n => c[n - j].id <= c[n].id
        BY <3>1 DEF N
      <3> QED BY <2>1, <3>2 DEF j
    <2> QED BY <2>1, <2>2 DEF EndId
  <1> QED BY <1>6

\* A path that ends before a block was signed does not lead over it.
LEMMA PathBefore ==
    ASSUME NEW K \in SUBSET Block, NEW x \in Block, \A b \in K \cup {x} : b.prev < b.id,
           NEW n \in Nat, NEW c \in Paths(K \cup {x}, n), EndId(c, n) < x.id
    PROVE  c \in Paths(K, n)
  <1> DEFINE M == K \cup {x}
  <1>1. M \in SUBSET Block
    OBVIOUS
  <1>2. \A i \in 1..n : c[i].id <= EndId(c, n) /\ c[i].id \in Nat /\ EndId(c, n) \in Nat /\ c[i] \in M
    <2> HIDE DEF M
    <2>1. c \in Paths(M, n) /\ \A b \in M : b.prev < b.id
      BY DEF M
    <2> QED BY <1>1, <2>1, PathRises, PathIs
  <1>3. \A i \in 1..n : c[i] \in K
    <2> TAKE i \in 1..n
    <2>1. x.id \in Nat
      BY DEF Block
    <2>2. c[i].id # x.id
      BY <1>2, <2>1
    <2> QED BY <1>2, <2>2
  <1>4. c \in [1..n -> M]
    BY DEF Paths
  <1>5. c \in [1..n -> K]
    BY <1>3, <1>4
  <1> QED BY <1>5 DEF Paths

\* Two paths of one length that end with one block are one path.
LEMMA OnePath ==
    ASSUME NEW K \in SUBSET Block, UniqueIds(K), NEW n \in Nat,
           NEW c \in Paths(K, n), NEW e \in Paths(K, n), EndId(c, n) = EndId(e, n)
    PROVE  c = e
  <1> DEFINE N == {j \in Nat : j < n => c[n - j] = e[n - j]}
  <1>1. \A i \in 1..n : /\ c[i] \in K /\ e[i] \in K
                        /\ (i # 1 => c[i].prev = c[i - 1].id /\ e[i].prev = e[i - 1].id)
    BY PathIs
  <1>2. \A a, b \in K : a.id = b.id => a = b
    BY DEF UniqueIds
  <1>3. 0 \in N
    <2>1. ASSUME n > 0 PROVE c[n] = e[n]
      <3>1. n \in 1..n /\ n # 0
        BY <2>1
      <3>2. c[n].id = e[n].id
        BY <3>1 DEF EndId
      <3> QED BY <1>1, <1>2, <3>1, <3>2
    <2>2. n - 0 = n
      OBVIOUS
    <2> QED BY <2>1, <2>2
  <1>4. ASSUME NEW j \in N PROVE j + 1 \in N
    <2>1. j \in Nat /\ (j < n => c[n - j] = e[n - j])
      OBVIOUS
    <2>2. ASSUME j + 1 < n PROVE c[n - (j + 1)] = e[n - (j + 1)]
      <3>1. /\ j < n /\ n - j \in 1..n /\ n - j # 1 /\ (n - j) - 1 = n - (j + 1)
            /\ n - (j + 1) \in 1..n
        BY <2>1, <2>2
      <3>2. c[n - (j + 1)].id = e[n - (j + 1)].id
        BY <1>1, <2>1, <3>1
      <3> QED BY <1>1, <1>2, <3>1, <3>2
    <2> QED BY <2>1, <2>2
  <1>5. N \in SUBSET Nat
    OBVIOUS
  <1> HIDE DEF N
  <1>6. N = Nat
    BY <1>3, <1>4, <1>5, NatSetInduction
  <1>7. \A i \in 1..n : c[i] = e[i]
    <2> TAKE i \in 1..n
    <2> DEFINE j == n - i
    <2>1. j \in Nat /\ j < n /\ n - j = i
      OBVIOUS
    <2> HIDE DEF j
    <2>2. j \in N
      BY <1>6, <2>1
    <2>3. j < n => c[n - j] = e[n - j]
      BY <2>2 DEF N
    <2> QED BY <2>1, <2>3
  <1>8. c \in [1..n -> K] /\ e \in [1..n -> K]
    BY DEF Paths
  <1> QED BY <1>7, <1>8

LEMMA RangeAppend ==
    ASSUME NEW S, NEW c \in Seq(S), NEW x
    PROVE  Range(Append(c, x)) = Range(c) \cup {x}
  <1> DEFINE n == Len(c)
             e == Append(c, x)
  <1>1. n \in Nat /\ DOMAIN c = 1..n /\ DOMAIN e = 1..(n + 1) /\ e[n + 1] = x /\ \A i \in 1..n : e[i] = c[i]
    OBVIOUS
  <1>2. \A i : i \in 1..(n + 1) <=> i \in 1..n \/ i = n + 1
    BY <1>1
  <1> HIDE DEF n, e
  <1>3. Range(e) = Range(c) \cup {x}
    BY <1>1, <1>2 DEF Range
  <1> QED BY <1>3 DEF e

(***************************************************************************)
(* What addBlock and apply make of a ledger.                               *)
(***************************************************************************)
LEMMA DerivedIsIt ==
    ASSUME NEW a, NEW l, SoundLedger(l, a), NEW b \in Block
    PROVE  /\ Valid(Derived(l.chain), b) <=> Valid(l, b)
           /\ SettlesAgain(Derived(l.chain), b) <=> SettlesAgain(l, b)
  <1> DEFINE u == [l EXCEPT !.frozen = FALSE]
  <1>1. l \in Ledgers /\ Derived(l.chain) = u
    BY DEF SoundLedger
  <1>2. /\ u.registered = l.registered /\ u.lastPeriod = l.lastPeriod
        /\ u.shown = l.shown /\ u.baseline = l.baseline
    BY <1>1 DEF Ledgers
  <1> HIDE DEF u
  <1>3. SettlementCredit(u, b.receipts) = SettlementCredit(l, b.receipts)
    BY <1>2 DEF SettlementCredit
  <1>4. Valid(u, b) <=> Valid(l, b)
    BY <1>2, <1>3 DEF Valid
  <1>5. SettlesAgain(u, b) <=> SettlesAgain(l, b)
    BY <1>2 DEF SettlesAgain
  <1> QED BY <1>1, <1>4, <1>5

\* A block of a set of issued blocks is due on any sound ledger that it extends.
LEMMA IssuedIsDue ==
    ASSUME NEW a, NEW l, SoundLedger(l, a), NEW K \in SUBSET Block, NEW ref, Issued(K, ref),
           Range(l.chain) \subseteq K, Linked(l.chain, Len(l.chain)), NEW b \in K, Extends(b, l)
    PROVE  Due(l, b, ref)
  <1> DEFINE c == l.chain
             n == Len(c)
  <1>1. l \in Ledgers /\ c \in Paths(K, n) /\ n \in Nat
    BY HeadIsEnd, ChainIsPath DEF SoundLedger
  <1>2. b.index - 1 = n /\ EndId(c, n) = b.prev
    BY <1>1, HeadIsEnd DEF Extends
  <1> HIDE DEF c, n
  <1>3. Due(Derived(c), b, ref)
    BY <1>1, <1>2 DEF Issued
  <1> QED BY <1>3, DerivedIsIt DEF Due, c

LEMMA ApplyFollows ==
    ASSUME NEW l \in Ledgers, NEW p \in Nat, Follows(l, p), NEW b \in Block, b.period <= p, Extends(b, l)
    PROVE  /\ Follows(Apply(l, b), p) /\ Apply(l, b).frozen = l.frozen
           /\ Range(Apply(l, b).chain) = Range(l.chain) \cup {b}
           /\ Len(Apply(l, b).chain) = Len(l.chain) + 1 /\ HeadId(Apply(l, b)) = b.id
  <1> DEFINE k == Apply(l, b)
             c == l.chain
             n == Len(c)
             e == Append(c, b)
  <1>1. k = Applied(l, b)
    BY ApplyIs
  <1>2. k.chain = e /\ k.frozen = l.frozen
    BY <1>1 DEF Applied
  <1>3. n \in Nat /\ c \in Seq(Block) /\ b.index = n + 1 /\ b.prev = EndId(c, n)
    BY HeadIsEnd DEF Extends
  <1>4. /\ e \in Seq(Block) /\ Len(e) = n + 1 /\ e[n + 1] = b /\ e # <<>>
        /\ \A i \in 1..n : e[i] = c[i]
    BY <1>3
  <1>5. Range(e) = Range(c) \cup {b}
    BY <1>3, RangeAppend
  <1>6. \A i \in 1..n : c[i].index = i /\ c[i].prev = IF i = 1 THEN 0 ELSE c[i - 1].id
    BY DEF Follows, Linked
  <1>7. k.lastPeriod \in Nat \cup {Never} /\ ShownRight(k, p)
    <2>1. /\ l.lastPeriod \in Nat \cup {Never} /\ l.shown \in Nat \cup {Never} /\ l.registered \in BOOLEAN
          /\ b.period \in Nat /\ b.kind \in {"register", "deregister", "settle"}
      BY DEF Ledgers, Block
    <2>2. /\ k.lastPeriod = IF Settles(b) THEN b.period ELSE l.lastPeriod
          /\ k.registered = IF Settles(b) THEN l.registered ELSE b.kind = "register"
          /\ k.shown = IF Settles(b) THEN (IF l.registered THEN b.period ELSE l.shown) ELSE Never
      BY <1>1 DEF Applied
    <2>3. ShownRight(l, p)
      BY DEF Follows
    <2> HIDE DEF k
    <2>4. k.lastPeriod \in Nat \cup {Never} /\ k.lastPeriod <= p
      BY <2>1, <2>2, <2>3 DEF ShownRight
    <2>5. ASSUME k.shown # Never PROVE k.shown = k.lastPeriod /\ k.registered
      <3>1. Settles(b)
        BY <2>2, <2>5
      <3>2. l.registered
        BY <2>2, <2>3, <2>5, <3>1 DEF ShownRight
      <3> QED BY <2>2, <3>1, <3>2
    <2> QED BY <2>4, <2>5 DEF ShownRight
  <1> HIDE DEF k, e, c, n
  <1>8. ASSUME NEW i \in 1..(n + 1)
        PROVE  e[i].index = i /\ e[i].prev = IF i = 1 THEN 0 ELSE e[i - 1].id
    <2>1. CASE i = n + 1
      <3>1. (i = 1 <=> n = 0) /\ (n # 0 => n \in 1..n /\ i - 1 = n)
        BY <1>3, <2>1
      <3>2. b.prev = IF i = 1 THEN 0 ELSE e[i - 1].id
        BY <1>3, <1>4, <3>1 DEF EndId
      <3> QED BY <1>3, <1>4, <2>1, <3>2
    <2>2. CASE i # n + 1
      <3>1. i \in 1..n /\ (i # 1 => i - 1 \in 1..n)
        BY <1>3, <2>2
      <3> QED BY <1>4, <1>6, <3>1
    <2> QED BY <2>1, <2>2
  <1>9. Linked(k.chain, Len(k.chain))
    BY <1>2, <1>4, <1>8 DEF Linked
  <1>10. HeadId(k) = b.id
    BY <1>2, <1>4 DEF HeadId
  <1>11. Follows(k, p)
    BY <1>7, <1>9 DEF Follows
  <1> QED BY <1>2, <1>4, <1>5, <1>10, <1>11 DEF k, c, n

\* What addBlock makes of a block: it applies it, or the chain stays, and so
\* does the ledger if no block of the chain is a sibling of this one.
AppliesOrNot(l, b, k) ==
    \/ /\ k = Apply(l, b) /\ Extends(b, l) /\ Valid(l, b) /\ ~l.frozen
    \/ /\ k.chain = l.chain /\ k.lastPeriod = l.lastPeriod /\ k.shown = l.shown
       /\ k.registered = l.registered
       /\ ~(~l.frozen /\ Extends(b, l) /\ Valid(l, b))

LEMMA BlockAdded ==
    ASSUME NEW l \in Ledgers, NEW p \in Nat, Follows(l, p), NEW b \in Block, 1 <= b.index
    PROVE  /\ AppliesOrNot(l, b, AddBlock(l, b))
           /\ \A K : /\ Forkless(K) /\ Range(l.chain) \subseteq K /\ b \in K /\ ~l.frozen
                    => AddBlock(l, b) = l \/ (AddBlock(l, b) = Apply(l, b) /\ Extends(b, l))
  <1>1. /\ Len(l.chain) \in Nat /\ b.index \in Nat /\ l.chain \in Seq(Block)
        /\ DOMAIN l.chain = 1..Len(l.chain) /\ l.frozen \in BOOLEAN
    BY HeadIsEnd DEF Block, Ledgers
  <1>2. CASE l.frozen
    <2>1. AddBlock(l, b) = l
      BY <1>2 DEF AddBlock
    <2> QED BY <1>2, <2>1 DEF AppliesOrNot
  <1>3. CASE ~l.frozen /\ b.index <= Len(l.chain)
    <2> DEFINE c == l.chain[b.index]
               x == c.id # b.id /\ c.prev = b.prev
    <2>1. AddBlock(l, b) = [l EXCEPT !.frozen = x]
      BY <1>1, <1>3 DEF AddBlock
    <2>2. ~Extends(b, l)
      BY <1>1, <1>3 DEF Extends
    <2>3. b.index \in 1..Len(l.chain)
      BY <1>1, <1>3
    <2>4. c.index = b.index /\ c \in Range(l.chain)
      BY <1>1, <2>3 DEF Follows, Linked, Range
    <2>5. AppliesOrNot(l, b, AddBlock(l, b))
      <3> HIDE DEF x
      <3>1. /\ [l EXCEPT !.frozen = x].chain = l.chain /\ [l EXCEPT !.frozen = x].lastPeriod = l.lastPeriod
            /\ [l EXCEPT !.frozen = x].shown = l.shown /\ [l EXCEPT !.frozen = x].registered = l.registered
        BY DEF Ledgers
      <3> QED BY <2>1, <2>2, <3>1 DEF AppliesOrNot
    <2>6. ASSUME NEW K, Forkless(K), Range(l.chain) \subseteq K, b \in K
          PROVE  AddBlock(l, b) = l
      <3>1. x = FALSE
        <4>1. c \in K
          BY <2>4, <2>6
        <4>2. c.prev = b.prev => c = b
          BY <2>4, <2>6, <4>1 DEF Forkless
        <4> QED BY <4>2
      <3>2. l.frozen = FALSE
        BY <1>1, <1>3
      <3> HIDE DEF x
      <3> QED BY <2>1, <3>1, <3>2 DEF Ledgers
    <2> QED BY <2>5, <2>6
  <1>4. CASE ~l.frozen /\ b.index > Len(l.chain) /\ Extends(b, l) /\ Valid(l, b)
    <2>1. AddBlock(l, b) = Apply(l, b)
      BY <1>1, <1>4 DEF AddBlock, Extends
    <2> QED BY <1>4, <2>1 DEF AppliesOrNot
  <1>5. CASE ~l.frozen /\ b.index > Len(l.chain) /\ ~(Extends(b, l) /\ Valid(l, b))
    <2>1. AddBlock(l, b) = l
      BY <1>1, <1>5 DEF AddBlock, Extends
    <2> QED BY <1>5, <2>1 DEF AppliesOrNot
  <1> QED BY <1>1, <1>2, <1>3, <1>4, <1>5

\* The same, for the ledger of a node that hears a block of K.
LEMMA AddedFollows ==
    ASSUME NEW l \in Ledgers, NEW p \in Nat, Follows(l, p), NEW b \in Block, 1 <= b.index, b.period <= p
    PROVE  Follows(AddBlock(l, b), p) /\ Range(AddBlock(l, b).chain) \subseteq Range(l.chain) \cup {b}
  <1> DEFINE k == AddBlock(l, b)
  <1>1. AppliesOrNot(l, b, k)
    BY BlockAdded
  <1>2. CASE k = Apply(l, b) /\ Extends(b, l)
    BY <1>2, ApplyFollows
  <1>3. CASE k.chain = l.chain /\ k.lastPeriod = l.lastPeriod /\ k.shown = l.shown /\ k.registered = l.registered
    <2> HIDE DEF k
    <2>1. Follows(k, p)
      BY <1>3 DEF Follows, ShownRight
    <2> QED BY <1>3, <2>1 DEF k
  <1> QED BY <1>1, <1>2, <1>3 DEF AppliesOrNot

(***************************************************************************)
(* A reload.  The saved blocks come in the order of their heights, so when *)
(* a block is applied none of those before it could have come later: if    *)
(* all are due and none has a sibling, the replay goes on to the end.      *)
(***************************************************************************)
Reaches(l, s, i, K) ==
    Forkless(K) => /\ ~l.frozen
                   /\ Issued(K, {}) => \A j \in 1..i : ~Extends(s[j], l)

FoundUpTo(l, s, i, K, p, a) ==
    SoundLedger(l, a) /\ Follows(l, p) /\ Range(l.chain) \subseteq K /\ Reaches(l, s, i, K)

LEMMA EmptyFollows ==
    ASSUME NEW p \in Nat
    PROVE  Follows(EmptyLedger, p) /\ Range(EmptyLedger.chain) = {} /\ ~EmptyLedger.frozen
  <1>1. /\ EmptyLedger.chain = <<>> /\ ~EmptyLedger.frozen
        /\ EmptyLedger.shown = Never /\ EmptyLedger.lastPeriod = Never
    BY DEF EmptyLedger
  <1>2. Len(<<>>) = 0 /\ DOMAIN <<>> = {} /\ 1..0 = {} /\ Never <= p
    BY DEF Never
  <1>3. Linked(<<>>, 0)
    BY <1>2 DEF Linked
  <1>4. Range(<<>>) = {}
    BY <1>2 DEF Range
  <1> QED BY <1>1, <1>2, <1>3, <1>4 DEF Follows, ShownRight

LEMMA ReplayFinds ==
    ASSUME NEW a \in [Readers -> Nat], NEW d, NEW K \in SUBSET Block, IsFiniteSet(K),
           NEW s \in ReplayOrders(K), \A b \in K : AttestedIn(b, a),
           NEW p \in Nat, \A b \in K : 1 <= b.index /\ b.period <= p
    PROVE  /\ SoundLedger(Replayed(d, s), a) /\ Follows(Replayed(d, s), p)
           /\ Range(Replayed(d, s).chain) \subseteq K
           /\ Forkless(K) => /\ ~Replayed(d, s).frozen
                             /\ Issued(K, {}) => \A b \in K : ~Extends(b, Replayed(d, s))
  <1> DEFINE k == Cardinality(K)
             f == CHOOSE h : Offered(h, s, k)
  <1>1. /\ k \in Nat /\ s \in [1..k -> K]
        /\ \A i, j \in 1..k : i < j => s[i] # s[j] /\ s[i].index <= s[j].index
    <2>1. k \in Nat
      BY FS_CardinalityType
    <2>2. s \in [1..k -> K] /\ \A i, j \in DOMAIN s : i < j => s[i] # s[j] /\ s[i].index <= s[j].index
      BY DEF ReplayOrders
    <2>3. DOMAIN s = 1..k
      BY <2>2
    <2> HIDE DEF k
    <2> QED BY <2>1, <2>2, <2>3
  <1> HIDE DEF k
  <1>2. s \in Seq(K) /\ Len(s) = k
    BY <1>1
  <1>3. Replayed(d, s) = f[k]
    BY <1>2 DEF Replayed, Offered
  <1>4. Offered(f, s, k)
    <2>1. \E h : Offered(h, s, k)
      BY <1>1, OfferedExists
    <2> QED BY <2>1
  <1> HIDE DEF f
  <1>5. f = [i \in 0..k |-> IF i = 0 THEN EmptyLedger ELSE AddBlock(f[i - 1], s[i])]
    BY <1>4 DEF Offered
  <1> DEFINE N == {i \in Nat : i <= k => FoundUpTo(f[i], s, i, K, p, a)}
  <1>6. 0 \in N
    <2>1. f[0] = EmptyLedger
      BY <1>1, <1>5
    <2>2. 1..0 = {}
      OBVIOUS
    <2> QED BY <2>1, <2>2, EmptyIsSound, EmptyFollows DEF FoundUpTo, Reaches
  <1>7. ASSUME NEW i \in N PROVE i + 1 \in N
    <2>1. i \in Nat /\ (i <= k => FoundUpTo(f[i], s, i, K, p, a))
      OBVIOUS
    <2>2. ASSUME i + 1 <= k PROVE FoundUpTo(f[i + 1], s, i + 1, K, p, a)
      <3> DEFINE l == f[i]
                 b == s[i + 1]
                 m == f[i + 1]
      <3>1. i + 1 \in 0..k /\ i + 1 \in 1..k /\ i + 1 # 0 /\ (i + 1) - 1 = i /\ i <= k
        BY <1>1, <2>1, <2>2
      <3>2. m = AddBlock(l, b)
        BY <1>5, <3>1
      <3>3. b \in K /\ b \in Block /\ AttestedIn(b, a) /\ 1 <= b.index /\ b.period <= p
        BY <1>1, <3>1
      <3>4. FoundUpTo(l, s, i, K, p, a)
        BY <2>1, <3>1
      <3>5. \A j \in 1..(i + 1) : j = i + 1 \/ j \in 1..i
        BY <2>1
      <3>6. ASSUME NEW j \in 1..(i + 1) PROVE s[j] \in Block /\ s[j].index <= b.index
        <4>1. j \in 1..k
          BY <1>1, <2>1, <3>1
        <4>2. s[j] \in Block /\ s[j].index \in Nat
          <5>1. s[j] \in Block
            BY <1>1, <4>1
          <5> QED BY <5>1 DEF Block
        <4>3. CASE j = i + 1
          BY <4>2, <4>3
        <4>4. CASE j \in 1..i
          <5>1. j < i + 1
            BY <2>1, <4>4
          <5> QED BY <1>1, <3>1, <4>1, <4>2, <5>1
        <4> QED BY <3>5, <4>3, <4>4
      <3> HIDE DEF l, b, m
      <3>7. /\ l \in Ledgers /\ SoundLedger(l, a) /\ Follows(l, p) /\ Range(l.chain) \subseteq K
            /\ Reaches(l, s, i, K)
        BY <3>4 DEF FoundUpTo, SoundLedger
      <3>8. SoundLedger(m, a)
        BY <3>2, <3>3, <3>7, AddBlockIsSound
      <3>9. Follows(m, p) /\ Range(m.chain) \subseteq K
        BY <3>2, <3>3, <3>7, AddedFollows
      <3>10. ASSUME Forkless(K)
             PROVE  ~m.frozen /\ (Issued(K, {}) => \A j \in 1..(i + 1) : ~Extends(s[j], m))
        <4>1. ~l.frozen /\ (m = l \/ (m = Apply(l, b) /\ Extends(b, l)))
          BY <3>2, <3>3, <3>7, <3>10, BlockAdded DEF Reaches
        <4>2. CASE m = Apply(l, b) /\ Extends(b, l)
          <5>1. Len(m.chain) = Len(l.chain) + 1 /\ m.frozen = l.frozen
            BY <3>3, <3>7, <4>2, ApplyFollows
          <5>2. Len(l.chain) \in Nat /\ b.index = Len(l.chain) + 1
            BY <3>7, <4>2, HeadIsEnd DEF Extends
          <5>3. \A j \in 1..(i + 1) : ~Extends(s[j], m)
            <6> TAKE j \in 1..(i + 1)
            <6>1. s[j].index \in Nat /\ s[j].index <= b.index
              BY <3>6 DEF Block
            <6> QED BY <5>1, <5>2, <6>1 DEF Extends
          <5> QED BY <4>1, <5>1, <5>3
        <4>3. CASE m = l /\ ~(m = Apply(l, b) /\ Extends(b, l))
          <5>1. ASSUME Issued(K, {}), Extends(b, l) PROVE FALSE
            <6>1. Due(l, b, {})
              BY <3>3, <3>7, <5>1, IssuedIsDue DEF Follows
            <6>2. Valid(l, b)
              BY <6>1 DEF Due
            <6>3. AppliesOrNot(l, b, m)
              BY <3>2, <3>3, <3>7, BlockAdded
            <6> QED BY <4>1, <4>3, <5>1, <6>2, <6>3 DEF AppliesOrNot
          <5>2. ASSUME Issued(K, {}), NEW j \in 1..(i + 1) PROVE ~Extends(s[j], m)
            <6>1. CASE j = i + 1
              BY <4>3, <5>1, <5>2, <6>1 DEF b
            <6>2. CASE j \in 1..i
              BY <3>7, <3>10, <4>3, <5>2, <6>2 DEF Reaches
            <6> QED BY <3>5, <6>1, <6>2
          <5> QED BY <4>1, <4>3, <5>2
        <4> QED BY <4>1, <4>2, <4>3
      <3> QED BY <3>8, <3>9, <3>10 DEF FoundUpTo, Reaches, m
    <2> QED BY <2>1, <2>2
  <1>8. N \in SUBSET Nat
    OBVIOUS
  <1> HIDE DEF N
  <1>9. N = Nat
    BY <1>6, <1>7, <1>8, NatSetInduction
  <1>10. FoundUpTo(f[k], s, k, K, p, a)
    BY <1>1, <1>9 DEF N
  <1>11. \A b \in K : \E j \in 1..k : b = s[j]
    <2>1. s \in Injection(1..k, K)
      <3>1. \A i, j \in 1..k : s[i] = s[j] => i = j
        <4> SUFFICES ASSUME NEW i \in 1..k, NEW j \in 1..k, s[i] = s[j] PROVE i = j
          OBVIOUS
        <4>1. i \in Nat /\ j \in Nat /\ ~(i < j) /\ ~(j < i)
          BY <1>1
        <4> QED BY <4>1
      <3> QED BY <1>1, <3>1 DEF Injection, IsInjective
    <2>2. IsFiniteSet(1..k) /\ Cardinality(1..k) = k
      BY <1>1, FS_Interval
    <2>3. s \in Surjection(1..k, K)
      BY <2>1, <2>2, FS_Injection DEF k
    <2> QED BY <2>3 DEF Surjection
  <1>12. Forkless(K) /\ Issued(K, {}) => \A b \in K : ~Extends(b, f[k])
    BY <1>10, <1>11 DEF FoundUpTo, Reaches
  <1> QED BY <1>3, <1>10, <1>12 DEF FoundUpTo, Reaches

(***************************************************************************)
(* Sets of blocks, and dates.                                              *)
(***************************************************************************)
LEMMA FewerBlocks ==
    ASSUME NEW K, NEW M, K \subseteq M, NEW s, NEW p
    PROVE  /\ Dated(M, s, p) => Dated(K, s, p)
           /\ UniqueIds(M) => UniqueIds(K)
           /\ Forkless(M) => Forkless(K)
           /\ \A ref : Issued(M, ref) => Issued(K, ref)
  <1>1. (Dated(M, s, p) => Dated(K, s, p)) /\ (UniqueIds(M) => UniqueIds(K)) /\ (Forkless(M) => Forkless(K))
    BY DEF Dated, UniqueIds, Forkless
  <1>2. ASSUME NEW ref, Issued(M, ref) PROVE Issued(K, ref)
    <2> SUFFICES ASSUME NEW b \in K, NEW c \in Paths(K, b.index - 1), EndId(c, b.index - 1) = b.prev
                 PROVE  Due(Derived(c), b, ref)
      BY DEF Issued
    <2>1. b \in M /\ c \in Paths(M, b.index - 1)
      BY PathsGrow
    <2> QED BY <1>2, <2>1 DEF Issued
  <1> QED BY <1>1, <1>2

LEMMA LaterPeriod ==
    ASSUME NEW K, NEW s, NEW p \in Nat, NEW q \in Nat, p <= q
    PROVE  /\ Dated(K, s, p) => Dated(K, s, q)
           /\ \A l \in Ledgers : Follows(l, p) => Follows(l, q)
  <1>1. ASSUME Dated(K, s, p) PROVE Dated(K, s, q)
    <2>1. ASSUME NEW b \in K PROVE b.period <= q
      <3>1. b \in Block /\ b.period <= p
        BY <1>1 DEF Dated
      <3>2. b.period \in Nat
        BY <3>1 DEF Block
      <3> QED BY <3>1, <3>2
    <2> QED BY <1>1, <2>1 DEF Dated
  <1>2. ASSUME NEW l \in Ledgers PROVE Follows(l, p) => Follows(l, q)
    <2>1. l.lastPeriod \in Nat \cup {Never} /\ Never = -1
      BY DEF Ledgers, Never
    <2> QED BY <2>1 DEF Follows, ShownRight
  <1> QED BY <1>1, <1>2

\* What the invariants say of the nodes.
LEMMA ChainFacts ==
    ASSUME BooksAgree, BlocksInOrder
    PROVE  /\ TypeOK /\ period \in Nat /\ signed \in Nat /\ Devices \subseteq Nodes
           /\ Everything \in SUBSET Block /\ gossiped \subseteq Everything
           /\ \A n \in Nodes : /\ ledger[n] \in Ledgers /\ SoundLedger(ledger[n], attested)
                               /\ Range(ledger[n].chain) \subseteq Everything
                               /\ Follows(ledger[n], period)
                               /\ Linked(ledger[n].chain, Len(ledger[n].chain))
           /\ \A b \in Everything : b \in Block /\ 1 <= b.index /\ b.period <= period
  <1>1. TypeOK /\ Devices \subseteq Nodes /\ \A n \in Nodes : SoundLedger(ledger[n], attested)
    BY DEF BooksAgree, LedgersSound, Nodes
  <1>2. period \in Nat /\ signed \in Nat /\ \A n \in Nodes : ledger[n] \in Ledgers
    BY <1>1, TypeFacts
  <1>3. \A b \in Everything : b \in Block /\ 1 <= b.index /\ b.period <= period
    BY DEF BlocksInOrder, Dated
  <1>4. gossiped \subseteq Everything /\ \A n \in Nodes : Range(ledger[n].chain) \subseteq Everything
    BY DEF Everything
  <1> QED BY <1>1, <1>2, <1>3, <1>4 DEF BlocksInOrder, Follows

\* One ledger changes.
LEMMA EverythingMoves ==
    ASSUME NEW M, Everything \subseteq M, gossiped' \subseteq M, TypeOK, NEW n \in Nodes, NEW k,
           Range(k.chain) \subseteq M, ledger' = [ledger EXCEPT ![n] = k]
    PROVE  Everything' \subseteq M
  <1>1. \A m \in Nodes : ledger'[m] = IF m = n THEN k ELSE ledger[m]
    BY DEF TypeOK
  <1>2. \A m \in Nodes : Range(ledger'[m].chain) \subseteq M
    <2> TAKE m \in Nodes
    <2>1. Range(ledger[m].chain) \subseteq M
      BY DEF Everything
    <2> QED BY <1>1, <2>1
  <1> QED BY <1>2 DEF Everything, Nodes

(***************************************************************************)
(* The blocks stay in order.                                               *)
(***************************************************************************)
LEMMA OrderStays ==
    ASSUME BooksAgree, BlocksInOrder, NEW n \in Nodes, NEW k, ledger' = [ledger EXCEPT ![n] = k],
           Range(k.chain) \subseteq Everything, Follows(k, period), gossiped' \subseteq Everything,
           UNCHANGED <<signed, period, refused>>
    PROVE  BlocksInOrder'
  <1>1. TypeOK
    BY DEF BooksAgree
  <1>2. Everything' \subseteq Everything
    BY <1>1, EverythingMoves
  <1>3. Dated(Everything', signed, period) /\ UniqueIds(Everything') /\ Issued(Everything', refused)
    BY <1>2, FewerBlocks DEF BlocksInOrder
  <1>4. \A m \in Nodes : Follows(ledger'[m], period)
    <2> TAKE m \in Nodes
    <2>1. ledger'[m] = IF m = n THEN k ELSE ledger[m]
      BY <1>1 DEF TypeOK
    <2> QED BY <2>1 DEF BlocksInOrder
  <1> QED BY <1>3, <1>4 DEF BlocksInOrder, Nodes

LEMMA OrderWaits ==
    ASSUME BooksAgree, BlocksInOrder, UNCHANGED <<ledger, gossiped, signed, refused>>,
           period' \in Nat, period <= period'
    PROVE  BlocksInOrder' /\ Everything' = Everything
  <1>1. Everything' = Everything
    BY DEF Everything, Nodes
  <1>2. period \in Nat /\ \A n \in Nodes : ledger[n] \in Ledgers
    BY ChainFacts
  <1>3. Dated(Everything, signed, period') /\ \A n \in Nodes : Follows(ledger[n], period')
    BY <1>2, LaterPeriod DEF BlocksInOrder
  <1> QED BY <1>1, <1>3 DEF BlocksInOrder, Nodes

\* The block that device d signs.
Fresh(d, kind, claims, amount) ==
    [index |-> Len(ledger[d].chain) + 1, id |-> signed + 1, prev |-> HeadId(ledger[d]),
     kind |-> kind, period |-> period, receipts |-> claims, amount |-> amount]

FreshFor(d, x) ==
    /\ x \in Block /\ Extends(x, ledger[d]) /\ x.id = signed + 1 /\ x.period = period /\ 1 <= x.index
    /\ ledger' = [ledger EXCEPT ![d] = Apply(ledger[d], x)] /\ signed' = signed + 1
    /\ writers' = writers \cup {d}
    /\ refused' = IF Valid(ledger[d], x) THEN refused ELSE refused \cup {x}
    /\ Valid(ledger[d], x) \/ SettlesAgain(ledger[d], x)

LEMMA SignedIsFresh ==
    ASSUME BooksAgree, BlocksInOrder, NEW d \in Devices,
           NEW kind \in {"register", "deregister", "settle"}, NEW claims \in Seq(Receipt),
           NEW amount \in Nat, Sign(d, kind, claims, amount),
           LET x == Fresh(d, kind, claims, amount) IN Valid(ledger[d], x) \/ SettlesAgain(ledger[d], x)
    PROVE  FreshFor(d, Fresh(d, kind, claims, amount))
  <1> DEFINE x == Fresh(d, kind, claims, amount)
             l == ledger[d]
  <1>1. l \in Ledgers /\ period \in Nat /\ signed \in Nat
    BY ChainFacts
  <1>2. Len(l.chain) \in Nat /\ HeadId(l) \in Nat
    <2>1. l.chain \in Seq(Block) /\ Len(l.chain) \in Nat
      BY <1>1, HeadIsEnd
    <2>2. CASE l.chain = <<>>
      BY <2>1, <2>2 DEF HeadId
    <2>3. CASE l.chain # <<>>
      <3>1. l.chain[Len(l.chain)] \in Block
        BY <2>1, <2>3
      <3> QED BY <2>1, <2>3, <3>1 DEF HeadId, Block
    <2> QED BY <2>2, <2>3
  <1>3. x \in Block
    <2> HIDE DEF l
    <2> QED BY <1>1, <1>2 DEF Block, Fresh, l
  <1>4. x.index = Len(l.chain) + 1 /\ x.id = signed + 1 /\ x.prev = HeadId(l) /\ x.period = period
    BY DEF Fresh
  <1>5. /\ ledger' = [ledger EXCEPT ![d] = Apply(l, x)] /\ signed' = signed + 1
        /\ writers' = writers \cup {d} /\ refused' = IF Valid(l, x) THEN refused ELSE refused \cup {x}
    BY DEF Sign, Fresh
  <1>6. Valid(l, x) \/ SettlesAgain(l, x)
    OBVIOUS
  <1> HIDE DEF x
  <1>7. Extends(x, l) /\ 1 <= x.index
    BY <1>2, <1>4 DEF Extends
  <1>8. FreshFor(d, x)
    BY <1>3, <1>4, <1>5, <1>6, <1>7 DEF FreshFor, l
  <1> QED BY <1>8 DEF x

\* The blocks and the one that device d signs.
LEMMA FreshInOrder ==
    ASSUME BooksAgree, BlocksInOrder, NEW d \in Devices, NEW x, FreshFor(d, x)
    PROVE  LET M == Everything \cup {x}
           IN Dated(M, signed + 1, period) /\ UniqueIds(M) /\ Issued(M, refused')
  <1> DEFINE K == Everything
             M == K \cup {x}
             l == ledger[d]
             n == Len(l.chain)
  <1>1. /\ l \in Ledgers /\ SoundLedger(l, attested) /\ Range(l.chain) \subseteq K
        /\ Linked(l.chain, n) /\ K \in SUBSET Block /\ period \in Nat /\ signed \in Nat
    BY ChainFacts
  <1>2. /\ x \in Block /\ x.index = n + 1 /\ x.prev = EndId(l.chain, n) /\ n \in Nat
        /\ x.id = signed + 1 /\ x.period = period /\ 1 <= x.index /\ l.chain \in Paths(K, n)
    <2>1. l.chain \in Paths(K, n)
      BY <1>1, ChainIsPath
    <2> QED BY <1>1, <2>1, HeadIsEnd DEF FreshFor, Extends
  <1>3. ASSUME NEW b \in K
        PROVE  /\ b \in Block /\ 1 <= b.index /\ b.prev < b.id /\ b.id <= signed /\ b.period <= period
               /\ b.id \in Nat /\ b.prev \in Nat /\ b.index \in Nat
    <2>1. b \in Block /\ 1 <= b.index /\ b.prev < b.id /\ b.id <= signed /\ b.period <= period
      BY DEF BlocksInOrder, Dated
    <2> QED BY <2>1 DEF Block
  <1>4. x.prev \in Nat /\ x.prev <= signed
    <2>1. CASE n = 0
      BY <1>1, <1>2, <2>1 DEF EndId
    <2>2. CASE n # 0
      <3>1. n \in 1..n
        BY <1>2, <2>2
      <3> HIDE DEF K, n
      <3>2. l.chain[n] \in K
        BY <1>1, <1>2, <3>1, PathIs
      <3> QED BY <1>2, <1>3, <2>2, <3>2 DEF EndId
    <2> QED BY <2>1, <2>2
  <1> HIDE DEF K, n
  <1>5. Dated(M, signed + 1, period)
    <2>1. x.prev < x.id /\ x.id <= signed + 1 /\ x.period <= period
      BY <1>1, <1>2, <1>4
    <2>2. \A b \in K : b.id <= signed + 1
      BY <1>1, <1>3
    <2> QED BY <1>2, <1>3, <2>1, <2>2 DEF Dated
  <1>6. UniqueIds(M)
    <2>1. \A b \in K : b.id # x.id
      BY <1>1, <1>2, <1>3
    <2>2. UniqueIds(K)
      BY DEF BlocksInOrder, K
    <2> QED BY <2>1, <2>2 DEF UniqueIds
  <1>7. \A b \in M : b.prev < b.id
    BY <1>5 DEF Dated
  <1>8. Issued(M, refused')
    <2> SUFFICES ASSUME NEW b \in M, NEW c \in Paths(M, b.index - 1), EndId(c, b.index - 1) = b.prev
                 PROVE  Due(Derived(c), b, refused')
      BY DEF Issued
    <2>1. b.prev < x.id /\ b.index - 1 \in Nat
      <3>1. CASE b = x
        BY <1>1, <1>2, <1>4, <3>1
      <3>2. CASE b \in K
        BY <1>1, <1>2, <1>3, <3>2
      <3> QED BY <3>1, <3>2
    <2> DEFINE m == b.index - 1
    <2>2. c \in Paths(K, m)
      <3>1. c \in Paths(M, m) /\ m \in Nat /\ EndId(c, m) < x.id
        BY <2>1
      <3> HIDE DEF m
      <3> QED BY <1>1, <1>2, <1>7, <3>1, PathBefore
    <2>3. CASE b \in K
      <3>1. Due(Derived(c), b, refused)
        BY <2>2, <2>3 DEF BlocksInOrder, Issued, K
      <3>2. refused \subseteq refused'
        BY DEF FreshFor
      <3> QED BY <3>1, <3>2 DEF Due
    <2>4. CASE b = x
      <3>1. m = n /\ EndId(c, n) = EndId(l.chain, n)
        BY <1>2, <2>4
      <3>2. UniqueIds(K)
        BY DEF BlocksInOrder, K
      <3> HIDE DEF m
      <3>3. c = l.chain
        BY <1>1, <1>2, <2>2, <3>1, <3>2, OnePath
      <3>4. /\ Valid(Derived(c), x) <=> Valid(l, x)
            /\ SettlesAgain(Derived(c), x) <=> SettlesAgain(l, x)
        BY <1>1, <1>2, <3>3, DerivedIsIt
      <3>5. Due(l, x, refused')
        BY DEF FreshFor, Due
      <3> QED BY <2>4, <3>4, <3>5 DEF Due
    <2> QED BY <2>3, <2>4
  <1> QED BY <1>5, <1>6, <1>8 DEF K

LEMMA OrderGrows ==
    ASSUME BooksAgree, BlocksInOrder, NEW d \in Devices, NEW x, FreshFor(d, x),
           gossiped' \subseteq gossiped \cup {x}, period' = period
    PROVE  BlocksInOrder' /\ Everything' \subseteq Everything \cup {x}
  <1> DEFINE M == Everything \cup {x}
             k == Apply(ledger[d], x)
  <1>1. /\ TypeOK /\ d \in Nodes /\ ledger[d] \in Ledgers /\ Range(ledger[d].chain) \subseteq Everything
        /\ gossiped \subseteq Everything /\ Follows(ledger[d], period) /\ period \in Nat
    BY ChainFacts
  <1>2. Follows(k, period) /\ Range(k.chain) = Range(ledger[d].chain) \cup {x}
    <2>1. x \in Block /\ Extends(x, ledger[d]) /\ x.period <= period
      BY <1>1 DEF FreshFor
    <2> QED BY <1>1, <2>1, ApplyFollows
  <1>3. ledger' = [ledger EXCEPT ![d] = k] /\ signed' = signed + 1
    BY DEF FreshFor
  <1> HIDE DEF k
  <1>4. Everything' \subseteq M
    <2>1. Range(k.chain) \subseteq M /\ gossiped' \subseteq M /\ Everything \subseteq M
      BY <1>1, <1>2
    <2> HIDE DEF M
    <2> QED BY <1>1, <1>3, <2>1, EverythingMoves
  <1>5. Dated(M, signed + 1, period) /\ UniqueIds(M) /\ Issued(M, refused')
    BY FreshInOrder
  <1> HIDE DEF M
  <1>6. Dated(Everything', signed', period) /\ UniqueIds(Everything') /\ Issued(Everything', refused')
    BY <1>3, <1>4, <1>5, FewerBlocks
  <1>7. \A m \in Nodes : Follows(ledger'[m], period)
    <2> TAKE m \in Nodes
    <2>1. ledger'[m] = IF m = d THEN k ELSE ledger[m]
      BY <1>1, <1>3 DEF TypeOK
    <2> QED BY <1>2, <2>1 DEF BlocksInOrder
  <1> QED BY <1>4, <1>6, <1>7 DEF BlocksInOrder, Nodes, M

(***************************************************************************)
(* The account stays undivided.  K is what was known before the step; the  *)
(* step goes on to leave one writer.                                       *)
(***************************************************************************)
LEMMA UndividedFacts ==
    ASSUME BooksAgree, BlocksInOrder, NEW d \in Devices, Undivided(d)
    PROVE  /\ \A b \in Everything : ~Extends(b, ledger[d])
           /\ Everything = gossiped \cup Range(ledger[d].chain)
  <1>1. /\ Devices \subseteq Nodes /\ ledger[d] \in Ledgers
        /\ Linked(ledger[d].chain, Len(ledger[d].chain))
    BY ChainFacts
  <1>2. Everything = gossiped \cup Range(ledger[d].chain)
    BY <1>1 DEF Undivided, Everything
  <1>3. ASSUME NEW b \in Range(ledger[d].chain) PROVE ~Extends(b, ledger[d])
    <2> DEFINE c == ledger[d].chain
               n == Len(c)
    <2>1. n \in Nat /\ DOMAIN c = 1..n /\ Linked(c, n)
      BY <1>1, HeadIsEnd
    <2>2. PICK i \in 1..n : b = c[i]
      BY <2>1 DEF Range
    <2>3. b.index = i
      BY <2>1, <2>2 DEF Linked
    <2> QED BY <2>1, <2>3 DEF Extends
  <1>4. \A b \in gossiped : ~Extends(b, ledger[d])
    BY DEF Undivided
  <1> QED BY <1>2, <1>3, <1>4

LEMMA UndividedWaits ==
    ASSUME NEW d \in Devices, Undivided(d), Everything' = Everything,
           UNCHANGED <<ledger, gossiped>>, saved'[d] \cup unsaved'[d] = saved[d] \cup unsaved[d]
    PROVE  Undivided(d)'
  BY DEF Undivided, Nodes

LEMMA UndividedSigned ==
    ASSUME BooksAgree, BlocksInOrder, NEW d \in Devices, Undivided(d), NEW x, FreshFor(d, x),
           Everything' \subseteq Everything \cup {x},
           \/ gossiped' = gossiped /\ unsaved' = unsaved
           \/ gossiped' = gossiped \cup {x} /\ unsaved' = [unsaved EXCEPT ![d] = @ \cup {x}],
           UNCHANGED saved
    PROVE  Undivided(d)'
  <1> DEFINE M == Everything \cup {x}
             l == ledger[d]
             k == Apply(l, x)
  <1>1. /\ TypeOK /\ d \in Nodes /\ l \in Ledgers /\ Follows(l, period) /\ period \in Nat /\ signed \in Nat
        /\ gossiped \subseteq Everything
    BY ChainFacts
  <1>2. /\ x \in Block /\ Extends(x, l) /\ x.id = signed + 1 /\ x.period <= period
        /\ ledger' = [ledger EXCEPT ![d] = k]
    BY <1>1 DEF FreshFor
  <1>3. k.frozen = l.frozen /\ HeadId(k) = signed + 1
    BY <1>1, <1>2, ApplyFollows
  <1>4. \A n \in Nodes : ledger'[n] = IF n = d THEN k ELSE ledger[n]
    BY <1>1, <1>2 DEF TypeOK
  <1>5. \A b \in Everything : ~Extends(b, l)
    BY UndividedFacts
  <1>6. Forkless(M)
    <2>1. \A b \in Everything : ~(b.index = x.index /\ b.prev = x.prev)
      BY <1>2, <1>5 DEF Extends
    <2>2. Forkless(Everything)
      BY DEF Undivided
    <2> QED BY <2>1, <2>2 DEF Forkless
  <1>7. Forkless(Everything')
    <2> HIDE DEF M
    <2>1. Everything' \subseteq M
      BY DEF M
    <2> QED BY <1>6, <2>1, FewerBlocks
  <1>8. Dated(M, signed + 1, period)
    BY FreshInOrder
  <1>9. \A b \in gossiped' : ~Extends(b, k)
    <2> TAKE b \in gossiped'
    <2>1. b \in M
      BY <1>1
    <2>2. b \in Block /\ b.prev < b.id /\ b.id <= signed + 1
      BY <1>8, <2>1 DEF Dated
    <2>3. b.prev \in Nat /\ b.id \in Nat
      BY <2>2 DEF Block
    <2>4. b.prev # signed + 1
      BY <1>1, <2>2, <2>3
    <2> QED BY <1>3, <2>4 DEF Extends
  <1>10. saved'[d] \cup unsaved'[d] = gossiped'
    BY <1>1 DEF Undivided, TypeOK
  <1> HIDE DEF k, l, M
  <1>11. \A n \in Nodes : ~ledger'[n].frozen /\ (n # d => Range(ledger'[n].chain) \subseteq gossiped')
    BY <1>3, <1>4 DEF Undivided, l
  <1>12. ledger'[d] = k
    BY <1>1, <1>4
  <1> QED BY <1>7, <1>9, <1>10, <1>11, <1>12 DEF Undivided, Nodes

\* Only the writer's own blocks are new to anybody when it publishes.
LEMMA UndividedPublished ==
    ASSUME BooksAgree, BlocksInOrder, NEW d \in Devices, Undivided(d),
           NEW e \in Devices, PublishLocalData(e)
    PROVE  Undivided(d)'
  <1> DEFINE out == Range(ledger[e].chain)
  <1>1. /\ gossiped' = gossiped \cup out
        /\ unsaved' = [unsaved EXCEPT ![e] = @ \cup (out \ saved[e])]
        /\ UNCHANGED <<ledger, saved>>
    BY DEF PublishLocalData
  <1>2. /\ TypeOK /\ d \in Nodes /\ e \in Nodes /\ \A b \in Everything : ~Extends(b, ledger[d])
        /\ gossiped \subseteq Everything /\ out \subseteq Everything
    BY ChainFacts, UndividedFacts
  <1>3. Everything' = Everything
    <2>1. gossiped' \cup UNION {Range(ledger[n].chain) : n \in Nodes} = Everything
      BY <1>1, <1>2 DEF Everything
    <2> QED BY <1>1, <2>1 DEF Everything, Nodes
  <1> HIDE DEF out
  <1>4. saved'[d] \cup unsaved'[d] = gossiped'
    <2>1. CASE e = d
      <3>1. unsaved'[d] = unsaved[d] \cup (out \ saved[d])
        BY <1>1, <1>2, <2>1 DEF TypeOK
      <3>2. saved[d] \cup unsaved[d] = gossiped
        BY DEF Undivided
      <3> QED BY <1>1, <3>1, <3>2
    <2>2. CASE e # d
      <3>1. unsaved'[d] = unsaved[d]
        BY <1>1, <1>2, <2>2 DEF TypeOK
      <3>2. out \subseteq gossiped
        BY <1>2, <2>2 DEF Undivided, out
      <3> QED BY <1>1, <3>1, <3>2 DEF Undivided
    <2> QED BY <2>1, <2>2
  <1>5. \A b \in gossiped' : ~Extends(b, ledger[d])
    BY <1>1, <1>2
  <1> QED BY <1>1, <1>3, <1>4, <1>5 DEF Undivided, Nodes

\* The ledger that a device finds again after a reload.
FoundAgain(d, l) ==
    /\ SoundLedger(l, attested) /\ Follows(l, period) /\ Range(l.chain) \subseteq saved[d]
    /\ Forkless(saved[d]) => /\ ~l.frozen
                             /\ Issued(saved[d], {}) => \A b \in saved[d] : ~Extends(b, l)

LEMMA ReloadFinds ==
    ASSUME BooksAgree, BlocksInOrder, NEW d \in Devices, ProviderReload(d)
    PROVE  \E l : ledger' = [ledger EXCEPT ![d] = l] /\ FoundAgain(d, l)
  <1>1. PICK s \in ReplayOrders(saved[d]) : ledger' = [ledger EXCEPT ![d] = Replayed(d, s)]
    BY DEF ProviderReload
  <1>2. /\ TypeOK /\ period \in Nat /\ gossiped \subseteq Everything
        /\ \A b \in Everything : b \in Block /\ 1 <= b.index /\ b.period <= period
    BY ChainFacts
  <1>3. /\ attested \in [Readers -> Nat] /\ IsFiniteSet(gossiped) /\ saved[d] \subseteq gossiped
        /\ \A b \in gossiped : AttestedIn(b, attested)
    BY <1>2 DEF BooksAgree, TypeOK, GossipSound, SavedIsGossiped
  <1>4. /\ saved[d] \in SUBSET Block /\ IsFiniteSet(saved[d])
        /\ \A b \in saved[d] : AttestedIn(b, attested) /\ 1 <= b.index /\ b.period <= period
    BY <1>2, <1>3, FS_Subset
  <1>5. FoundAgain(d, Replayed(d, s))
    BY <1>2, <1>3, <1>4, ReplayFinds DEF FoundAgain
  <1> QED BY <1>1, <1>5

LEMMA UndividedReloaded ==
    ASSUME BooksAgree, BlocksInOrder, NEW d \in Devices, Undivided(d),
           NEW e \in Devices, ProviderReload(e), dropped' = {}, refused = {}
    PROVE  Undivided(d)'
  <1>1. PICK l : ledger' = [ledger EXCEPT ![e] = l] /\ FoundAgain(e, l)
    BY ReloadFinds
  <1>2. /\ unsaved' = [unsaved EXCEPT ![e] = {}] /\ dropped' = dropped \cup (unsaved[e] \ saved[e])
        /\ UNCHANGED <<saved, gossiped>>
    BY DEF ProviderReload
  <1>3. TypeOK /\ d \in Nodes /\ e \in Nodes /\ gossiped \subseteq Everything
    BY ChainFacts
  <1>4. saved[e] \subseteq gossiped
    BY DEF BooksAgree, GossipSound, SavedIsGossiped
  <1>5. Forkless(Everything) /\ Issued(Everything, {}) /\ saved[e] \subseteq Everything
    BY <1>3, <1>4 DEF Undivided, BlocksInOrder
  <1>6. Forkless(saved[e]) /\ Issued(saved[e], {})
    BY <1>5, FewerBlocks
  <1>7. ~l.frozen /\ Range(l.chain) \subseteq saved[e] /\ \A b \in saved[e] : ~Extends(b, l)
    BY <1>1, <1>6 DEF FoundAgain
  <1>8. \A n \in Nodes : ledger'[n] = IF n = e THEN l ELSE ledger[n]
    BY <1>1, <1>3 DEF TypeOK
  <1>9. Forkless(Everything')
    <2>1. Range(l.chain) \subseteq Everything /\ gossiped' \subseteq Everything
      BY <1>2, <1>3, <1>5, <1>7
    <2>2. Everything' \subseteq Everything
      BY <1>1, <1>3, <2>1, EverythingMoves
    <2> QED BY <1>5, <2>2, FewerBlocks
  <1>10. \A n \in Nodes : ~ledger'[n].frozen /\ (n # d => Range(ledger'[n].chain) \subseteq gossiped)
    BY <1>4, <1>7, <1>8 DEF Undivided
  <1>11. saved'[d] \cup unsaved'[d] = gossiped /\ \A b \in gossiped : ~Extends(b, ledger'[d])
    <2>1. CASE e = d
      <3>1. unsaved[d] \subseteq saved[d] /\ unsaved'[d] = {}
        BY <1>2, <1>3, <2>1 DEF TypeOK
      <3>2. saved[d] = gossiped
        BY <3>1 DEF Undivided
      <3> QED BY <1>2, <1>3, <1>7, <1>8, <2>1, <3>1, <3>2
    <2>2. CASE e # d
      <3>1. unsaved'[d] = unsaved[d] /\ ledger'[d] = ledger[d]
        BY <1>2, <1>3, <1>8, <2>2 DEF TypeOK
      <3> QED BY <1>2, <3>1 DEF Undivided
    <2> QED BY <2>1, <2>2
  <1> QED BY <1>2, <1>9, <1>10, <1>11 DEF Undivided, Nodes

LEMMA UndividedHears ==
    ASSUME BooksAgree, BlocksInOrder, NEW d \in Devices, Undivided(d),
           NEW n \in Nodes, NEW b \in gossiped, NodeReceives(n, b)
    PROVE  Undivided(d)'
  <1> DEFINE k == AddBlock(ledger[n], b)
  <1>1. /\ k # ledger[n] /\ ledger' = [ledger EXCEPT ![n] = k]
        /\ saved' = [e \in Devices |-> saved[e] \cup IF e = n THEN {b} ELSE {}]
        /\ UNCHANGED <<gossiped, unsaved>>
    BY DEF NodeReceives
  <1>2. /\ TypeOK /\ d \in Nodes /\ gossiped \subseteq Everything /\ period \in Nat
        /\ b \in Block /\ 1 <= b.index /\ b.period <= period
        /\ \A m \in Nodes : /\ ledger[m] \in Ledgers /\ Follows(ledger[m], period)
                            /\ Range(ledger[m].chain) \subseteq Everything
    BY ChainFacts
  <1>3. Forkless(Everything) /\ ~ledger[n].frozen
    BY DEF Undivided
  <1>4. k = Apply(ledger[n], b) /\ Extends(b, ledger[n])
    <2>1. b \in Everything
      BY <1>2
    <2>2. k = ledger[n] \/ (k = Apply(ledger[n], b) /\ Extends(b, ledger[n]))
      BY <1>2, <1>3, <2>1, BlockAdded
    <2> QED BY <1>1, <2>2
  <1>5. n # d
    BY <1>4 DEF Undivided
  <1>6. ~k.frozen /\ Range(k.chain) = Range(ledger[n].chain) \cup {b}
    BY <1>2, <1>3, <1>4, ApplyFollows
  <1> HIDE DEF k
  <1>7. \A m \in Nodes : ledger'[m] = IF m = n THEN k ELSE ledger[m]
    BY <1>1, <1>2 DEF TypeOK
  <1>8. Forkless(Everything')
    <2>1. Range(k.chain) \subseteq Everything /\ gossiped' \subseteq Everything
      BY <1>1, <1>2, <1>6
    <2>2. Everything' \subseteq Everything
      BY <1>1, <1>2, <2>1, EverythingMoves
    <2> QED BY <1>3, <2>2, FewerBlocks
  <1>9. \A m \in Nodes : ~ledger'[m].frozen /\ (m # d => Range(ledger'[m].chain) \subseteq gossiped)
    <2> TAKE m \in Nodes
    <2>1. Range(ledger[n].chain) \subseteq gossiped
      BY <1>5 DEF Undivided
    <2> QED BY <1>6, <1>7, <2>1 DEF Undivided
  <1>10. ledger'[d] = ledger[d] /\ saved'[d] = saved[d]
    BY <1>1, <1>2, <1>5, <1>7
  <1> QED BY <1>1, <1>8, <1>9, <1>10 DEF Undivided, Nodes

(***************************************************************************)
(* The steps of the system.                                                *)
(***************************************************************************)
ChainInv == BlocksInOrder /\ AccountUndivided

LEMMA ChainWaits ==
    ASSUME BooksAgree, ChainInv, UNCHANGED chainVars, period' \in Nat, period <= period'
    PROVE  ChainInv'
  <1>1. UNCHANGED <<ledger, saved, unsaved, gossiped, signed, writers, refused, dropped>>
    BY DEF chainVars
  <1>2. BlocksInOrder' /\ Everything' = Everything
    BY <1>1, OrderWaits DEF ChainInv
  <1>3. ASSUME NEW d \in Devices, OnlyWriter(d)' PROVE Undivided(d)'
    <2>1. Undivided(d)
      BY <1>1, <1>3 DEF OnlyWriter, ChainInv, AccountUndivided
    <2> QED BY <1>1, <1>2, <2>1, UndividedWaits
  <1> QED BY <1>2, <1>3 DEF ChainInv, AccountUndivided

LEMMA ChainSigned ==
    ASSUME BooksAgree, ChainInv, NEW e \in Devices, NEW x, FreshFor(e, x),
           UNCHANGED <<period, saved, dropped>>,
           \/ gossiped' = gossiped /\ unsaved' = unsaved
           \/ gossiped' = gossiped \cup {x} /\ unsaved' = [unsaved EXCEPT ![e] = @ \cup {x}]
    PROVE  ChainInv'
  <1>1. BlocksInOrder' /\ Everything' \subseteq Everything \cup {x}
    <2>1. gossiped' \subseteq gossiped \cup {x}
      OBVIOUS
    <2> QED BY <2>1, OrderGrows DEF ChainInv
  <1>2. ASSUME NEW d \in Devices, OnlyWriter(d)' PROVE Undivided(d)'
    <2>1. writers' = writers \cup {e} /\ refused \subseteq refused'
      BY DEF FreshFor
    <2>2. e = d /\ OnlyWriter(d)
      BY <1>2, <2>1 DEF OnlyWriter
    <2>3. Undivided(d)
      BY <2>2 DEF ChainInv, AccountUndivided
    <2> QED BY <1>1, <2>2, <2>3, UndividedSigned DEF ChainInv
  <1> QED BY <1>1, <1>2 DEF ChainInv, AccountUndivided

LEMMA ChainSubmitted ==
    ASSUME BooksAgree, ChainInv, NEW e \in Devices, NEW kind \in {"register", "deregister"},
           Sign(e, kind, <<>>, 0), Submitted(e), Valid(ledger[e], Fresh(e, kind, <<>>, 0)),
           UNCHANGED <<period, saved, dropped>>
    PROVE  ChainInv'
  <1> DEFINE x == Fresh(e, kind, <<>>, 0)
  <1>1. kind \in {"register", "deregister", "settle"} /\ <<>> \in Seq(Receipt) /\ 0 \in Nat
    OBVIOUS
  <1>2. FreshFor(e, x)
    BY <1>1, SignedIsFresh DEF ChainInv
  <1> HIDE DEF x
  <1>3. TypeOK /\ e \in Nodes /\ ledger[e] \in Ledgers
    BY ChainFacts DEF ChainInv
  <1>4. ledger'[e].chain[Len(ledger'[e].chain)] = x
    <2>1. ledger'[e] = Apply(ledger[e], x) /\ x \in Block
      BY <1>2, <1>3 DEF FreshFor, TypeOK
    <2>2. ledger[e].chain \in Seq(Block)
      BY <1>3 DEF Ledgers
    <2>3. ledger'[e].chain = Append(ledger[e].chain, x)
      <3>1. Apply(ledger[e], x) = Applied(ledger[e], x)
        BY <1>3, <2>1, ApplyIs
      <3> QED BY <2>1, <3>1 DEF Applied
    <2> QED BY <2>2, <2>3
  <1>5. CASE ledger[e].frozen
    <2>1. gossiped' = gossiped /\ unsaved' = [unsaved EXCEPT ![e] = @ \cup {}]
      BY <1>5 DEF Submitted
    <2>2. unsaved' = unsaved
      BY <1>3, <2>1 DEF TypeOK
    <2> QED BY <1>2, <2>1, <2>2, ChainSigned
  <1>6. CASE ~ledger[e].frozen
    <2>1. gossiped' = gossiped \cup {x} /\ unsaved' = [unsaved EXCEPT ![e] = @ \cup {x}]
      BY <1>4, <1>6 DEF Submitted
    <2> QED BY <1>2, <2>1, ChainSigned
  <1> QED BY <1>5, <1>6

LEMMA ChainRegistered ==
    ASSUME BooksAgree, ChainInv, NEW e \in Serving, Register(e) \/ Deregister(e)
    PROVE  ChainInv'
  <1>1. e \in Devices
    BY EconomyAssumption
  <1>2. CASE Register(e)
    <2> DEFINE x == Fresh(e, "register", <<>>, 0)
    <2>1. x.kind = "register"
      BY DEF Fresh
    <2> HIDE DEF x
    <2>2. Valid(ledger[e], x)
      BY <2>1 DEF Valid
    <2> QED BY <1>1, <1>2, <2>2, ChainSubmitted DEF Register, x
  <1>3. CASE Deregister(e)
    <2> DEFINE x == Fresh(e, "deregister", <<>>, 0)
    <2>1. x.kind = "deregister" /\ ledger[e].registered
      BY <1>3 DEF Fresh, Deregister
    <2> HIDE DEF x
    <2>2. Valid(ledger[e], x)
      BY <2>1 DEF Valid
    <2> QED BY <1>1, <1>3, <2>2, ChainSubmitted DEF Deregister, x
  <1> QED BY <1>2, <1>3

\* What settleIfDue signs is valid, or settles a period again.
LEMMA ChainSettled ==
    ASSUME BooksAgree, ChainInv, NEW e \in Devices, SettleIfDue(e)
    PROVE  ChainInv'
  <1> DEFINE rs == SettlementReceipts(e)
             l == ledger[e]
             credit == SettlementCredit(l, rs)
  <1>1. /\ l.registered /\ period > l.shown /\ credit > 0
        /\ Sign(e, "settle", rs, credit) /\ UNCHANGED <<period, saved, unsaved, gossiped, dropped>>
    BY DEF SettleIfDue, SettlementDue
  <1>2. l \in Ledgers /\ ShownRight(l, period) /\ period \in Nat
    BY ChainFacts DEF ChainInv, Follows
  <1>3. rs \in Seq(Receipt) /\ Len(rs) <= MaxReceipts
    BY ReceiptsCarried
  <1>4. credit \in Nat
    <2>1. l.baseline \in [Readers -> Nat]
      BY <1>2 DEF Ledgers
    <2> HIDE DEF rs, l
    <2> QED BY <1>2, <1>3, <2>1, CreditIsMoved
  <1>5. period > l.lastPeriod \/ (period = l.lastPeriod /\ l.shown = Never)
    <2>1. l.lastPeriod \in Nat \cup {Never} /\ l.shown \in Nat \cup {Never} /\ Never = -1
      BY <1>2 DEF Ledgers, Never
    <2> HIDE DEF l
    <2> QED BY <1>1, <1>2, <2>1 DEF ShownRight
  <1> DEFINE x == Fresh(e, "settle", rs, credit)
  <1>6. x.kind = "settle" /\ x.period = period /\ x.receipts = rs /\ x.amount = credit
    BY DEF Fresh
  <1> HIDE DEF x, rs, credit, l
  <1>7. Valid(l, x) \/ SettlesAgain(l, x)
    <2>1. x.amount = SettlementCredit(l, x.receipts)
      BY <1>6 DEF credit
    <2>2. x.amount > 0 /\ x.amount <= SettlementCredit(l, x.receipts) /\ Len(x.receipts) <= MaxReceipts
      BY <1>1, <1>3, <1>4, <1>6, <2>1
    <2>3. CASE period > l.lastPeriod
      BY <1>6, <2>2, <2>3 DEF Valid
    <2>4. CASE period = l.lastPeriod /\ l.shown = Never
      BY <1>6, <2>4 DEF SettlesAgain
    <2> QED BY <1>5, <2>3, <2>4
  <1>8. FreshFor(e, x)
    BY <1>1, <1>3, <1>4, <1>7, SignedIsFresh DEF x, l, ChainInv
  <1> QED BY <1>1, <1>8, ChainSigned

LEMMA ChainPublished ==
    ASSUME BooksAgree, ChainInv, NEW e \in Devices, PublishLocalData(e) \/ SaveDone(e)
    PROVE  ChainInv'
  <1>1. /\ TypeOK /\ e \in Nodes /\ period \in Nat /\ gossiped \subseteq Everything
        /\ Range(ledger[e].chain) \subseteq Everything /\ ledger[e] \in Ledgers /\ Follows(ledger[e], period)
    BY ChainFacts DEF ChainInv
  <1>2. UNCHANGED <<period, ledger, signed, writers, refused, dropped>>
    BY DEF PublishLocalData, SaveDone
  <1>3. CASE PublishLocalData(e)
    <2>1. gossiped' \subseteq Everything /\ ledger' = [ledger EXCEPT ![e] = ledger[e]]
      BY <1>1, <1>2, <1>3 DEF PublishLocalData, TypeOK
    <2>2. BlocksInOrder'
      BY <1>1, <1>2, <2>1, OrderStays DEF ChainInv
    <2>3. ASSUME NEW d \in Devices, OnlyWriter(d)' PROVE Undivided(d)'
      <3>1. Undivided(d)
        BY <1>2, <2>3 DEF OnlyWriter, ChainInv, AccountUndivided
      <3> QED BY <1>3, <3>1, UndividedPublished DEF ChainInv
    <2> QED BY <2>2, <2>3 DEF ChainInv, AccountUndivided
  <1>4. CASE SaveDone(e)
    <2>1. PICK b \in unsaved[e] : /\ saved' = [saved EXCEPT ![e] = @ \cup {b}]
                                  /\ unsaved' = [unsaved EXCEPT ![e] = @ \ {b}]
      BY <1>4 DEF SaveDone
    <2>2. gossiped' = gossiped
      BY <1>4 DEF SaveDone
    <2>3. BlocksInOrder' /\ Everything' = Everything
      BY <1>1, <1>2, <2>2, OrderWaits DEF ChainInv
    <2>4. ASSUME NEW d \in Devices, OnlyWriter(d)' PROVE Undivided(d)'
      <3>1. Undivided(d)
        BY <1>2, <2>4 DEF OnlyWriter, ChainInv, AccountUndivided
      <3>2. saved'[d] \cup unsaved'[d] = saved[d] \cup unsaved[d]
        <4>1. CASE d = e
          BY <1>1, <2>1, <4>1 DEF TypeOK
        <4>2. CASE d # e
          BY <1>1, <2>1, <4>2 DEF TypeOK
        <4> QED BY <4>1, <4>2
      <3> QED BY <1>2, <2>2, <2>3, <3>1, <3>2, UndividedWaits
    <2> QED BY <2>3, <2>4 DEF ChainInv, AccountUndivided
  <1> QED BY <1>3, <1>4

LEMMA ChainReloaded ==
    ASSUME BooksAgree, ChainInv, NEW e \in Devices, ProviderReload(e)
    PROVE  ChainInv'
  <1>1. PICK l : ledger' = [ledger EXCEPT ![e] = l] /\ FoundAgain(e, l)
    BY ReloadFinds DEF ChainInv
  <1>2. UNCHANGED <<period, gossiped, signed, writers, refused>> /\ dropped \subseteq dropped'
    BY DEF ProviderReload
  <1>3. Devices \subseteq Nodes /\ gossiped \subseteq Everything
    BY ChainFacts DEF ChainInv
  <1>4. Range(l.chain) \subseteq Everything /\ Follows(l, period)
    BY <1>1, <1>3 DEF FoundAgain, BooksAgree, GossipSound, SavedIsGossiped
  <1>5. BlocksInOrder'
    BY <1>1, <1>2, <1>3, <1>4, OrderStays DEF ChainInv
  <1>6. ASSUME NEW d \in Devices, OnlyWriter(d)' PROVE Undivided(d)'
    <2>1. Undivided(d) /\ refused = {} /\ dropped' = {}
      BY <1>2, <1>6 DEF OnlyWriter, ChainInv, AccountUndivided
    <2> QED BY <2>1, UndividedReloaded DEF ChainInv
  <1> QED BY <1>5, <1>6 DEF ChainInv, AccountUndivided

LEMMA ChainHeard ==
    ASSUME BooksAgree, ChainInv, NEW n \in Nodes, NEW b \in gossiped, NodeReceives(n, b)
    PROVE  ChainInv'
  <1>1. /\ ledger' = [ledger EXCEPT ![n] = AddBlock(ledger[n], b)]
        /\ UNCHANGED <<period, gossiped, signed, writers, refused, dropped>>
    BY DEF NodeReceives
  <1>2. /\ b \in Everything /\ b \in Block /\ 1 <= b.index /\ b.period <= period /\ period \in Nat
        /\ gossiped \subseteq Everything /\ ledger[n] \in Ledgers /\ Follows(ledger[n], period)
        /\ Range(ledger[n].chain) \subseteq Everything
    BY ChainFacts DEF ChainInv
  <1>3. Follows(AddBlock(ledger[n], b), period) /\ Range(AddBlock(ledger[n], b).chain) \subseteq Everything
    BY <1>2, AddedFollows
  <1>4. BlocksInOrder'
    BY <1>1, <1>2, <1>3, OrderStays DEF ChainInv
  <1>5. ASSUME NEW d \in Devices, OnlyWriter(d)' PROVE Undivided(d)'
    <2>1. Undivided(d)
      BY <1>1, <1>5 DEF OnlyWriter, ChainInv, AccountUndivided
    <2> QED BY <2>1, UndividedHears DEF ChainInv
  <1> QED BY <1>4, <1>5 DEF ChainInv, AccountUndivided

LEMMA ChainAtFirst ==
    ASSUME Init PROVE ChainInv
  <1>1. /\ period = 0 /\ signed = 0 /\ gossiped = {} /\ refused = {}
        /\ \A d \in Devices : saved[d] = {} /\ unsaved[d] = {}
        /\ \A n \in Nodes : ledger[n] = EmptyLedger
    BY DEF Init
  <1>2. Follows(EmptyLedger, 0) /\ Range(EmptyLedger.chain) = {} /\ ~EmptyLedger.frozen
    BY EmptyFollows
  <1>3. Everything = {}
    BY <1>1, <1>2 DEF Everything
  <1>4. Dated({}, 0, 0) /\ UniqueIds({}) /\ Issued({}, {}) /\ Forkless({})
    BY DEF Dated, UniqueIds, Issued, Forkless
  <1>5. BlocksInOrder
    BY <1>1, <1>2, <1>3, <1>4 DEF BlocksInOrder
  <1>6. ASSUME NEW d \in Devices PROVE Undivided(d)
    BY <1>1, <1>2, <1>3, <1>4 DEF Undivided
  <1> QED BY <1>5, <1>6 DEF ChainInv, AccountUndivided

LEMMA ChainStays ==
    ASSUME BooksAgree, BooksAgree', ChainInv, [Next]_vars
    PROVE  ChainInv'
  <1>1. period \in Nat /\ period' \in Nat
    BY EconomyAssumption DEF BooksAgree, TypeOK
  <1>2. ASSUME NEW r \in Readers, Read(r) \/ ReaderReload(r) PROVE ChainInv'
    BY <1>1, <1>2, ChainWaits DEF Read, ReaderReload
  <1>3. ASSUME NEW rc \in wire, LoseReceipt(rc) PROVE ChainInv'
    BY <1>1, <1>3, ChainWaits DEF LoseReceipt
  <1>4. ASSUME NEW rc \in wire, NEW e \in Devices, AcceptReadReceipt(e, rc) PROVE ChainInv'
    BY <1>1, <1>4, ChainWaits DEF AcceptReadReceipt
  <1>5. ASSUME NEW e \in Serving, Register(e) \/ Deregister(e) PROVE ChainInv'
    BY <1>5, ChainRegistered
  <1>6. ASSUME NEW e \in Devices,
               SettleIfDue(e) \/ PublishLocalData(e) \/ SaveDone(e) \/ ProviderReload(e)
        PROVE  ChainInv'
    BY <1>6, ChainSettled, ChainPublished, ChainReloaded
  <1>7. ASSUME NEW n \in Nodes, NEW b \in gossiped, NodeReceives(n, b) PROVE ChainInv'
    BY <1>7, ChainHeard
  <1>8. CASE NextPeriod
    <2>1. period' = period + 1 /\ UNCHANGED chainVars
      BY <1>8 DEF NextPeriod
    <2> QED BY <1>1, <2>1, ChainWaits
  <1>9. CASE UNCHANGED vars
    BY <1>1, <1>9, ChainWaits DEF vars
  <1> QED BY <1>2, <1>3, <1>4, <1>5, <1>6, <1>7, <1>8, <1>9 DEF Next

LEMMA ChainAlways == Spec => [](BooksAgree /\ ChainInv)
  <1>1. Init => BooksAgree /\ ChainInv
    BY BooksAgreeAtFirst, ChainAtFirst
  <1>2. BooksAgree /\ ChainInv /\ [Next]_vars => (BooksAgree /\ ChainInv)'
    BY BooksAgreeStays, ChainStays
  <1> QED BY <1>1, <1>2, PTL DEF Spec

\* Only three things freeze a provider's account at a node: two devices signed, a
\* reload cut off the save of a gossiped block, or a block was signed that peers
\* refuse.  Without them, what a reload makes the device forget nobody has seen
\* (appendStorageBlock, publishEngineBlock, publishLocalData, start).
THEOREM AccountFreezesForCause == Spec => []FreezesHaveCauses
  <1>1. BooksAgree /\ ChainInv => FreezesHaveCauses
    <2> SUFFICES ASSUME BooksAgree, ChainInv, NEW n \in Nodes, ledger[n].frozen,
                        \A d, e \in writers : d = e, dropped = {}, refused = {}
                 PROVE  FALSE
      BY DEF FreezesHaveCauses
    <2>1. writers \subseteq Devices
      BY DEF BooksAgree, TypeOK
    <2>2. PICK d \in Devices : writers \subseteq {d}
      <3>1. CASE writers = {}
        BY <3>1, EconomyAssumption
      <3>2. CASE writers # {}
        BY <2>1, <3>2
      <3> QED BY <3>1, <3>2
    <2>3. Undivided(d)
      BY <2>2 DEF ChainInv, AccountUndivided, OnlyWriter
    <2> QED BY <2>3 DEF Undivided
  <1> QED BY <1>1, ChainAlways, PTL

\* The devices apply their own blocks without validating them, and yet none issues
\* a block that a node whose chain it extends refuses, except one that settles
\* again a period already settled (createStorageRegister, createStorageSettle).
THEOREM IssuedStorageBlocksValid == Spec => []IssuedBlocksAccepted
  <1>1. BooksAgree /\ ChainInv => IssuedBlocksAccepted
    <2> SUFFICES ASSUME BooksAgree, ChainInv, NEW n \in Nodes, NEW b \in gossiped,
                        b.index = Len(ledger[n].chain) + 1 /\ b.prev = HeadId(ledger[n])
                 PROVE  Valid(ledger[n], b) \/ SettlesAgain(ledger[n], b)
      BY DEF IssuedBlocksAccepted
    <2>1. /\ b \in Everything /\ Everything \in SUBSET Block /\ SoundLedger(ledger[n], attested)
          /\ Range(ledger[n].chain) \subseteq Everything
          /\ Linked(ledger[n].chain, Len(ledger[n].chain)) /\ Issued(Everything, refused)
      BY ChainFacts DEF ChainInv, BlocksInOrder
    <2>2. Extends(b, ledger[n])
      BY DEF Extends
    <2>3. Due(ledger[n], b, refused)
      BY <2>1, <2>2, IssuedIsDue
    <2> QED BY <2>3 DEF Due
  <1> QED BY <1>1, ChainAlways, PTL

-----------------------------------------------------------------------------
(***************************************************************************)
(* The custody of published content.                                       *)
(***************************************************************************)


-----------------------------------------------------------------------------
(* Types.                                                                  *)

\* What the definitions of the constants come to.
LEMMA Constants ==
  /\ \A p \in Providers : DeviceOf[p] \in Hosts /\ DeviceOf[p] # Owner
  /\ Root \in Blocks /\ <<Root>> \o Parts \in Seq(Blocks)
  /\ Idle \in Transfers /\ Idle.busy = FALSE
  /\ FailuresBeforeEviction \in Nat /\ MinReplicas \in Nat
<1>1. Parts \in Seq(Blocks)
  BY CustodyAssumption DEF Blocks
<1> QED BY <1>1, CustodyAssumption DEF Blocks, Idle, Transfers

\* The owner's answer to a receipt of p keeps its books and its evidence typed.
LEMMA ConfirmTyped ==
  ASSUME NEW p \in Providers, Tracked, BooksTyped, EvidenceTyped, Confirm(p),
         UNCHANGED <<published, withdrawn, pendingCids, released, warmup, registered, target, budget>>
  PROVE  BooksTyped' /\ EvidenceTyped'
<1>1. confirmed \in SUBSET Providers
  BY DEF BooksTyped, Tracked
<1>2. confirmed' = confirmed \cup {p} /\ savedConfirmed' = confirmed'
  BY DEF Confirm
<1>3. \A pr \in proofs' : pr.asked \cup pr.served \subseteq Providers /\ pr.asked \cap pr.served = {}
  <2> DEFINE live == {q \in confirmed' : fails'[q] < FailuresBeforeEviction /\ seen'[q]}
             begun == [asked |-> live, served |-> {}]
  <2>1. proofs' \subseteq proofs \cup {begun}
    BY DEF Confirm
  <2>2. begun.asked \subseteq Providers /\ begun.served = {}
    BY <1>1, <1>2
  <2> HIDE DEF begun
  <2> QED BY <2>1, <2>2 DEF BooksTyped
<1>4. misses' \in Streaks /\ fails' \in Streaks /\ seen' \in [Providers -> BOOLEAN]
  BY Constants DEF Confirm, EvidenceTyped, Streaks
<1> QED BY <1>1, <1>2, <1>3, <1>4 DEF BooksTyped, EvidenceTyped

\* A selection is made among the candidates.
LEMMA SelectionsTyped ==
  ASSUME NEW C, NEW S \in Selections(C) PROVE S \subseteq C
BY DEF Selections

\* What distributeContent does to the wire and to the books.
LEMMA DistributeTyped ==
  ASSUME NEW C \in SUBSET Providers, CustodyTypeOK, DistributeContent(C)
  PROVE  /\ requests' \subseteq Providers /\ pushes' \subseteq Providers \X Pushed
         /\ {confirmed', savedConfirmed'} \subseteq (SUBSET Providers) \cup {Untracked}
         /\ pendingCids' \in BOOLEAN
<1>1. PICK S \in Selections(C) : Send(S, ~released) /\ pendingCids' = (S = {})
  BY DEF DistributeContent
<1>2. S \subseteq Providers
  BY SelectionsTyped
<1>3. requests' \subseteq Providers /\ pushes' \subseteq Providers \X Pushed
  BY <1>1, <1>2 DEF Send, CustodyTypeOK, WireTyped
<1>4. Holders \in SUBSET Providers
  BY DEF Holders, Tracked, CustodyTypeOK, BooksTyped
<1> QED BY <1>1, <1>3, <1>4 DEF DistributeContent

\* An event that may still strike leaves the bounds numbers.
LEMMA StruckTyped ==
  ASSUME CustodyTypeOK, NEW e \in Events, Strikes(e)
  PROVE  budget' \in [Events -> Nat]
<1>1. budget \in [Events -> Nat] /\ budget[e] > 0 /\ budget' = [budget EXCEPT ![e] = @ - 1]
  BY DEF CustodyTypeOK, EvidenceTyped, Strikes
<1>2. budget[e] \in Nat /\ budget[e] - 1 \in Nat
  BY <1>1
<1> QED BY <1>1, <1>2

LEMMA TypesStep == ASSUME CustodyTypeOK, CustodyNext PROVE CustodyTypeOK'
<1> USE Constants DEF CustodyTypeOK
<1>1. CASE Publish
  <2>1. Candidates \subseteq Providers
    BY DEF Candidates, EvidenceTyped
  <2> QED BY <1>1, <2>1, DistributeTyped
      DEF Publish, StoresTyped, WireTyped, BooksTyped, EvidenceTyped, evidenceVars, faultVars
<1>2. CASE DemandChanges
  <2>1. EvidenceTyped'
    <3>1. budget' \in [Events -> Nat]
      BY <1>2, StruckTyped DEF DemandChanges, EvidenceTyped, Events
    <3>2. target' \in {Target, HotTarget} /\ UNCHANGED <<misses, fails, seen, warmup, registered>>
      BY <1>2 DEF DemandChanges
    <3> QED BY <3>1, <3>2 DEF EvidenceTyped
  <2> QED BY <1>2, <2>1 DEF DemandChanges, StoresTyped, WireTyped, BooksTyped, wireVars, ownerVars
<1>3. CASE Repair
  <2>1. PICK S \in Selections(Candidates) : \E add \in PlanRepair(S) : Send(add, TRUE)
    BY <1>3 DEF Repair
  <2>2. PICK add \in PlanRepair(S) : Send(add, TRUE)
    BY <2>1
  <2>3. S \subseteq Providers
    BY SelectionsTyped DEF Candidates, EvidenceTyped
  <2>4. add \subseteq Providers
    BY <2>2, <2>3 DEF PlanRepair
  <2>5. WireTyped'
    BY <1>3, <2>2, <2>4 DEF Repair, Send, WireTyped
  <2>6. BooksTyped'
    BY <1>3 DEF Repair, BooksTyped, KeptHolders, Tracked
  <2> QED BY <1>3, <2>5, <2>6 DEF Repair, StoresTyped, EvidenceTyped, evidenceVars, faultVars
<1>4. CASE ShedSurplus
  <2>1. BooksTyped'
    BY <1>4 DEF ShedSurplus, BooksTyped, Tracked
  <2> QED BY <1>4, <2>1 DEF ShedSurplus, StoresTyped, WireTyped, EvidenceTyped, wireVars, evidenceVars, faultVars
<1>5. CASE Withdraw
  <2>1. StoresTyped'
    BY <1>5 DEF Withdraw, StoresTyped
  <2>2. WireTyped' /\ BooksTyped'
    BY <1>5 DEF Withdraw, WireTyped, BooksTyped
  <2>3. EvidenceTyped'
    <3>1. budget' \in [Events -> Nat]
      BY <1>5, StruckTyped DEF Withdraw, Events
    <3> QED BY <1>5, <3>1 DEF Withdraw, EvidenceTyped, Streaks
  <2> QED BY <1>5, <2>1, <2>2, <2>3 DEF Withdraw
<1>6. CASE OwnerReload
  <2>1. WireTyped' /\ BooksTyped'
    BY <1>6 DEF OwnerReload, WireTyped, BooksTyped
  <2>2. EvidenceTyped'
    <3>1. budget' \in [Events -> Nat]
      BY <1>6, StruckTyped DEF OwnerReload, Events
    <3> QED BY <1>6, <3>1 DEF OwnerReload, EvidenceTyped, Streaks
  <2> QED BY <1>6, <2>1, <2>2 DEF OwnerReload, StoresTyped
<1>7. CASE WarmupEnds
  BY <1>7 DEF WarmupEnds, StoresTyped, WireTyped, BooksTyped, EvidenceTyped, wireVars, ownerVars, faultVars
<1>8. ASSUME NEW p \in Providers, ProviderRegisters(p) PROVE CustodyTypeOK'
  <2>1. EvidenceTyped'
    <3>1. budget' \in [Events -> Nat]
      BY <1>8, StruckTyped DEF ProviderRegisters, Events
    <3> QED BY <1>8, <3>1 DEF ProviderRegisters, EvidenceTyped
  <2>2. Candidates \cup {p} \in SUBSET Providers
    BY DEF Candidates, EvidenceTyped
  <2>3. WireTyped' /\ BooksTyped'
    BY <1>8, <2>2, DistributeTyped DEF ProviderRegisters, WireTyped, BooksTyped
  <2> QED BY <1>8, <2>1, <2>3 DEF ProviderRegisters, StoresTyped
<1>9. ASSUME NEW p \in Providers, HandleReceipt(p) PROVE CustodyTypeOK'
  <2>1. BooksTyped' /\ EvidenceTyped'
    <3>1. CASE Tracked
      BY <1>9, <3>1, ConfirmTyped DEF HandleReceipt, faultVars
    <3>2. CASE ~Tracked
      BY <1>9, <3>2 DEF HandleReceipt, BooksTyped, EvidenceTyped, faultVars
    <3> QED BY <3>1, <3>2
  <2> QED BY <1>9, <2>1 DEF HandleReceipt, StoresTyped, WireTyped, faultVars
<1>10. ASSUME NEW p \in Providers, SpotCheck(p) PROVE CustodyTypeOK'
  <2>1. CASE Confirm(p)
    <3>1. BooksTyped' /\ EvidenceTyped'
      BY <1>10, <2>1, ConfirmTyped DEF SpotCheck, faultVars
    <3> QED BY <1>10, <3>1 DEF SpotCheck, StoresTyped, WireTyped, wireVars, faultVars
  <2>2. CASE ~Confirm(p)
    <3> DEFINE Longer(n) == IF n < FailuresBeforeEviction THEN n + 1 ELSE n
    <3>1. misses' = [misses EXCEPT ![p] = Longer(@)] /\ fails' = [fails EXCEPT ![p] = Longer(@)]
      BY <1>10, <2>2 DEF SpotCheck
    <3>2. \A n \in 0..FailuresBeforeEviction : Longer(n) \in 0..FailuresBeforeEviction
      OBVIOUS
    <3>3. misses \in Streaks /\ fails \in Streaks
      BY DEF EvidenceTyped
    <3>4. misses' \in Streaks /\ fails' \in Streaks
      <4> HIDE DEF Longer
      <4> QED BY <3>1, <3>2, <3>3 DEF Streaks
    <3>5. EvidenceTyped'
      BY <1>10, <2>2, <3>4 DEF SpotCheck, EvidenceTyped, faultVars
    <3>6. BooksTyped'
      BY <1>10, <2>2 DEF SpotCheck, BooksTyped, Tracked
    <3> QED BY <1>10, <3>5, <3>6 DEF SpotCheck, StoresTyped, WireTyped, wireVars, faultVars
  <2> QED BY <2>1, <2>2
<1>11. ASSUME NEW p \in Providers, LeaseLapses(p) PROVE CustodyTypeOK'
  <2>1. EvidenceTyped'
    <3>1. budget' \in [Events -> Nat]
      BY <1>11, StruckTyped DEF LeaseLapses, Events
    <3> QED BY <1>11, <3>1 DEF LeaseLapses, EvidenceTyped
  <2> QED BY <1>11, <2>1 DEF LeaseLapses, StoresTyped, WireTyped, BooksTyped, wireVars, ownerVars
<1>12. ASSUME NEW p \in Providers, LoseMessage(p) PROVE CustodyTypeOK'
  BY <1>12 DEF LoseMessage, StoresTyped, WireTyped, BooksTyped, EvidenceTyped, ownerVars, evidenceVars, faultVars
<1>13. ASSUME NEW p \in Providers, HandleCacheRequest(p) PROVE CustodyTypeOK'
  <2>1. [todo |-> <<Root>> \o Parts, failed |-> FALSE, busy |-> TRUE] \in Transfers
    BY DEF Transfers
  <2>2. WireTyped' /\ \A q \in Providers : caching'[q].busy \/ caching'[q] = Idle
    BY <1>13, <2>1 DEF HandleCacheRequest, WireTyped
  <2> QED BY <1>13, <2>2 DEF HandleCacheRequest, StoresTyped, BooksTyped, EvidenceTyped, ownerVars, evidenceVars, faultVars
<1>14. ASSUME NEW p \in Providers, CacheBlock(p) PROVE CustodyTypeOK'
  <2> DEFINE t == caching[p]
             fetched == [t EXCEPT !.todo = Tail(@)]
             missed == [fetched EXCEPT !.failed = TRUE]
  <2>1. t \in Transfers /\ t.busy /\ t.todo # <<>>
    BY <1>14 DEF CacheBlock, WireTyped
  <2>2. Head(t.todo) \in Blocks /\ Tail(t.todo) \in Seq(Blocks)
    BY <2>1 DEF Transfers
  <2>3. fetched \in Transfers /\ missed \in Transfers /\ fetched.busy /\ missed.busy
    BY <2>1, <2>2 DEF Transfers
  <2>4. caching' \in {[caching EXCEPT ![p] = fetched], [caching EXCEPT ![p] = missed]}
    BY <1>14 DEF CacheBlock
  <2>5. StoresTyped'
    BY <1>14, <2>2 DEF CacheBlock, StoresTyped, faultVars
  <2>6. WireTyped' /\ \A q \in Providers : caching'[q].busy \/ caching'[q] = Idle
    <3> HIDE DEF fetched, missed
    <3> QED BY <1>14, <2>3, <2>4 DEF CacheBlock, WireTyped, wireVars
  <2> QED BY <1>14, <2>5, <2>6 DEF CacheBlock, BooksTyped, EvidenceTyped, ownerVars, evidenceVars, faultVars
<1>15. ASSUME NEW p \in Providers, CacheDone(p) PROVE CustodyTypeOK'
  BY <1>15 DEF CacheDone, StoresTyped, WireTyped, BooksTyped, EvidenceTyped, ownerVars, evidenceVars, faultVars
<1>16. ASSUME NEW p \in Providers, NEW c \in Pushed, PushArrives(p, c) PROVE CustodyTypeOK'
  <2>1. StoresTyped'
    BY <1>16 DEF PushArrives, StoresTyped, Holds, faultVars
  <2>2. WireTyped'
    BY <1>16 DEF PushArrives, WireTyped
  <2> QED BY <1>16, <2>1, <2>2 DEF PushArrives, BooksTyped, EvidenceTyped, ownerVars, evidenceVars, faultVars
<1>17. ASSUME NEW pr \in proofs, ReleasePublisherCopy(pr) PROVE CustodyTypeOK'
  <2>1. StoresTyped'
    BY <1>17 DEF ReleasePublisherCopy, StoresTyped, faultVars
  <2> QED BY <1>17, <2>1 DEF ReleasePublisherCopy, WireTyped, BooksTyped, EvidenceTyped, wireVars, evidenceVars, faultVars
<1>18. ASSUME NEW pr \in proofs, NEW p \in Providers, ProofAnswer(pr, p) PROVE CustodyTypeOK'
  <2>1. \A x \in proofs' : x.asked \cup x.served \subseteq Providers /\ x.asked \cap x.served = {}
    BY <1>18 DEF ProofAnswer, BooksTyped
  <2> QED BY <1>18, <2>1
      DEF ProofAnswer, StoresTyped, WireTyped, BooksTyped, EvidenceTyped, wireVars, evidenceVars, faultVars
<1>19. ASSUME NEW c \in Blocks, OwnerReads(c) PROVE CustodyTypeOK'
  <2>1. PICK p \in Providers :
          /\ disk' = [disk EXCEPT ![Owner] = @ \cup {c}]
          /\ fails' = [fails EXCEPT ![p] = 0]
          /\ seen' = [seen EXCEPT ![p] = TRUE]
    BY <1>19 DEF OwnerReads
  <2>2. StoresTyped' /\ EvidenceTyped'
    BY <1>19, <2>1 DEF OwnerReads, StoresTyped, EvidenceTyped, Streaks, faultVars
  <2> QED BY <1>19, <2>2 DEF OwnerReads, WireTyped, BooksTyped, wireVars, ownerVars
<1>20. ASSUME NEW d \in Hosts, HandleDeleteRequest(d) PROVE CustodyTypeOK'
  BY <1>20 DEF HandleDeleteRequest, StoresTyped, WireTyped, BooksTyped, EvidenceTyped, ownerVars, evidenceVars, faultVars
<1>21. ASSUME NEW d \in Hosts, GoOffline(d) PROVE CustodyTypeOK'
  <2>1. WireTyped' /\ \A q \in Providers : caching'[q].busy \/ caching'[q] = Idle
    BY <1>21 DEF GoOffline, WireTyped, wireVars
  <2>2. StoresTyped' /\ EvidenceTyped'
    <3>1. budget' \in [Events -> Nat]
      BY <1>21, StruckTyped DEF GoOffline, EvidenceTyped, Events
    <3> QED BY <1>21, <3>1 DEF GoOffline, StoresTyped, EvidenceTyped, evidenceVars
  <2> QED BY <1>21, <2>1, <2>2 DEF GoOffline, BooksTyped, ownerVars
<1>22. ASSUME NEW d \in Hosts, ComeBack(d) PROVE CustodyTypeOK'
  BY <1>22 DEF ComeBack, StoresTyped, WireTyped, BooksTyped, EvidenceTyped, wireVars, ownerVars, evidenceVars
<1>23. ASSUME NEW d \in Hosts, LoseDisk(d) PROVE CustodyTypeOK'
  <2>1. StoresTyped' /\ EvidenceTyped'
    <3>1. budget' \in [Events -> Nat]
      BY <1>23, StruckTyped DEF LoseDisk, EvidenceTyped, Events
    <3> QED BY <1>23, <3>1 DEF LoseDisk, StoresTyped, EvidenceTyped, evidenceVars
  <2> QED BY <1>23, <2>1 DEF LoseDisk, WireTyped, BooksTyped, wireVars, ownerVars
<1> QED
  BY <1>1, <1>2, <1>3, <1>4, <1>5, <1>6, <1>7, <1>8, <1>9, <1>10, <1>11, <1>12, <1>13, <1>14, <1>15,
     <1>16, <1>17, <1>18, <1>19, <1>20, <1>21, <1>22, <1>23 DEF CustodyNext

LEMMA TypesInit == CustodyInit => CustodyTypeOK
<1> SUFFICES ASSUME CustodyInit PROVE CustodyTypeOK
  OBVIOUS
<1>1. budget \in [Events -> Nat]
  BY CustodyAssumption DEF CustodyInit
<1>2. StoresTyped /\ WireTyped /\ BooksTyped
  BY Constants DEF CustodyInit, StoresTyped, WireTyped, BooksTyped
<1>3. EvidenceTyped
  BY <1>1, Constants DEF CustodyInit, EvidenceTyped, Streaks
<1> QED BY <1>2, <1>3 DEF CustodyTypeOK, CustodyInit


(* Every variable keeps its type, whatever the network and the devices do   *)
(* (storage-manager.ts, the books of the owner and of the providers).       *)
THEOREM ContentTypeCorrect == CustodySpec => []CustodyTypeOK
<1>1. CustodyTypeOK /\ [CustodyNext]_custodyVars => CustodyTypeOK'
  <2> SUFFICES ASSUME CustodyTypeOK, UNCHANGED custodyVars PROVE CustodyTypeOK'
    BY TypesStep
  <2> QED BY DEF custodyVars, wireVars, ownerVars, evidenceVars, faultVars, CustodyTypeOK,
                 StoresTyped, WireTyped, BooksTyped, EvidenceTyped
<1> QED BY <1>1, TypesInit, PTL DEF CustodySpec

-----------------------------------------------------------------------------
(* Custody.                                                                *)

\* A device is backed when it stores the root, or lost it with its disk: until
\* the file is withdrawn, nothing else takes a root away from a provider.
Backed(d) == Holds(d, Root) \/ d \in lost
BackedHosts == {d \in Hosts : Backed(d)}

\* What a run may ask for: fewer disks are lost than there are replicas.
FewLosses == \A b \in Budgets : b["losses"] < MinReplicas

\* Nobody is told to delete a file that its owner keeps.
NothingDeleted == deletes = {}
\* A receipt is sent by a device that has the root.
ReceiptsBacked == \A p \in receipts : Backed(DeviceOf[p])
\* So is every entry of the owner's books, in memory and on disk.
BooksBacked ==
  \A S \in {confirmed, savedConfirmed} : S # Untracked => \A p \in S : Backed(DeviceOf[p])
\* A transfer that has not failed has passed the root, its first block.
TransfersBacked ==
  \A p \in Providers :
    caching[p].busy /\ ~caching[p].failed =>
      Backed(DeviceOf[p]) \/ (caching[p].todo # <<>> /\ Head(caching[p].todo) = Root)
\* Before the owner's copy goes, and before it asks for a proof of custody,
\* enough devices are backed.
EnoughBacked ==
  (Holds(Owner, Root) /\ proofs = {}) \/ Cardinality(BackedHosts) >= MinReplicas
Kept == NothingDeleted /\ ReceiptsBacked /\ BooksBacked /\ TransfersBacked /\ EnoughBacked
InCustodyInv == CustodyTypeOK /\ (~withdrawn => Kept)

\* Disks that are lost and may still be lost are too few to take all replicas.
FewLost == Cardinality(lost) + budget["losses"] < MinReplicas

\* Who is counted is backed.
LEMMA CountedHold == InCustodyInv => CountedHoldersHold
BY DEF InCustodyInv, Kept, BooksBacked, Backed, CountedHoldersHold, Holders, Tracked

\* Few enough disks are lost that one of the backed devices has the root.
LEMMA RootIsHeld == InCustodyInv /\ FewLost => RootNeverLost
<1> SUFFICES ASSUME InCustodyInv, FewLost, ~withdrawn PROVE InCustody(Root)
  BY DEF RootNeverLost
<1>1. CASE Holds(Owner, Root)
  BY <1>1 DEF InCustody
<1>2. CASE Cardinality(BackedHosts) >= MinReplicas
  <2>1. IsFiniteSet(lost) /\ IsFiniteSet(BackedHosts)
    BY CustodyAssumption, FS_Subset DEF InCustodyInv, CustodyTypeOK, StoresTyped, BackedHosts
  <2>2. Cardinality(lost) \in Nat /\ Cardinality(BackedHosts) \in Nat
    BY <2>1, FS_CardinalityType
  <2>3. budget["losses"] \in Nat
    BY DEF InCustodyInv, CustodyTypeOK, EvidenceTyped, Events
  <2>4. ~(BackedHosts \subseteq lost)
    <3> SUFFICES ASSUME BackedHosts \subseteq lost PROVE FALSE
      OBVIOUS
    <3>1. Cardinality(BackedHosts) <= Cardinality(lost)
      BY <2>1, FS_Subset
    <3> QED BY <1>2, <2>2, <2>3, <3>1, Constants DEF FewLost
  <2> QED BY <2>4 DEF BackedHosts, Backed, InCustody
<1> QED BY <1>1, <1>2 DEF InCustodyInv, Kept, EnoughBacked

\* Backed devices stay backed, so they only get more.
LEMMA MoreBacked ==
  ASSUME InCustodyInv, CustodyTypeOK', \A d \in Hosts : Backed(d) => Backed(d)'
  PROVE  Cardinality(BackedHosts) >= MinReplicas => Cardinality(BackedHosts') >= MinReplicas
<1>1. BackedHosts \subseteq BackedHosts' /\ IsFiniteSet(BackedHosts')
  BY CustodyAssumption, FS_Subset DEF BackedHosts
<1>2. IsFiniteSet(BackedHosts) /\ Cardinality(BackedHosts) <= Cardinality(BackedHosts')
  BY <1>1, FS_Subset
<1> QED BY <1>1, <1>2, FS_CardinalityType, Constants

\* A proof of custody is asked for once enough of the confirmed are backed.
LEMMA ProofsBegin ==
  ASSUME NEW p \in Providers, InCustodyInv, ~withdrawn, Tracked, Confirm(p), BooksTyped',
         Backed(DeviceOf[p]), UNCHANGED <<disk, lost, withdrawn>>
  PROVE  BooksBacked' /\ EnoughBacked'
<1>1. confirmed' = confirmed \cup {p} /\ savedConfirmed' = confirmed' /\ confirmed \in SUBSET Providers
  BY DEF Confirm, InCustodyInv, CustodyTypeOK, BooksTyped, Tracked
<1>2. \A q \in confirmed' : Backed(DeviceOf[q])
  BY <1>1 DEF InCustodyInv, Kept, BooksBacked, Tracked
<1>3. BackedHosts' = BackedHosts /\ \A d \in Hosts : Backed(d)' = Backed(d)
  BY DEF BackedHosts, Backed, Holds
<1>4. BooksBacked'
  BY <1>1, <1>2, <1>3, Constants DEF BooksBacked
<1>5. EnoughBacked'
  <2> DEFINE live == {q \in confirmed' : fails'[q] < FailuresBeforeEviction /\ seen'[q]}
  <2>1. CASE proofs' = proofs
    BY <1>3, <2>1 DEF InCustodyInv, Kept, EnoughBacked, Holds
  <2>2. CASE proofs' # proofs
    <3>1. Cardinality(Domains(live)) >= MinReplicas
      BY <2>2 DEF Confirm, MayRelease
    <3>2. Domains(live) \subseteq BackedHosts
      BY <1>1, <1>2, Constants DEF Domains, BackedHosts
    <3>3. IsFiniteSet(BackedHosts)
      BY CustodyAssumption, FS_Subset DEF BackedHosts
    <3>4. Cardinality(BackedHosts) >= MinReplicas
      <4>1. IsFiniteSet(Domains(live)) /\ Cardinality(Domains(live)) <= Cardinality(BackedHosts)
        BY <3>2, <3>3, FS_Subset
      <4> QED BY <3>1, <3>3, <4>1, FS_CardinalityType, Constants
    <3> QED BY <1>3, <3>4 DEF EnoughBacked
  <2> QED BY <2>1, <2>2
<1> QED BY <1>4, <1>5


\* No step but the loss of a disk loses one.
LEMMA LossesStep ==
  ASSUME InCustodyInv, CustodyNext
  PROVE  \/ lost' = lost /\ budget'["losses"] = budget["losses"]
         \/ \E d \in Hosts : LoseDisk(d)
<1> USE DEF InCustodyInv, CustodyTypeOK, EvidenceTyped, Strikes, Events, faultVars
<1>1. CASE Publish \/ Repair \/ ShedSurplus \/ WarmupEnds
  BY <1>1 DEF Publish, Repair, ShedSurplus, WarmupEnds
<1>2. CASE DemandChanges \/ Withdraw \/ OwnerReload
  BY <1>2 DEF DemandChanges, Withdraw, OwnerReload
<1>3. ASSUME NEW p \in Providers, ProviderRegisters(p) \/ LeaseLapses(p)
      PROVE  lost' = lost /\ budget'["losses"] = budget["losses"]
  BY <1>3 DEF ProviderRegisters, LeaseLapses
<1>4. ASSUME NEW p \in Providers, NEW c \in Pushed, PushArrives(p, c)
      PROVE  lost' = lost /\ budget' = budget
  BY <1>4 DEF PushArrives
<1>5. ASSUME NEW p \in Providers,
             HandleReceipt(p) \/ SpotCheck(p) \/ LoseMessage(p) \/ HandleCacheRequest(p)
               \/ CacheBlock(p) \/ CacheDone(p)
      PROVE  lost' = lost /\ budget' = budget
  BY <1>5 DEF HandleReceipt, SpotCheck, LoseMessage, HandleCacheRequest, CacheBlock, CacheDone
<1>6. ASSUME NEW pr \in proofs, NEW p \in Providers, ProofAnswer(pr, p)
      PROVE  lost' = lost /\ budget' = budget
  BY <1>6 DEF ProofAnswer
<1>7. ASSUME NEW pr \in proofs, ReleasePublisherCopy(pr)
      PROVE  lost' = lost /\ budget' = budget
  BY <1>7 DEF ReleasePublisherCopy
<1>8. ASSUME NEW c \in Blocks, OwnerReads(c)
      PROVE  lost' = lost /\ budget' = budget
  BY <1>8 DEF OwnerReads
<1>9. ASSUME NEW d \in Hosts, HandleDeleteRequest(d) \/ GoOffline(d) \/ ComeBack(d)
      PROVE  lost' = lost /\ budget'["losses"] = budget["losses"]
  BY <1>9 DEF HandleDeleteRequest, GoOffline, ComeBack
<1> QED
  BY <1>1, <1>2, <1>3, <1>4, <1>5, <1>6, <1>7, <1>8, <1>9 DEF CustodyNext

\* The bound on losses is spent as the disks go.
LEMMA FewLostStep == ASSUME InCustodyInv, FewLost, CustodyNext PROVE FewLost'
<1>1. budget["losses"] \in Nat /\ IsFiniteSet(lost)
  BY CustodyAssumption, FS_Subset DEF InCustodyInv, CustodyTypeOK, EvidenceTyped, StoresTyped, Events
<1>2. CASE lost' = lost /\ budget'["losses"] = budget["losses"]
  BY <1>2 DEF FewLost
<1>3. ASSUME NEW d \in Hosts, LoseDisk(d) PROVE FewLost'
  <2>1. lost' = lost \cup {d} /\ budget["losses"] > 0 /\ budget'["losses"] = budget["losses"] - 1
    BY <1>3 DEF LoseDisk, Strikes, InCustodyInv, CustodyTypeOK, EvidenceTyped, Events
  <2>2. Cardinality(lost') <= Cardinality(lost) + 1 /\ Cardinality(lost) \in Nat /\ Cardinality(lost') \in Nat
    <3>1. IsFiniteSet(lost') /\ Cardinality(lost') \in {Cardinality(lost), Cardinality(lost) + 1}
      BY <1>1, <2>1, FS_AddElement
    <3> QED BY <1>1, <3>1, FS_CardinalityType
  <2> QED BY <1>1, <2>1, <2>2, Constants DEF FewLost
<1> QED BY <1>2, <1>3, LossesStep


\* Nothing happened to what keeps the file: no disk, no message that matters, no
\* book, transfer or proof of custody.
custodyFacts == <<disk, lost, deletes, receipts, confirmed, savedConfirmed, caching, proofs>>
LEMMA NothingHappened == ASSUME Kept, UNCHANGED custodyFacts PROVE Kept'
BY DEF custodyFacts, Kept, NothingDeleted, ReceiptsBacked, BooksBacked, TransfersBacked, EnoughBacked,
       BackedHosts, Backed, Holds

\* A step of the books alone that enters no provider in them, forgets the
\* proofs of custody or none, and loses receipts at most.
LEMMA BooksShrink ==
  ASSUME InCustodyInv, Kept, UNCHANGED <<disk, lost, deletes, caching>>,
         receipts' \subseteq receipts, proofs' \in {proofs, {}},
         \A S \in {confirmed', savedConfirmed'} :
           S # Untracked => \/ S = {}
                            \/ confirmed # Untracked /\ S \subseteq confirmed
                            \/ savedConfirmed # Untracked /\ S \subseteq savedConfirmed
  PROVE  Kept'
<1>1. \A d : Backed(d)' = Backed(d)
  BY DEF Backed, Holds
<1>2. BooksBacked'
  BY <1>1 DEF Kept, BooksBacked
<1>3. EnoughBacked'
  BY DEF Kept, EnoughBacked, BackedHosts, Backed, Holds
<1>4. NothingDeleted' /\ ReceiptsBacked' /\ TransfersBacked'
  BY <1>1 DEF Kept, NothingDeleted, ReceiptsBacked, TransfersBacked
<1> QED BY <1>2, <1>3, <1>4 DEF Kept

\* distributeContent leaves the holders it finds in the books.
LEMMA DistributeKeeps ==
  ASSUME NEW C, DistributeContent(C)
  PROVE  \A S \in {confirmed', savedConfirmed'} : S = {} \/ (confirmed # Untracked /\ S = confirmed)
BY DEF DistributeContent, Holders, Tracked

\* What one step of the network leaves of a file that is not withdrawn.
LEMMA KeptStep == ASSUME InCustodyInv, CustodyNext, CustodyTypeOK', ~withdrawn, ~withdrawn' PROVE Kept'
<1>0. Kept
  BY DEF InCustodyInv
<1> USE <1>0 DEF faultVars
<1>1. CASE Publish
  BY <1>1, DistributeKeeps, BooksShrink DEF Publish
<1>2. CASE DemandChanges \/ WarmupEnds
  BY <1>2, NothingHappened DEF DemandChanges, WarmupEnds, custodyFacts, wireVars, ownerVars
<1>3. CASE Repair
  <2>1. confirmed # Untracked /\ confirmed' \subseteq confirmed
    BY <1>3 DEF Repair, Tracked, KeptHolders
  <2> QED BY <1>3, <2>1, BooksShrink DEF Repair
<1>4. CASE ShedSurplus
  <2>1. confirmed # Untracked /\ confirmed' \subseteq confirmed /\ savedConfirmed' \subseteq confirmed
    BY <1>4 DEF ShedSurplus, Tracked
  <2> QED BY <1>4, <2>1, BooksShrink DEF ShedSurplus, wireVars
<1>5. CASE Withdraw
  BY <1>5 DEF Withdraw
<1>6. CASE OwnerReload
  BY <1>6, BooksShrink DEF OwnerReload
<1>7. ASSUME NEW p \in Providers, ProviderRegisters(p) PROVE Kept'
  <2>1. CASE pendingCids
    BY <1>7, <2>1, DistributeKeeps, BooksShrink DEF ProviderRegisters
  <2>2. CASE ~pendingCids
    BY <1>7, <2>2, NothingHappened DEF ProviderRegisters, custodyFacts
  <2> QED BY <2>1, <2>2
<1>8. ASSUME NEW p \in Providers, HandleReceipt(p) PROVE Kept'
  <2>1. CASE Tracked
    <3>1. Backed(DeviceOf[p])
      BY <1>8 DEF HandleReceipt, Kept, ReceiptsBacked
    <3>2. BooksBacked' /\ EnoughBacked'
      BY <1>8, <2>1, <3>1, ProofsBegin DEF HandleReceipt, CustodyTypeOK
    <3>3. NothingDeleted' /\ ReceiptsBacked' /\ TransfersBacked'
      BY <1>8 DEF HandleReceipt, Kept, NothingDeleted, ReceiptsBacked, TransfersBacked, Backed, Holds
    <3> QED BY <3>2, <3>3 DEF Kept
  <2>2. CASE ~Tracked
    BY <1>8, <2>2, BooksShrink DEF HandleReceipt
  <2> QED BY <2>1, <2>2
<1>9. ASSUME NEW p \in Providers, SpotCheck(p) PROVE Kept'
  <2>1. CASE Serves(DeviceOf[p], Root) /\ Confirm(p)
    <3>1. BooksBacked' /\ EnoughBacked'
      BY <1>9, <2>1, ProofsBegin DEF SpotCheck, CustodyTypeOK, Serves, Backed
    <3>2. NothingDeleted' /\ ReceiptsBacked' /\ TransfersBacked'
      BY <1>9 DEF SpotCheck, wireVars, Kept, NothingDeleted, ReceiptsBacked, TransfersBacked, Backed, Holds
    <3> QED BY <3>1, <3>2 DEF Kept
  <2>2. CASE ~(Serves(DeviceOf[p], Root) /\ Confirm(p))
    <3>1. confirmed # Untracked /\ confirmed' \subseteq confirmed /\ UNCHANGED <<savedConfirmed, proofs>>
      BY <1>9, <2>2 DEF SpotCheck, Tracked
    <3> QED BY <1>9, <3>1, BooksShrink DEF SpotCheck, wireVars
  <2> QED BY <2>1, <2>2
<1>10. ASSUME NEW p \in Providers, LeaseLapses(p) PROVE Kept'
  BY <1>10, NothingHappened DEF LeaseLapses, custodyFacts, wireVars, ownerVars
<1>11. ASSUME NEW p \in Providers, LoseMessage(p) PROVE Kept'
  BY <1>11, BooksShrink DEF LoseMessage, ownerVars
<1>12. ASSUME NEW p \in Providers, HandleCacheRequest(p) PROVE Kept'
  <2> DEFINE begun == [todo |-> <<Root>> \o Parts, failed |-> FALSE, busy |-> TRUE]
  <2>1. begun.todo # <<>> /\ Head(begun.todo) = Root
    BY CustodyAssumption
  <2>2. \A q \in Providers : caching'[q] = caching[q] \/ caching'[q] = begun
    BY <1>12 DEF HandleCacheRequest, InCustodyInv, CustodyTypeOK, WireTyped
  <2>3. TransfersBacked'
    <3> HIDE DEF begun
    <3> QED BY <1>12, <2>1, <2>2 DEF HandleCacheRequest, Kept, TransfersBacked, Backed, Holds
  <2> QED BY <1>12, <2>3 DEF HandleCacheRequest, ownerVars, Kept, NothingDeleted, ReceiptsBacked,
             BooksBacked, EnoughBacked, BackedHosts, Backed, Holds
<1>13. ASSUME NEW p \in Providers, CacheBlock(p) PROVE Kept'
  <2> DEFINE t == caching[p]
             c == Head(t.todo)
  <2>1. t \in Transfers /\ t.busy /\ t.todo # <<>> /\ c \in Blocks /\ DeviceOf[p] \in Hosts
    <3>1. t \in Transfers /\ t.busy /\ t.todo # <<>>
      BY <1>13 DEF CacheBlock, InCustodyInv, CustodyTypeOK, WireTyped
    <3> QED BY <3>1, Constants DEF Transfers
  <2>2. \A d \in Hosts \cup {Owner} : Holds(d, Root) => Holds(d, Root)'
    BY <1>13 DEF CacheBlock, Holds, InCustodyInv, CustodyTypeOK, StoresTyped
  <2>3. \A d \in Hosts : Backed(d) => Backed(d)'
    BY <1>13, <2>2 DEF CacheBlock, Backed
  <2>4. ~caching'[p].failed => ~t.failed /\ c \in disk'[DeviceOf[p]]
    <3> DEFINE missed == [[t EXCEPT !.todo = Tail(@)] EXCEPT !.failed = TRUE]
               fetched == [t EXCEPT !.todo = Tail(@)]
    <3>1. missed.failed /\ fetched.failed = t.failed
      BY <2>1 DEF Transfers
    <3>2. \/ c \in disk'[DeviceOf[p]] /\ caching'[p] = fetched
          \/ caching'[p] = missed
      <4> HIDE DEF missed, fetched
      <4>1. \/ disk' = [disk EXCEPT ![DeviceOf[p]] = @ \cup {c}] /\ caching' = [caching EXCEPT ![p] = fetched]
            \/ caching' = [caching EXCEPT ![p] = missed]
        BY <1>13 DEF CacheBlock, missed, fetched
      <4> QED BY <2>1, <4>1 DEF InCustodyInv, CustodyTypeOK, StoresTyped, WireTyped
    <3> QED BY <3>1, <3>2
  <2>5. ~caching'[p].failed => Backed(DeviceOf[p])'
    <3>1. ~t.failed => Backed(DeviceOf[p]) \/ c = Root
      BY <2>1 DEF Kept, TransfersBacked
    <3>2. CASE Backed(DeviceOf[p])
      BY <2>1, <2>3, <3>2
    <3>3. CASE c = Root
      BY <2>4, <3>3 DEF Backed, Holds
    <3> QED BY <2>4, <3>1, <3>2, <3>3
  <2>6. \A q \in Providers : q # p => caching'[q] = caching[q]
    BY <1>13 DEF CacheBlock, InCustodyInv, CustodyTypeOK, WireTyped
  <2>7. TransfersBacked'
    BY <2>3, <2>5, <2>6, Constants DEF Kept, TransfersBacked
  <2>8. NothingDeleted' /\ ReceiptsBacked' /\ BooksBacked'
    BY <1>13, <2>3, Constants DEF CacheBlock, wireVars, ownerVars, Kept, NothingDeleted, ReceiptsBacked, BooksBacked,
       InCustodyInv, CustodyTypeOK, WireTyped, BooksTyped
  <2>9. EnoughBacked'
    BY <1>13, <2>2, <2>3, MoreBacked DEF CacheBlock, ownerVars, Kept, EnoughBacked
  <2> QED BY <2>7, <2>8, <2>9 DEF Kept
<1>14. ASSUME NEW p \in Providers, CacheDone(p) PROVE Kept'
  <2>1. \A q \in Providers : caching'[q] = caching[q] \/ ~caching'[q].busy
    BY <1>14, Constants DEF CacheDone, InCustodyInv, CustodyTypeOK, WireTyped
  <2>2. ~caching[p].failed => Backed(DeviceOf[p])
    BY <1>14 DEF CacheDone, Kept, TransfersBacked
  <2>3. ReceiptsBacked' /\ TransfersBacked'
    BY <1>14, <2>1, <2>2 DEF CacheDone, ReceiptDue, Kept, ReceiptsBacked, TransfersBacked, Backed, Holds
  <2> QED BY <1>14, <2>3 DEF CacheDone, ownerVars, Kept, NothingDeleted, BooksBacked, EnoughBacked,
             BackedHosts, Backed, Holds
<1>15. ASSUME NEW p \in Providers, NEW c \in Pushed, PushArrives(p, c) PROVE Kept'
  <2>1. \A d \in Hosts \cup {Owner} : Holds(d, Root) => Holds(d, Root)'
    BY <1>15, Constants DEF PushArrives, Holds, InCustodyInv, CustodyTypeOK, StoresTyped
  <2>2. \A d \in Hosts : Backed(d) => Backed(d)'
    BY <1>15, <2>1 DEF PushArrives, Backed
  <2>3. ReceiptsBacked'
    <3>1. receipts' \subseteq receipts \cup {p} /\ (receipts' # receipts => Holds(DeviceOf[p], Root)')
      BY <1>15, Constants DEF PushArrives, Holds, InCustodyInv, CustodyTypeOK, StoresTyped
    <3> QED BY <2>2, <3>1, Constants DEF Kept, ReceiptsBacked, Backed, InCustodyInv, CustodyTypeOK, WireTyped
  <2>4. NothingDeleted' /\ BooksBacked' /\ TransfersBacked'
    BY <1>15, <2>2, Constants DEF PushArrives, ownerVars, Kept, NothingDeleted, BooksBacked, TransfersBacked,
       InCustodyInv, CustodyTypeOK, BooksTyped
  <2>5. EnoughBacked'
    BY <1>15, <2>1, <2>2, MoreBacked DEF PushArrives, ownerVars, Kept, EnoughBacked
  <2> QED BY <2>3, <2>4, <2>5 DEF Kept
<1>16. ASSUME NEW pr \in proofs, ReleasePublisherCopy(pr) PROVE Kept'
  <2>1. \A d \in Hosts : Backed(d)' = Backed(d)
    BY <1>16, CustodyAssumption DEF ReleasePublisherCopy, Backed, Holds, InCustodyInv, CustodyTypeOK, StoresTyped
  <2>2. EnoughBacked'
    BY <2>1, MoreBacked DEF Kept, EnoughBacked
  <2> QED BY <1>16, <2>1, <2>2, Constants DEF ReleasePublisherCopy, wireVars, Kept, NothingDeleted,
             ReceiptsBacked, BooksBacked, TransfersBacked, InCustodyInv, CustodyTypeOK, WireTyped, BooksTyped
<1>17. ASSUME NEW pr \in proofs, NEW p \in Providers, ProofAnswer(pr, p) PROVE Kept'
  <2>1. EnoughBacked'
    BY <1>17 DEF ProofAnswer, Kept, EnoughBacked, BackedHosts, Backed, Holds
  <2> QED BY <1>17, <2>1 DEF ProofAnswer, wireVars, Kept, NothingDeleted, ReceiptsBacked, BooksBacked,
             TransfersBacked, Backed, Holds
<1>18. ASSUME NEW c \in Blocks, OwnerReads(c) PROVE Kept'
  <2>1. \A d \in Hosts \cup {Owner} : Holds(d, Root) => Holds(d, Root)'
    BY <1>18 DEF OwnerReads, Holds, InCustodyInv, CustodyTypeOK, StoresTyped
  <2>2. \A d \in Hosts : Backed(d) => Backed(d)'
    BY <1>18, <2>1 DEF OwnerReads, Backed
  <2>3. EnoughBacked'
    BY <1>18, <2>1, <2>2, MoreBacked DEF OwnerReads, ownerVars, Kept, EnoughBacked
  <2> QED BY <1>18, <2>2, <2>3, Constants DEF OwnerReads, wireVars, ownerVars, Kept, NothingDeleted,
             ReceiptsBacked, BooksBacked, TransfersBacked, InCustodyInv, CustodyTypeOK, WireTyped, BooksTyped
<1>19. ASSUME NEW d \in Hosts, HandleDeleteRequest(d) PROVE Kept'
  BY <1>19 DEF HandleDeleteRequest, Kept, NothingDeleted
<1>20. ASSUME NEW d \in Hosts, GoOffline(d) PROVE Kept'
  <2>1. \A q \in Providers : caching'[q] = caching[q] \/ ~caching'[q].busy
    BY <1>20, Constants DEF GoOffline
  <2>2. TransfersBacked'
    BY <1>20, <2>1 DEF GoOffline, Kept, TransfersBacked, Backed, Holds
  <2> QED BY <1>20, <2>2 DEF GoOffline, wireVars, ownerVars, Kept, NothingDeleted, ReceiptsBacked, BooksBacked,
             EnoughBacked, BackedHosts, Backed, Holds
<1>21. ASSUME NEW d \in Hosts, ComeBack(d) PROVE Kept'
  BY <1>21, NothingHappened DEF ComeBack, custodyFacts, wireVars, ownerVars
<1>22. ASSUME NEW d \in Hosts, LoseDisk(d) PROVE Kept'
  <2>1. \A e \in Hosts : Backed(e) => Backed(e)'
    BY <1>22 DEF LoseDisk, Backed, Holds, InCustodyInv, CustodyTypeOK, StoresTyped
  <2>2. Holds(Owner, Root)' = Holds(Owner, Root)
    BY <1>22, CustodyAssumption DEF LoseDisk, Holds, InCustodyInv, CustodyTypeOK, StoresTyped
  <2>3. EnoughBacked'
    BY <1>22, <2>1, <2>2, MoreBacked DEF LoseDisk, ownerVars, Kept, EnoughBacked
  <2> QED BY <1>22, <2>1, <2>3, Constants DEF LoseDisk, wireVars, ownerVars, Kept, NothingDeleted,
             ReceiptsBacked, BooksBacked, TransfersBacked, InCustodyInv, CustodyTypeOK, WireTyped, BooksTyped
<1> QED
  BY <1>1, <1>2, <1>3, <1>4, <1>5, <1>6, <1>7, <1>8, <1>9, <1>10, <1>11, <1>12, <1>13, <1>14, <1>15,
     <1>16, <1>17, <1>18, <1>19, <1>20, <1>21, <1>22 DEF CustodyNext


\* A file that was withdrawn stays withdrawn.
LEMMA WithdrawnStays == ASSUME CustodyNext, CustodyTypeOK PROVE withdrawn => withdrawn'
<1>1. CASE Withdraw
  BY <1>1 DEF Withdraw
<1>2. CASE ~Withdraw
  BY <1>2 DEF CustodyNext, Publish, DemandChanges, Repair, ShedSurplus, OwnerReload, WarmupEnds, ProviderRegisters,
     HandleReceipt, SpotCheck, LeaseLapses, LoseMessage, HandleCacheRequest, CacheBlock, CacheDone,
     PushArrives, ReleasePublisherCopy, ProofAnswer, OwnerReads, HandleDeleteRequest, GoOffline, ComeBack,
     LoseDisk, ownerVars
<1> QED BY <1>1, <1>2

LEMMA CustodyInitInv == ASSUME CustodyInit PROVE InCustodyInv
<1>1. CustodyTypeOK
  BY TypesInit
<1>2. Kept
  BY Constants DEF CustodyInit, Kept, NothingDeleted, ReceiptsBacked, BooksBacked, TransfersBacked, EnoughBacked,
     Holds
<1> QED BY <1>1, <1>2 DEF InCustodyInv

LEMMA CustodyStep == ASSUME InCustodyInv, [CustodyNext]_custodyVars PROVE InCustodyInv'
<1>1. CASE CustodyNext
  <2>1. CustodyTypeOK'
    BY <1>1, TypesStep DEF InCustodyInv
  <2>2. ~withdrawn' => ~withdrawn
    BY <1>1, WithdrawnStays DEF InCustodyInv
  <2> QED BY <1>1, <2>1, <2>2, KeptStep DEF InCustodyInv
<1>2. CASE UNCHANGED custodyVars
  <2>1. CustodyTypeOK'
    BY <1>2 DEF custodyVars, wireVars, ownerVars, evidenceVars, faultVars, InCustodyInv, CustodyTypeOK,
       StoresTyped, WireTyped, BooksTyped, EvidenceTyped
  <2>2. withdrawn' = withdrawn /\ (Kept => Kept')
    BY <1>2, NothingHappened DEF custodyVars, wireVars, ownerVars, faultVars, custodyFacts
  <2> QED BY <2>1, <2>2 DEF InCustodyInv
<1> QED BY <1>1, <1>2

(* The custody of a published file, for any set of providers and devices    *)
(* and any replication: until it is withdrawn, whoever is in the owner's    *)
(* books had the root, and the owner's copy goes only when enough devices   *)
(* had it (storage-manager.ts handleReceipt, runSpotChecks,                 *)
(* releasePublisherCopy).                                                   *)
THEOREM CustodyKept == CustodySpec => []InCustodyInv
<1>1. CustodyInit => InCustodyInv
  BY CustodyInitInv
<1>2. InCustodyInv /\ [CustodyNext]_custodyVars => InCustodyInv'
  BY CustodyStep
<1> QED BY <1>1, <1>2, PTL DEF CustodySpec

(* The owner counts no provider that never had the root (storage-manager.ts *)
(* handleReceipt, runSpotChecks).                                           *)
THEOREM CountedAreBacked == CustodySpec => []CountedHoldersHold
BY CustodyKept, CountedHold, PTL

(* The root of a published file that was not withdrawn is on some disk, the *)
(* owner's or a provider's, through lost gossip, reloads, evictions, lapsed *)
(* leases, surplus copies shed and lost disks, as long as fewer disks are   *)
(* lost than there are replicas (storage-manager.ts releasePublisherCopy).  *)
THEOREM RootIsNeverLost == ASSUME FewLosses PROVE CustodySpec => []RootNeverLost
<1>1. CustodyInit => FewLost
  BY FS_EmptySet, Constants, CustodyAssumption DEF FewLosses, CustodyInit, FewLost, Events
<1>2. InCustodyInv /\ FewLost /\ [CustodyNext]_custodyVars => FewLost'
  <2>1. ASSUME FewLost, UNCHANGED custodyVars PROVE FewLost'
    BY <2>1 DEF FewLost, custodyVars, faultVars
  <2> QED BY <2>1, FewLostStep
<1> QED BY <1>1, <1>2, CustodyKept, RootIsHeld, PTL DEF CustodySpec
================================================================================
