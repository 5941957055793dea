----------------------------- MODULE TableProofs -----------------------------
(***************************************************************************)
(* What TLAPS proves of the pure tables, OsFingerprint and                 *)
(* DeviceClassifier: some signature is the best, and some type.            *)
(***************************************************************************)
EXTENDS OsFingerprint, DeviceClassifier, TLAPS

LEMMA BestOfFive ==
    ASSUME NEW f \in [1 .. 5 -> Nat]
    PROVE  FirstBestOf(f) \in 1 .. 5
  <1> DEFINE Best(i) == \A j \in 1 .. 5 : f[j] < f[i] \/ (f[j] = f[i] /\ i <= j)
  <1>1. \E i \in 1 .. 5 : Best(i)
    <2>1. /\ f[1] \in Nat /\ f[2] \in Nat /\ f[3] \in Nat /\ f[4] \in Nat /\ f[5] \in Nat
          /\ \A j \in 1 .. 5 : j = 1 \/ j = 2 \/ j = 3 \/ j = 4 \/ j = 5
      OBVIOUS
    <2>2. Best(1) \/ Best(2) \/ Best(3) \/ Best(4) \/ Best(5)
      BY <2>1
    <2> QED
      BY <2>2
  <1> QED
    BY <1>1 DEF FirstBestOf

LEMMA BestOfSix ==
    ASSUME NEW f \in [1 .. 6 -> Nat]
    PROVE  /\ FirstBest(f) \in 1 .. 6
           /\ \A j \in 1 .. 6 : f[j] <= f[FirstBest(f)]
  <1> DEFINE Best(i) == \A j \in 1 .. 6 : f[j] < f[i] \/ (f[j] = f[i] /\ i <= j)
  <1>1. \E i \in 1 .. 6 : Best(i)
    <2>1. /\ f[1] \in Nat /\ f[2] \in Nat /\ f[3] \in Nat
          /\ f[4] \in Nat /\ f[5] \in Nat /\ f[6] \in Nat
          /\ \A j \in 1 .. 6 : j = 1 \/ j = 2 \/ j = 3 \/ j = 4 \/ j = 5 \/ j = 6
      OBVIOUS
    <2>2. Best(1) \/ Best(2) \/ Best(3) \/ Best(4) \/ Best(5) \/ Best(6)
      BY <2>1
    <2> QED
      BY <2>2
  <1>2. FirstBest(f) \in 1 .. 6 /\ Best(FirstBest(f))
    BY <1>1 DEF FirstBest
  <1> QED
    BY <1>2

\* A fingerprint names a signature, with a confidence of at most one.
LEMMA FingerprintIsGuess ==
    ASSUME NEW syn \in Syn
    PROVE  /\ Fingerprint(syn).os \in SignatureNames
           /\ Fingerprint(syn).confidence \in 0 .. 12
  <1> DEFINE scores == [i \in 1 .. 5 |-> Score(Signatures[i], syn)]
             best == FirstBestOf(scores)
  <1>1. \A i \in 1 .. 5 : Score(Signatures[i], syn) \in 0 .. 12
    BY DEF Score, Points
  <1>2. scores \in [1 .. 5 -> Nat]
    BY <1>1
  <1>3. best \in 1 .. 5
    BY <1>2, BestOfFive
  <1>4. \A i \in 1 .. 5 : Signatures[i].name \in SignatureNames
    BY DEF Signatures, SignatureNames
  <1> QED
    BY <1>1, <1>3, <1>4 DEF Fingerprint

\* A classification is a type, and three votes for an industrial protocol
\* weigh in it.
LEMMA ClassifyIsGuess ==
    ASSUME NEW vendor, NEW host, NEW os, NEW ot \in BOOLEAN, NEW count
    PROVE  /\ Classify(vendor, host, os, ot, count).type \in Types
           /\ Classify(vendor, host, os, ot, count).score \in 0 .. 8
           /\ ot => Classify(vendor, host, os, ot, count).score >= 6
  <1> DEFINE category == <<VendorCategory(vendor), HostCategory(host)>>
             halves == [i \in 1 .. 6 |->
                           Votes(Order[i], category[1], category[2], os, ot, count)]
             best == FirstBest(halves)
  <1>1. \A type, v, h : Votes(type, v, h, os, ot, count) \in Nat
    <2>1. \A for, type : \A n \in Nat : Vote(for, type, n) \in Nat
      BY DEF Vote
    <2> QED
      BY <2>1 DEF Votes
  <1>2. halves \in [1 .. 6 -> Nat]
    BY <1>1
  <1>3. /\ best \in 1 .. 6
        /\ \A j \in 1 .. 6 : halves[j] <= halves[best]
    BY <1>2, BestOfSix
  <1>4. ot => \E j \in 1 .. 6 : halves[j] >= 6
    <2> SUFFICES ASSUME ot
                 PROVE  \E j \in 1 .. 6 : halves[j] >= 6
      OBVIOUS
    <2>1. \E j \in 1 .. 6 : Order[j] = IndustrialType(os)
      BY DEF Order, IndustrialType
    <2>2. \A v, h : Votes(IndustrialType(os), v, h, os, ot, count) >= 6
      <3>1. \A for, type : \A n \in Nat : Vote(for, type, n) \in Nat
        BY DEF Vote
      <3>2. Vote(IndustrialType(os), IndustrialType(os), 6) = 6
        BY DEF Vote
      <3> QED
        BY <3>1, <3>2 DEF Votes
    <2> QED
      BY <2>1, <2>2
  <1>5. Order[best] \in Types
    BY <1>3 DEF Order, Types
  <1>6. Classify(vendor, host, os, ot, count) =
           IF halves[best] = 0 THEN [type |-> "other", score |-> 0]
           ELSE [type |-> Order[best], score |-> Capped(halves[best])]
    BY DEF Classify
  <1>7. halves[best] \in Nat
    BY <1>2, <1>3
  <1>8. ot => halves[best] >= 6
    <2> SUFFICES ASSUME ot
                 PROVE  halves[best] >= 6
      OBVIOUS
    <2>1. PICK j \in 1 .. 6 : halves[j] >= 6
      BY <1>4
    <2>2. halves[j] \in Nat /\ halves[j] <= halves[best]
      BY <1>2, <1>3
    <2> HIDE DEF best, halves
    <2> QED
      BY <2>1, <2>2, <1>7
  <1> HIDE DEF best, halves
  <1>9. CASE halves[best] = 0
    BY <1>6, <1>8, <1>9 DEF Types
  <1>10. CASE halves[best] # 0
    BY <1>5, <1>6, <1>7, <1>8, <1>10 DEF Capped
  <1> QED
    BY <1>9, <1>10
=============================================================================
