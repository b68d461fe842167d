--------------------------- MODULE FlashProgProofs ---------------------------
(***************************************************************************)
(* Proofs about FlashProg, for every number of blocks, every archive and   *)
(* every set of bad blocks.  The types hold for each kind of flash, what   *)
(* is said about the content for each but worn NAND.                       *)
(***************************************************************************)
EXTENDS FlashProg, FiniteSetTheorems, TLAPS

AtSector == pc \in {"check", "erase", "write", "verify"}

\* Where the four positions are.  They only part on NAND: a block that wears
\* out moves epos alone, and a retry of the last sector opos by half a block.
Positions ==
  /\ pc \in {"read", "check", "erase", "write", "verify"} =>
       /\ op = "save" /\ size <= End
       /\ vpos <= epos /\ opos <= End + 2 * BlockOf(epos)
  /\ AtSector => sec >= 1 /\ 2 * (sec - 1) < size /\ Aligned(vpos)
  /\ pc \in {"erase", "write", "verify"} => epos < End
  /\ pc = "read" => Aligned(vpos) \/ 2 * sec >= size
  /\ pc = "verify" => opos >= Nread
  /\ pc = "delete" => op = "delete" /\ epos = 2 * sec /\ sec <= Blocks - 1

\* On NOR flash there are no bad blocks and no skips.
OnNor ==
  ~Nand => /\ bad = {} /\ pc # "check"
           /\ pc = "read" => epos = 2 * sec \/ 2 * sec >= size
           /\ AtSector => epos = 2 * (sec - 1)

TInv == TypeOK /\ Positions /\ OnNor

-----------------------------------------------------------------------------
LEMMA Halves ==
  ASSUME NEW n \in Nat
  PROVE  /\ BlockOf(n) \in Nat /\ 2 * BlockOf(n) <= n /\ n <= 2 * BlockOf(n) + 1
         /\ Aligned(n) <=> n = 2 * BlockOf(n)
         /\ BlockOf(n + 1) \in Nat /\ BlockOf(n + 1) >= BlockOf(n)
         /\ BlockOf(n + 2) = BlockOf(n) + 1
         /\ Aligned(n) <=> Aligned(n + 2)
         /\ Aligned(n) => BlockOf(n + 1) = BlockOf(n)
         /\ n < End => BlockOf(n) \in Block
BY BlocksAssumption DEF BlockOf, Aligned, End, Block

LEMMA Lengths ==
  ASSUME TypeOK
  PROVE  /\ Nread \in 1 .. 2 /\ WriteLength \in 1 .. 2 /\ Nread <= WriteLength
         /\ End \in Nat /\ End = 2 * Blocks /\ Blocks \in Nat /\ Blocks >= 2
         /\ epos \in Nat /\ opos \in Nat /\ vpos \in Nat /\ sec \in Nat /\ size \in Nat
         /\ ~Nand => WriteLength = Nread
         /\ Nread = 1 => 2 * sec > size
         /\ Nread = 2 => 2 * sec <= size
BY BlocksAssumption DEF TypeOK, Nread, WriteLength, End

LEMMA TypesInit == Init => TInv
  <1> SUFFICES ASSUME Init PROVE TInv
    OBVIOUS
  <1> USE BlocksAssumption DEF Init
  <1>1. TypeOK
    BY DEF TypeOK, Old, Garbage, End, PC, Block
  <1>2. Positions
    BY DEF Positions, AtSector
  <1>3. OnNor
    BY DEF OnNor, AtSector
  <1> QED BY <1>1, <1>2, <1>3 DEF TInv

\* The types follow from those of the variables that an action changes.
LEMMA TypesStep == TInv /\ [Next]_vars => TInv'
  <1> SUFFICES ASSUME TInv, [Next]_vars PROVE TInv'
    OBVIOUS
  <1>0. TypeOK /\ Positions /\ OnNor
    BY DEF TInv
  <1>01. /\ Nread \in 1 .. 2 /\ WriteLength \in 1 .. 2 /\ Nread <= WriteLength
         /\ End \in Nat /\ End = 2 * Blocks /\ Blocks \in Nat /\ Blocks >= 2
         /\ epos \in Nat /\ opos \in Nat /\ vpos \in Nat /\ sec \in Nat /\ size \in Nat
         /\ ~Nand => WriteLength = Nread
         /\ Nread = 1 => 2 * sec > size
         /\ Nread = 2 => 2 * sec <= size
    BY <1>0, Lengths
  <1>02. /\ BlockOf(epos) \in Nat /\ 2 * BlockOf(epos) <= epos /\ epos <= 2 * BlockOf(epos) + 1
         /\ BlockOf(epos + 1) \in Nat /\ BlockOf(epos + 1) >= BlockOf(epos)
         /\ BlockOf(epos + 2) = BlockOf(epos) + 1
         /\ epos < End => BlockOf(epos) \in Block
    BY <1>01, Halves
  <1>03. /\ Aligned(vpos) <=> vpos = 2 * BlockOf(vpos)
         /\ Aligned(vpos) <=> Aligned(vpos + 2)
         /\ BlockOf(vpos) \in Nat
    BY <1>01, Halves
  <1>04. /\ chip' = chip /\ (Nand' <=> Nand)
    BY DEF Next, Save, Delete, Tool, Read, CheckBlock, Erase, EraseError, Write, Verify,
           DeleteBlock, Crash, vars, Nand
  <1>05. Block = 0 .. Blocks - 1
    BY DEF Block
  <1>1. ASSUME NEW n \in 1 .. End + 1, Save(n) PROVE TInv'
    <2> USE <1>1 DEF Save, Return
    <2>1. TypeOK'
      BY <1>0, <1>01 DEF TypeOK, Old, Garbage, PC
    <2>2. Positions'
      BY <1>0, <1>01 DEF Positions, AtSector, Aligned, BlockOf
    <2>3. OnNor'
      BY <1>0, <1>04 DEF OnNor, AtSector
    <2> QED BY <2>1, <2>2, <2>3 DEF TInv
  <1>2. CASE Delete
    <2> USE <1>2 DEF Delete
    <2>1. TypeOK'
      BY <1>0, <1>01 DEF TypeOK, PC
    <2>2. Positions'
      BY <1>0, <1>01 DEF Positions, AtSector
    <2>3. OnNor'
      BY <1>0, <1>04 DEF OnNor, AtSector
    <2> QED BY <2>1, <2>2, <2>3 DEF TInv
  <1>3. CASE Read
    <2> USE <1>3 DEF Read, Return
    <2>1. TypeOK'
      BY <1>0, <1>01 DEF TypeOK, PC, Attempt, Positions
    <2>2. Positions'
      BY <1>0, <1>01, <1>02 DEF Positions, AtSector, Attempt, OnNor
    <2>3. OnNor'
      BY <1>0, <1>01, <1>04 DEF OnNor, AtSector, Attempt
    <2> QED BY <2>1, <2>2, <2>3 DEF TInv
  <1>4. CASE CheckBlock
    <2> USE <1>4 DEF CheckBlock, Return, Skip
    <2>1. TypeOK'
      BY <1>0, <1>01, <1>02, <1>03 DEF TypeOK, PC, Positions, AtSector
    <2>2. Positions'
      <3>1. Nread' = Nread
        BY DEF Nread
      <3> QED BY <1>0, <1>01, <1>02, <1>03, <3>1 DEF Positions, AtSector
    <2>3. OnNor'
      BY <1>0, <1>04 DEF OnNor, AtSector
    <2> QED BY <2>1, <2>2, <2>3 DEF TInv
  <1>5. CASE Erase
    <2> USE <1>5 DEF Erase
    <2>1. TypeOK'
      BY <1>0, <1>01, <1>02 DEF TypeOK, PC, Positions, Erased, Garbage
    <2>2. Positions'
      BY <1>0, <1>01 DEF Positions, AtSector
    <2>3. OnNor'
      BY <1>0, <1>04 DEF OnNor, AtSector
    <2> QED BY <2>1, <2>2, <2>3 DEF TInv
  <1>6. CASE EraseError
    <2> USE <1>6 DEF EraseError, Return
    <2>0. epos < End /\ BlockOf(epos) \in Block
      BY <1>0, <1>01, <1>02 DEF Positions
    <2>1. TypeOK'
      <3>1. data' \in [Block -> Garbage .. Blocks]
        BY <1>0, <1>01, <2>0 DEF TypeOK, Garbage
      <3>2. bad' \subseteq Block /\ epos' \in 0 .. End + 1 /\ ret' \in {0, -1} /\ pc' \in PC
        BY <1>0, <1>01, <2>0 DEF TypeOK, PC
      <3> QED BY <1>0, <3>1, <3>2 DEF TypeOK
    <2>2. Positions'
      <3>1. epos' \in Nat /\ epos' >= epos /\ BlockOf(epos') \in Nat /\ BlockOf(epos') >= BlockOf(epos)
        BY <1>01, <1>02
      <3>2. Nread' = Nread
        BY DEF Nread
      <3>3. /\ op' = op /\ size' = size /\ sec' = sec /\ opos' = opos /\ vpos' = vpos
            /\ pc' \in {"idle", "check"} /\ pc = "erase"
        OBVIOUS
      <3> QED BY <1>0, <1>01, <1>02, <3>1, <3>3 DEF Positions, AtSector
    <2>3. OnNor'
      BY <1>0, <1>04 DEF OnNor, AtSector
    <2> QED BY <2>1, <2>2, <2>3 DEF TInv
  <1>7. CASE Write
    <2> USE <1>7 DEF Write, Return
    <2>0. (opos' \in Nat /\ opos' <= End) \/ opos' = opos
      BY <1>01
    <2>1. TypeOK'
      <3>1. data' \in [Block -> Garbage .. Blocks]
        BY <1>0, <1>01 DEF TypeOK, Garbage
      <3>2. opos' \in 0 .. End + 2 * Blocks
        BY <1>0, <1>01, <2>0 DEF TypeOK
      <3> QED BY <1>0, <3>1, <3>2 DEF TypeOK, PC
    <2>2. Positions'
      <3>1. Nread' = Nread
        BY DEF Nread
      <3>2. pc' = "verify" => opos' >= Nread /\ opos' <= End
        BY <1>01
      <3>3. /\ op' = op /\ size' = size /\ sec' = sec /\ epos' = epos /\ vpos' = vpos
            /\ pc' \in {"idle", "verify"} /\ pc = "write"
        OBVIOUS
      <3> QED BY <1>0, <1>01, <1>02, <2>0, <3>1, <3>2, <3>3 DEF Positions, AtSector
    <2>3. OnNor'
      BY <1>0, <1>04 DEF OnNor, AtSector
    <2> QED BY <2>1, <2>2, <2>3 DEF TInv
  <1>8. CASE Verify
    <2> USE <1>8 DEF Verify, Return
    <2>0. pc = "verify" /\ pc' \in {"read", "check", "erase", "idle"}
      BY DEF Attempt
    <2>1. TypeOK'
      <3>1. Matches => vpos + Nread <= End
        BY <1>01, <1>03 DEF Matches
      <3>2. vpos' \in 0 .. End /\ epos' \in 0 .. End + 1 /\ opos' \in 0 .. End + 2 * Blocks
        BY <1>0, <1>01, <3>1 DEF TypeOK, Positions, Back
      <3>3. retry' \in 1 .. 2
        BY <1>0 DEF TypeOK, RetryCount
      <3> QED BY <1>0, <2>0, <3>2, <3>3 DEF TypeOK, PC, Failed
    <2>2. Positions'
      <3>1. CASE Matches /\ pc' = "read"
        <4>1. /\ epos' = epos + Nread /\ vpos' = vpos + Nread /\ opos' = opos
              /\ BlockOf(epos') >= BlockOf(epos) /\ BlockOf(epos') \in Nat
          BY <1>01, <1>02, <3>1 DEF Attempt
        <4>2. Nread = 2 => Aligned(vpos')
          BY <1>0, <1>03, <4>1, <2>0 DEF Positions, AtSector
        <4> QED BY <1>0, <1>01, <1>02, <3>1, <4>1, <4>2 DEF Positions, AtSector
      <3>2. CASE pc' = Attempt
        BY <1>0, <1>01, <1>02, <3>2, <2>0 DEF Positions, AtSector, Attempt, Back, Nread
      <3>3. CASE pc' = "idle"
        BY <3>3 DEF Positions, AtSector
      <3> QED BY <3>1, <3>2, <3>3
    <2>3. OnNor'
      BY <1>0, <1>01, <1>04, <2>0 DEF OnNor, AtSector, Attempt
    <2> QED BY <2>1, <2>2, <2>3 DEF TInv
  <1>9. CASE DeleteBlock
    <2> USE <1>9 DEF DeleteBlock, Return
    <2>1. TypeOK'
      <3>1. data' \in [Block -> Garbage .. Blocks]
        BY <1>0, <1>01, <1>05 DEF TypeOK, Garbage, Erased
      <3> QED BY <1>0, <1>01, <3>1 DEF TypeOK, PC, Positions
    <2>2. Positions'
      BY <1>0, <1>01 DEF Positions, AtSector
    <2>3. OnNor'
      BY <1>0, <1>04 DEF OnNor, AtSector
    <2> QED BY <2>1, <2>2, <2>3 DEF TInv
  <1>10. CASE Crash
    <2> USE <1>10 DEF Crash, Return
    <2>1. TypeOK'
      <3>1. data' \in [Block -> Garbage .. Blocks]
        BY <1>0, <1>01, <1>02 DEF TypeOK, Garbage
      <3> QED BY <1>0, <3>1 DEF TypeOK, PC
    <2>2. Positions'
      BY DEF Positions, AtSector
    <2>3. OnNor'
      BY <1>0, <1>04 DEF OnNor, AtSector
    <2> QED BY <2>1, <2>2, <2>3 DEF TInv
  <1>11. CASE UNCHANGED vars
    <2> USE <1>11 DEF vars
    <2>1. TypeOK'
      BY <1>0 DEF TypeOK
    <2>2. Positions'
      BY <1>0 DEF Positions, AtSector, Nread
    <2>3. OnNor'
      BY <1>0, <1>04 DEF OnNor, AtSector
    <2> QED BY <2>1, <2>2, <2>3 DEF TInv
  <1> QED BY <1>1, <1>2, <1>3, <1>4, <1>5, <1>6, <1>7, <1>8, <1>9, <1>10, <1>11
          DEF Next, Tool

LEMMA TypesInvariant == Spec => []TInv
BY TypesInit, TypesStep, PTL DEF Spec

\* The loops of flash_save_param, flash_prog_kern and flash_delete_param never
\* leave the partition, for every number of blocks and every kind of flash.
THEOREM TypeCorrect == Spec => []TypeOK
  <1>1. TInv => TypeOK
    BY DEF TInv
  <1> QED BY <1>1, TypesInvariant, PTL

-----------------------------------------------------------------------------
(* The content of the blocks, on all flash but worn NAND *)

Trusted == ~(Nand /\ Worn)

\* Sectors that the loop has verified.
Verified == IF pc = "read" THEN sec ELSE sec - 1

\* The three positions stay together.  Only the retry of a last, partial sector
\* on NAND is written half a block behind, and then never matches.
InStep ==
  /\ InLoop => epos = vpos
  /\ pc = "read" => opos = epos \/ 2 * sec >= size
  /\ pc \in {"check", "erase", "write"} =>
       opos = epos \/ (Nand /\ retry = 1 /\ opos = epos + 1)
  /\ pc = "verify" =>
       \/ opos = epos + WriteLength
       \/ Nand /\ retry = 1 /\ data[BlockOf(epos)] = Garbage

AtGoodBlock ==
  /\ pc \in {"erase", "write", "verify"} => BlockOf(epos) \in Good
  /\ pc = "write" => data[BlockOf(epos)] = Erased

\* The good blocks that have been passed hold the verified sectors in order,
\* and no other block holds one, but for the sector that waits for its verify.
Content ==
  InLoop =>
    /\ Cardinality(GoodBelow(Passed)) = Verified
    /\ \A b \in Good : b < Passed => data[b] = Cardinality(GoodBelow(b + 1))
    /\ \A b \in Block :
         data[b] > 0 => \/ b < Passed
                        \/ pc = "verify" /\ b = BlockOf(epos) /\ data[b] = sec

CInv == Trusted => InStep /\ AtGoodBlock /\ Content /\ SavedIsRestored

-----------------------------------------------------------------------------
LEMMA GoodCounts ==
  ASSUME bad \subseteq Block
  PROVE  /\ IsFiniteSet(Good) /\ Cardinality(Good) \in Nat
         /\ \A k \in Nat : Cardinality(GoodBelow(k)) \in Nat
         /\ \A j, k \in Nat : j <= k => Cardinality(GoodBelow(j)) <= Cardinality(GoodBelow(k))
         /\ \A k \in Nat : k >= Blocks => GoodBelow(k) = Good
         /\ \A k \in Nat : k \notin Good => GoodBelow(k + 1) = GoodBelow(k)
         /\ \A k \in Good :
              Cardinality(GoodBelow(k + 1)) = Cardinality(GoodBelow(k)) + 1
         /\ \A b \in Good : Rank(b) = Cardinality(GoodBelow(b + 1))
         /\ GoodBelow(0) = {}
  <1> USE BlocksAssumption
  <1>1. IsFiniteSet(Block)
    BY FS_Interval DEF Block
  <1>2. IsFiniteSet(Good) /\ Good \subseteq Block
    BY <1>1, FS_Subset DEF Good
  <1>11. \A c \in Good : c \in Nat /\ c < Blocks
    BY <1>2 DEF Block
  <1>3. \A k : IsFiniteSet(GoodBelow(k))
    BY <1>2, FS_Subset DEF GoodBelow
  <1>4. Cardinality(Good) \in Nat /\ \A k : Cardinality(GoodBelow(k)) \in Nat
    BY <1>2, <1>3, FS_CardinalityType
  <1>5. ASSUME NEW j \in Nat, NEW k \in Nat, j <= k
        PROVE  Cardinality(GoodBelow(j)) <= Cardinality(GoodBelow(k))
    <2>1. GoodBelow(j) \subseteq GoodBelow(k)
      BY <1>11, <1>5 DEF GoodBelow
    <2> QED BY <2>1, <1>3, FS_Subset
  <1>6. ASSUME NEW k \in Nat, k >= Blocks PROVE GoodBelow(k) = Good
    BY <1>11, <1>6 DEF GoodBelow
  <1>7. ASSUME NEW k \in Nat, k \notin Good PROVE GoodBelow(k + 1) = GoodBelow(k)
    BY <1>11, <1>7 DEF GoodBelow
  <1>8. ASSUME NEW k \in Good
        PROVE  Cardinality(GoodBelow(k + 1)) = Cardinality(GoodBelow(k)) + 1
    <2>1. GoodBelow(k + 1) = GoodBelow(k) \cup {k} /\ k \notin GoodBelow(k)
      BY <1>11 DEF GoodBelow
    <2> QED BY <2>1, <1>3, FS_AddElement
  <1>9. ASSUME NEW b \in Good PROVE Rank(b) = Cardinality(GoodBelow(b + 1))
    <2>1. {c \in Good : c <= b} = GoodBelow(b + 1)
      BY <1>11 DEF GoodBelow
    <2> QED BY <2>1 DEF Rank
  <1>10. GoodBelow(0) = {}
    BY <1>11 DEF GoodBelow
  <1> QED BY <1>2, <1>4, <1>5, <1>6, <1>7, <1>8, <1>9, <1>10

\* What is read from the good blocks is what they were passed with.
LEMMA PassedIsRestored ==
  ASSUME bad \subseteq Block, NEW k \in Nat, NEW s \in Nat,
         Cardinality(GoodBelow(k)) = s, s >= Sectors, Sectors \in Nat,
         \A b \in Good : b < k => data[b] = Cardinality(GoodBelow(b + 1))
  PROVE  Restores
  <1>1. Cardinality(Good) >= Sectors
    <2>1. Blocks + k \in Nat /\ k <= Blocks + k /\ Blocks + k >= Blocks
      BY BlocksAssumption
    <2> QED BY <2>1, GoodCounts
  <1>2. ASSUME NEW b \in Good, Rank(b) <= Sectors PROVE data[b] = Rank(b)
    <2>1. b \in Nat
      BY DEF Good, Block
    <2>2. Rank(b) = Cardinality(GoodBelow(b + 1))
          /\ Cardinality(GoodBelow(b + 1)) = Cardinality(GoodBelow(b)) + 1
          /\ Cardinality(GoodBelow(b)) \in Nat
      BY <2>1, GoodCounts
    <2>3. CASE b < k
      BY <2>2, <2>3
    <2>4. CASE b >= k
      <3>1. Cardinality(GoodBelow(k)) <= Cardinality(GoodBelow(b))
        BY <2>1, <2>4, GoodCounts
      <3> QED BY <3>1, <2>2, <1>2
    <2> QED BY <2>1, <2>3, <2>4
  <1> QED BY <1>1, <1>2 DEF Restores

\* A write reaches no block that has been passed, and not the next one if it
\* is aligned.
LEMMA TouchedWhere ==
  ASSUME TInv, InStep, pc = "write"
  PROVE  /\ Aligned(epos) /\ Passed = BlockOf(epos) /\ BlockOf(epos) \in Touched
         /\ BlockOf(epos) \in Block
         /\ \A b \in Touched : b >= Passed
         /\ opos = epos => Aligned(opos) /\ Touched = {BlockOf(epos)}
         /\ opos # epos => ~Aligned(opos) /\ Nand
         /\ opos = epos + 1 \/ opos = epos
  <1>1. TypeOK /\ Positions
    BY DEF TInv
  <1>2. /\ WriteLength \in 1 .. 2 /\ epos \in Nat /\ opos \in Nat /\ End \in Nat
        /\ epos < End /\ epos = vpos /\ Aligned(epos)
    BY <1>1, Lengths DEF Positions, AtSector, InStep, InLoop
  <1>3. opos = epos \/ (Nand /\ opos = epos + 1)
    BY DEF InStep
  <1>4. /\ BlockOf(epos) \in Block /\ BlockOf(epos) \in Nat
        /\ BlockOf(epos + 1) = BlockOf(epos) /\ BlockOf(epos + 2) = BlockOf(epos) + 1
        /\ ~Aligned(epos + 1)
    <2>1. ~Aligned(epos + 1)
      BY <1>2 DEF Aligned
    <2> QED BY <2>1, <1>2, Halves
  <1>5. \A b \in Touched : \E p \in opos .. opos + WriteLength - 1 : b = BlockOf(p)
    BY DEF Touched
  <1>6. \A p \in opos .. opos + WriteLength - 1 : p = opos \/ p = opos + 1
    BY <1>2
  <1>7. \A b \in Touched : b = BlockOf(opos) \/ b = BlockOf(opos + 1)
    BY <1>5, <1>6
  <1>8. BlockOf(opos) = BlockOf(epos)
    BY <1>3, <1>4
  <1>9. BlockOf(opos) \in Touched
    BY <1>2, <1>4, <1>8 DEF Touched
  <1>10. \A b \in Touched : b >= BlockOf(epos)
    <2>1. opos = epos + 1 => opos + 1 = epos + 2
      BY <1>2
    <2> QED BY <1>3, <1>4, <1>7, <2>1
  <1>11. opos = epos => Touched = {BlockOf(epos)}
    BY <1>4, <1>7, <1>8, <1>9
  <1> QED BY <1>2, <1>3, <1>4, <1>8, <1>9, <1>10, <1>11 DEF Passed

\* Content for the next state, with the good blocks of this one.
LEMMA ContentFrom ==
  ASSUME bad' = bad,
         InLoop' =>
           /\ Cardinality(GoodBelow(Passed')) = Verified'
           /\ \A b \in Good : b < Passed' => data'[b] = Cardinality(GoodBelow(b + 1))
           /\ \A b \in Block :
                data'[b] > 0 => \/ b < Passed'
                                \/ pc' = "verify" /\ b = BlockOf(epos') /\ data'[b] = sec'
  PROVE  Content'
  <1>1. Good' = Good
    BY DEF Good
  <1>2. /\ Cardinality(GoodBelow(Passed))' = Cardinality(GoodBelow(Passed'))
        /\ \A b : Cardinality(GoodBelow(b + 1))' = Cardinality(GoodBelow(b + 1))
    BY <1>1 DEF GoodBelow
  <1>3. BlockOf(epos)' = BlockOf(epos')
    BY DEF BlockOf
  <1> QED BY <1>1, <1>2, <1>3 DEF Content, InLoop

\* What can be read back depends on the blocks and the length alone.
LEMMA RestoresStays ==
  ASSUME UNCHANGED <<bad, data, size>>, Restores
  PROVE  Restores'
BY DEF Restores, Rank, Good, Sectors

LEMMA EndsWithError ==
  ASSUME pc' = "idle", ret' = -1
  PROVE  InStep' /\ AtGoodBlock' /\ Content' /\ SavedIsRestored'
BY DEF InStep, AtGoodBlock, Content, SavedIsRestored, InLoop, Done

LEMMA SaveContent ==
  ASSUME TInv, CInv, Trusted, NEW n \in 1 .. End + 1, Save(n)
  PROVE  InStep' /\ AtGoodBlock' /\ Content' /\ SavedIsRestored'
  <1>1. CASE pc' = "idle"
    BY <1>1, EndsWithError DEF Save, Return
  <1>2. CASE pc' = "read"
    <2>1. /\ bad' = bad /\ bad \subseteq Block /\ data \in [Block -> Garbage .. Blocks]
          /\ sec' = 0 /\ epos' = 0 /\ opos' = 0 /\ vpos' = 0
      BY DEF Save, TInv, TypeOK
    <2>2. Passed' = 0 /\ Verified' = 0
      BY <1>2, <2>1 DEF Passed, Verified, BlockOf
    <2>3. Cardinality(GoodBelow(0)) = 0 /\ Good \subseteq Block
      BY <2>1, GoodCounts, FS_EmptySet DEF Good
    <2>4. \A b \in Block : ~(data'[b] > 0)
      BY <2>1, BlocksAssumption DEF Save, Old, Garbage
    <2>5. \A b \in Good : ~(b < 0)
      BY <2>3 DEF Block
    <2>6. Content'
      BY <2>1, <2>2, <2>3, <2>4, <2>5, ContentFrom
    <2> QED BY <1>2, <2>1, <2>6 DEF InStep, AtGoodBlock, SavedIsRestored, Done, InLoop
  <1> QED BY <1>1, <1>2 DEF Save, Return

LEMMA ReadContent ==
  ASSUME TInv, TInv', CInv, Trusted, Read
  PROVE  InStep' /\ AtGoodBlock' /\ Content' /\ SavedIsRestored'
  <1> USE DEF Read, Return
  <1>0. /\ TypeOK /\ Positions /\ OnNor /\ InStep /\ Content /\ bad \subseteq Block
        /\ pc = "read" /\ InLoop
    BY DEF TInv, CInv, TypeOK, InLoop
  <1>1. /\ epos \in Nat /\ sec \in Nat /\ size \in Nat /\ End \in Nat /\ vpos = epos
        /\ Passed \in Nat
    BY <1>0, Lengths, Halves DEF InStep, Passed
  <1>2. /\ Cardinality(GoodBelow(Passed)) = sec
        /\ \A b \in Good : b < Passed => data[b] = Cardinality(GoodBelow(b + 1))
        /\ \A b \in Block : data[b] > 0 => b < Passed
    BY <1>0 DEF Content, Verified
  <1>3. CASE 2 * sec >= size /\ pc' = "idle"
    <2>1. Sectors \in Nat /\ sec >= Sectors
      BY <1>1, <1>3 DEF Sectors
    <2>2. Restores
      BY <1>0, <1>1, <1>2, <2>1, PassedIsRestored
    <2>3. Restores'
      BY <1>3, <2>2, RestoresStays
    <2> QED BY <1>3, <2>3 DEF InStep, AtGoodBlock, Content, SavedIsRestored, InLoop
  <1>4. CASE 2 * sec < size /\ pc' = Attempt
    <2>1. /\ sec' = sec + 1 /\ UNCHANGED <<bad, data, epos, opos, vpos, chip, size>>
          /\ pc' \in {"check", "erase"} /\ (pc' = "erase" => ~Nand)
      BY <1>1, <1>4 DEF Attempt
    <2>2. Passed' = Passed /\ Verified' = sec
      BY <1>1, <2>1 DEF Passed, Verified
    <2>3. Content'
      BY <1>2, <2>1, <2>2, ContentFrom
    <2>4. InStep'
      BY <1>0, <1>1, <1>4, <2>1 DEF InStep, InLoop
    <2>5. AtGoodBlock'
      <3> SUFFICES ASSUME pc' = "erase" PROVE BlockOf(epos)' \in Good'
        BY <2>1 DEF AtGoodBlock
      <3>1. bad' = {} /\ epos' < End /\ epos' \in Nat
        BY <2>1, <1>1 DEF TInv, OnNor, Nand, Positions, End
      <3> QED BY <3>1, Halves DEF Good, BlockOf
    <2> QED BY <2>1, <2>3, <2>4, <2>5 DEF SavedIsRestored, Done
  <1> QED BY <1>1, <1>3, <1>4

LEMMA CheckContent ==
  ASSUME TInv, CInv, Trusted, CheckBlock
  PROVE  InStep' /\ AtGoodBlock' /\ Content' /\ SavedIsRestored'
  <1> USE DEF CheckBlock, Return
  <1>0. /\ TypeOK /\ Positions /\ InStep /\ Content /\ bad \subseteq Block
        /\ pc = "check" /\ InLoop /\ bad' = bad /\ data' = data /\ sec' = sec
        /\ chip' = chip /\ size' = size
    BY DEF TInv, CInv, TypeOK, InLoop
  <1>1. /\ epos \in Nat /\ sec \in Nat /\ size \in Nat /\ vpos = epos /\ opos \in Nat
        /\ Aligned(epos) /\ sec >= 1 /\ 2 * (sec - 1) < size /\ End = 2 * Blocks
        /\ Blocks \in Nat
    BY <1>0, Lengths DEF InStep, Positions, AtSector
  <1>2. /\ Passed = BlockOf(epos) /\ Passed \in Nat /\ epos = 2 * Passed
        /\ BlockOf(epos + 2) = Passed + 1 /\ Aligned(epos + 2)
        /\ epos < End => BlockOf(epos) \in Block
    BY <1>1, Halves DEF Passed
  <1>3. /\ Cardinality(GoodBelow(Passed)) = sec - 1
        /\ \A b \in Good : b < Passed => data[b] = Cardinality(GoodBelow(b + 1))
        /\ \A b \in Block : data[b] > 0 => b < Passed
    BY <1>0 DEF Content, Verified
  <1>4. CASE epos >= End /\ pc' = "idle"
    <2>1. GoodBelow(Passed) = Good
      BY <1>0, <1>1, <1>2, <1>4, GoodCounts
    <2>2. ~(Sectors <= Cardinality(Good))
      BY <1>1, <1>3, <2>1 DEF Sectors
    <2>3. Good' = Good /\ Sectors' = Sectors
      BY <1>0 DEF Good, Sectors
    <2> QED BY <1>4, <2>2, <2>3 DEF InStep, AtGoodBlock, Content, SavedIsRestored, InLoop
  <1>5. CASE epos < End /\ BlockOf(epos) \in bad /\ Skip /\ pc' = pc
    <2>1. epos' = epos + 2 /\ opos' = opos + 2 /\ vpos' = vpos + 2 /\ retry' = retry
      BY <1>5 DEF Skip
    <2>2. Passed' = Passed + 1
      BY <1>1, <1>2, <2>1, Halves DEF Passed
    <2>3. GoodBelow(Passed + 1) = GoodBelow(Passed) /\ Passed \notin Good
      BY <1>0, <1>2, <1>5, GoodCounts DEF Good
    <2>4. Verified' = sec - 1
      BY <1>0, <1>5 DEF Verified
    <2>5. \A b \in Good : b < Passed + 1 => b < Passed
      BY <1>2, <2>3 DEF Good, Block
    <2>6. \A b \in Block : b < Passed => b < Passed + 1
      BY <1>2 DEF Block
    <2>7. Content'
      BY <1>0, <1>3, <2>2, <2>3, <2>4, <2>5, <2>6, ContentFrom
    <2>8. InStep'
      <3>1. opos = epos \/ (Nand /\ retry = 1 /\ opos = epos + 1)
        BY <1>0 DEF InStep
      <3>2. opos' = epos' \/ (Nand /\ retry' = 1 /\ opos' = epos' + 1)
        BY <1>1, <2>1, <3>1
      <3>3. epos' = vpos' /\ (Nand' <=> Nand) /\ pc' = "check"
        BY <1>0, <1>1, <1>5, <2>1 DEF Nand
      <3> QED BY <3>2, <3>3 DEF InStep, InLoop
    <2> QED BY <1>0, <1>5, <2>7, <2>8 DEF AtGoodBlock, SavedIsRestored, Done
  <1>6. CASE epos < End /\ BlockOf(epos) \notin bad /\ pc' = "erase"
    <2>1. epos' = epos /\ opos' = opos /\ vpos' = vpos /\ retry' = retry
      BY <1>1, <1>6 DEF Skip
    <2>2. Passed' = Passed /\ Verified' = sec - 1
      BY <1>0, <1>6, <2>1 DEF Passed, Verified
    <2>3. Content'
      BY <1>0, <1>3, <2>2, ContentFrom
    <2>4. InStep'
      BY <1>0, <1>6, <2>1 DEF InStep, InLoop, Nand
    <2>5. BlockOf(epos)' \in Good'
      BY <1>0, <1>2, <1>6, <2>1 DEF Good, BlockOf
    <2> QED BY <1>6, <2>3, <2>4, <2>5 DEF AtGoodBlock, SavedIsRestored, Done
  <1> QED BY <1>1, <1>4, <1>5, <1>6

LEMMA EraseContent ==
  ASSUME TInv, CInv, Trusted, Erase
  PROVE  InStep' /\ AtGoodBlock' /\ Content' /\ SavedIsRestored'
  <1> USE DEF Erase
  <1>0. /\ TypeOK /\ Positions /\ InStep /\ Content /\ AtGoodBlock /\ bad' = bad
        /\ pc = "erase" /\ InLoop /\ pc' = "write" /\ sec' = sec /\ epos' = epos
        /\ data \in [Block -> Garbage .. Blocks]
    BY DEF TInv, CInv, TypeOK, InLoop
  <1>1. epos \in Nat /\ epos < End /\ Aligned(epos) /\ vpos = epos
    BY <1>0, Lengths DEF InStep, Positions, AtSector
  <1>2. /\ Passed = BlockOf(epos) /\ Passed \in Nat /\ BlockOf(epos) \in Block
        /\ Passed' = Passed /\ Verified' = sec - 1
    BY <1>0, <1>1, Halves DEF Passed, Verified
  <1>3. /\ Cardinality(GoodBelow(Passed)) = sec - 1
        /\ \A b \in Good : b < Passed => data[b] = Cardinality(GoodBelow(b + 1))
        /\ \A b \in Block : data[b] > 0 => b < Passed
    BY <1>0 DEF Content, Verified
  <1>4. data'[BlockOf(epos)] = Erased /\ \A b \in Block : b # Passed => data'[b] = data[b]
    BY <1>0, <1>2
  <1>5. Content'
    <2>1. \A b \in Good : b < Passed => data'[b] = data[b]
      BY <1>2, <1>4 DEF Good, Block
    <2>2. \A b \in Block : data'[b] > 0 => b < Passed
      BY <1>2, <1>3, <1>4 DEF Erased
    <2> QED BY <1>0, <1>2, <1>3, <2>1, <2>2, ContentFrom
  <1>6. InStep'
    BY <1>0 DEF InStep, InLoop, Nand
  <1>7. AtGoodBlock'
    BY <1>0, <1>4 DEF AtGoodBlock, Good, BlockOf
  <1> QED BY <1>0, <1>5, <1>6, <1>7 DEF SavedIsRestored, Done

\* Without worn NAND an erase fails only where the call ends with the error.
LEMMA EraseErrorContent ==
  ASSUME TInv, CInv, Trusted, EraseError
  PROVE  InStep' /\ AtGoodBlock' /\ Content' /\ SavedIsRestored'
  <1>1. pc = "erase" /\ Aligned(vpos) /\ epos = vpos
    BY DEF TInv, Positions, AtSector, EraseError, CInv, InStep, InLoop
  <1>2. Worn /\ ~Nand
    BY <1>1 DEF EraseError, Trusted
  <1> QED BY <1>2, EndsWithError DEF EraseError, Return

LEMMA WriteContent ==
  ASSUME TInv, CInv, Trusted, Write
  PROVE  InStep' /\ AtGoodBlock' /\ Content' /\ SavedIsRestored'
  <1> USE DEF Write, Return
  <1>0. /\ TypeOK /\ Positions /\ InStep /\ Content /\ AtGoodBlock /\ bad' = bad
        /\ pc = "write" /\ InLoop /\ sec' = sec /\ epos' = epos /\ vpos' = vpos
        /\ chip' = chip /\ size' = size /\ retry' = retry
    BY DEF TInv, CInv, TypeOK, InLoop
  <1>1. /\ Aligned(epos) /\ Passed = BlockOf(epos) /\ BlockOf(epos) \in Touched
        /\ BlockOf(epos) \in Block
        /\ \A b \in Touched : b >= Passed
        /\ opos = epos => Aligned(opos) /\ Touched = {BlockOf(epos)}
        /\ opos # epos => ~Aligned(opos) /\ Nand
        /\ opos = epos + 1 \/ opos = epos
    BY <1>0, TouchedWhere
  <1>2. /\ epos \in Nat /\ epos < End /\ epos = vpos /\ WriteLength \in 1 .. 2
        /\ End \in Nat /\ epos + 2 <= End
    <2>1. epos \in Nat /\ epos < End /\ epos = vpos /\ WriteLength \in 1 .. 2 /\ End = 2 * Blocks
          /\ Blocks \in Nat
      BY <1>0, Lengths DEF Positions, InStep
    <2> QED BY <2>1, <1>1, Halves
  <1>3. CASE pc' = "idle"
    BY <1>3, EndsWithError
  <1>4. CASE pc' = "verify"
    <2>1. PICK good \in BOOLEAN :
            data' = [b \in Block |->
                       IF b \notin Touched THEN data[b]
                       ELSE IF good /\ Aligned(opos) THEN sec ELSE Garbage]
      BY <1>4
    <2>2. Passed' = Passed /\ Verified' = sec - 1 /\ WriteLength' = WriteLength
      BY <1>0, <1>4 DEF Passed, Verified, WriteLength, Nand, Nread
    <2>3. /\ Cardinality(GoodBelow(Passed)) = sec - 1
          /\ \A b \in Good : b < Passed => data[b] = Cardinality(GoodBelow(b + 1))
          /\ \A b \in Block : data[b] > 0 => b < Passed
      BY <1>0 DEF Content, Verified
    <2>4. \A b \in Block : b < Passed => data'[b] = data[b]
      <3>1. Passed \in Nat
        BY <1>1 DEF Block
      <3> QED BY <1>1, <2>1, <3>1 DEF Block
    <2>5. \A b \in Block : data'[b] > 0 =>
             \/ b < Passed
             \/ b = BlockOf(epos) /\ data'[b] = sec
      <3> SUFFICES ASSUME NEW b \in Block, data'[b] > 0, b \in Touched
                   PROVE  b = BlockOf(epos) /\ data'[b] = sec
        BY <2>1, <2>3
      <3>1. good /\ Aligned(opos) /\ data'[b] = sec
        BY <2>1 DEF Garbage
      <3> QED BY <1>1, <3>1
    <2>6. Content'
      <3>1. \A b \in Good : b < Passed => data'[b] = Cardinality(GoodBelow(b + 1))
        BY <2>3, <2>4 DEF Good
      <3> QED BY <1>0, <1>4, <2>2, <2>3, <2>5, <3>1, ContentFrom
    <2>7. InStep'
      <3>1. CASE opos = epos
        <4>1. opos' = epos + WriteLength
          BY <1>2, <1>4, <3>1
        <4> QED BY <1>0, <1>2, <1>4, <2>2, <4>1 DEF InStep, InLoop
      <3>2. CASE opos # epos
        <4>1. data'[BlockOf(epos)] = Garbage
          BY <1>1, <2>1, <3>2
        <4>2. Nand /\ retry = 1
          BY <1>0, <3>2 DEF InStep
        <4> QED BY <1>0, <1>2, <1>4, <4>1, <4>2 DEF InStep, InLoop, Nand, BlockOf
      <3> QED BY <3>1, <3>2
    <2>8. AtGoodBlock'
      BY <1>0, <1>4 DEF AtGoodBlock, Good, BlockOf
    <2> QED BY <1>4, <2>6, <2>7, <2>8 DEF SavedIsRestored, Done
  <1> QED BY <1>3, <1>4

LEMMA VerifyContent ==
  ASSUME TInv, TInv', CInv, Trusted, Verify
  PROVE  InStep' /\ AtGoodBlock' /\ Content' /\ SavedIsRestored'
  <1> USE DEF Verify, Return
  <1>0. /\ TypeOK /\ Positions /\ OnNor /\ InStep /\ Content /\ AtGoodBlock /\ bad' = bad
        /\ bad \subseteq Block /\ pc = "verify" /\ InLoop /\ sec' = sec /\ size' = size
        /\ chip' = chip /\ data' = data /\ retry \in 1 .. 2
    BY DEF TInv, CInv, TypeOK, InLoop
  <1>1. /\ epos \in Nat /\ epos < End /\ epos = vpos /\ Aligned(epos) /\ opos \in Nat
        /\ Nread \in 1 .. 2 /\ WriteLength \in 1 .. 2 /\ Nread <= WriteLength
        /\ ~Nand => WriteLength = Nread
        /\ Nread = 1 => 2 * sec > size
        /\ sec >= 1 /\ sec \in Nat /\ size \in Nat
    BY <1>0, Lengths DEF Positions, InStep, AtSector
  <1>2. /\ Passed = BlockOf(epos) /\ Passed \in Nat /\ BlockOf(epos) \in Good
        /\ BlockOf(epos + 1) = BlockOf(epos) /\ BlockOf(epos + 2) = BlockOf(epos) + 1
        /\ BlockOf((epos + 2) + 1) = BlockOf(epos) + 1
    <2>1. Aligned(epos + 2)
      BY <1>1, Halves
    <2> QED BY <1>0, <1>1, <2>1, Halves DEF Passed, AtGoodBlock
  <1>3. /\ Cardinality(GoodBelow(Passed)) = sec - 1
        /\ \A b \in Good : b < Passed => data[b] = Cardinality(GoodBelow(b + 1))
        /\ \A b \in Block : data[b] > 0 => b < Passed \/ (b = Passed /\ data[b] = sec)
    <2>1. /\ Cardinality(GoodBelow(Passed)) = Verified
          /\ \A b \in Good : b < Passed => data[b] = Cardinality(GoodBelow(b + 1))
      BY <1>0 DEF Content
    <2>2. \A b \in Block : data[b] > 0 => b < Passed \/ (b = BlockOf(epos) /\ data[b] = sec)
      BY <1>0 DEF Content
    <2>3. Verified = sec - 1
      BY <1>0 DEF Verified
    <2>4. \A b \in Block : data[b] > 0 => b < Passed \/ (b = Passed /\ data[b] = sec)
      BY <1>2, <2>2
    <2> QED BY <2>1, <2>3, <2>4
  <1>4. CASE Matches /\ pc' = "read"
    <2>1. epos' = epos + Nread /\ vpos' = vpos + Nread /\ opos' = opos
      BY <1>4 DEF Attempt
    <2>2. data[Passed] = sec
      BY <1>1, <1>2, <1>4 DEF Matches
    <2>3. Passed' = Passed + 1 /\ Verified' = sec
      <3>1. epos' + 1 = epos + 2 \/ epos' + 1 = (epos + 2) + 1
        BY <1>1, <2>1
      <3> QED BY <1>0, <1>2, <1>4, <3>1 DEF Passed, Verified
    <2>4. Cardinality(GoodBelow(Passed + 1)) = sec
      BY <1>0, <1>1, <1>2, <1>3, GoodCounts
    <2>5. \A b \in Good : b < Passed + 1 => data[b] = Cardinality(GoodBelow(b + 1))
      BY <1>2, <1>3, <2>2, <2>4 DEF Good, Block
    <2>6. \A b \in Block : data[b] > 0 => b < Passed + 1
      BY <1>2, <1>3 DEF Block
    <2>7. Content'
      BY <1>0, <2>3, <2>4, <2>5, <2>6, ContentFrom
    <2>8. opos = epos + WriteLength
      BY <1>0, <1>1, <1>2, <2>2 DEF InStep, Garbage
    <2>9. Nread = 2 => WriteLength = 2
      BY <1>1
    <2>10. InStep'
      BY <1>0, <1>1, <1>4, <2>1, <2>8, <2>9 DEF InStep, InLoop
    <2> QED BY <1>4, <2>7, <2>10 DEF AtGoodBlock, SavedIsRestored, Done
  <1>5. CASE ~Matches /\ RetryCount > 0 /\ pc' = Attempt
    <2>1. /\ epos' = epos /\ vpos' = vpos /\ opos' = opos - Nread
          /\ retry = 2 /\ retry' = 1
          /\ pc' \in {"check", "erase"}
      BY <1>0, <1>5 DEF Attempt, Back, RetryCount
    <2>2. Passed' = Passed /\ Verified' = sec - 1
      BY <2>1 DEF Passed, Verified
    <2>3. \A b \in Block : data[b] > 0 => b < Passed
      <3>1. vpos < End /\ data[Passed] # sec
        BY <1>1, <1>2, <1>5 DEF Matches
      <3> QED BY <1>3, <3>1
    <2>4. Content'
      BY <1>0, <1>3, <2>1, <2>2, <2>3, ContentFrom
    <2>5. opos = epos + WriteLength
      BY <1>0, <2>1 DEF InStep
    <2>6. opos' = epos \/ (Nand /\ opos' = epos + 1)
      BY <1>1, <2>1, <2>5
    <2>7. InStep'
      BY <1>0, <1>1, <2>1, <2>6 DEF InStep, InLoop, Nand
    <2>8. AtGoodBlock'
      BY <1>0, <1>2, <2>1 DEF AtGoodBlock, Good, BlockOf
    <2> QED BY <2>1, <2>4, <2>7, <2>8 DEF SavedIsRestored, Done
  <1>6. CASE pc' = "idle" /\ ret' = Failed
    BY <1>6, EndsWithError DEF Failed
  <1> QED BY <1>4, <1>5, <1>6 DEF Attempt

\* Nothing is read back between the calls, and a deletion is none of the loop.
LEMMA OutOfLoop ==
  ASSUME ~InLoop', pc' = "idle" => op' # "save" \/ ret' # 0
  PROVE  InStep' /\ AtGoodBlock' /\ Content' /\ SavedIsRestored'
BY DEF InStep, AtGoodBlock, Content, SavedIsRestored, InLoop, Done

LEMMA ContentStep == TInv /\ TInv' /\ CInv /\ [Next]_vars => CInv'
  <1> SUFFICES ASSUME TInv, TInv', CInv, [Next]_vars, Trusted'
               PROVE  InStep' /\ AtGoodBlock' /\ Content' /\ SavedIsRestored'
    BY DEF CInv
  <1>0. chip' = chip
    BY DEF Next, Save, Delete, Tool, Read, CheckBlock, Erase, EraseError, Write, Verify,
           DeleteBlock, Crash, vars
  <1>1. Trusted
    BY <1>0 DEF Trusted, Nand, Worn
  <1>2. ASSUME NEW n \in 1 .. End + 1, Save(n)
        PROVE  InStep' /\ AtGoodBlock' /\ Content' /\ SavedIsRestored'
    BY <1>1, <1>2, SaveContent
  <1>3. CASE Delete
    BY <1>3, OutOfLoop DEF Delete, InLoop
  <1>4. CASE Read
    BY <1>1, <1>4, ReadContent
  <1>5. CASE CheckBlock
    BY <1>1, <1>5, CheckContent
  <1>6. CASE Erase
    BY <1>1, <1>6, EraseContent
  <1>7. CASE EraseError
    BY <1>1, <1>7, EraseErrorContent
  <1>8. CASE Write
    BY <1>1, <1>8, WriteContent
  <1>9. CASE Verify
    BY <1>1, <1>9, VerifyContent
  <1>10. CASE DeleteBlock
    <2>1. op = "delete" /\ op' = op
      BY <1>10 DEF DeleteBlock, TInv, Positions
    <2> QED BY <1>10, <2>1, OutOfLoop DEF DeleteBlock, Return, InLoop
  <1>11. CASE Crash
    BY <1>11, EndsWithError DEF Crash, Return
  <1>12. CASE UNCHANGED vars
    BY <1>1, <1>12
    DEF vars, CInv, InStep, AtGoodBlock, Content, SavedIsRestored, InLoop, Passed, Verified,
        GoodBelow, Good, Rank, Restores, Sectors, Done, Nand, Worn, WriteLength, Nread, BlockOf
  <1> QED BY <1>2, <1>3, <1>4, <1>5, <1>6, <1>7, <1>8, <1>9, <1>10, <1>11, <1>12
          DEF Next, Tool

LEMMA ContentInit == Init => CInv
  <1> SUFFICES ASSUME Init PROVE InStep /\ AtGoodBlock /\ Content /\ SavedIsRestored
    BY DEF CInv
  <1> QED BY DEF Init, InStep, AtGoodBlock, Content, SavedIsRestored, InLoop, Done

LEMMA ContentInvariant == Spec => []CInv
BY TypesInvariant, ContentInit, ContentStep, PTL DEF Spec

\* A save that reports success (flash_save_param) has stored what get_mtdfile
\* reads back, for every number of blocks, every archive that the good blocks
\* have room for, every set of bad blocks and any number of failed writes.
THEOREM SavesAreRestored == Spec => []SavedIsRestored
  <1>1. CInv => SavedIsRestored
    BY DEF CInv, Trusted, SavedIsRestored
  <1> QED BY <1>1, ContentInvariant, PTL

-----------------------------------------------------------------------------
(* The action properties *)

\* Neither an erase nor a write, interrupted or not, reaches a verified sector.
LEMMA StepKeepsSectors ==
  ASSUME TInv, CInv, Trusted, [Next]_vars
  PROVE  \A b \in Block :
           data[b] \in 1 .. sec - 1 /\ pc \notin {"idle", "delete"} => data'[b] = data[b]
  <1> SUFFICES ASSUME NEW b \in Block, data[b] \in 1 .. sec - 1,
                      pc \notin {"idle", "delete"}
               PROVE  data'[b] = data[b]
    OBVIOUS
  <1>1. /\ InLoop /\ data \in [Block -> Garbage .. Blocks] /\ TypeOK /\ Positions
        /\ InStep /\ Content /\ sec \in Nat /\ epos \in Nat
    <2>1. TypeOK /\ Positions /\ InStep /\ Content
      BY DEF TInv, CInv
    <2> QED BY <2>1, Lengths DEF TypeOK, PC, InLoop
  <1>2. b < Passed
    <2>1. data[b] > 0 /\ data[b] # sec
      BY <1>1
    <2> QED BY <1>1, <2>1 DEF Content
  <1>3. pc \in {"erase", "write"} => Passed = BlockOf(epos) /\ BlockOf(epos) \in Nat
    <2> SUFFICES ASSUME pc \in {"erase", "write"}
                 PROVE  Passed = BlockOf(epos) /\ BlockOf(epos) \in Nat
      OBVIOUS
    <2>1. Aligned(epos)
      BY <1>1 DEF Positions, AtSector, InStep
    <2> QED BY <1>1, <2>1, Halves DEF Passed
  <1>4. pc \in {"erase", "write"} => b # BlockOf(epos)
    BY <1>2, <1>3 DEF Block
  <1>5. pc = "write" => b \notin Touched
    <2> SUFFICES ASSUME pc = "write", b \in Touched PROVE FALSE
      OBVIOUS
    <2>1. b >= Passed
      BY <1>1, TouchedWhere
    <2> QED BY <1>2, <1>3, <2>1 DEF Block
  <1>6. CASE Erase \/ EraseError
    BY <1>1, <1>4, <1>6 DEF Erase, EraseError
  <1>7. CASE Write
    BY <1>1, <1>5, <1>7 DEF Write
  <1>8. CASE Crash
    BY <1>1, <1>4, <1>5, <1>8 DEF Crash
  <1>9. CASE data' = data
    BY <1>9
  <1>10. Erase \/ EraseError \/ Write \/ Crash \/ data' = data
    BY <1>1 DEF Next, Save, Delete, Tool, Read, CheckBlock, Verify, DeleteBlock, vars, InLoop
  <1> QED BY <1>6, <1>7, <1>8, <1>9, <1>10

LEMMA StepWritesErased ==
  ASSUME TInv, CInv, [Next]_vars, ~Nand
  PROVE  \A b \in Block : pc = "write" /\ data'[b] # data[b] => data[b] = Erased
  <1> SUFFICES ASSUME NEW b \in Block, pc = "write", data'[b] # data[b]
               PROVE  data[b] = Erased
    OBVIOUS
  <1>1. Trusted /\ InStep /\ AtGoodBlock /\ data \in [Block -> Garbage .. Blocks]
    BY DEF Trusted, CInv, TInv, TypeOK
  <1>2. Touched = {BlockOf(epos)}
    BY <1>1, TouchedWhere
  <1>3. b \in Touched
    BY <1>1 DEF Next, Save, Delete, Tool, Read, CheckBlock, Erase, EraseError, Write, Verify,
                DeleteBlock, Crash, vars
  <1> QED BY <1>1, <1>2, <1>3 DEF AtGoodBlock

\* The sectors that are verified already stay as they are until the end,
\* whatever is retried, skipped or written partially after them.
SectorsKept ==
  [][ \A b \in Block :
        data[b] \in 1 .. sec - 1 /\ pc \notin {"idle", "delete"}
          => data'[b] = data[b] ]_vars

\* What is verified stays until the end of the call, whatever is retried,
\* skipped or cut off after it, if there is no worn NAND.
THEOREM VerifiedStays ==
  ASSUME "worn nand" \notin Chips
  PROVE  Spec => SectorsKept
  <1>1. TInv => Trusted
    BY DEF TInv, TypeOK, Trusted, Nand, Worn
  <1>2. TInv /\ CInv /\ [Next]_vars
          => [\A b \in Block :
                data[b] \in 1 .. sec - 1 /\ pc \notin {"idle", "delete"}
                  => data'[b] = data[b]]_vars
    BY <1>1, StepKeepsSectors
  <1> QED BY <1>2, TypesInvariant, ContentInvariant, PTL DEF Spec, SectorsKept

\* What is programmed was erased before.
WriteOnlyErased ==
  [][ \A b \in Block :
        ~Nand /\ pc = "write" /\ data'[b] # data[b] => data[b] = Erased ]_vars

\* On the NOR flash of the AX3 every sector is erased before it is programmed,
\* in a retry and for the last, partial sector as well.
THEOREM ErasedFirst == Spec => WriteOnlyErased
  <1>1. TInv /\ CInv /\ [Next]_vars
          => [\A b \in Block :
                ~Nand /\ pc = "write" /\ data'[b] # data[b] => data[b] = Erased]_vars
    BY StepWritesErased
  <1> QED BY <1>1, TypesInvariant, ContentInvariant, PTL DEF Spec, WriteOnlyErased

-----------------------------------------------------------------------------
(* Deletion *)

Gone(n) == \A b \in Good : b < n => data[b] = Erased

DInv ==
  /\ pc = "delete" => Gone(sec)
  /\ ~Worn /\ Done("delete") => Gone(Blocks - 1)

LEMMA DeletionStep == TInv /\ DInv /\ [Next]_vars => DInv'
  <1> SUFFICES ASSUME TInv, DInv, [Next]_vars
               PROVE  /\ pc' = "delete" => Gone(sec)'
                      /\ ~Worn' /\ Done("delete")' => Gone(Blocks - 1)'
    BY DEF DInv
  <1>0. /\ chip' = chip /\ TypeOK /\ Positions
    BY DEF Next, Save, Delete, Tool, Read, CheckBlock, Erase, EraseError, Write, Verify,
           DeleteBlock, Crash, vars, TInv
  <1>1. /\ Worn' <=> Worn
        /\ pc = "delete" => Gone(sec)
        /\ ~Worn /\ Done("delete") => Gone(Blocks - 1)
    BY <1>0 DEF DInv, Worn
  <1>2. CASE \E n \in 1 .. End + 1 : Save(n)
    BY <1>2 DEF Save, Return, Done
  <1>3. CASE Delete
    <2>1. sec' = 0 /\ pc' = "delete" /\ \A b \in Block : ~(b < 0)
      BY <1>3 DEF Delete, Block
    <2> QED BY <2>1 DEF Gone, Good, Done
  <1>4. CASE Read \/ CheckBlock \/ Erase \/ EraseError \/ Write \/ Verify
    <2>1. op = "save" /\ op' = op
      BY <1>0, <1>4 DEF Read, CheckBlock, Erase, EraseError, Write, Verify, Positions
    <2>2. pc' # "delete"
      BY <1>4 DEF Read, CheckBlock, Erase, EraseError, Write, Verify, Return, Attempt, Skip
    <2> QED BY <2>1, <2>2 DEF Done
  <1>5. CASE DeleteBlock
    <2>1. /\ bad' = bad /\ pc = "delete" /\ Gone(sec) /\ sec <= Blocks - 1 /\ sec \in Nat
          /\ data \in [Block -> Garbage .. Blocks] /\ Good \subseteq Block /\ Blocks \in Nat
      BY <1>0, <1>1, <1>5, BlocksAssumption DEF DeleteBlock, Positions, TypeOK, Good
    <2>2. CASE ~(sec < Blocks - 1) /\ Return(0) /\ UNCHANGED <<data, sec, epos>>
      <3>1. sec = Blocks - 1
        BY <2>1, <2>2
      <3> QED BY <2>1, <2>2, <3>1 DEF Return, Gone, Good, Done
    <2>3. CASE /\ sec < Blocks - 1 /\ sec' = sec + 1 /\ pc' = pc
               /\ data' = IF sec \in bad \/ ~InReach(sec) THEN data
                          ELSE [data EXCEPT ![sec] = Erased]
      <3>1. ASSUME NEW b \in Good, b < sec + 1 PROVE data'[b] = Erased
        <4>1. b \in Block /\ b \notin bad /\ (b = sec \/ b < sec)
          BY <2>1, <3>1 DEF Good, Block
        <4>2. CASE b = sec
          BY <2>1, <2>3, <4>1, <4>2 DEF InReach
        <4>3. CASE b < sec
          BY <2>1, <2>3, <4>1, <4>3 DEF Gone, Good
        <4> QED BY <4>1, <4>2, <4>3
      <3> QED BY <2>1, <2>3, <3>1 DEF Gone, Good, Done
    <2>4. CASE Worn /\ Return(0)
      BY <1>1, <2>4 DEF Return
    <2> QED BY <1>5, <2>2, <2>3, <2>4 DEF DeleteBlock
  <1>6. CASE Crash
    BY <1>6 DEF Crash, Return, Done
  <1>7. CASE UNCHANGED vars
    BY <1>1, <1>7 DEF vars, Gone, Good, Done
  <1> QED BY <1>2, <1>3, <1>4, <1>5, <1>6, <1>7 DEF Next, Tool

LEMMA DeletionInvariant == Spec => []DInv
  <1>1. Init => DInv
    BY DEF Init, DInv, Done
  <1> QED BY <1>1, TypesInvariant, DeletionStep, PTL DEF Spec

\* The first good block is among those that flash_delete_param has erased.
LEMMA DeletedMeansGone == TInv /\ DInv => DeletedIsGone
  <1> SUFFICES ASSUME TInv, DInv, ~Worn, Done("delete"),
                      NEW g \in Good \cap 0 .. Blocks - 2,
                      NEW b \in Good, Rank(b) = 1
               PROVE  data[b] = Erased
    BY DEF DeletedIsGone
  <1>1. bad \subseteq Block /\ Blocks \in Nat /\ b \in Nat /\ g \in Nat /\ g <= Blocks - 2
    BY BlocksAssumption DEF TInv, TypeOK, Good, Block
  <1>2. Cardinality(GoodBelow(b)) = 0
    <2>1. Cardinality(GoodBelow(b)) \in Nat
          /\ 1 = Cardinality(GoodBelow(b)) + 1
      BY <1>1, GoodCounts
    <2> QED BY <2>1
  <1>3. ~(g < b)
    <2> SUFFICES ASSUME g < b PROVE FALSE
      OBVIOUS
    <2>1. Cardinality(GoodBelow(g + 1)) <= Cardinality(GoodBelow(b))
      BY <1>1, GoodCounts
    <2>2. Cardinality(GoodBelow(g + 1)) = Cardinality(GoodBelow(g)) + 1
          /\ Cardinality(GoodBelow(g)) \in Nat
      BY <1>1, GoodCounts
    <2> QED BY <1>2, <2>1, <2>2
  <1>4. b < Blocks - 1
    BY <1>1, <1>3
  <1> QED BY <1>4 DEF DInv, Gone

\* After a deletion that reports success nothing can be read from where the
\* archive begins, for every number of blocks and every set of bad ones.
THEOREM DeletionsAreComplete == Spec => []DeletedIsGone
BY TypesInvariant, DeletionInvariant, DeletedMeansGone, PTL

-----------------------------------------------------------------------------
(* Saves that are cut off *)

InOrder == \A b, c \in Good : data[b] > 0 /\ c <= b => data[c] = Rank(c)

PInv == Trusted /\ op = "save" /\ pc = "idle" => InOrder

\* In the loop Content says it.
LEMMA LoopInOrder == TInv /\ CInv /\ Trusted /\ InLoop => InOrder
  <1> SUFFICES ASSUME TInv, CInv, Trusted, InLoop,
                      NEW b \in Good, NEW c \in Good, data[b] > 0, c <= b
               PROVE  data[c] = Rank(c)
    BY DEF InOrder
  <1>1. /\ Positions /\ InStep /\ AtGoodBlock /\ Content /\ bad \subseteq Block
        /\ epos \in Nat /\ sec \in Nat /\ b \in Block /\ b \in Nat /\ c \in Nat
    <2>1. TypeOK /\ Positions /\ InStep /\ AtGoodBlock /\ Content
      BY DEF TInv, CInv
    <2> QED BY <2>1, Lengths DEF TypeOK, Good, Block
  <1>2. Rank(c) = Cardinality(GoodBelow(c + 1))
    BY <1>1, GoodCounts
  <1>3. CASE c < Passed
    BY <1>1, <1>2, <1>3 DEF Content
  <1>4. CASE ~(c < Passed)
    <2>1. Passed \in Nat /\ ~(b < Passed)
      BY <1>1, <1>4, Halves DEF Passed
    <2>2. pc = "verify" /\ b = BlockOf(epos) /\ data[b] = sec
      BY <1>1, <2>1 DEF Content
    <2>3. Passed = BlockOf(epos)
      <3>1. Aligned(epos)
        BY <1>1, <2>2 DEF Positions, AtSector, InStep
      <3> QED BY <1>1, <3>1, Halves DEF Passed
    <2>4. c = b /\ c = Passed
      BY <1>1, <1>4, <2>1, <2>2, <2>3
    <2>5. Cardinality(GoodBelow(c)) = sec - 1
      BY <1>1, <2>2, <2>4 DEF Content, Verified
    <2>6. Cardinality(GoodBelow(c + 1)) = Cardinality(GoodBelow(c)) + 1
      BY <1>1, GoodCounts
    <2> QED BY <1>1, <1>2, <2>2, <2>4, <2>5, <2>6
  <1> QED BY <1>3, <1>4

\* A step that ends the call only takes sectors away, and only the last ones.
LEMMA EndKeepsOrder ==
  ASSUME InOrder, bad' = bad, NEW k \in Nat, Good \subseteq Nat,
         \A b \in Good : b < k => data'[b] = data[b],
         \A b \in Good : data'[b] > 0 => data'[b] = data[b],
         \A b \in Good : b >= k /\ data'[b] > 0 =>
            \A c \in Good : data'[c] = data[c]
  PROVE  InOrder'
  <1>1. Good' = Good /\ \A c : Rank(c)' = Rank(c)
    BY DEF Good, Rank
  <1>2. ASSUME NEW b \in Good, NEW c \in Good, data'[b] > 0, c <= b
        PROVE  data'[c] = Rank(c)
    <2>1. data[c] = Rank(c)
      BY <1>2 DEF InOrder
    <2>2. data'[c] = data[c]
      <3>1. b \in Nat /\ c \in Nat /\ (b >= k \/ c < k)
        BY <1>2
      <3> QED BY <1>2, <3>1
    <2> QED BY <2>1, <2>2
  <1> QED BY <1>1, <1>2 DEF InOrder

LEMMA OrderStep == TInv /\ CInv /\ PInv /\ [Next]_vars => PInv'
  <1> SUFFICES ASSUME TInv, CInv, PInv, [Next]_vars, Trusted', op' = "save", pc' = "idle"
               PROVE  InOrder'
    BY DEF PInv
  <1>0. /\ chip' = chip /\ TypeOK /\ Positions /\ data \in [Block -> Garbage .. Blocks]
        /\ Good \subseteq Block /\ Good \subseteq Nat /\ epos \in Nat
    <2>1. TypeOK /\ Positions
      BY DEF TInv
    <2>2. chip' = chip
      BY DEF Next, Save, Delete, Tool, Read, CheckBlock, Erase, EraseError, Write, Verify,
             DeleteBlock, Crash, vars
    <2>3. Good \subseteq Block /\ Block \subseteq Nat
      BY DEF Good, Block
    <2> QED BY <2>1, <2>2, <2>3, Lengths DEF TypeOK
  <1>1. Trusted
    BY <1>0 DEF Trusted, Nand, Worn
  <1>2. CASE \E n \in 1 .. End + 1 : Save(n)
    <2>1. \A b \in Block : ~(data'[b] > 0)
      BY <1>0, <1>2, BlocksAssumption DEF Save, Old, Garbage
    <2>2. Good' \subseteq Block
      BY DEF Good
    <2> QED BY <2>1, <2>2 DEF InOrder
  <1>3. CASE Read \/ CheckBlock \/ Verify \/ UNCHANGED vars
    <2>1. UNCHANGED <<bad, data>> /\ InOrder
      <3>1. CASE UNCHANGED vars
        BY <1>1, <3>1 DEF vars, PInv
      <3>2. CASE Read \/ CheckBlock \/ Verify
        <4>1. InLoop
          BY <3>2 DEF Read, CheckBlock, Verify, InLoop
        <4> QED BY <1>1, <3>2, <4>1, LoopInOrder DEF Read, CheckBlock, Verify
      <3> QED BY <1>3, <3>1, <3>2
    <2> QED BY <2>1 DEF InOrder, Good, Rank
  <1>4. CASE EraseError \/ Write \/ Crash
    <2>1. InLoop /\ bad' = bad /\ InStep /\ Content
      <3>1. pc # "delete"
        BY <1>0, <1>4 DEF EraseError, Write, Crash, Positions
      <3>2. InLoop
        BY <1>0, <1>4, <3>1 DEF EraseError, Write, Crash, InLoop, TypeOK, PC
      <3> QED BY <1>1, <1>4, <3>2 DEF EraseError, Write, Crash, CInv, Return
    <2>2. InOrder
      BY <1>1, <2>1, LoopInOrder
    <2>3. Passed \in Nat
      BY <1>0, Halves DEF Passed
    <2>4. pc \in {"erase", "write"} => Passed = BlockOf(epos)
      <3> SUFFICES ASSUME pc \in {"erase", "write"} PROVE Passed = BlockOf(epos)
        OBVIOUS
      <3>1. Aligned(epos)
        BY <1>0, <2>1 DEF Positions, AtSector, InStep
      <3> QED BY <1>0, <3>1, Halves DEF Passed
    <2>5. pc = "write" => \A b \in Touched : b >= Passed
      BY <2>1, TouchedWhere
    <2>6. CASE data' = data
      BY <2>1, <2>2, <2>6 DEF InOrder, Good, Rank
    <2>7. CASE pc = "erase" /\ data' = [data EXCEPT ![BlockOf(epos)] = Garbage]
      <3>1. \A b \in Good : data'[b] = IF b = Passed THEN Garbage ELSE data[b]
        BY <1>0, <2>4, <2>7
      <3>2. \A b \in Good : data[b] > 0 => b < Passed
        BY <1>0, <2>1, <2>7 DEF Content
      <3>3. \A b \in Good : data'[b] > 0 => b < Passed /\ data'[b] = data[b]
        BY <3>1, <3>2 DEF Garbage
      <3> QED BY <1>0, <2>1, <2>2, <2>3, <3>1, <3>3, EndKeepsOrder
    <2>8. CASE pc = "write" /\ data' = [b \in Block |-> IF b \in Touched THEN Garbage ELSE data[b]]
      <3>1. \A b \in Good : data'[b] = IF b \in Touched THEN Garbage ELSE data[b]
        BY <1>0, <2>8
      <3>2. \A b \in Good : data[b] > 0 => b < Passed
        BY <1>0, <2>1, <2>8 DEF Content
      <3>3. \A b \in Good : data'[b] > 0 => b < Passed /\ data'[b] = data[b]
        BY <3>1, <3>2 DEF Garbage
      <3>4. \A b \in Good : b < Passed => data'[b] = data[b]
        BY <1>0, <2>3, <2>5, <2>8, <3>1
      <3> QED BY <1>0, <2>1, <2>2, <2>3, <3>3, <3>4, EndKeepsOrder
    <2> QED BY <1>0, <1>4, <2>1, <2>6, <2>7, <2>8 DEF EraseError, Write, Crash, Positions
  <1>5. Read \/ CheckBlock \/ Verify \/ UNCHANGED vars \/ EraseError \/ Write \/ Crash
        \/ (\E n \in 1 .. End + 1 : Save(n))
    BY <1>0 DEF Next, Tool, Delete, Erase, DeleteBlock, Positions
  <1> QED BY <1>2, <1>3, <1>4, <1>5

\* However a save ends or is cut off, what is there is the beginning of its
\* archive, for every number of blocks, every set of bad blocks and any number
\* of failed writes.
THEOREM CutsArePrefixes == Spec => []CutIsPrefix
  <1>1. Init => PInv
    <2> SUFFICES ASSUME Init PROVE InOrder
      BY DEF PInv
    <2>1. \A b \in Good : ~(data[b] > 0)
      BY BlocksAssumption DEF Init, Old, Good
    <2> QED BY <2>1 DEF InOrder
  <1>2. TInv /\ CInv /\ PInv => CutIsPrefix
    <2> SUFFICES ASSUME TInv, CInv, PInv, Trusted, op = "save" PROVE InOrder
      BY DEF CutIsPrefix, InOrder, Trusted
    <2>1. pc = "idle" \/ InLoop
      BY DEF TInv, TypeOK, Positions, PC, InLoop
    <2> QED BY <2>1, LoopInOrder DEF PInv
  <1> QED BY <1>1, <1>2, TypesInvariant, ContentInvariant, OrderStep, PTL DEF Spec

-----------------------------------------------------------------------------
(* How long a call can take *)

Stage ==
  IF pc = "check" THEN 3 ELSE IF pc = "erase" THEN 2 ELSE IF pc = "write" THEN 1 ELSE 0

\* A number that every step of a call makes smaller: sectors to come, half
\* blocks to come, retries, and the place in the loop.
StepsLeft ==
  IF pc = "idle" THEN 0
  ELSE 1 + 8 * (Blocks - sec) + 2 * (End + 1 - epos) + 4 * retry + Stage

\* A call of flash_save_param, flash_prog_kern or flash_delete_param has at
\* most 12 * Blocks + 11 steps to go ...
StepsAreFew == StepsLeft \in 0 .. 12 * Blocks + 11

\* ... and every step of it, a retry, a skipped block and an error too, brings
\* it closer to its return.
StepsAreCounted == [][pc # "idle" => StepsLeft' < StepsLeft]_vars

LEMMA RankIsPositive ==
  ASSUME NEW s \in 0 .. Blocks, NEW e \in 0 .. End + 1, NEW r \in 1 .. 2, NEW t \in 0 .. 3
  PROVE  1 + 8 * (Blocks - s) + 2 * (End + 1 - e) + 4 * r + t \in Nat \ {0}
BY BlocksAssumption DEF End

LEMMA StepsLeftType ==
  ASSUME TypeOK
  PROVE  StepsLeft \in Nat /\ (pc = "idle" <=> StepsLeft = 0)
  <1>1. Stage \in 0 .. 3
    BY DEF Stage
  <1>2. sec \in 0 .. Blocks /\ epos \in 0 .. End + 1 /\ retry \in 1 .. 2
    BY DEF TypeOK
  <1> QED BY <1>1, <1>2, RankIsPositive DEF StepsLeft

LEMMA StepCounts ==
  ASSUME TInv, [Next]_vars, ~UNCHANGED vars, pc # "idle"
  PROVE  StepsLeft' < StepsLeft
  <1>1. /\ sec \in Nat /\ epos \in Nat /\ retry \in 1 .. 2 /\ Nread \in 1 .. 2
        /\ Blocks \in Nat /\ End \in Nat /\ StepsLeft \in Nat /\ StepsLeft # 0
    BY StepsLeftType, Lengths DEF TInv, TypeOK
  <1>2. CASE pc' = "idle"
    BY <1>1, <1>2 DEF StepsLeft
  <1>3. CASE pc' # "idle"
    <2>1. CASE Read
      BY <1>1, <1>3, <2>1 DEF Read, Return, StepsLeft, Stage, Attempt
    <2>2. CASE CheckBlock
      BY <1>1, <1>3, <2>2 DEF CheckBlock, Return, Skip, StepsLeft, Stage
    <2>3. CASE Erase
      BY <1>1, <1>3, <2>3 DEF Erase, StepsLeft, Stage
    <2>4. CASE EraseError
      BY <1>1, <1>3, <2>4 DEF EraseError, Return, StepsLeft, Stage
    <2>5. CASE Write
      BY <1>1, <1>3, <2>5 DEF Write, Return, StepsLeft, Stage
    <2>6. CASE Verify
      BY <1>1, <1>3, <2>6 DEF Verify, Return, RetryCount, StepsLeft, Stage, Attempt
    <2>7. CASE DeleteBlock
      BY <1>1, <1>3, <2>7 DEF DeleteBlock, Return, StepsLeft, Stage
    <2> QED BY <1>3, <2>1, <2>2, <2>3, <2>4, <2>5, <2>6, <2>7
            DEF Next, Tool, Save, Delete, Crash, Return
  <1> QED BY <1>2, <1>3

LEMMA FewStep == TInv /\ TInv' /\ StepsAreFew /\ [Next]_vars => StepsAreFew'
  <1> SUFFICES ASSUME TInv, TInv', StepsAreFew, [Next]_vars PROVE StepsAreFew'
    OBVIOUS
  <1>1. StepsLeft' \in Nat /\ Blocks \in Nat
    <2>1. sec' \in 0 .. Blocks /\ epos' \in 0 .. End + 1 /\ retry' \in 1 .. 2
      BY DEF TInv, TypeOK, End
    <2> DEFINE rank(t) == 1 + 8 * (Blocks - sec') + 2 * (End + 1 - epos') + 4 * retry' + t
    <2>2. \A t \in 0 .. 3 : rank(t) \in Nat
      BY <2>1, RankIsPositive
    <2>3. StepsLeft' \in {0, rank(0), rank(1), rank(2), rank(3)}
      BY DEF StepsLeft, Stage, End
    <2> QED BY <2>2, <2>3, BlocksAssumption
  <1>2. CASE pc # "idle" /\ ~UNCHANGED vars
    BY <1>1, <1>2, StepCounts DEF StepsAreFew
  <1>3. CASE UNCHANGED vars
    BY <1>3 DEF vars, StepsAreFew, StepsLeft, Stage
  <1>4. CASE pc = "idle"
    <2>1. retry \in 1 .. 2 /\ retry' = retry
      BY <1>4 DEF TInv, TypeOK, Next, Save, Delete, Tool, Read, CheckBlock, Erase, EraseError,
                  Write, Verify, DeleteBlock, Crash, vars
    <2>2. pc' = "idle" \/ (sec' = 0 /\ epos' = 0 /\ pc' \in {"read", "delete"})
      BY <1>4 DEF Next, Save, Return, Delete, Tool, Read, CheckBlock, Erase, EraseError, Write,
                  Verify, DeleteBlock, Crash, vars
    <2> QED BY <1>1, <2>1, <2>2, BlocksAssumption DEF StepsAreFew, StepsLeft, Stage, End
  <1> QED BY <1>2, <1>3, <1>4

\* What CallEnds needs besides the fairness of the tool, for every number of
\* blocks and every kind of flash, worn NAND included.
THEOREM CallsAreShort == Spec => []StepsAreFew /\ StepsAreCounted
  <1>1. Init => StepsAreFew
    BY BlocksAssumption DEF Init, StepsAreFew, StepsLeft
  <1>2. TInv /\ [Next]_vars => [pc # "idle" => StepsLeft' < StepsLeft]_vars
    BY StepCounts
  <1> QED BY <1>1, <1>2, TypesInvariant, FewStep, PTL DEF Spec, StepsAreCounted

-----------------------------------------------------------------------------
(* The tool is an ArchiveStore: each step of it is a step of ArchiveStore, or
   ArchiveStore does not see it. *)

\* Between the reads and the end of the archive, and without an error so far.
Within ==
  InLoop => ret = 0 /\ (pc = "read" => 2 * sec < size + 2)

LEMMA WithinStep == TInv /\ Within /\ [Next]_vars => Within'
  <1> SUFFICES ASSUME TInv, Within, [Next]_vars PROVE Within'
    OBVIOUS
  <1>0. TypeOK /\ Positions
    BY DEF TInv
  <1>1. CASE \E n \in 1 .. End + 1 : Save(n)
    BY <1>0, <1>1, Lengths DEF Save, Return, Within, InLoop
  <1>2. CASE Verify
    <2>1. pc' = "read" => 2 * sec' < size' + 2 /\ ret' = ret
      BY <1>0, <1>2, Lengths DEF Verify, Return, Attempt, Positions, AtSector
    <2>2. pc' # "idle" => ret' = ret
      BY <1>2 DEF Verify, Return
    <2> QED BY <1>2, <2>1, <2>2 DEF Verify, Within, InLoop
  <1>3. CASE Read \/ CheckBlock \/ Erase \/ EraseError \/ Write
    BY <1>3 DEF Read, CheckBlock, Erase, EraseError, Write, Return, Attempt, Skip, Within, InLoop
  <1>4. CASE Delete \/ DeleteBlock \/ Crash
    BY <1>4 DEF Delete, DeleteBlock, Crash, Return, Within, InLoop
  <1>5. CASE UNCHANGED vars
    BY <1>5 DEF vars, Within, InLoop
  <1> QED BY <1>1, <1>2, <1>3, <1>4, <1>5 DEF Next, Tool

\* What a restore reads from blocks with the content d.
ReadFrom(d) == {b \in Good : \A c \in Good : c <= b => d[c] = Rank(c)}

LEMMA SameBlocks ==
  ASSUME bad' = bad
  PROVE  /\ Good' = Good
         /\ \A k : GoodBelow(k)' = GoodBelow(k)
         /\ Readable = ReadFrom(data) /\ Readable' = ReadFrom(data')
  <1>1. Good' = Good
    BY DEF Good
  <1>2. \A c : Rank(c)' = Rank(c)
    BY <1>1 DEF Rank
  <1> QED BY <1>1, <1>2 DEF GoodBelow, Readable, ReadFrom

\* It stops at the first block that does not hold its sector.
LEMMA ReadStops ==
  ASSUME bad \subseteq Block, NEW d, NEW k \in Nat,
         \A b \in Good : b < k => d[b] = Rank(b),
         \A b \in Good : b >= k => ~(d[b] > 0)
  PROVE  ReadFrom(d) = GoodBelow(k)
  <1>1. \A b \in Good : b \in Nat
    BY DEF Good, Block
  <1>2. \A b \in Good : Rank(b) > 0
    <2> SUFFICES ASSUME NEW b \in Good PROVE Rank(b) > 0
      OBVIOUS
    <2> QED BY <1>1, GoodCounts
  <1>3. ASSUME NEW b \in GoodBelow(k) PROVE b \in ReadFrom(d)
    BY <1>1, <1>3 DEF GoodBelow, ReadFrom
  <1>4. ASSUME NEW b \in ReadFrom(d) PROVE b \in GoodBelow(k)
    <2>1. b \in Good /\ d[b] = Rank(b) /\ b \in Nat
      BY <1>1, <1>4 DEF ReadFrom
    <2> QED BY <1>2, <2>1 DEF GoodBelow
  <1> QED BY <1>3, <1>4

\* In the loop it stops behind the verified sectors, but for the one that waits
\* for its verify.
Held ==
  InLoop => \/ Readable = Sure
            \/ pc = "verify" /\ Readable = Sure \cup {BlockOf(epos)}

LEMMA HeldInLoop == TInv /\ CInv /\ Trusted => Held
  <1> SUFFICES ASSUME TInv, CInv, Trusted, InLoop
               PROVE  \/ Readable = Sure
                      \/ pc = "verify" /\ Readable = Sure \cup {BlockOf(epos)}
    BY DEF Held
  <1>1. /\ Positions /\ InStep /\ AtGoodBlock /\ Content /\ bad \subseteq Block
        /\ epos \in Nat /\ sec \in Nat /\ Passed \in Nat
    <2>1. TypeOK /\ Positions /\ InStep /\ AtGoodBlock /\ Content
      BY DEF TInv, CInv
    <2> QED BY <2>1, Lengths, Halves DEF TypeOK, Passed
  <1>2. \A b \in Good : b \in Nat /\ b \in Block /\ Rank(b) = Cardinality(GoodBelow(b + 1))
    BY <1>1, GoodCounts DEF Good, Block
  <1>3. \A b \in Good : b < Passed => data[b] = Rank(b)
    BY <1>1, <1>2 DEF Content
  <1>4. Sure = GoodBelow(Passed) /\ Readable = ReadFrom(data)
    BY DEF Sure, Readable, ReadFrom
  <1>5. CASE \A b \in Good : b >= Passed => ~(data[b] > 0)
    BY <1>1, <1>3, <1>4, <1>5, ReadStops
  <1>6. CASE \E g \in Good : g >= Passed /\ data[g] > 0
    <2>1. PICK g \in Good : g >= Passed /\ data[g] > 0
      BY <1>6
    <2>2. pc = "verify" /\ g = BlockOf(epos) /\ data[g] = sec
      BY <1>1, <1>2, <2>1 DEF Content
    <2>3. Passed = BlockOf(epos)
      <3>1. Aligned(epos)
        BY <1>1, <2>2 DEF Positions, AtSector, InStep
      <3> QED BY <1>1, <3>1, Halves DEF Passed
    <2>4. data[g] = Rank(g)
      <3>1. Cardinality(GoodBelow(g)) = sec - 1
        BY <1>1, <2>2, <2>3 DEF Content, Verified
      <3> QED BY <1>1, <1>2, <2>2, <3>1, GoodCounts
    <2>5. \A b \in Good : b < g + 1 => data[b] = Rank(b)
      BY <1>1, <1>2, <1>3, <2>2, <2>3, <2>4
    <2>6. \A b \in Good : b >= g + 1 => ~(data[b] > 0)
      BY <1>1, <1>2, <2>2, <2>3 DEF Content
    <2>7. ReadFrom(data) = GoodBelow(g + 1)
      BY <1>1, <1>2, <2>5, <2>6, ReadStops
    <2>8. GoodBelow(g + 1) = GoodBelow(g) \cup {g}
      <3>1. \A c \in Good : c < g + 1 <=> c < g \/ c = g
        BY <1>2
      <3> QED BY <3>1 DEF GoodBelow
    <2> QED BY <1>4, <2>2, <2>3, <2>7, <2>8
  <1> QED BY <1>5, <1>6

LEMMA StoreCounts == \A S : Store!Cardinality(S) = Cardinality(S)
BY DEF Store!Cardinality, Cardinality, Store!IsFiniteSet, IsFiniteSet

\* The steps of a save in terms of ArchiveStore.
LEMMA SameSave ==
  ASSUME InLoop, InLoop', UNCHANGED <<bad, size, op>>, Sure' = Sure, Readable' = Readable
  PROVE  UNCHANGED Store!vars
  <1>1. Good' = Good /\ Sectors' = Sectors /\ Busy' = Busy /\ Succeeded' = Succeeded
    BY DEF Good, Sectors, Busy, Succeeded, InLoop
  <1> QED BY <1>1 DEF Store!vars

LEMMA SaveFails ==
  ASSUME InLoop, op = "save", UNCHANGED <<bad, size, op>>, Return(-1),
         Readable' \in {Sure, Readable}
  PROVE  Store!Next
  <1>1. Good' = Good /\ Sectors' = Sectors /\ Busy = "save" /\ Busy' = "no" /\ Sure' = {}
    BY DEF Good, Sectors, Busy, InLoop, Sure, Return
  <1>2. Succeeded' = FALSE
    BY DEF Succeeded, Return
  <1> QED BY <1>1, <1>2 DEF Store!Next, Store!Fail, Store!End

LEMMA SaveSucceeds ==
  ASSUME InLoop, op = "save", UNCHANGED <<bad, data, size, op>>, Return(ret), ret = 0,
         Readable = Sure, Cardinality(Sure) = Sectors \/ Sure = Good
  PROVE  Store!Next
  <1>1. Good' = Good /\ Sectors' = Sectors /\ Busy = "save" /\ Busy' = "no" /\ Sure' = {}
        /\ Readable' = Readable
    BY SameBlocks DEF Good, Sectors, Busy, InLoop, Sure, Return
  <1>2. Succeeded' = TRUE
    BY DEF Succeeded, Return
  <1> QED BY <1>1, <1>2, StoreCounts DEF Store!Next, Store!Succeed, Store!End

LEMMA SaveBegins ==
  ASSUME TInv, NEW n \in 1 .. End + 1, Save(n)
  PROVE  Store!Next
  <1>1. /\ bad' = bad /\ bad \subseteq Block /\ data \in [Block -> Garbage .. Blocks]
        /\ Good \subseteq Block
    BY DEF Save, TInv, TypeOK, Good
  <1>2. Good' = Good /\ Readable' = ReadFrom(data')
    BY <1>1, SameBlocks
  <1>3. ReadFrom(data') = GoodBelow(0) /\ GoodBelow(0) = {}
    <2>1. \A b \in Block : ~(data'[b] > 0)
      BY <1>1, BlocksAssumption DEF Save, Old, Garbage
    <2>2. \A b \in Good : ~(b < 0)
      BY <1>1 DEF Block
    <2> QED BY <1>1, <2>1, <2>2, ReadStops, GoodCounts
  <1>4. Sure' = {}
    <2>1. InLoop' => Passed' = 0
      BY DEF Save, Passed, BlockOf
    <2>2. GoodBelow(0)' = GoodBelow(0)
      BY <1>1, SameBlocks
    <2>3. InLoop' => GoodBelow(Passed)' = GoodBelow(0)'
      BY <2>1 DEF GoodBelow
    <2> QED BY <1>3, <2>2, <2>3 DEF Sure
  <1>5. Sectors' \in Nat
    BY BlocksAssumption DEF Save, Sectors, End
  <1>6. Busy = "no" /\ Busy' \in {"no", "save"} /\ Succeeded' = FALSE
    BY DEF Save, Busy, Succeeded, Return
  <1>7. Store!Save
    BY <1>2, <1>3, <1>4, <1>5, <1>6 DEF Store!Save
  <1> QED BY <1>7 DEF Store!Next

LEMMA ReadIsStore ==
  ASSUME TInv, CInv, Trusted, Held, Within, Read
  PROVE  [Store!Next]_(Store!vars)
  <1> USE DEF Read
  <1>1. /\ pc = "read" /\ InLoop /\ op = "save" /\ ret = 0 /\ 2 * sec < size + 2
        /\ UNCHANGED <<bad, data, size, op, epos>>
    BY DEF InLoop, Within, TInv, Positions
  <1>2. Readable = Sure /\ Sure = GoodBelow(Passed)
    BY <1>1 DEF Held, Sure
  <1>3. CASE 2 * sec >= size /\ Return(ret)
    <2>1. Cardinality(Sure) = sec
      BY <1>1, <1>2 DEF CInv, Content, Verified
    <2>2. sec = Sectors
      BY <1>1, <1>3, Lengths DEF TInv, Sectors
    <2> QED BY <1>1, <1>2, <1>3, <2>1, <2>2, SaveSucceeds
  <1>4. CASE pc' = Attempt
    <2>1. InLoop' /\ Passed' = Passed
      BY <1>1, <1>4 DEF InLoop, Attempt, Passed
    <2>2. Sure' = Sure /\ Readable' = Readable
      BY <1>1, <1>2, <2>1, SameBlocks DEF Sure, GoodBelow
    <2> QED BY <1>1, <2>1, <2>2, SameSave
  <1> QED BY <1>3, <1>4

\* A block that is skipped is none of the good ones.
LEMMA CheckIsStore ==
  ASSUME TInv, CInv, Trusted, Held, Held', Within, CheckBlock
  PROVE  [Store!Next]_(Store!vars)
  <1> USE DEF CheckBlock
  <1>1. /\ pc = "check" /\ InLoop /\ op = "save" /\ ret = 0
        /\ UNCHANGED <<bad, data, size, op>>
        /\ InStep /\ TypeOK /\ Positions /\ bad \subseteq Block
    BY DEF InLoop, Within, TInv, Positions, CInv, TypeOK
  <1>2. Readable = Sure /\ Sure = GoodBelow(Passed) /\ Readable' = Readable
    BY <1>1, SameBlocks DEF Held, Sure
  <1>3. CASE epos >= End /\ Return(ret)
    <2>1. Passed \in Nat /\ Passed >= Blocks
      <3>1. epos \in Nat /\ Aligned(epos) /\ End = 2 * Blocks /\ Blocks \in Nat
        BY <1>1, Lengths DEF InStep, Positions, AtSector
      <3> QED BY <1>3, <3>1, Halves DEF Passed
    <2>2. Sure = Good
      BY <1>1, <1>2, <2>1, GoodCounts
    <2> QED BY <1>1, <1>2, <1>3, <2>2, SaveSucceeds
  <1>4. CASE pc' \in {"check", "erase"}
    <2>1. InLoop' /\ Readable' = Sure'
      BY <1>4 DEF InLoop, Held
    <2> QED BY <1>1, <1>2, <2>1, SameSave
  <1> QED BY <1>1, <1>3, <1>4 DEF Return

\* Neither an erase nor a failed write makes a sector readable; a write may
\* make one.
LEMMA EraseIsStore ==
  ASSUME TInv, CInv, Trusted, Held, Held', Erase
  PROVE  [Store!Next]_(Store!vars)
  <1> USE DEF Erase
  <1>1. /\ pc = "erase" /\ pc' = "write" /\ InLoop /\ InLoop' /\ UNCHANGED <<bad, size, op, epos>>
    BY DEF InLoop
  <1>2. Sure' = Sure
    <2>1. Passed' = Passed
      BY <1>1 DEF Passed
    <2> QED BY <1>1, <2>1, SameBlocks DEF Sure, GoodBelow
  <1>3. Readable = Sure /\ Readable' = Sure'
    BY <1>1 DEF Held
  <1> QED BY <1>1, <1>2, <1>3, SameSave

\* What a step spoils lies behind the verified sectors.
LEMMA SpoiledBehind ==
  ASSUME TInv, CInv, Trusted, pc \in {"erase", "write"}, bad' = bad,
         \/ data' = data
         \/ pc = "erase" /\ data' = [data EXCEPT ![BlockOf(epos)] = Garbage]
         \/ pc = "write" /\ data' = [b \in Block |-> IF b \in Touched THEN Garbage ELSE data[b]]
  PROVE  Readable' = Sure
  <1>1. /\ InLoop /\ TypeOK /\ Positions /\ InStep /\ Content /\ AtGoodBlock
        /\ bad \subseteq Block /\ epos \in Nat /\ data \in [Block -> Garbage .. Blocks]
        /\ Passed \in Nat
    <2>1. TypeOK /\ Positions /\ InStep /\ Content /\ AtGoodBlock
      BY DEF TInv, CInv
    <2> QED BY <2>1, Lengths, Halves DEF InLoop, TypeOK, Passed
  <1>2. Passed = BlockOf(epos) /\ BlockOf(epos) \in Block
    <2>1. Aligned(epos) /\ BlockOf(epos) \in Good
      BY <1>1 DEF Positions, AtSector, InStep, AtGoodBlock
    <2> QED BY <1>1, <2>1, Halves DEF Passed, Good
  <1>3. /\ \A b \in Good : b < Passed => data[b] = Rank(b)
        /\ \A b \in Block : data[b] > 0 => b < Passed
        /\ \A b \in Good : b \in Block /\ b \in Nat
    <2>1. \A b \in Good : b \in Block /\ b \in Nat /\ Rank(b) = Cardinality(GoodBelow(b + 1))
      BY <1>1, GoodCounts DEF Good, Block
    <2>2. pc # "verify" /\ pc # "read"
      OBVIOUS
    <2> QED BY <1>1, <2>1, <2>2 DEF Content
  <1>4. \A b \in Block : b < Passed => data'[b] = data[b]
    <2>1. pc = "write" => \A b \in Touched : b >= Passed
      BY <1>1, TouchedWhere
    <2>2. \A b \in Block : b \in Nat
      BY DEF Block
    <2> QED BY <1>1, <1>2, <2>1, <2>2
  <1>5. \A b \in Block : b >= Passed => ~(data'[b] > 0)
    <2>1. \A b \in Block : data'[b] \in {data[b], Garbage}
      BY <1>1, <1>2
    <2>2. \A b \in Block : b \in Nat
      BY DEF Block
    <2> QED BY <1>1, <1>3, <2>1, <2>2 DEF Garbage
  <1>6. ReadFrom(data') = GoodBelow(Passed)
    BY <1>1, <1>3, <1>4, <1>5, ReadStops
  <1> QED BY <1>1, <1>6, SameBlocks DEF Sure

LEMMA EraseErrorIsStore ==
  ASSUME TInv, CInv, Trusted, EraseError
  PROVE  [Store!Next]_(Store!vars)
  <1>1. pc = "erase" /\ Aligned(vpos) /\ epos = vpos /\ InLoop /\ op = "save"
    BY DEF TInv, Positions, AtSector, EraseError, CInv, InStep, InLoop
  <1>2. Worn /\ ~Nand
    BY <1>1 DEF EraseError, Trusted
  <1>3. Return(-1) /\ UNCHANGED <<bad, size, op>>
    BY <1>2 DEF EraseError
  <1>4. Readable' = Sure
    BY <1>1, <1>3, SpoiledBehind DEF EraseError
  <1> QED BY <1>1, <1>3, <1>4, SaveFails

LEMMA WriteIsStore ==
  ASSUME TInv, CInv, Trusted, Held, Held', Write
  PROVE  [Store!Next]_(Store!vars)
  <1> USE DEF Write
  <1>1. /\ pc = "write" /\ InLoop /\ op = "save" /\ UNCHANGED <<bad, size, op, epos, sec>>
        /\ TypeOK /\ Positions /\ InStep /\ Content /\ AtGoodBlock /\ bad \subseteq Block
    BY DEF InLoop, TInv, Positions, CInv, TypeOK
  <1>2. CASE Return(-1)
    <2>1. Readable' = Sure
      BY <1>1, <1>2, SpoiledBehind DEF Return
    <2> QED BY <1>1, <1>2, <2>1, SaveFails
  <1>3. CASE pc' = "verify"
    <2>1. /\ Passed = BlockOf(epos) /\ BlockOf(epos) \in Good
          /\ Passed' = Passed /\ BlockOf(epos)' = BlockOf(epos) /\ InLoop'
      BY <1>1, <1>3, TouchedWhere DEF AtGoodBlock, Passed, BlockOf, InLoop
    <2>2. Sure = GoodBelow(Passed) /\ Sure' = Sure
      BY <1>1, <2>1, SameBlocks DEF Sure, GoodBelow
    <2>3. Readable = Sure /\ Readable' \in {Sure, Sure \cup {BlockOf(epos)}}
      BY <1>1, <2>1, <2>2 DEF Held
    <2>4. BlockOf(epos) \in Block /\ Store!IsNext(BlockOf(epos))
      <3>1. BlockOf(epos) \in Nat
        BY <2>1 DEF Good, Block
      <3> QED BY <2>1, <2>2, <3>1 DEF Store!IsNext, GoodBelow, Good
    <2>5. Cardinality(Sure) < Sectors
      <3>1. Cardinality(Sure) = sec - 1
        BY <1>1, <2>2 DEF Content, Verified
      <3>2. 2 * (sec - 1) < size /\ sec \in Nat /\ size \in Nat
        BY <1>1, Lengths DEF Positions, AtSector
      <3> QED BY <3>1, <3>2 DEF Sectors
    <2>6. Good' = Good /\ Sectors' = Sectors /\ Busy = "save" /\ Busy' = Busy
          /\ Succeeded' = Succeeded
      BY <1>1, <1>3 DEF Good, Sectors, Busy, Succeeded
    <2>7. Store!Attempt
      BY <1>1, <2>2, <2>3, <2>4, <2>5, <2>6, StoreCounts DEF Store!Attempt
    <2> QED BY <2>7 DEF Store!Next
  <1> QED BY <1>2, <1>3

LEMMA VerifyIsStore ==
  ASSUME TInv, CInv, Trusted, Held, Held', Verify
  PROVE  [Store!Next]_(Store!vars)
  <1> USE DEF Verify
  <1>1. /\ pc = "verify" /\ InLoop /\ op = "save" /\ UNCHANGED <<bad, data, size, op, sec>>
    BY DEF InLoop, TInv, Positions
  <1>2. Readable' = Readable
    BY <1>1, SameBlocks
  <1>3. CASE Matches /\ pc' = "read"
    <2>1. Sure' = Readable /\ Good' = Good /\ Sectors' = Sectors
          /\ Busy = "save" /\ Busy' = Busy /\ Succeeded' = Succeeded
      BY <1>1, <1>2, <1>3 DEF Held, InLoop, Good, Sectors, Busy, Succeeded
    <2>2. Store!Confirm
      BY <1>2, <2>1 DEF Store!Confirm
    <2> QED BY <2>2 DEF Store!Next
  <1>4. CASE pc' = Attempt /\ UNCHANGED epos
    <2>1. InLoop' /\ Passed' = Passed
      BY <1>1, <1>4 DEF InLoop, Attempt, Passed
    <2>2. Sure' = Sure
      BY <1>1, <2>1, SameBlocks DEF Sure, GoodBelow
    <2> QED BY <1>1, <1>2, <2>1, <2>2, SameSave
  <1>5. CASE Return(Failed)
    BY <1>1, <1>2, <1>5, SaveFails DEF Failed
  <1> QED BY <1>3, <1>4, <1>5

\* Once a block before which nothing is left holds no sector, nothing can be read.
LEMMA NothingRead ==
  ASSUME bad \subseteq Block, NEW d, NEW g \in Good, ~(d[g] > 0),
         \A b \in Good : b < g => ~(d[b] > 0)
  PROVE  ReadFrom(d) = {}
  <1>1. \A b \in Good : b \in Nat
    BY DEF Good, Block
  <1>2. \A b \in Good : Rank(b) > 0
    <2> SUFFICES ASSUME NEW b \in Good PROVE Rank(b) > 0
      OBVIOUS
    <2> QED BY <1>1, GoodCounts
  <1> SUFFICES ASSUME NEW b \in ReadFrom(d) PROVE FALSE
    OBVIOUS
  <1>3. b \in Good /\ \A c \in Good : c <= b => d[c] = Rank(c)
    BY DEF ReadFrom
  <1>4. CASE b < g
    BY <1>1, <1>2, <1>3, <1>4
  <1>5. CASE g <= b
    BY <1>2, <1>3, <1>5
  <1> QED BY <1>1, <1>3, <1>4, <1>5

\* A deletion takes the first sector of an archive, and with it all of it,
\* before any other.
LEMMA BlockDeleted ==
  ASSUME TInv, DInv, pc = "delete", bad' = bad, NEW v \in {Erased, Garbage},
         data' = [data EXCEPT ![sec] = v]
  PROVE  Readable' \in {Readable, {}}
  <1>1. bad \subseteq Block /\ data \in [Block -> Garbage .. Blocks] /\ Gone(sec) /\ sec \in Nat
    BY DEF TInv, TypeOK, DInv
  <1>2. CASE sec \in Good
    <2>1. /\ data'[sec] = v /\ \A b \in Good : b < sec => data'[b] = Erased
          /\ \A b \in Good : b \in Nat
      BY <1>1, <1>2 DEF Good, Gone, Block
    <2>2. ~(data'[sec] > 0) /\ \A b \in Good : b < sec => ~(data'[b] > 0)
      BY <2>1 DEF Erased, Garbage
    <2> QED BY <1>1, <1>2, <2>2, NothingRead, SameBlocks
  <1>3. CASE sec \notin Good
    <2>1. \A b \in Good : data'[b] = data[b]
      BY <1>1, <1>3 DEF Good
    <2>2. ReadFrom(data') = ReadFrom(data)
      BY <2>1 DEF ReadFrom
    <2> QED BY <2>2, SameBlocks
  <1> QED BY <1>2, <1>3

LEMMA DeletionEnds ==
  ASSUME pc = "delete", op = "delete", UNCHANGED <<bad, size, op>>, NEW v, Return(v),
         Readable' \in {Readable, {}}
  PROVE  Store!Next
  <1>1. /\ Good' = Good /\ Sectors' = Sectors /\ Busy = "delete" /\ Busy' = "no" /\ Sure' = {}
        /\ Succeeded' \in BOOLEAN
    BY DEF Good, Sectors, Busy, InLoop, Sure, Return, Succeeded
  <1> QED BY <1>1 DEF Store!Next, Store!EndDelete, Store!End

LEMMA DeleteIsStore ==
  ASSUME TInv, Delete
  PROVE  Store!Next
  <1>1. /\ UNCHANGED <<bad, data, size>> /\ Good' = Good /\ Sectors' = Sectors
        /\ Busy = "no" /\ Busy' = "delete" /\ Sure = {} /\ Sure' = {} /\ Succeeded' = FALSE
    BY DEF Delete, Good, Sectors, Busy, InLoop, Sure, Succeeded
  <1>2. Readable' = Readable
    BY <1>1, SameBlocks
  <1> QED BY <1>1, <1>2 DEF Store!Next, Store!Delete

LEMMA DeleteBlockIsStore ==
  ASSUME TInv, DInv, DeleteBlock
  PROVE  [Store!Next]_(Store!vars)
  <1> USE DEF DeleteBlock
  <1>1. /\ pc = "delete" /\ op = "delete" /\ UNCHANGED <<bad, size, op>>
    BY DEF TInv, Positions
  <1>2. Readable' \in {Readable, {}}
    <2>1. CASE data' = data
      BY <1>1, <2>1, SameBlocks
    <2> QED BY <1>1, <2>1, BlockDeleted
  <1>3. CASE Return(0)
    BY <1>1, <1>2, <1>3, DeletionEnds
  <1>4. CASE UNCHANGED <<ret, pc>>
    <2>1. /\ Good' = Good /\ Sectors' = Sectors /\ Busy = "delete" /\ Busy' = "delete"
          /\ Sure = {} /\ Sure' = {} /\ Succeeded' = Succeeded
      BY <1>1, <1>4 DEF Good, Sectors, Busy, InLoop, Sure, Succeeded
    <2> QED BY <1>2, <2>1 DEF Store!Next, Store!Remove, Store!vars
  <1> QED BY <1>3, <1>4

LEMMA CrashIsStore ==
  ASSUME TInv, CInv, DInv, Trusted, Held, Crash
  PROVE  [Store!Next]_(Store!vars)
  <1> USE DEF Crash
  <1>1. Return(-1) /\ UNCHANGED <<bad, size, op>> /\ TypeOK /\ Positions
    BY DEF TInv
  <1>2. CASE InLoop
    <2>1. op = "save"
      BY <1>1, <1>2 DEF Positions, InLoop
    <2>2. Readable' \in {Sure, Readable}
      <3>1. CASE data' = data
        BY <1>1, <3>1, SameBlocks
      <3>2. CASE pc \in {"erase", "write"}
        BY <1>1, <3>2, SpoiledBehind
      <3> QED BY <1>2, <3>1, <3>2 DEF InLoop
    <2> QED BY <1>1, <1>2, <2>1, <2>2, SaveFails
  <1>3. CASE pc = "delete"
    <2>1. op = "delete" /\ BlockOf(epos) = sec
      <3>1. op = "delete" /\ epos = 2 * sec /\ sec \in Nat
        BY <1>1, <1>3, Lengths DEF Positions
      <3> QED BY <3>1 DEF BlockOf
    <2>2. Readable' \in {Readable, {}}
      <3>1. CASE data' = data
        BY <1>1, <3>1, SameBlocks
      <3> QED BY <1>1, <1>3, <2>1, <3>1, BlockDeleted
    <2> QED BY <1>1, <1>3, <2>1, <2>2, DeletionEnds
  <1> QED BY <1>1, <1>2, <1>3 DEF TypeOK, PC, InLoop

LEMMA StoreStep ==
  ASSUME TInv, CInv, DInv, Within, TInv', CInv', Trusted, Trusted', [Next]_vars
  PROVE  [Store!Next]_(Store!vars)
  <1>1. Held /\ Held'
    BY HeldInLoop, PTL
  <1>2. CASE \E n \in 1 .. End + 1 : Save(n)
    BY <1>2, SaveBegins
  <1>3. CASE Read \/ CheckBlock \/ Erase
    BY <1>1, <1>3, ReadIsStore, CheckIsStore, EraseIsStore
  <1>4. CASE EraseError \/ Write \/ Verify
    BY <1>1, <1>4, EraseErrorIsStore, WriteIsStore, VerifyIsStore
  <1>5. CASE Delete \/ DeleteBlock
    BY <1>5, DeleteIsStore, DeleteBlockIsStore
  <1>6. CASE Crash
    BY <1>1, <1>6, CrashIsStore
  <1>7. CASE UNCHANGED vars
    <2>1. UNCHANGED <<bad, data, op, size, pc, ret, epos>>
      BY <1>7 DEF vars
    <2>2. Readable' = Readable /\ Good' = Good /\ \A k : GoodBelow(k)' = GoodBelow(k)
      BY <2>1, SameBlocks
    <2>3. Sure' = Sure
      BY <2>1, <2>2 DEF Sure, InLoop, Passed, GoodBelow
    <2>4. Sectors' = Sectors /\ Busy' = Busy /\ Succeeded' = Succeeded
      BY <2>1 DEF Sectors, Busy, Succeeded
    <2> QED BY <2>2, <2>3, <2>4 DEF Store!vars
  <1> QED BY <1>2, <1>3, <1>4, <1>5, <1>6, <1>7 DEF Next, Tool

LEMMA InitIsStoreInit == Init => Store!Init
  <1> SUFFICES ASSUME Init PROVE Store!Init
    OBVIOUS
  <1>1. bad \subseteq Block /\ Good \subseteq Block
    BY DEF Init, Good
  <1>2. Readable = {}
    <2>1. \A b \in Good : ~(data[b] > 0)
      BY <1>1, BlocksAssumption DEF Init, Old
    <2>2. \A b \in Good : ~(b < 0)
      BY <1>1 DEF Block
    <2>3. ReadFrom(data) = GoodBelow(0)
      BY <1>1, <2>1, <2>2, ReadStops
    <2> QED BY <1>1, <2>3, GoodCounts DEF Readable, ReadFrom
  <1>3. Sectors \in Nat /\ Sure = {} /\ Busy = "no" /\ Succeeded = FALSE
    BY DEF Init, Sectors, Sure, InLoop, Busy, Succeeded
  <1> QED BY <1>1, <1>2, <1>3 DEF Store!Init

\* FlashProg implements ArchiveStore on every flash but worn NAND, for every
\* number of blocks: a restore reads the first sectors of the last archive,
\* whenever it comes.
THEOREM ArchiveIsKept == Spec /\ ~(Nand /\ Worn) => KeepsArchive
  <1>1. Init => Within
    BY DEF Init, Within, InLoop
  <1>2. TInv /\ Trusted /\ [Next]_vars => Trusted'
    BY DEF Trusted, Nand, Worn, Next, Save, Delete, Tool, Read, CheckBlock, Erase, EraseError,
           Write, Verify, DeleteBlock, Crash, vars
  <1> QED BY <1>1, <1>2, InitIsStoreInit, WithinStep, StoreStep, TypesInvariant,
             ContentInvariant, DeletionInvariant, PTL
          DEF Spec, KeepsArchive, Store!Spec, Trusted
==============================================================================
