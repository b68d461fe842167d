------------------------------ MODULE FlashProg ------------------------------
(***************************************************************************)
(* The sector writer of files/flashcfg.c: the loop that flash_save_param   *)
(* and flash_prog_kern share (bad block test, erase, write, verify, one    *)
(* retry), flash_delete_param, and what get_mtdfile reads back, on one MTD *)
(* partition.                                                              *)
(*                                                                         *)
(* Offsets are counted in half erase blocks, so that the last, partial     *)
(* sector of an archive (nread < SECT_SIZE) is one half and every other    *)
(* sector is two.  NAND is CONFIG_OBSA6 (OpenBlocks A6 and A7): bad blocks *)
(* are skipped, and a write always takes SECT_SIZE bytes.  The NOR flash   *)
(* of the AX3 has no bad blocks, and nread bytes are written.              *)
(*                                                                         *)
(* A program step may silently go wrong (the verify is there for that),    *)
(* and the tool may be killed, or the power go, between any two steps.     *)
(***************************************************************************)
EXTENDS Integers, FiniteSets

CONSTANTS
  Blocks,   \* erase blocks of the partition
  Chips     \* the kinds of flash; a worn one may fail to erase a good block

ASSUME BlocksAssumption == Blocks \in Nat /\ Blocks >= 2
ASSUME ChipsAssumption ==
  Chips \subseteq {"nor", "worn nor", "nand", "worn nand"}

Block == 0 .. Blocks - 1
End == 2 * Blocks

\* What a block can hold besides sector k of the archive (k in 1 .. Blocks).
Erased  == 0
Old     == -1    \* part of an earlier archive
Garbage == -2    \* half erased, half written or wrongly programmed

VARIABLES
  chip,   \* the flash of this machine; it never changes
  bad,    \* blocks whose bad block mark is set
  data,   \* content of each block
  op,     \* the last operation: "save" or "delete"
  size,   \* length of the archive, in half blocks
  sec,    \* sectors read so far; blocks passed, in a deletion
  epos,   \* erase.start and erase64.start
  opos,   \* file offset of ofd
  vpos,   \* file offset of vfd
  retry,
  ret,    \* what the function returns: 0 (NORMAL_END) or -1
  pc

vars == <<chip, bad, data, op, size, sec, epos, opos, vpos, retry, ret, pc>>

PC == {"idle", "read", "check", "erase", "write", "verify", "delete"}

Nand  == chip \in {"nand", "worn nand"}     \* CONFIG_OBSA6
Worn  == chip \in {"worn nor", "worn nand"}

\* Types; the bounds on sec and on the positions say that the flashing loops of
\* flash_prog never step outside the partition they were given.
TypeOK ==
  /\ chip \in Chips
  /\ bad \subseteq Block
  /\ data \in [Block -> Garbage .. Blocks]
  /\ op \in {"save", "delete"}
  /\ size \in 1 .. End + 1
  /\ sec \in 0 .. Blocks
  /\ epos \in 0 .. End + 1 /\ opos \in 0 .. End + 2 * Blocks /\ vpos \in 0 .. End
  /\ retry \in 1 .. 2
  /\ ret \in {0, -1}
  /\ pc \in PC

\* Factory bad blocks; the saved files of an earlier life of the machine.
Init ==
  /\ chip \in Chips
  /\ bad \in IF Nand THEN SUBSET Block ELSE {{}}
  /\ data = [b \in Block |-> Old]
  /\ op = "save" /\ size = 1 /\ sec = 0
  /\ epos = 0 /\ opos = 0 /\ vpos = 0 /\ retry = 2
  /\ ret = -1
  /\ pc = "idle"

BlockOf(pos) == pos \div 2
Aligned(pos) == pos % 2 = 0
Sectors == (size + 1) \div 2
Nread == IF 2 * sec <= size THEN 2 ELSE 1

\* What write() is given: nread on the AX3, always SECT_SIZE on the A6/A7.
WriteLength == IF Nand THEN 2 ELSE Nread

Attempt == IF Nand THEN "check" ELSE "erase"

Return(value) == pc' = "idle" /\ ret' = value

-----------------------------------------------------------------------------
Save(n) ==
  /\ pc = "idle"
  /\ op' = "save" /\ size' = n /\ sec' = 0
  /\ epos' = 0 /\ opos' = 0 /\ vpos' = 0
  /\ data' = [b \in Block |-> IF data[b] > 0 THEN Old ELSE data[b]]
  /\ \/ n > End /\ Return(-1)
     \/ n <= End /\ pc' = "read" /\ ret' = 0
  /\ UNCHANGED <<chip, bad, retry>>

Read ==
  /\ pc = "read"
  /\ \/ 2 * sec >= size /\ Return(ret) /\ UNCHANGED <<sec, retry>>
     \/ /\ 2 * sec < size
        /\ sec' = sec + 1 /\ retry' = 2
        /\ pc' = Attempt
        /\ UNCHANGED ret
  /\ UNCHANGED <<chip, bad, data, op, size, epos, opos, vpos>>

\* Mutant: the file offsets do not skip the bad block with erase.start.
SkipErasePos == epos' = epos + 2 /\ UNCHANGED <<opos, vpos>>

Skip == epos' = epos + 2 /\ opos' = opos + 2 /\ vpos' = vpos + 2

\* MEMGETBADBLOCK fails past the end of the device: the loop is left with
\* ret as it is.
CheckBlock ==
  /\ pc = "check"
  /\ \/ epos >= End /\ Return(ret) /\ UNCHANGED <<epos, opos, vpos>>
     \/ epos < End /\ BlockOf(epos) \in bad /\ Skip /\ UNCHANGED <<pc, ret>>
     \/ /\ epos < End /\ BlockOf(epos) \notin bad
        /\ pc' = "erase"
        /\ UNCHANGED <<epos, opos, vpos, ret>>
  /\ UNCHANGED <<chip, bad, data, op, size, sec, retry>>

Erase ==
  /\ pc = "erase"
  /\ Aligned(epos)
  /\ data' = [data EXCEPT ![BlockOf(epos)] = Erased]
  /\ pc' = "write"
  /\ UNCHANGED <<chip, bad, op, size, sec, epos, opos, vpos, retry, ret>>

\* The block is worn out, or erase.start is not at a block.  On NAND it is
\* marked bad and erase.start moves on, by nread and without the offsets.
EraseError ==
  /\ pc = "erase"
  /\ Worn \/ ~Aligned(epos)
  /\ \/ data' = data
     \/ Aligned(epos) /\ data' = [data EXCEPT ![BlockOf(epos)] = Garbage]
  /\ \/ Return(-1) /\ UNCHANGED <<bad, epos>>
     \/ /\ Nand
        /\ bad' = bad \cup {BlockOf(epos)}
        /\ epos' = epos + Nread
        /\ pc' = "check"
        /\ UNCHANGED ret
  /\ UNCHANGED <<chip, op, size, sec, opos, vpos, retry>>

\* Mutant: a verify error returns the result so far.
Lenient == ret

Failed == -1

\* The blocks of a write at opos; mtdchar cuts it at the end of the device.
Touched == {b \in Block : \E p \in opos .. opos + WriteLength - 1 : BlockOf(p) = b}

\* write() either fails, leaving anything, or programs the sector, rightly
\* or wrongly; a write across two blocks leaves no block with a sector.
Write ==
  /\ pc = "write"
  /\ \/ /\ opos < End
        /\ \E good \in BOOLEAN :
             data' = [b \in Block |->
                        IF b \notin Touched THEN data[b]
                        ELSE IF good /\ Aligned(opos) THEN sec ELSE Garbage]
        /\ opos' = IF opos + WriteLength > End THEN End ELSE opos + WriteLength
        /\ pc' = "verify"
        /\ UNCHANGED ret
     \/ /\ data' = [b \in Block |-> IF b \in Touched THEN Garbage ELSE data[b]]
        /\ Return(-1)
        /\ UNCHANGED opos
  /\ UNCHANGED <<chip, bad, op, size, sec, epos, vpos, retry>>

Matches == vpos < End /\ Aligned(vpos) /\ data[BlockOf(vpos)] = sec

\* Mutant: the offset goes back by a sector even if less was written.
BackSector == 2

Back == Nread

\* Mutant: retries are not counted.
NoRetryCount == retry

RetryCount == retry - 1

Verify ==
  /\ pc = "verify"
  /\ \/ /\ Matches
        /\ epos' = epos + Nread /\ vpos' = vpos + Nread
        /\ pc' = "read"
        /\ UNCHANGED <<opos, retry, ret>>
     \/ /\ ~Matches /\ RetryCount > 0
        /\ retry' = RetryCount
        /\ opos' = opos - Back
        /\ pc' = Attempt
        /\ UNCHANGED <<epos, vpos, ret>>
     \/ /\ ~Matches /\ (RetryCount = 0 \/ vpos >= End)
        /\ Return(Failed)
        /\ UNCHANGED <<epos, opos, vpos, retry>>
  /\ UNCHANGED <<chip, bad, data, op, size, sec>>

-----------------------------------------------------------------------------
Delete ==
  /\ pc = "idle"
  /\ op' = "delete" /\ sec' = 0 /\ epos' = 0
  /\ pc' = "delete" /\ ret' = 0
  /\ UNCHANGED <<chip, bad, data, size, opos, vpos, retry>>

\* Mutant: the loop starts behind the first block.
FirstKept(b) == b > 0 /\ b < Blocks - 1

\* cnt = maxsize / SECT_SIZE - 1: the last block is left alone.
InReach(b) == b < Blocks - 1

\* An error leaves the loop, and the function returns NORMAL_END all the same.
DeleteBlock ==
  /\ pc = "delete"
  /\ \/ /\ ~(sec < Blocks - 1)
        /\ Return(0) /\ UNCHANGED <<data, sec, epos>>
     \/ /\ sec < Blocks - 1
        /\ sec' = sec + 1 /\ epos' = epos + 2
        /\ data' = IF sec \in bad \/ ~InReach(sec) THEN data
                   ELSE [data EXCEPT ![sec] = Erased]
        /\ UNCHANGED <<ret, pc>>
     \/ /\ sec < Blocks - 1 /\ sec \notin bad
        /\ Worn
        /\ data' = data \/ data' = [data EXCEPT ![sec] = Garbage]
        /\ Return(0) /\ UNCHANGED <<sec, epos>>
  /\ UNCHANGED <<chip, bad, op, size, opos, vpos, retry>>

\* An erase or a write is cut off half way.
Crash ==
  /\ pc # "idle"
  /\ \/ data' = data
     \/ /\ pc \in {"erase", "delete"} /\ epos < End
        /\ data' = [data EXCEPT ![BlockOf(epos)] = Garbage]
     \/ /\ pc = "write"
        /\ data' = [b \in Block |-> IF b \in Touched THEN Garbage ELSE data[b]]
  /\ Return(-1)
  /\ UNCHANGED <<chip, bad, op, size, sec, epos, opos, vpos, retry>>

Tool ==
  \/ Read \/ CheckBlock \/ Erase \/ EraseError \/ Write \/ Verify \/ DeleteBlock

Next ==
  \/ \E n \in 1 .. End + 1 : Save(n)
  \/ Delete \/ Tool \/ Crash

\* The tool runs; nothing makes anybody call it.
Spec == Init /\ [][Next]_vars /\ WF_vars(Tool)

-----------------------------------------------------------------------------
(* Properties *)

Good == Block \ bad

\* The how-manieth good block b is: the order get_mtdfile reads them in.
Rank(b) == Cardinality({c \in Good : c <= b})

\* Reading the good blocks in order gives the sectors of the archive first.
Restores ==
  /\ Cardinality(Good) >= Sectors
  /\ \A b \in Good : Rank(b) <= Sectors => data[b] = Rank(b)

Done(o) == pc = "idle" /\ op = o /\ ret = 0

\* A save that reports success has stored an archive that a later restore
\* reads back whole, if the good blocks have room for it and no NAND block
\* wears out meanwhile.
SavedIsRestored ==
  ~(Nand /\ Worn) /\ Done("save") /\ Sectors <= Cardinality(Good) => Restores

\* However a save ends or is cut off, a restore finds the first sectors of its
\* archive, in order and without a gap, and none of them further back.
CutIsPrefix ==
  ~(Nand /\ Worn) /\ op = "save" =>
    \A b, c \in Good : data[b] > 0 /\ c <= b => data[c] = Rank(c)

\* After a deletion that reports success nothing of the archive can be read
\* from where it begins, if no block is worn out.
DeletedIsGone ==
  ~Worn /\ Done("delete") /\ Good \cap 0 .. Blocks - 2 # {}
    => \A b \in Good : Rank(b) = 1 => data[b] = Erased

InLoop == pc \in {"read", "check", "erase", "write", "verify"}

\* Blocks that the loop has passed.
Passed == BlockOf(epos + 1)

GoodBelow(k) == {c \in Good : c < k}

\* The good blocks that a restore reads the first sectors of the archive from.
Readable == {b \in Good : \A c \in Good : c <= b => data[c] = Rank(c)}

Sure == IF InLoop THEN GoodBelow(Passed) ELSE {}
Busy == IF pc = "idle" THEN "no" ELSE op
Succeeded == pc = "idle" /\ ret = 0

Store == INSTANCE ArchiveStore WITH
  Places <- Block, room <- Good, len <- Sectors,
  held <- Readable, sure <- Sure, busy <- Busy, ok <- Succeeded

\* What a restore would find changes only as ArchiveStore says: at each step
\* of a save, whatever is retried, skipped or written partially, it grows by
\* the sector in turn or loses that one alone; success means all of it.
KeepsArchive == Store!Spec

\* Every call comes back, however many blocks are bad or verify wrongly.
CallEnds == pc # "idle" ~> pc = "idle"

-----------------------------------------------------------------------------
(* What the messages of flashcfg.c say, and does not hold. *)

\* `Save files to FlashROM' ... `done': a save reports success only if all
\* of the archive is in the FlashROM.
SaveIsComplete == Done("save") => Restores

=============================================================================
