-------------------------------- MODULE Vds ---------------------------------
(***************************************************************************)
(* The VDS (src/soft/platform/service/base/vds): virtual blocks kept on    *)
(* NOR flash, under the file system.  A partition has NrSect sectors, and  *)
(* the flash one more, the "remain" sector the garbage collection copies   *)
(* into.  A sector has a header with a status and NrPb slots, each with a  *)
(* descriptor (PBD: status, number of the virtual block, version) and the  *)
(* data.  A write takes the next slot of the current sector, and then      *)
(* invalidates the slot the block had before.  The map table `mt', the     *)
(* lists of sectors and the positions are in RAM only: vds_InitEntry       *)
(* rebuilds them from the flash.                                           *)
(*                                                                         *)
(* A step is one write to the flash, with the RAM work that follows it: a  *)
(* power cut between any two of them clears the RAM and starts             *)
(* vds_InitEntry, itself cut at any step.  Writes of a status word, of a   *)
(* header and of a descriptor are taken as atomic; an erase is not.        *)
(*                                                                         *)
(* The build modelled is the one without USER_DATA_CACHE_SUPPORT, where    *)
(* the module semaphore serialises the calls: one call runs at a time (the *)
(* targets in src/ switch the cache on).  Errors of the driver that leave  *)
(* the flash and the map apart happen only if Faults says so, see Fault.   *)
(* One partition (tgt_dsm_cfg.h declares one on flash).                    *)
(***************************************************************************)
EXTENDS Integers, Sequences, FiniteSets, FiniteSetsExt, SequencesExt

CONSTANTS Block,        \* the virtual blocks of the partition
          Data,         \* what a block may hold
          NrSect,       \* uSecCnt of the partition
          NrPb,         \* VDS_NR_PB_PER_SECT
          Rsv,          \* uRsvBlkCnt
          None,         \* erased flash (0xFFFF, VDS_SECT_NONE), NULL, zeros
          Junk,         \* a word programmed twice with different contents
          MaxVersion,   \* bound: no write once a block has this version
          Faults        \* the errors of the flash driver that may happen, see Fault

ASSUME VdsConstants ==
    /\ NrSect \in Nat \ {0} /\ NrPb \in Nat \ {0}
    /\ Rsv \in 1 .. NrSect * NrPb - 1
    /\ IsFiniteSet(Block)
    /\ Cardinality(Block) = NrSect * NrPb - Rsv    \* VDS_NR_MT_VALID_ENTRY
    /\ MaxVersion \in Nat
    /\ Junk \notin Data \cup Block
    /\ Faults \subseteq {"mark", "scan", "copy", "Status", "Data", "Pbd", "Old"}
    \* VDS_NR_PBD_PER_GROUP is 8: with other sizes vds_Gc runs over its buffers (VdsGroup).
    /\ NrPb <= 8 \/ NrPb % 8 = 0

\* None is no value: neither data nor the number of a block or a sector, a place or a call.
ASSUME NoneIsNoValue ==
    /\ None \notin Data \cup Block \cup Nat
    /\ None \notin Nat \X Nat
    /\ None \notin [blk : Block, data : Data]
    /\ None \notin [blk : Block, data : Data, done : BOOLEAN]

VARIABLES hdr,    \* flash: the status in the header of each sector
          pb,     \* flash: the slots of each sector
          part,   \* RAM: the lists of VDS_PARTITION, g_psRemainRef and psUnformatRef
          pos,    \* RAM: iCurrentPBN of each sector, -1 for VDS_BLOCK_NONE
          mt,     \* RAM: psMT
          pc,     \* where the code is
          ret,    \* where vds_Gc returns to
          scan,   \* vds_ListScan: the sectors left, and the slot
          call    \* the arguments of the VDS_WriteBlock under way

flash == <<hdr, pb>>
ram == <<part, pos, mt>>
ctl == <<pc, ret, scan, call>>
vars == <<flash, ram, ctl>>

Sector == 0 .. NrSect
Slot == 0 .. NrPb - 1
Place == Sector \X Slot

Fresh == [st |-> "free", vbn |-> None, ver |-> 0, data |-> None]
\* Nothing reads what an INVALID slot still holds: it is left out.
Dead == [Fresh EXCEPT !.st = "invalid"]
At(p) == pb[p[1]][p[2]]

\* NOR flash: a word can be programmed once after an erase.
Burn(old, new) == IF old \in {None, new} THEN new ELSE Junk

\* vds_SetPBStatus(INVALID).
Kill(p) == [pb EXCEPT ![p[1]][p[2]] = Dead]

Empty == [dirty |-> <<>>, free |-> <<>>, current |-> None, gcing |-> None,
          temp |-> None, remain |-> None, unformat |-> <<>>]

Init == /\ hdr = [s \in Sector |-> "blank"]
        /\ pb = [s \in Sector |-> [i \in Slot |-> Fresh]]
        /\ part = Empty
        /\ pos = [s \in Sector |-> -1]
        /\ mt = [b \in Block |-> None]
        /\ pc = "off" /\ ret = None /\ scan = None /\ call = None

Goto(l) == pc' = l /\ UNCHANGED <<ret, scan, call>>
GoGc(l) == pc' = "GcPick" /\ ret' = l /\ UNCHANGED <<scan, call>>
GoScan(l, secs) == /\ pc' = l /\ scan' = [secs |-> secs, i |-> 0]
                   /\ UNCHANGED <<ret, call>>
Finish == pc' = "idle" /\ call' = None /\ ret' = None /\ UNCHANGED scan

One(s) == IF s = None THEN <<>> ELSE <<s>>

\* iRefCount.  It counts the sectors of the partition, and vds_Gc counts the
\* new current sector only when it drops the collected one.
RefCount(p) == Len(p.dirty) + Len(p.free) + Len(One(p.current)) + Len(One(p.gcing))

\* vds_IsValidSn: the list of the free sectors is not searched.
Listed(s) == s \in Range(part.dirty) \cup {part.current, part.gcing, part.temp, part.remain}
-----------------------------------------------------------------------------
(* vds_InitEntry *)

\* The members of a set of numbers in their order.
Ascending(S) == [n \in 1 .. Cardinality(S) |->
                   CHOOSE s \in S : Cardinality({u \in S : u < s}) = n - 1]

\* The sectors of a status, as vds_AddSecRef leaves them: the last one first.
Down(S) == Reverse(Ascending(S))
Having(st) == {s \in Sector : hdr[s] = st}
First(S) == IF S = {} THEN None ELSE Min(S)

\* vds_CheckRemainSec: marked, and erased to its end.
IsRemain(s) == hdr[s] = "remain" /\ \A i \in Slot : pb[s][i] = Fresh

\* The scan of the headers.  A sector that is being filled by the garbage
\* collection ("temp"), one whose erase began and one that was only erased are
\* like one that was never formatted.
Scanned ==
    LET current == First(Having("current"))
        gcing == First(Having("gcing"))
        remain == First({s \in Sector : IsRemain(s)})
        used == Having("dirty") \cup Having("free") \cup {current, gcing, remain}
    IN  [dirty |-> Down(Having("dirty")), free |-> Down(Having("free")), current |-> current,
         gcing |-> gcing, temp |-> None, remain |-> remain, unformat |-> Down(Sector \ used)]

\* With a sector too many, the collection of gcing was complete but for the
\* erase (no sector is then left for a remain: the branch that makes it free
\* takes a flash with more sectors than the configuration).
InitEntry == /\ pc = "off"
             /\ part' = Scanned
             /\ IF RefCount(part') > NrSect /\ None \notin {part'.gcing, part'.current}
                  THEN pc' = "GcMark" /\ ret' = "BootClean"
                  ELSE pc' = "BootClean" /\ UNCHANGED ret
             /\ UNCHANGED <<flash, pos, mt, scan, call>>

\* A partition that misses a sector is given up as a whole.
Cleaned == IF RefCount(part) = NrSect THEN part
           ELSE [Empty EXCEPT !.remain = part.remain,
                     !.unformat = part.free \o One(part.gcing) \o One(part.current)
                                      \o part.dirty \o part.unformat]

\* "failed" is the return of an error, on which VDS_Init erases the whole flash.
BootClean == /\ pc = "BootClean"
             /\ IF Cleaned.remain # None THEN part' = Cleaned /\ Goto("BootFill")
                ELSE IF Cleaned.unformat = <<>> THEN part' = Cleaned /\ Goto("failed")
                ELSE /\ part' = [Cleaned EXCEPT !.remain = Last(Cleaned.unformat),
                                                !.unformat = Front(Cleaned.unformat)]
                     /\ Goto("BootRemain")
             /\ UNCHANGED <<flash, pos, mt>>

BootSetRemain == /\ pc = "BootSetRemain"
                 /\ hdr' = [hdr EXCEPT ![part.remain] = "remain"]
                 /\ Goto("BootFill")
                 /\ UNCHANGED <<pb, ram>>

\* Seeded fault: the sector is formatted and not linked.
BootFormat_NotLinked == /\ pc = "BootFormat"
                        /\ hdr' = [hdr EXCEPT ![Last(part.unformat)] = "free"]
                        /\ Goto("BootFill")
                        /\ UNCHANGED <<pb, ram>>

\* vds_FormatSec
BootFormat == /\ pc = "BootFormat"
              /\ LET s == Last(part.unformat) IN
                 /\ hdr' = [hdr EXCEPT ![s] = "free"]
                 /\ part' = [part EXCEPT !.free = <<s>> \o @, !.unformat = Front(@)]
                 /\ pos' = [pos EXCEPT ![s] = -1]
              /\ Goto("BootFill")
              /\ UNCHANGED <<pb, mt>>

StartScan(p) == LET secs == p.dirty \o One(p.current) IN
    IF secs # <<>> THEN GoScan("BootScan", secs)
    ELSE IF p.gcing # None THEN GoGc("idle") ELSE Finish

\* With every sector formatted, one of them must be current, unless a
\* collection was cut: it makes one.
BootCurrent ==
    /\ pc = "BootFill" /\ RefCount(part) = NrSect
    /\ IF part.current # None \/ part.gcing # None
         THEN StartScan(part) /\ UNCHANGED <<hdr, ram>>
       ELSE IF part.free = <<>>
         THEN GoGc("BootScan") /\ UNCHANGED <<hdr, ram>>
       ELSE LET s == Last(part.free) IN
            /\ part' = [part EXCEPT !.free = Front(@), !.current = s]
            /\ pos' = [pos EXCEPT ![s] = -1]
            /\ hdr' = [hdr EXCEPT ![s] = "current"]
            /\ StartScan(part')
            /\ UNCHANGED mt
    /\ UNCHANGED pb
-----------------------------------------------------------------------------
(* vds_SetMTByScanSec and vds_SetMT *)

Scanning == pc \in {"BootScan", "GcScan"}
Here == <<Head(scan.secs), scan.i>>
SectorDone == scan.i \in Slot => At(Here).st = "free"

\* Seeded fault: the versions are not compared, the copy found first stays.
SetMT_FirstStays(p) ==
    IF mt[At(p).vbn] \in {None, p} THEN mt' = [mt EXCEPT ![At(p).vbn] = p] /\ UNCHANGED pb
    ELSE pb' = Kill(p) /\ UNCHANGED mt

\* Seeded fault: the loser of the comparison is not invalidated.
SetMT_LoserStays(p) ==
    /\ mt' = IF mt[At(p).vbn] = None \/ At(p).ver >= At(mt[At(p).vbn]).ver
               THEN [mt EXCEPT ![At(p).vbn] = p] ELSE mt
    /\ UNCHANGED pb

\* A VALID slot either becomes the place of its block or is invalidated; when
\* it replaces a place in a sector in use, that one is.
SetMT(p) ==
    LET b == At(p).vbn
        old == mt[b]
        inUse == Listed(old[1]) /\ hdr[old[1]] \in {"dirty", "current"}
        newer == At(p).ver >= At(old).ver
    IN  IF old = p THEN UNCHANGED <<mt, pb>>
        ELSE IF old = None \/ ~inUse THEN mt' = [mt EXCEPT ![b] = p] /\ UNCHANGED pb
        ELSE /\ mt' = IF newer \/ At(old).vbn # b THEN [mt EXCEPT ![b] = p] ELSE mt
             /\ pb' = Kill(IF newer THEN old ELSE p)

\* Seeded fault: the number of the block is not checked.
ScanSlot_SkipsTorn == /\ Scanning /\ ~SectorDone
                      /\ IF At(Here).st = "invalid" \/ At(Here).vbn \notin Block
                           THEN UNCHANGED <<mt, pb>> ELSE SetMT(Here)
                      /\ scan' = [scan EXCEPT !.i = @ + 1]
                      /\ UNCHANGED <<hdr, part, pos, pc, ret, call>>

ScanSlot == /\ Scanning /\ ~SectorDone
            /\ IF At(Here).st = "invalid" THEN UNCHANGED <<mt, pb>>
               ELSE IF At(Here).vbn \notin Block THEN pb' = Kill(Here) /\ UNCHANGED mt
               ELSE SetMT(Here)
            /\ scan' = [scan EXCEPT !.i = @ + 1]
            /\ UNCHANGED <<hdr, part, pos, pc, ret, call>>

\* Seeded fault: the position is that of the first free slot.
Position_FirstFree(s) == IF s = part.current THEN scan.i ELSE -1

\* Seeded fault: one slot too early.
Position_Early(s) == IF s = part.current /\ scan.i > 1 THEN scan.i - 2 ELSE -1

\* At start-up the position of the current sector is its last used slot.
Position(s) == IF s = part.current THEN scan.i - 1 ELSE -1

ScanEnd ==
    /\ Scanning /\ SectorDone
    /\ LET s == Head(scan.secs)  rest == Tail(scan.secs) IN
       /\ pos' = IF pc = "GcScan" THEN pos ELSE [pos EXCEPT ![s] = Position(s)]
       /\ IF rest # <<>> THEN GoScan(pc, rest)
          ELSE /\ scan' = None
               /\ pc' = IF pc = "GcScan" THEN "GcMark"
                        ELSE IF part.gcing # None THEN "GcPick" ELSE "idle"
               /\ ret' = IF pc' = "GcPick" THEN "idle" ELSE ret
               /\ UNCHANGED call
    /\ UNCHANGED <<flash, part, mt>>
-----------------------------------------------------------------------------
(* vds_Gc *)

ValidSlots(s) == {i \in Slot : pb[s][i].st = "valid"}
Count(s) == Cardinality(ValidSlots(s))

\* vds_GetGcingSector: the first of the dirty list with the fewest valid
\* slots, and none whose slots are all valid.
Emptiest(d) == {i \in DOMAIN d : /\ Count(d[i]) < NrPb
                                 /\ \A j \in DOMAIN d : Count(d[i]) <= Count(d[j])}
Victim == Min(Emptiest(part.dirty))
Pick == part.dirty[Victim]

\* The write returns ERR_VDS_SPACE_FULL, the start-up fails.
GcFails == /\ IF ret = "Status" THEN Finish ELSE Goto("failed")
           /\ UNCHANGED <<flash, ram>>

GcPick == /\ pc = "GcPick"
          /\ IF part.gcing # None THEN Goto("GcTemp") /\ UNCHANGED <<flash, ram>>
             ELSE IF Emptiest(part.dirty) = {} THEN GcFails
             ELSE /\ hdr' = [hdr EXCEPT ![Pick] = "gcing"]
                  /\ part' = [part EXCEPT !.dirty = RemoveAt(@, Victim), !.gcing = Pick]
                  /\ Goto("GcTemp")
                  /\ UNCHANGED <<pb, pos, mt>>

\* vds_GetRemainSector
GcTemp == /\ pc = "GcTemp"
          /\ IF part.remain = None THEN GcFails
             ELSE /\ hdr' = [hdr EXCEPT ![part.remain] = "temp"]
                  /\ part' = [part EXCEPT !.temp = part.remain, !.remain = None]
                  /\ Goto("GcPbd")
                  /\ UNCHANGED <<pb, pos, mt>>

\* What is copied, slot by slot: VdsGroup shows that the loop over groups of
\* eight does so.  A cut before the next step voids the sector.
Copied == LET from == Ascending(ValidSlots(part.gcing))
          IN  [i \in 0 .. Len(from) - 1 |-> pb[part.gcing][from[i + 1]]]

\* The descriptors, one version up, then the data.
GcPbd == /\ pc = "GcPbd"
         /\ pb' = [pb EXCEPT ![part.temp] = [i \in Slot |->
                IF i \notin DOMAIN Copied THEN @[i]
                ELSE [st |-> "valid", ver |-> Copied[i].ver + 1, data |-> @[i].data,
                      vbn |-> Burn(@[i].vbn, Copied[i].vbn)]]]
         /\ Goto("GcPb")
         /\ UNCHANGED <<hdr, ram>>

WithData(slot, d) == [slot EXCEPT !.data = Burn(@, d)]

GcPb == /\ pc = "GcPb"
        /\ pb' = [pb EXCEPT ![part.temp] = [i \in Slot |->
               IF i \notin DOMAIN Copied THEN @[i] ELSE WithData(@[i], Copied[i].data)]]
        /\ pos' = [pos EXCEPT ![part.temp] = Count(part.gcing)]
        /\ Goto("GcCurrent")
        /\ UNCHANGED <<hdr, part, mt>>

GcCurrent == /\ pc = "GcCurrent"
             /\ LET s == part.temp IN
                IF pos[s] >= NrPb THEN GcFails
                ELSE /\ hdr' = [hdr EXCEPT ![s] = "current"]
                     /\ pos' = [pos EXCEPT ![s] = @ - 1]
                     /\ part' = [part EXCEPT !.current = s, !.temp = None]
                     /\ GoScan("GcScan", <<s>>)
                     /\ UNCHANGED <<pb, mt>>

\* Seeded fault: the erase begins with the header still in use.
GcMark_NotVoided == /\ pc = "GcMark"
                    /\ pos' = [pos EXCEPT ![part.gcing] = -1]
                    /\ Goto("GcErase")
                    /\ UNCHANGED <<flash, part, mt>>

\* The header is voided first: "an erase cut by a power-down may have changed
\* the end of the sector before its beginning" (change_log.txt, VER00B14).
GcMark == /\ pc = "GcMark"
          /\ hdr' = [hdr EXCEPT ![part.gcing] = "erasing"]
          /\ pos' = [pos EXCEPT ![part.gcing] = -1]
          /\ Goto("GcErase")
          /\ UNCHANGED <<pb, part, mt>>
-----------------------------------------------------------------------------
(* vds_EraseSec *)

\* Where the three uses of vds_EraseSec go on when the erase has begun.
Erasing == [GcErase |-> "GcErasing", BootRemain |-> "BootErasing", BootFill |-> "FillErasing"]

Target == IF pc \in {"GcErase", "GcErasing"} THEN part.gcing
          ELSE IF pc \in {"BootRemain", "BootErasing"} THEN part.remain
          ELSE Last(part.unformat)

\* Cut now, the erase leaves the header, and slots nothing can be written to.
EraseBegin == /\ pc \in DOMAIN Erasing
              /\ pc = "BootFill" => RefCount(part) < NrSect
              /\ pb' = [pb EXCEPT ![Target] = [i \in Slot |-> Dead]]
              /\ Goto(Erasing[pc])
              /\ UNCHANGED <<hdr, ram>>

\* The header written back holds the erase counter only.
Erased == /\ pb' = [pb EXCEPT ![Target] = [i \in Slot |-> Fresh]]
          /\ hdr' = [hdr EXCEPT ![Target] = "blank"]

BootErased == /\ pc \in {"BootErasing", "FillErasing"}
              /\ Erased
              /\ Goto(IF pc = "BootErasing" THEN "BootSetRemain" ELSE "BootFormat")
              /\ UNCHANGED ram

\* The end of vds_Gc, and what each of its callers does next.
GcErased ==
    /\ pc = "GcErasing"
    /\ Erased
    /\ part' = [part EXCEPT !.gcing = None, !.remain = part.gcing]
    /\ pos' = IF ret = "Status" THEN [pos EXCEPT ![part.current] = @ + 1] ELSE pos
    /\ IF ret = "BootScan" THEN StartScan(part')
       ELSE IF ret = "idle" THEN Finish
       ELSE Goto(ret)
    /\ UNCHANGED mt
-----------------------------------------------------------------------------
(* VDS_WriteBlock, VDS_RevertBlock and VDS_ReadBlock *)

New == <<part.current, pos[part.current]>>
Old == mt[call.blk]

WriteBlock(b, d) ==
    /\ pc = "idle"
    /\ \A p \in Place : At(p).ver < MaxVersion
    /\ call' = [blk |-> b, data |-> d]
    /\ pc' = "Move"
    /\ UNCHANGED <<flash, ram, ret, scan>>

\* vds_MoveCurrentPos
Move == LET c == part.current IN
    /\ pc = "Move"
    /\ IF c # None /\ pos[c] # NrPb - 1
         THEN pos' = [pos EXCEPT ![c] = @ + 1] /\ Goto("Status") /\ UNCHANGED <<hdr, part>>
       ELSE IF c = None THEN GoGc("Status") /\ UNCHANGED <<hdr, part, pos>>
       ELSE /\ hdr' = [hdr EXCEPT ![c] = "dirty"]
            /\ part' = [part EXCEPT !.dirty = Append(@, c), !.current = None]
            /\ IF part.free = <<>> THEN GoGc("Status") ELSE Goto("Pop")
            /\ UNCHANGED pos
    /\ UNCHANGED <<pb, mt>>

\* vds_Pop
Pop == LET s == Head(part.free) IN
    /\ pc = "Pop"
    /\ hdr' = [hdr EXCEPT ![s] = "current"]
    /\ part' = [part EXCEPT !.current = s, !.free = Tail(@)]
    /\ pos' = [pos EXCEPT ![s] = @ + 1]
    /\ Goto("Status")
    /\ UNCHANGED <<pb, mt>>

\* An error of the flash driver, and a slot that does not read back VALID: the
\* slot is invalidated and the call returns ERR_VDS_FLASH_DRV_WRITE.
WriteFails == /\ pc \in {"Status", "Data", "Pbd"}
              /\ pb' = Kill(New)
              /\ Finish
              /\ UNCHANGED <<hdr, ram>>


SetStatus == /\ pc = "Status" /\ At(New).st # "invalid"
             /\ pb' = [pb EXCEPT ![New[1]][New[2]].st = "valid"]
             /\ Goto("Data")
             /\ UNCHANGED <<hdr, ram>>

WritePB == /\ pc = "Data"
           /\ pb' = [pb EXCEPT ![New[1]][New[2]].data = Burn(@, call.data)]
           /\ Goto("Pbd")
           /\ UNCHANGED <<hdr, ram>>

\* Seeded fault: the version of the old copy is kept.
Version_Same == IF Old = None THEN 0 ELSE At(Old).ver

Version == IF Old = None THEN 0 ELSE At(Old).ver + 1

WritePBD == /\ pc = "Pbd"
            /\ pb' = [pb EXCEPT ![New[1]][New[2]].vbn = Burn(@, call.blk),
                                ![New[1]][New[2]].ver = Version]
            /\ Goto("Old")
            /\ UNCHANGED <<hdr, ram>>

\* The map table, then the slot the block had before.
Invalidate == /\ pc = "Old"
              /\ mt' = [mt EXCEPT ![call.blk] = New]
              /\ pb' = IF Old = None THEN pb ELSE Kill(Old)
              /\ Finish
              /\ UNCHANGED <<hdr, part, pos>>

RevertBlock(b) == /\ pc = "idle" /\ mt[b] # None
                  /\ pb' = Kill(mt[b])
                  /\ mt' = [mt EXCEPT ![b] = None]
                  /\ UNCHANGED <<hdr, part, pos, ctl>>

-----------------------------------------------------------------------------
(* Errors of the flash driver that leave a slot without its INVALID mark, and   *)
(* those of a copy.  (An error in VDS_RevertBlock is taken to change nothing; the  *)
(* errors of erases and of writes to a header are not modelled.)                *)

\* The map has changed, the old copy stays VALID; the call reports an error.
InvalidateFails == /\ "mark" \in Faults /\ pc = "Old" /\ Old # None
                   /\ mt' = [mt EXCEPT ![call.blk] = New]
                   /\ Finish
                   /\ UNCHANGED <<flash, part, pos>>

\* WriteFails at a stage in Faults, without the mark, whose error is ignored, or before
\* anything was written (the read of the old descriptor): the slot stays as it is.
WriteLeaves == /\ pc \in Faults \cap {"Status", "Data", "Pbd", "Old"}
               /\ Finish
               /\ UNCHANGED <<flash, ram>>

\* vds_SetMT with an error of the mark: the map has moved to the newer slot.
SetMTFails(p) ==
    LET b == At(p).vbn
        old == mt[b]
    IN  /\ old \notin {None, p}
        /\ Listed(old[1]) /\ hdr[old[1]] \in {"dirty", "current"}
        /\ mt' = IF At(p).ver >= At(old).ver \/ At(old).vbn # b THEN [mt EXCEPT ![b] = p] ELSE mt

\* A scan is given up at the first error: the write returns ERR_VDS_SPACE_FULL
\* in the middle of a collection, the start-up fails.
ScanFails == /\ "scan" \in Faults /\ Scanning /\ ~SectorDone
             /\ At(Here).st = "valid"
             /\ IF At(Here).vbn \in Block THEN SetMTFails(Here) ELSE UNCHANGED mt
             /\ pc' = IF ret = "Status" THEN "idle" ELSE "failed"
             /\ ret' = None /\ scan' = None /\ call' = None
             /\ UNCHANGED <<flash, part, pos>>

CopyFails == "copy" \in Faults /\ pc \in {"GcPbd", "GcPb"} /\ GcFails

Fault == InvalidateFails \/ WriteLeaves \/ ScanFails \/ CopyFails
-----------------------------------------------------------------------------
\* What VDS_ReadBlock returns; the assertion that stops it is Junk.
ReadBlock(b) == IF mt[b] = None THEN None
                ELSE IF At(mt[b]).st # "valid" THEN Junk ELSE At(mt[b]).data
-----------------------------------------------------------------------------
PowerCut == /\ part' = Empty
            /\ pos' = [s \in Sector |-> -1]
            /\ mt' = [b \in Block |-> None]
            /\ pc' = "off" /\ ret' = None /\ scan' = None /\ call' = None
            /\ UNCHANGED flash

Boot == InitEntry \/ BootClean \/ BootSetRemain \/ BootFormat \/ BootCurrent \/ BootErased
Scan == ScanSlot \/ ScanEnd
Gc == GcPick \/ GcTemp \/ GcPbd \/ GcPb \/ GcCurrent \/ GcMark \/ GcErased
Write == Move \/ Pop \/ WriteFails \/ SetStatus \/ WritePB \/ WritePBD \/ Invalidate
Step == Boot \/ Scan \/ Gc \/ Write \/ EraseBegin \/ Fault
Call == (\E b \in Block, d \in Data : WriteBlock(b, d)) \/ \E b \in Block : RevertBlock(b)

Next == Step \/ Call \/ PowerCut

\* The task that called runs on.
Spec == Init /\ [][Next]_vars /\ WF_vars(Step)
-----------------------------------------------------------------------------
(* Properties *)

\* The copies of a block a start-up would look at, and the one it would keep.
Copies(b) == {p \in Place : /\ hdr[p[1]] \in {"dirty", "current", "gcing"}
                            /\ At(p).st = "valid" /\ At(p).vbn = b}
Newest(b) == CHOOSE p \in Copies(b) : \A q \in Copies(b) : At(q).ver <= At(p).ver
Stored == [b \in Block |-> IF Copies(b) = {} THEN None ELSE At(Newest(b)).data]

\* The types; in particular no word of a slot is ever programmed twice.
TypeOK ==
    /\ hdr \in [Sector -> {"blank", "remain", "free", "current", "dirty", "gcing", "temp", "erasing"}]
    /\ pb \in [Sector -> [Slot -> [st : {"free", "valid", "invalid"}, vbn : Block \cup {None},
                                   ver : Nat, data : Data \cup {None}]]]
    /\ mt \in [Block -> Place \cup {None}]
    /\ pos \in [Sector -> -1 .. NrPb - 1]
    /\ call = None \/ call \in [blk : Block, data : Data]

\* The versions decide between any two copies of a block that a start-up can
\* find, whatever a power cut left.
VersionsDecide == \A b \in Block : \A p, q \in Copies(b) :
    p # q => At(p).ver # At(q).ver

\* Between two calls each block has one valid copy, the map table points to
\* it, a read returns what a start-up would find, and no slot is left VALID
\* without a block.
MapIsExact == pc = "idle" =>
    /\ \A b \in Block : /\ Copies(b) = IF mt[b] = None THEN {} ELSE {mt[b]}
                        /\ ReadBlock(b) = Stored[b]
    /\ \A p \in Place : At(p).st = "valid" => At(p).vbn \in Block

\* A write always finds a slot: the collection never runs out of sectors to
\* collect or of a sector to copy to, and no start-up gives up and erases all.
NeverFull == /\ pc = "GcPick" => part.gcing # None \/ Emptiest(part.dirty) # {}
             /\ pc = "GcTemp" => part.remain # None
             /\ pc # "failed"

\* Between two calls the lists say what the headers say, and every slot the
\* positions still promise is erased.
ListsMatchFlash == pc = "idle" =>
    /\ RefCount(part) = NrSect /\ part.remain # None /\ part.current # None
    /\ \A s \in Sector : /\ s \in Range(part.dirty) <=> hdr[s] = "dirty"
                         /\ s = part.current <=> hdr[s] = "current"
    /\ \A i \in Slot : i > pos[part.current] => pb[part.current][i] \in {Fresh, Dead}
    /\ \A i \in Slot : pb[part.remain][i] = Fresh

\* Even when old copies stay VALID and collections break off, the map table names valid
\* copies of the right blocks: no read between two calls asserts or returns another block.
MapNamesCopies == pc = "idle" => \A b \in Block : mt[b] # None => mt[b] \in Copies(b)

Reverts(b) == pc = "idle" /\ pc' = "idle" /\ mt[b] # None /\ mt'[b] = None
Formats == pc \in {"BootRemain", "BootFill"}


\* The block store, through power cuts.
Abs == INSTANCE VdsAbs WITH store <- Stored,
         call <- IF call = None THEN None
                 ELSE [blk |-> call.blk, data |-> call.data, done |-> pc = "Old"]
BlockStore == Abs!ASpec

\* Unless the power is cut again and again, every start-up and every call ends, whatever
\* the driver reports.
ComesBack == []<>(pc \in {"idle", "failed"}) \/ []<><<PowerCut>>_vars
-----------------------------------------------------------------------------
(* The inductive invariant behind the safety properties.                    *)

Has(st) == \E s \in Sector : hdr[s] = st
Live(p) == hdr[p[1]] \in {"dirty", "current", "gcing"}
Counted(s) == hdr[s] \in {"dirty", "free", "current", "gcing"}
HasData == \E s \in Sector : hdr[s] \in {"dirty", "current", "gcing"}
Clear(p) == At(p) \in {Fresh, Dead}
AllFresh(s) == \A i \in Slot : At(<<s, i>>) = Fresh
Torn(p) == Live(p) /\ At(p).st = "valid" /\ At(p).vbn = None

Booting == {"BootClean", "BootRemain", "BootErasing", "BootSetRemain", "BootFill",
            "FillErasing", "BootFormat"}
Writing == {"Status", "Data", "Pbd", "Old"}
Making == {"GcPbd", "GcPb", "GcCurrent"}
Dropping == {"GcScan", "GcMark", "GcErase", "GcErasing"}
Collecting == {"GcPick", "GcTemp"} \cup Making \cup Dropping

\* Once something was written, one sector at most is not counted, and none is when both
\* the victim of a collection and its copy are there; before, a remain sector comes first.
HeadersSound ==
    /\ \A s, u \in Sector : hdr[s] = hdr[u] /\ hdr[s] \in {"remain", "current", "gcing"} => s = u
    /\ HasData => \A s, u \in Sector : ~Counted(s) /\ ~Counted(u) => s = u
    /\ \A s \in Sector : hdr[s] \in {"temp", "erasing"} => HasData
    /\ HasData \/ Has("remain") \/ \A s \in Sector : hdr[s] = "blank"
    /\ (\A s \in Sector : Counted(s)) <=> Has("gcing") /\ Has("current")

\* What the slots of a sector may hold, by its header.
SlotsSound ==
    /\ \A p \in Place : /\ hdr[p[1]] = "remain" => At(p) = Fresh
                        /\ hdr[p[1]] = "free" => Clear(p)
                        /\ Live(p) => Clear(p) \/ At(p).st = "valid"
                        /\ Torn(p) => hdr[p[1]] = "current" /\ ~Has("gcing")
    /\ \A s \in Sector : hdr[s] \in {"dirty", "current"} => \A i, j \in Slot :
         i < j /\ At(<<s, i>>).st = "free" => At(<<s, j>>).st # "valid"
    /\ \A s \in Sector : hdr[s] = "gcing" => \E i \in Slot : At(<<s, i>>).st # "valid"

\* Two copies of a block: a write that is not over, or a victim and its copy.
CopiesSound == \A b \in Block :
    /\ \A p, q \in Copies(b) : p # q =>
         /\ At(p).ver # At(q).ver
         /\ "current" \in {hdr[p[1]], hdr[q[1]]}
         /\ Has("gcing") => "gcing" \in {hdr[p[1]], hdr[q[1]]}
         /\ hdr[p[1]] = "gcing" => At(p).ver < At(q).ver /\ At(p).data = At(q).data
    /\ \A p \in Copies(b) : hdr[p[1]] = "gcing" /\ Has("current") =>
         \E q \in Copies(b) : hdr[q[1]] = "current"

Partition == [dirty : Seq(Sector), free : Seq(Sector), current : Sector \cup {None},
              gcing : Sector \cup {None}, temp : Sector \cup {None},
              remain : Sector \cup {None}, unformat : Seq(Sector)]
Role == {"dirty", "free", "current", "gcing", "temp", "remain", "unformat"}

\* Every sector is in one place of the partition.
Roles(p, role) == \A s \in Sector :
    /\ s \in Range(p.dirty) <=> role[s] = "dirty"
    /\ s \in Range(p.free) <=> role[s] = "free"
    /\ s = p.current <=> role[s] = "current"
    /\ s = p.gcing <=> role[s] = "gcing"
    /\ s = p.temp <=> role[s] = "temp"
    /\ s = p.remain <=> role[s] = "remain"
    /\ s \in Range(p.unformat) <=> role[s] = "unformat"

PartSound ==
    /\ part \in Partition
    /\ IsInjective(part.dirty) /\ IsInjective(part.free) /\ IsInjective(part.unformat)
    /\ pc # "off" => \E role \in [Sector -> Role] : Roles(part, role)

\* The lists and the headers.
ListsSound == pc # "off" => \A s \in Sector :
    /\ s \in Range(part.dirty) <=> hdr[s] = "dirty"
    /\ s = part.current <=> hdr[s] = "current"
    /\ s \in Range(part.free) => hdr[s] = "free"
    /\ s = part.temp => hdr[s] = "temp"
    /\ s = part.gcing <=> hdr[s] = IF pc \in {"GcErase", "GcErasing"} THEN "erasing" ELSE "gcing"
    /\ s = part.remain =>
         CASE pc \in {"BootRemain", "BootErasing"} -> ~Counted(s) /\ hdr[s] # "remain"
           [] pc = "BootSetRemain" -> hdr[s] = "blank" /\ AllFresh(s)
           [] OTHER -> hdr[s] \in {"remain", "blank"} /\ AllFresh(s)
    /\ s \in Range(part.unformat) => hdr[s] # "remain" /\ (Counted(s) => ~HasData)

\* What the partition looks like at each stage.
StageSound ==
    /\ pc \in {"off", "idle", "Move", "Pop", "BootScan"} \cup Booting \cup Writing \cup Collecting
    /\ pc = "off" => part = Empty
    /\ pc \notin Making => part.temp = None
    /\ pc \in Booting => ~(part.gcing # None /\ part.current # None)
    /\ pc \in Booting \ {"BootClean"} => part.remain # None
    /\ pc \in {"FillErasing", "BootFormat"} => part.unformat # <<>>
    /\ pc = "BootFormat" => LET s == Last(part.unformat)
                            IN  hdr[s] = "blank" /\ AllFresh(s)
    /\ pc \in {"BootClean", "BootFill", "FillErasing", "BootFormat"} /\ part.remain # None =>
         HasData \/ Has("remain")
    /\ pc \notin Booting => part.unformat = <<>>
    /\ pc = "BootScan" => part.remain # None /\ (part.gcing = None <=> part.current # None)
    /\ pc \in {"idle", "Move", "Pop"} \cup Writing => part.remain # None /\ part.gcing = None
    /\ pc \in {"idle", "Move"} \cup Writing => part.current # None
    /\ pc = "Pop" => part.current = None /\ part.free # <<>>
    /\ pc \in {"GcPick", "GcTemp"} => part.remain # None /\ part.current = None
    /\ pc = "GcPick" /\ part.gcing = None => part.free = <<>>
    /\ pc \in {"GcTemp"} \cup Making \cup Dropping => part.gcing # None
    /\ pc \in Making => part.temp # None /\ part.remain = None /\ part.current = None
    /\ pc \in Dropping => part.current # None /\ part.remain = None

\* Where a collection returns to, and when a call is under way.
CallSound ==
    /\ pc \in Collecting => ret \in {"Status", "idle", "BootScan", "BootClean"}
    /\ pc \in Collecting /\ ret = "BootClean" => pc \in {"GcMark", "GcErase", "GcErasing"}
    /\ call # None <=> \/ pc \in {"Move", "Pop"} \cup Writing
                       \/ pc \in Collecting /\ ret = "Status"

\* The places a scan is through with, and those the map table is known to be right about.
Passed(p) == p[1] \in Range(scan.secs) => p[1] = Head(scan.secs) /\ p[2] < scan.i
Settled(p) == /\ Live(p)
              /\ \/ pc \in {"idle", "Move", "Pop"} \cup Writing
                 \/ pc \in Collecting /\ ret \in {"Status", "idle"} /\ hdr[p[1]] = "dirty"
                 \/ pc = "GcScan" /\ hdr[p[1]] = "current" /\ p[2] < scan.i
                 \/ pc \in Dropping \ {"GcScan"} /\ ret # "BootClean" /\ hdr[p[1]] = "current"
                 \/ pc = "BootScan" /\ hdr[p[1]] # "gcing" /\ Passed(p)

ScanSound ==
    /\ pc \in {"BootScan", "GcScan"} =>
         /\ scan \in [secs : Seq(Sector), i : 0 .. NrPb]
         /\ scan.secs # <<>> /\ IsInjective(scan.secs)
         /\ \A i \in Slot : i < scan.i => At(<<Head(scan.secs), i>>).st # "free"
    /\ pc = "GcScan" => scan.secs = <<part.current>>
    /\ pc = "BootScan" => \A s \in Range(scan.secs) : hdr[s] \in {"dirty", "current"}

\* The map table points to copies, to the one copy where the scan is through, and a
\* slot without a block is left by the write under way only.
MapSound ==
    /\ \A b \in Block : mt[b] # None => mt[b] \in Copies(b)
    /\ \A b \in Block : mt[b] # None /\ pc = "BootScan" => hdr[mt[b][1]] # "gcing"
    /\ pc \in {"off"} \cup Booting \/ (pc \in Collecting /\ ret = "BootClean") =>
         \A b \in Block : mt[b] = None
    /\ \A p \in Place : Settled(p) =>
         /\ \A b \in Block : p \in Copies(b) => mt[b] = p \/ (pc = "Old" /\ p = New)
         /\ Torn(p) => pc \in {"Data", "Pbd"} /\ p = New

\* The position of the current sector: used before it, erased behind it.
Positioned == \/ pc \in {"idle", "Move"} \cup Writing
              \/ pc \in Dropping /\ ret # "BootClean"
              \/ pc = "BootScan" /\ part.current \notin Range(scan.secs) \cup {None}
PositionsSound ==
    /\ pc = "off" => \A s \in Sector : pos[s] = -1
    /\ \A s \in Range(part.free) : pos[s] = -1
    /\ Positioned => \A i \in Slot : LET at == pos[part.current]
                                        p == <<part.current, i>>
         IN  /\ i > at => Clear(p)
             /\ i < at \/ (i = at /\ pc # "Status") => At(p).st # "free"
    /\ pc \in Writing => pos[part.current] # -1
    /\ pc \in Dropping /\ ret = "Status" => pos[part.current] + 1 < NrPb

\* The slot a write fills.
NewSound ==
    /\ pc = "Status" => Clear(New)
    /\ pc = "Data" => At(New) = [Fresh EXCEPT !.st = "valid"]
    /\ pc = "Pbd" => At(New) = [st |-> "valid", vbn |-> None, ver |-> 0, data |-> call.data]
    /\ pc = "Old" => /\ At(New) = [st |-> "valid", vbn |-> call.blk, ver |-> Version,
                                   data |-> call.data]
                     /\ Old # New

\* The sector a collection fills.
CopySound ==
    /\ pc = "GcPbd" => AllFresh(part.temp)
    /\ pc \in {"GcPb", "GcCurrent"} => \A i \in Slot :
         At(<<part.temp, i>>) =
           IF i \notin DOMAIN Copied THEN Fresh
           ELSE [st |-> "valid", vbn |-> Copied[i].vbn, ver |-> Copied[i].ver + 1,
                 data |-> IF pc = "GcPb" THEN None ELSE Copied[i].data]
    /\ pc = "GcCurrent" => pos[part.temp] = Count(part.gcing)

\* Whatever was written, collected or cut off: headers, slots, copies, lists, tables and
\* positions fit the stage the code is at, so that the next step finds what it relies on.
VdsInv ==
    /\ TypeOK
    /\ HeadersSound /\ SlotsSound /\ CopiesSound
    /\ PartSound /\ ListsSound /\ StageSound
    /\ CallSound /\ ScanSound /\ MapSound
    /\ PositionsSound /\ NewSound /\ CopySound
=============================================================================
