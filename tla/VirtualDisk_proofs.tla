------------------------- MODULE VirtualDisk_proofs -------------------------
(***************************************************************************)
(* For a disk of any size, any commands and any number of kills: the count *)
(* of free blocks is exact but for one per kill; every block has one owner,*)
(* and none is lost while no command fails half way; and no command whose  *)
(* parent is a directory writes to a block that is not its own.            *)
(***************************************************************************)
EXTENDS VirtualDisk, FiniteSetTheorems, SequenceTheorems, NaturalsInduction,
        WellFoundedInduction, TLAPS

Fields == DOMAIN NoJob
Text   == STRING

Shapes == /\ used \subseteq Blocks /\ NFREEBLOCKS \in Int /\ crashes \in Nat
          /\ DOMAIN slots = All
          /\ DOMAIN job = Fields
          /\ job.rest \in Seq(Text)

(* What the place in a command tells of the command.                       *)
Flow == /\ pc = "md" => job.kind = "d"
        /\ pc \in {"first", "more", "fill", "chain"} => job.kind = "f"
        /\ pc = "format" => job.kind = "d"
        /\ pc = "free" => job.kind = "d"
        /\ pc = "count" => /\ job.after \in {"format", "fill", "chain", "link"}
                           /\ job.after = "format" => job.kind = "d"
                           /\ job.after \in {"fill", "chain"} => job.kind = "f"
                           /\ job.new \in used

(* A new directory has its block until it is given back.                   *)
Holds == pc \in {"format", "enter", "extend", "free"} /\ job.kind = "d" => job.first \in used

(* What write_to_disk has counted is still there.                          *)
Space == job.src = NIL =>
           /\ pc \in {"first", "more"} \/ (pc = "count" /\ job.after \in {"fill", "chain"}) =>
                NFREEBLOCKS >= Len(job.rest) /\ Len(job.rest) > 0
           /\ pc \in {"fill", "chain"} =>
                NFREEBLOCKS + 1 >= Len(job.rest) /\ Len(job.rest) > 0

(* copyfile asks for another block only if the source has one.             *)
Source == /\ job.src # NIL
          /\ pc \in {"more", "chain"} \/ (pc = "count" /\ job.after = "chain")
          => next[job.src] # NIL

(* The parent of md stays a directory, as the new block is another one.    *)
Parent == /\ job.known => job.parent # NOWHERE
          /\ job.known /\ job.kind = "d" =>
               /\ pc \in {"md", "format", "enter"} => IsDirectory(job.parent)
               /\ pc = "count" /\ job.after = "format" =>
                    IsDirectory(job.parent) /\ job.new # job.parent
               /\ pc = "format" => job.first # job.parent

IInv == Shapes /\ Flow /\ Holds /\ Space /\ Source /\ Parent /\ CountExact
          /\ StaysOnDisk

USE DEF All

LEMMA OneLess ==
  ASSUME NEW S, IsFiniteSet(S), NEW b \in S
  PROVE  Cardinality(S \ {b}) = Cardinality(S) - 1 /\ Cardinality(S) \in Nat
BY FS_RemoveElement, FS_CardinalityType

LEMMA Contents == HdFiles \subseteq Seq(Text)
BY DiskAssumption DEF Text

LEMMA Amounts == Shapes => Free \in Nat /\ CountDue \in Int /\ Len(job.rest) \in Nat
<1> SUFFICES ASSUME Shapes PROVE Free \in Nat /\ CountDue \in Int /\ Len(job.rest) \in Nat
  OBVIOUS
<1>1. Free \in Nat
  BY DiskAssumption, FS_Difference, FS_CardinalityType DEF Free
<1>2. CountDue \in Int
  BY DEF Shapes, CountDue
<1>3. Len(job.rest) \in Nat
  BY LenProperties DEF Shapes
<1>4. QED BY <1>1, <1>2, <1>3

LEMMA IdleJob ==
  DOMAIN NoJob = Fields /\ NoJob.rest \in Seq(Text) /\ NoJob.kind = Empty /\ NoJob.known = FALSE
<1>1. NoJob.rest = <<>> /\ NoJob.kind = Empty /\ NoJob.known = FALSE  BY DEF NoJob
<1>2. <<>> \in Seq(Text)  OBVIOUS
<1>3. QED BY <1>1, <1>2 DEF Fields

LEMMA TakeStep ==
  ASSUME NEW b \in Blocks, IInv, Take(b)
  PROVE  IInv'
<1> USE DEF IInv, Take, Takes, AfterCount
<1>1. Shapes'
  BY DEF Shapes, Fields
<1>2. Flow'
  BY DEF Flow, Shapes, Fields
<1>3. Holds'
  BY DEF Holds, Flow, Shapes, Fields
<1>4. Space'
  BY DEF Space, Source, Shapes, Flow, Fields
<1>5. Source'
  BY DEF Source, Shapes, Flow, Fields
<1>6. Parent'
  <2>1. ASSUME NEW d, IsDirectory(d) PROVE IsDirectory(d)' /\ d # b
    BY <2>1, DiskAssumption DEF IsDirectory, isallocated
  <2>2. job'.kind = job.kind /\ job'.parent = job.parent /\ job'.new = b
    BY DEF Shapes, Fields
  <2>3. CASE pc = "md"
    BY <2>1, <2>2, <2>3 DEF Parent
  <2>4. CASE pc # "md"
    BY <2>1, <2>2, <2>4 DEF Parent, Flow, Shapes, Fields
  <2>5. QED BY <2>3, <2>4
<1>7. CountExact'
  <2>1. Blocks \ used' = (Blocks \ used) \ {b} /\ IsFiniteSet(Blocks \ used)
    BY DiskAssumption, FS_Difference
  <2>2. Free' = Free - 1
    BY <2>1, OneLess DEF Free
  <2>3. CountDue' = CountDue - 1
    BY DEF CountDue, Shapes
  <2>4. crashes' = crashes /\ Free \in Nat /\ CountDue \in Int /\ crashes \in Nat
    BY Amounts DEF Shapes
  <2>5. CountExact
    OBVIOUS
  <2>6. QED BY <2>2, <2>3, <2>4, <2>5 DEF CountExact
<1>8. StaysOnDisk'
  BY DEF StaysOnDisk, Parent, Space, Shapes, Flow, Fields
<1>9. QED BY <1>1, <1>2, <1>3, <1>4, <1>5, <1>6, <1>7, <1>8

LEMMA CountStep ==
  ASSUME IInv, Count
  PROVE  IInv'
<1> USE DEF IInv, Count
<1>1. Shapes'
  BY DEF Shapes, Fields
<1>2. Flow'
  BY DEF Flow, Shapes, Fields
<1>3. Holds'
  BY DEF Holds, Flow, Shapes, Fields
<1>4. Space'
  BY DEF Space, Source, Shapes, Flow, Fields
<1>5. Source'
  BY DEF Source, Shapes, Flow, Fields
<1>6. Parent'
  BY DEF Parent, Flow, Shapes, Fields, IsDirectory, isallocated
<1>7. CountExact'
  BY DEF CountExact, CountDue, Free, Flow, Shapes
<1>8. StaysOnDisk'
  BY DEF StaysOnDisk, Parent, Space, Shapes, Flow, Fields
<1>9. QED BY <1>1, <1>2, <1>3, <1>4, <1>5, <1>6, <1>7, <1>8

LEMMA TakeFailsStep ==
  ASSUME IInv, TakeFails
  PROVE  IInv'
<1> USE DEF IInv, TakeFails, AfterFail, Takes, disk
<1>0. DOMAIN job' = Fields /\ job'.rest \in Seq(Text)
  BY IdleJob DEF Shapes
<1>1. Shapes'
  BY <1>0 DEF Shapes, Fields
<1>2. Flow'
  BY DEF Flow, Shapes, Fields
<1>3. Holds'
  BY DEF Holds, Flow, Shapes, Fields
<1>4. Space'
  BY DEF Space, Source, Shapes, Flow, Fields
<1>5. Source'
  BY DEF Source, Shapes, Flow, Fields
<1>6. Parent'
  BY IdleJob DEF Parent, Flow, Shapes, Fields, IsDirectory, isallocated
<1>7. CountExact'
  BY DEF CountExact, CountDue, Free, Flow, Shapes
<1>8. StaysOnDisk'
  <2>1. Len(job.rest) \in Nat
    BY Amounts
  <2>2. ASSUME pc = "more", job.src = NIL PROVE FALSE
    BY <2>1, <2>2 DEF Space
  <2>3. pc' # "wild" /\ pc' # "overrun"
    BY <2>2
  <2>4. QED BY <2>3 DEF StaysOnDisk
<1>9. QED BY <1>1, <1>2, <1>3, <1>4, <1>5, <1>6, <1>7, <1>8

LEMMA FreeBitStep ==
  ASSUME IInv, FreeBit
  PROVE  IInv'
<1> USE DEF IInv, FreeBit
<1>1. Shapes'
  BY DEF Shapes, Fields
<1>2. Flow'
  BY DEF Flow, Shapes, Fields
<1>3. Holds'
  BY DEF Holds, Flow, Shapes, Fields
<1>4. Space'
  BY DEF Space, Source, Shapes, Flow, Fields
<1>5. Source'
  BY DEF Source, Shapes, Flow, Fields
<1>6. Parent'
  BY DEF Parent, Flow, Shapes, Fields, IsDirectory, isallocated
<1>7. CountExact'
  <2>1. job.first \in used /\ job.first \in Blocks
    BY DEF Holds, Flow, Shapes
  <2>2. Blocks \ used = (Blocks \ used') \ {job.first} /\ IsFiniteSet(Blocks \ used')
    BY <2>1, DiskAssumption, FS_Difference DEF Shapes
  <2>3. Free = Free' - 1 /\ Free' \in Nat
    BY <2>1, <2>2, OneLess DEF Free
  <2>4. CountDue' = CountDue + 1
    BY DEF CountDue, Shapes
  <2>5. crashes' = crashes /\ Free \in Nat /\ CountDue \in Int /\ crashes \in Nat
    BY Amounts DEF Shapes
  <2>6. CountExact
    OBVIOUS
  <2>7. NFREEBLOCKS \in Int /\ pc = "free" /\ pc' = "uncount"
    BY DEF Shapes
  <2> HIDE DEF FreeBit, IInv
  <2>8. QED BY <2>3, <2>4, <2>5, <2>6, <2>7 DEF CountExact, Free, CountDue
<1>8. StaysOnDisk'
  BY DEF StaysOnDisk, Parent, Space, Shapes, Flow, Fields
<1>9. QED BY <1>1, <1>2, <1>3, <1>4, <1>5, <1>6, <1>7, <1>8

LEMMA FreeCountStep ==
  ASSUME IInv, FreeCount
  PROVE  IInv'
<1> USE DEF IInv, FreeCount
<1>0. DOMAIN job' = Fields /\ job'.rest \in Seq(Text)
  BY IdleJob
<1>1. Shapes'
  BY <1>0 DEF Shapes, Fields
<1>2. Flow'
  BY DEF Flow, Shapes, Fields
<1>3. Holds'
  BY DEF Holds, Flow, Shapes, Fields
<1>4. Space'
  BY DEF Space, Source, Shapes, Flow, Fields
<1>5. Source'
  BY DEF Source, Shapes, Flow, Fields
<1>6. Parent'
  BY IdleJob DEF Parent, Flow, Shapes, Fields, IsDirectory, isallocated
<1>7. CountExact'
  BY DEF CountExact, CountDue, Free, Flow, Shapes
<1>8. StaysOnDisk'
  BY DEF StaysOnDisk, Parent, Space, Shapes, Flow, Fields
<1>9. QED BY <1>1, <1>2, <1>3, <1>4, <1>5, <1>6, <1>7, <1>8

LEMMA FormatStep ==
  ASSUME IInv, Format
  PROVE  IInv'
<1> USE DEF IInv, Format
<1>1. Shapes'
  BY DEF Shapes, Fields
<1>2. Flow'
  BY DEF Flow, Shapes, Fields
<1>3. Holds'
  BY DEF Holds, Flow, Shapes, Fields
<1>4. Space'
  BY DEF Space, Source, Shapes, Flow, Fields
<1>5. Source'
  BY DEF Source, Shapes, Flow, Fields
<1>6. Parent'
  BY DEF Parent, Flow, Shapes, Fields, IsDirectory, isallocated
<1>7. CountExact'
  BY DEF CountExact, CountDue, Free, Flow, Shapes
<1>8. StaysOnDisk'
  BY DEF StaysOnDisk, Parent, Space, Shapes, Flow, Fields
<1>9. QED BY <1>1, <1>2, <1>3, <1>4, <1>5, <1>6, <1>7, <1>8

LEMMA EnterStep ==
  ASSUME IInv, Enter
  PROVE  IInv'
<1> USE DEF IInv, Enter
<1>1. Shapes'
  BY DEF Shapes, Fields
<1>2. Flow'
  BY DEF Flow, Shapes, Fields
<1>3. Holds'
  BY DEF Holds, Flow, Shapes, Fields
<1>4. Space'
  BY DEF Space, Source, Shapes, Flow, Fields
<1>5. Source'
  BY DEF Source, Shapes, Flow, Fields
<1>6. Parent'
  BY DEF Parent, Flow, Shapes, Fields, IsDirectory, isallocated
<1>7. CountExact'
  BY DEF CountExact, CountDue, Free, Flow, Shapes
<1>8. StaysOnDisk'
  BY DEF StaysOnDisk, Parent, Space, Shapes, Flow, Fields
<1>9. QED BY <1>1, <1>2, <1>3, <1>4, <1>5, <1>6, <1>7, <1>8

LEMMA NoParentStep ==
  ASSUME IInv, NoParent
  PROVE  IInv'
<1> USE DEF IInv, NoParent, disk
<1>0. DOMAIN job' = Fields /\ job'.rest \in Seq(Text)
  BY IdleJob DEF Shapes
<1>1. Shapes'
  BY <1>0 DEF Shapes, Fields
<1>2. Flow'
  BY DEF Flow, Shapes, Fields
<1>3. Holds'
  BY DEF Holds, Flow, Shapes, Fields
<1>4. Space'
  BY DEF Space, Source, Shapes, Flow, Fields
<1>5. Source'
  BY DEF Source, Shapes, Flow, Fields
<1>6. Parent'
  BY IdleJob DEF Parent, Flow, Shapes, Fields, IsDirectory, isallocated
<1>7. CountExact'
  BY DEF CountExact, CountDue, Free, Flow, Shapes
<1>8. StaysOnDisk'
  BY DEF StaysOnDisk, Parent, Space, Shapes, Flow, Fields
<1>9. QED BY <1>1, <1>2, <1>3, <1>4, <1>5, <1>6, <1>7, <1>8

LEMMA LinkStep ==
  ASSUME IInv, Link
  PROVE  IInv'
<1> USE DEF IInv, Link
<1>1. Shapes'
  BY DEF Shapes, Fields
<1>2. Flow'
  BY DEF Flow, Shapes, Fields
<1>3. Holds'
  BY DEF Holds, Flow, Shapes, Fields
<1>4. Space'
  BY DEF Space, Source, Shapes, Flow, Fields
<1>5. Source'
  BY DEF Source, Shapes, Flow, Fields
<1>6. Parent'
  BY DEF Parent, Flow, Shapes, Fields, IsDirectory, isallocated
<1>7. CountExact'
  BY DEF CountExact, CountDue, Free, Flow, Shapes
<1>8. StaysOnDisk'
  BY DEF StaysOnDisk, Parent, Space, Shapes, Flow, Fields
<1>9. QED BY <1>1, <1>2, <1>3, <1>4, <1>5, <1>6, <1>7, <1>8

LEMMA EnterNewStep ==
  ASSUME IInv, EnterNew
  PROVE  IInv'
<1> USE DEF IInv, EnterNew
<1>1. Shapes'
  BY DEF Shapes, Fields
<1>2. Flow'
  BY DEF Flow, Shapes, Fields
<1>3. Holds'
  BY DEF Holds, Flow, Shapes, Fields
<1>4. Space'
  BY DEF Space, Source, Shapes, Flow, Fields
<1>5. Source'
  BY DEF Source, Shapes, Flow, Fields
<1>6. Parent'
  BY DEF Parent, Flow, Shapes, Fields, IsDirectory, isallocated
<1>7. CountExact'
  BY DEF CountExact, CountDue, Free, Flow, Shapes
<1>8. StaysOnDisk'
  BY DEF StaysOnDisk, Parent, Space, Shapes, Flow, Fields
<1>9. QED BY <1>1, <1>2, <1>3, <1>4, <1>5, <1>6, <1>7, <1>8

LEMMA GrowStep ==
  ASSUME IInv, Grow
  PROVE  IInv'
<1> USE DEF IInv, Grow
<1>0. DOMAIN job' = Fields /\ job'.rest \in Seq(Text)
  BY IdleJob
<1>1. Shapes'
  BY <1>0 DEF Shapes, Fields
<1>2. Flow'
  BY DEF Flow, Shapes, Fields
<1>3. Holds'
  BY DEF Holds, Flow, Shapes, Fields
<1>4. Space'
  BY DEF Space, Source, Shapes, Flow, Fields
<1>5. Source'
  BY DEF Source, Shapes, Flow, Fields
<1>6. Parent'
  BY IdleJob DEF Parent, Flow, Shapes, Fields, IsDirectory, isallocated
<1>7. CountExact'
  BY DEF CountExact, CountDue, Free, Flow, Shapes
<1>8. StaysOnDisk'
  BY DEF StaysOnDisk, Parent, Space, Shapes, Flow, Fields
<1>9. QED BY <1>1, <1>2, <1>3, <1>4, <1>5, <1>6, <1>7, <1>8

LEMMA WriteBlockStep ==
  ASSUME IInv, WriteBlock
  PROVE  IInv'
<1> USE DEF IInv, WriteBlock
<1>1. Shapes'
  <2>1. job.src = NIL /\ pc = "fill" /\ Len(job.rest) > 0 /\ job.rest \in Seq(Text)
    BY DEF Shapes, Space
  <2>2. Tail(job.rest) \in Seq(Text)
    BY <2>1
  <2>3. job'.rest = Tail(job.rest)
    BY DEF Shapes, Fields
  <2>4. QED BY <2>2, <2>3 DEF Shapes
<1>2. Flow'
  BY DEF Flow, Shapes, Fields
<1>3. Holds'
  BY DEF Holds, Flow, Shapes, Fields
<1>4. Space'
  BY DEF Space, Source, Shapes, Flow, Fields
<1>5. Source'
  BY DEF Source, Shapes, Flow, Fields
<1>6. Parent'
  BY DEF Parent, Flow, Shapes, Fields, IsDirectory, isallocated
<1>7. CountExact'
  BY DEF CountExact, CountDue, Free, Flow, Shapes
<1>8. StaysOnDisk'
  BY DEF StaysOnDisk, Parent, Space, Shapes, Flow, Fields
<1>9. QED BY <1>1, <1>2, <1>3, <1>4, <1>5, <1>6, <1>7, <1>8

LEMMA CopyBlockStep ==
  ASSUME IInv, CopyBlock
  PROVE  IInv'
<1> USE DEF IInv, CopyBlock
<1>1. Shapes'
  BY DEF Shapes, Fields
<1>2. Flow'
  BY DEF Flow, Shapes, Fields
<1>3. Holds'
  BY DEF Holds, Flow, Shapes, Fields
<1>4. Space'
  BY DEF Space, Source, Shapes, Flow, Fields
<1>5. Source'
  BY DEF Source, Shapes, Flow, Fields
<1>6. Parent'
  BY DEF Parent, Flow, Shapes, Fields, IsDirectory, isallocated
<1>7. CountExact'
  BY DEF CountExact, CountDue, Free, Flow, Shapes
<1>8. StaysOnDisk'
  BY DEF StaysOnDisk, Parent, Space, Shapes, Flow, Fields
<1>9. QED BY <1>1, <1>2, <1>3, <1>4, <1>5, <1>6, <1>7, <1>8

LEMMA ChainStep ==
  ASSUME IInv, Chain
  PROVE  IInv'
<1> USE DEF IInv, Chain
<1>1. Shapes'
  BY DEF Shapes, Fields
<1>2. Flow'
  BY DEF Flow, Shapes, Fields
<1>3. Holds'
  BY DEF Holds, Flow, Shapes, Fields
<1>4. Space'
  BY DEF Space, Source, Shapes, Flow, Fields
<1>5. Source'
  BY DEF Source, Shapes, Flow, Fields
<1>6. Parent'
  BY DEF Parent, Flow, Shapes, Fields, IsDirectory, isallocated
<1>7. CountExact'
  BY DEF CountExact, CountDue, Free, Flow, Shapes
<1>8. StaysOnDisk'
  BY DEF StaysOnDisk, Parent, Space, Shapes, Flow, Fields
<1>9. QED BY <1>1, <1>2, <1>3, <1>4, <1>5, <1>6, <1>7, <1>8

LEMMA CrashStep ==
  ASSUME IInv, Crash
  PROVE  IInv'
<1> USE DEF IInv, Crash, disk
<1>0. DOMAIN job' = Fields /\ job'.rest \in Seq(Text)
  BY IdleJob
<1>1. Shapes'
  BY <1>0 DEF Shapes, Fields
<1>2. Flow'
  BY DEF Flow, Shapes, Fields
<1>3. Holds'
  BY DEF Holds, Flow, Shapes, Fields
<1>4. Space'
  BY DEF Space, Source, Shapes, Flow, Fields
<1>5. Source'
  BY DEF Source, Shapes, Flow, Fields
<1>6. Parent'
  BY IdleJob DEF Parent, Flow, Shapes, Fields, IsDirectory, isallocated
<1>7. CountExact'
  <2>1. Free' = Free /\ crashes' = crashes + 1
    BY DEF Free
  <2>2. CountDue' \in {CountDue - 1, CountDue, CountDue + 1}
    BY DEF CountDue, Shapes
  <2>3. Free \in Nat /\ CountDue \in Int /\ crashes \in Nat
    BY Amounts DEF Shapes
  <2>4. CountExact
    OBVIOUS
  <2>5. NFREEBLOCKS \in Int /\ pc' = "idle" /\ NFREEBLOCKS' = NFREEBLOCKS
    BY DEF Shapes
  <2> HIDE DEF Crash, IInv
  <2>6. QED BY <2>1, <2>2, <2>3, <2>4, <2>5 DEF CountExact, Free, CountDue
<1>8. StaysOnDisk'
  BY DEF StaysOnDisk, Parent, Space, Shapes, Flow, Fields
<1>9. QED BY <1>1, <1>2, <1>3, <1>4, <1>5, <1>6, <1>7, <1>8

LEMMA cmd_mdStep ==
  ASSUME NEW path, NEW name, IInv, cmd_md(path, name)
  PROVE  IInv'
<1> USE DEF IInv, cmd_md, NoJob, disk, Ready
<1>1. Shapes'
  BY DEF Shapes, Fields
<1>2. Flow'
  BY DEF Flow, Shapes, Fields
<1>3. Holds'
  BY DEF Holds, Flow, Shapes, Fields
<1>4. Space'
  BY DEF Space, Source, Shapes, Flow, Fields
<1>5. Source'
  BY DEF Source, Shapes, Flow, Fields
<1>6. Parent'
  BY DEF Parent, Flow, Shapes, Fields, IsDirectory, isallocated
<1>7. CountExact'
  BY DEF CountExact, CountDue, Free, Flow, Shapes
<1>8. StaysOnDisk'
  BY DEF StaysOnDisk, Parent, Space, Shapes, Flow, Fields
<1>9. QED BY <1>1, <1>2, <1>3, <1>4, <1>5, <1>6, <1>7, <1>8

LEMMA cmd_cdStep ==
  ASSUME NEW path, IInv, cmd_cd(path)
  PROVE  IInv'
<1> USE DEF IInv, cmd_cd, disk
<1>1. Shapes'
  BY DEF Shapes, Fields
<1>2. Flow'
  BY DEF Flow, Shapes, Fields
<1>3. Holds'
  BY DEF Holds, Flow, Shapes, Fields
<1>4. Space'
  BY DEF Space, Source, Shapes, Flow, Fields
<1>5. Source'
  BY DEF Source, Shapes, Flow, Fields
<1>6. Parent'
  BY DEF Parent, Flow, Shapes, Fields, IsDirectory, isallocated
<1>7. CountExact'
  BY DEF CountExact, CountDue, Free, Flow, Shapes
<1>8. StaysOnDisk'
  BY DEF StaysOnDisk, Parent, Space, Shapes, Flow, Fields
<1>9. QED BY <1>1, <1>2, <1>3, <1>4, <1>5, <1>6, <1>7, <1>8

(* cp: the parent it takes for a directory is a block.                     *)
LEMMA Copied ==
  ASSUME Shapes, NEW parent, NEW name, NEW source, NEW size
  PROVE  LET c == Copy(parent, name, source, size)
         IN  /\ DOMAIN c = Fields /\ c.rest \in Seq(Text) /\ c.kind = "f"
             /\ c.known => c.parent # NOWHERE
<1> DEFINE inside == Places(parent, name) # {} /\ find_entry(parent, name).type = "d"
           target == IF inside THEN find_entry(parent, name).first ELSE parent
<1>1. ~IsDirectory(NOWHERE)
  BY DiskAssumption DEF IsDirectory, isallocated, Shapes
<1>2. PICK t : t = target
  OBVIOUS
<1>3. IsDirectory(t) => t # NOWHERE
  BY <1>1
<1> HIDE DEF target
<1>4. Copy(parent, name, source, size) =
        [NoJob EXCEPT !.kind = "f", !.size = size, !.parent = t, !.known = IsDirectory(t),
                      !.name = IF inside THEN source ELSE name]
  BY <1>2 DEF Copy, target
<1> HIDE DEF inside
<1>5. QED BY <1>3, <1>4, IdleJob DEF Fields

LEMMA CopyInStep ==
  ASSUME NEW content \in HdFiles, NEW source, NEW path, NEW name, IInv, CopyIn(content, source, path, name)
  PROVE  IInv'
<1> USE DEF IInv, CopyIn, Copy, NoJob, disk, Ready
<1>1. Shapes'
  <2>1. DOMAIN job' = Fields /\ job'.rest \in Seq(Text)
    <3> HIDE DEF Copy, NoJob
    <3>1. QED BY Copied, Contents DEF Fields
  <2>2. QED BY <2>1 DEF Shapes
<1>2. Flow'
  BY DEF Flow, Shapes, Fields
<1>3. Holds'
  BY DEF Holds, Flow, Shapes, Fields
<1>4. Space'
  BY DEF Space, Source, Shapes, Flow, Fields
<1>5. Source'
  BY DEF Source, Shapes, Flow, Fields
<1>6. Parent'
  <2> HIDE DEF Copy, NoJob
  <2>1. job'.kind = "f" /\ (job'.known => job'.parent # NOWHERE)
    BY Copied DEF Fields
  <2>2. QED BY <2>1 DEF Parent
<1>7. CountExact'
  BY DEF CountExact, CountDue, Free, Flow, Shapes
<1>8. StaysOnDisk'
  BY DEF StaysOnDisk, Parent, Space, Shapes, Flow, Fields
<1>9. QED BY <1>1, <1>2, <1>3, <1>4, <1>5, <1>6, <1>7, <1>8

LEMMA CopyWithinStep ==
  ASSUME NEW from, NEW source, NEW path, NEW name, IInv, CopyWithin(from, source, path, name)
  PROVE  IInv'
<1> USE DEF IInv, CopyWithin, Copy, NoJob, disk, Ready
<1>1. Shapes'
  <2>1. DOMAIN job' = Fields /\ job'.rest \in Seq(Text)
    <3> HIDE DEF Copy, NoJob
    <3>1. QED BY Copied DEF Fields
  <2>2. QED BY <2>1 DEF Shapes
<1>2. Flow'
  BY DEF Flow, Shapes, Fields
<1>3. Holds'
  BY DEF Holds, Flow, Shapes, Fields
<1>4. Space'
  BY DEF Space, Source, Shapes, Flow, Fields
<1>5. Source'
  BY DEF Source, Shapes, Flow, Fields
<1>6. Parent'
  <2> HIDE DEF Copy, NoJob
  <2>1. job'.kind = "f" /\ (job'.known => job'.parent # NOWHERE)
    BY Copied DEF Fields
  <2>2. QED BY <2>1 DEF Parent
<1>7. CountExact'
  BY DEF CountExact, CountDue, Free, Flow, Shapes
<1>8. StaysOnDisk'
  BY DEF StaysOnDisk, Parent, Space, Shapes, Flow, Fields
<1>9. QED BY <1>1, <1>2, <1>3, <1>4, <1>5, <1>6, <1>7, <1>8

LEMMA Start == Init => IInv
<1> SUFFICES ASSUME Init PROVE IInv
  OBVIOUS
<1> USE DEF Init
<1>0. DOMAIN job = Fields /\ job.rest \in Seq(Text)
  BY IdleJob
<1>1. Shapes
  <2>1. Cardinality(Blocks) \in Nat
    BY DiskAssumption, FS_CardinalityType
  <2>2. used = {} /\ NFREEBLOCKS = Cardinality(Blocks) /\ crashes = 0 /\ DOMAIN slots = All
    OBVIOUS
  <2> HIDE DEF Init
  <2>3. used \subseteq Blocks /\ NFREEBLOCKS \in Int /\ crashes \in Nat
    BY <2>1, <2>2
  <2>4. QED BY <1>0, <2>2, <2>3 DEF Shapes, Fields
<1>2. CountExact
  <2>1. Blocks \ used = Blocks
    OBVIOUS
  <2>2. CountDue = Free
    BY <2>1 DEF CountDue, Free
  <2>3. CountDue \in Int /\ crashes = 0
    BY <1>1, Amounts
  <2> HIDE DEF Init
  <2>4. QED BY <2>2, <2>3 DEF CountExact
<1>3. Flow /\ Holds /\ Space /\ Source /\ Parent /\ StaysOnDisk
  BY IdleJob DEF Flow, Holds, Space, Source, Parent, StaysOnDisk
<1>4. QED BY <1>1, <1>2, <1>3 DEF IInv

LEMMA Stutter == IInv /\ UNCHANGED vars => IInv'
BY DEF vars, disk, shell, IInv, Shapes, Flow, Holds, Space, Source, Parent, CountExact,
       CountDue, Free, StaysOnDisk, IsDirectory, isallocated

LEMMA Keeps == IInv /\ [Next]_vars => IInv'
<1> SUFFICES ASSUME IInv, [Next]_vars PROVE IInv'
  OBVIOUS
<1>1. CASE Command
  BY <1>1, cmd_cdStep, cmd_mdStep, CopyInStep, CopyWithinStep DEF Command
<1>2. CASE Allocate
  BY <1>2, TakeStep, CountStep, TakeFailsStep, FreeBitStep, FreeCountStep DEF Allocate
<1>3. CASE Work
  BY <1>3, FormatStep, EnterStep, NoParentStep, LinkStep, EnterNewStep, GrowStep,
     WriteBlockStep, CopyBlockStep, ChainStep DEF Work
<1>4. CASE Crash
  BY <1>4, CrashStep
<1>5. CASE UNCHANGED vars
  BY <1>5, Stutter
<1>6. QED BY <1>1, <1>2, <1>3, <1>4, <1>5 DEF Next
-----------------------------------------------------------------------------
(* The count of getfreeblock and freeblock is that of the bitmap, for any  *)
(* size of the disk, any commands and any number of kills.                 *)
THEOREM DiskCounted == Spec => []CountExact
<1>1. IInv => CountExact
  BY DEF IInv
<1>2. QED BY <1>1, Start, Keeps, PTL DEF Spec

(* The space write_to_disk has counted lasts, and a command whose parent   *)
(* is a directory when it begins finds one there when it writes the entry: *)
(* only md below a file and cp to a path that does not exist write to a    *)
(* block that is not theirs.                                               *)
THEOREM DiskRespected == Spec => []StaysOnDisk
<1>1. IInv => StaysOnDisk
  BY DEF IInv
<1>2. QED BY <1>1, Start, Keeps, PTL DEF Spec
-----------------------------------------------------------------------------
(* Who leads to which block.  First the places of entries in their blocks. *)
HIDE DEF All

LEMMA EIs == E \in Nat /\ E > 2
BY DiskAssumption

LEMMA Quotient ==
  ASSUME NEW e \in Nat, e > 2, NEW k \in Nat
  PROVE  k \div e \in Nat /\ (k % e) \in 0 .. e - 1 /\ k = e * (k \div e) + (k % e)
<1>1. k \div e \in Int
  BY SMT
<1>2. k \div e >= 0
  BY SMT
<1>3. (k % e) \in 0 .. e - 1
  BY SMT
<1>4. k = e * (k \div e) + (k % e)
  BY SMT
<1>. QED
  BY <1>1, <1>2, <1>3, <1>4

LEMMA Unique ==
  ASSUME NEW e \in Nat, e > 2, NEW p \in Nat, NEW q \in Nat,
         NEW r \in 0 .. e - 1, NEW s \in 0 .. e - 1, e * q + r = e * p + s
  PROVE  q = p /\ r = s
<1>1. ASSUME NEW x \in Nat, NEW y \in Nat, x > y PROVE e * x >= e * y + e
  BY <1>1, SMT
<1>2. e * q \in Nat /\ e * p \in Nat
  BY SMT
<1>3. q = p
  BY <1>1, <1>2
<1>. QED
  BY <1>2, <1>3

LEMMA QuotientOf ==
  ASSUME NEW e \in Nat, e > 2, NEW k \in Nat, NEW q \in Nat, NEW r \in 0 .. e - 1, k = e * q + r
  PROVE  k \div e = q /\ (k % e) = r
<1>1. PICK d, m : d = k \div e /\ m = k % e
  OBVIOUS
<1>2. d \in Nat /\ m \in 0 .. e - 1 /\ k = e * d + m
  BY <1>1, Quotient
<1>3. q = d /\ r = m
  <2>1. e * q + r = e * d + m
    BY <1>2
  <2>. QED
    BY <1>2, <2>1, Unique
<1>. QED
  BY <1>1, <1>3

(* The entry behind the last one is in the same block, or the first of the *)
(* next; an entry that comes earlier is in no later block.                 *)
LEMMA Place ==
  ASSUME NEW k \in Nat
  PROVE  k \div E \in Nat /\ (k % E) \in 0 .. E - 1 /\ k = E * (k \div E) + (k % E)
BY EIs, Quotient, Zenon

LEMMA PlaceOf ==
  ASSUME NEW k \in Nat, NEW q \in Nat, NEW r \in 0 .. E - 1, k = E * q + r
  PROVE  k \div E = q /\ (k % E) = r
BY EIs, QuotientOf, Zenon

LEMMA Behind ==
  ASSUME NEW k \in Nat, k > 0
  PROVE  k \div E = IF k % E = 0 THEN ((k - 1) \div E) + 1 ELSE (k - 1) \div E
<1>1. PICK e, q, r : e = E /\ q = (k - 1) \div E /\ r = (k - 1) % E
  OBVIOUS
<1>2. k - 1 \in Nat
  OBVIOUS
<1>3. e \in Nat /\ e > 2 /\ q \in Nat /\ r \in 0 .. e - 1 /\ k - 1 = e * q + r
  BY <1>1, <1>2, Place, EIs
<1>4. CASE r = e - 1
  <2>1. k = e * (q + 1) + 0 /\ q + 1 \in Nat /\ 0 \in 0 .. e - 1
    BY <1>3, <1>4
  <2>2. k \div E = q + 1 /\ k % E = 0
    BY <1>1, <2>1, PlaceOf
  <2>. QED
    BY <1>1, <2>2
<1>5. CASE r # e - 1
  <2>1. k = e * q + (r + 1) /\ r + 1 \in 0 .. e - 1 /\ r + 1 # 0
    BY <1>3, <1>5
  <2>2. k \div E = q /\ k % E = r + 1
    BY <1>1, <1>3, <2>1, PlaceOf
  <2>. QED
    BY <1>1, <2>1, <2>2
<1>. QED
  BY <1>4, <1>5

LEMMA Earlier ==
  ASSUME NEW k \in Nat, NEW n \in Nat, k <= n
  PROVE  k \div E <= n \div E
<1>1. PICK e, p, r, q, s : e = E /\ p = k \div E /\ r = k % E /\ q = n \div E /\ s = n % E
  OBVIOUS
<1>2. e \in Nat /\ e > 2 /\ p \in Nat /\ r \in 0 .. e - 1 /\ k = e * p + r
  BY <1>1, Place, EIs
<1>3. q \in Nat /\ s \in 0 .. e - 1 /\ n = e * q + s
  BY <1>1, Place
<1>4. ASSUME p > q PROVE FALSE
  <2>1. e * p >= e * q + e
    BY <1>2, <1>3, <1>4, SMT
  <2>2. e * p \in Nat /\ e * q \in Nat
    BY <1>2, <1>3, SMT
  <2>. QED
    BY <1>2, <1>3, <2>1, <2>2
<1>. QED
  BY <1>1, <1>2, <1>3, <1>4

(* A block of a directory up to its last one begins with an entry.         *)
LEMMA FirstPlace ==
  ASSUME NEW n \in Nat, NEW q \in 0 .. n \div E
  PROVE  \E k \in 0 .. n : k \div E = q /\ k % E = 0
<1>1. PICK e, p, r : e = E /\ p = n \div E /\ r = n % E
  OBVIOUS
<1>2. e \in Nat /\ e > 2 /\ p \in Nat /\ r \in 0 .. e - 1 /\ n = e * p + r /\ q \in 0 .. p
  BY <1>1, Place, EIs
<1>3. e * q \in Nat /\ e * q <= e * p
  BY <1>2, SMT
<1>4. e * p \in Nat
  BY <1>2, SMT
<1>5. PICK k : k = e * q
  OBVIOUS
<1>6. k \in 0 .. n /\ k = e * q + 0 /\ q \in Nat /\ 0 \in 0 .. e - 1
  BY <1>2, <1>3, <1>4, <1>5
<1>7. k \div E = q /\ k % E = 0
  <2>1. k \in Nat
    BY <1>6
  <2>. QED
    BY <1>1, <1>6, <2>1, PlaceOf
<1>. QED
  BY <1>6, <1>7
-----------------------------------------------------------------------------
(* Recursive functions.  Induction up to n, over sets of numbers:          *)
LEMMA UpTo ==
  ASSUME NEW n \in Nat, NEW P, 0 \in P,
         \A x \in 1 .. n : x - 1 \in P => x \in P
  PROVE  \A x \in 0 .. n : x \in P
<1> DEFINE B == {x \in 0 .. n : x \notin P}
<1> SUFFICES ASSUME B # {} PROVE FALSE
  OBVIOUS
<1>1. B \subseteq Nat
  OBVIOUS
<1>2. PICK p \in B : \A x \in B : ~ (<<x, p>> \in OpToRel(<, Nat))
  BY <1>1, NatLessThanWellFounded, WFMin
<1>3. \A x \in B : ~ (x < p)
  <2>1. \A x \in B : x \in Nat /\ p \in Nat
    BY <1>1
  <2>. QED
    BY <1>2, <2>1, Zenon DEF OpToRel
<1>4. p \in 1 .. n /\ p - 1 \in 0 .. n /\ p - 1 < p
  OBVIOUS
<1>5. p - 1 \notin B
  BY <1>3, <1>4
<1>. QED
  BY <1>4, <1>5

(* A function whose value at x follows from its value at x-1.              *)
Unrolls(h, T, a, n, g) == /\ h \in [0 .. n -> T]
                          /\ h[0] = a
                          /\ \A x \in 1 .. n : h[x] = g[<<h[x-1], x>>]

LEMMA Recursion ==
  ASSUME NEW T, NEW a \in T, NEW n \in Nat, NEW g \in [T \X (1 .. n) -> T]
  PROVE  \E h : Unrolls(h, T, a, n, g)
<1> DEFINE Upto(m) == \E h \in [0 .. m -> T] :
                         h[0] = a /\ \A x \in 1 .. m : h[x] = g[<<h[x-1], x>>]
           P == {m \in 0 .. n : Upto(m)}
<1>1. 0 \in P
  <2> DEFINE h == [x \in 0 .. 0 |-> a]
  <2>1. h \in [0 .. 0 -> T] /\ h[0] = a /\ \A x \in 1 .. 0 : h[x] = g[<<h[x-1], x>>]
    OBVIOUS
  <2>2. Upto(0)
    BY <2>1
  <2>. QED
    BY <2>2
<1>2. ASSUME NEW m \in 1 .. n, m - 1 \in P PROVE m \in P
  <2>1. PICK e \in [0 .. m - 1 -> T] :
           e[0] = a /\ \A x \in 1 .. m - 1 : e[x] = g[<<e[x-1], x>>]
    BY <1>2
  <2> DEFINE h == [x \in 0 .. m |-> IF x = m THEN g[<<e[m-1], m>>] ELSE e[x]]
  <2>2. g[<<e[m-1], m>>] \in T
    BY <1>2, <2>1
  <2>3. h \in [0 .. m -> T]
    BY <1>2, <2>1, <2>2
  <2>4. h[0] = a
    BY <1>2, <2>1
  <2>5. ASSUME NEW x \in 1 .. m PROVE h[x] = g[<<h[x-1], x>>]
    <3>1. x - 1 \in 0 .. m - 1 /\ h[x-1] = e[x-1]
      OBVIOUS
    <3>2. CASE x = m
      <4>1. h[m] = g[<<e[m-1], m>>] /\ h[m-1] = e[m-1]
        BY <3>1, <3>2
      <4> HIDE DEF h
      <4>. QED
        BY <3>2, <4>1
    <3>3. CASE x # m
      <4>1. x \in 1 .. m - 1 /\ h[x] = e[x]
        BY <3>3
      <4>. QED
        BY <2>1, <3>1, <4>1
    <3>. QED
      BY <3>2, <3>3
  <2>6. Upto(m)
    BY <2>3, <2>4, <2>5
  <2>. QED
    BY <2>6
<1> HIDE DEF P
<1>3. \A m \in 0 .. n : m \in P
  BY <1>1, <1>2, UpTo
<1>4. n \in P
  BY <1>3
<1>5. PICK h \in [0 .. n -> T] : h[0] = a /\ \A x \in 1 .. n : h[x] = g[<<h[x-1], x>>]
  BY <1>4 DEF P
<1>. QED
  BY <1>5 DEF Unrolls

(* Follow, whatever the links.                                             *)
Walk(nx, b, n) ==
  LET f[k \in 0 .. n] == IF k = 0 THEN b ELSE IF f[k-1] = NIL THEN NIL ELSE nx[f[k-1]]
  IN  f[n]

LEMMA FollowIs == \A b, n : Follow(b, n) = Walk(next, b, n)
BY DEF Follow, Walk

Walks(nx, h, b, n) == /\ h[0] = b
                      /\ \A x \in 1 .. n : h[x] = IF h[x-1] = NIL THEN NIL ELSE nx[h[x-1]]

LEMMA WalkIsThat ==
  ASSUME NEW nx, NEW b, NEW n \in Nat, NEW h, Walks(nx, h, b, n), DOMAIN h = 0 .. n, h = [x \in 0 .. n |-> h[x]],
         NEW m \in 0 .. n
  PROVE  Walk(nx, b, m) = h[m]
<1> DEFINE Eq(u) == u = [x \in 0 .. m |-> IF x = 0 THEN b
                                          ELSE IF u[x-1] = NIL THEN NIL ELSE nx[u[x-1]]]
           i == [x \in 0 .. m |-> h[x]]
<1>1. Walk(nx, b, m) = (CHOOSE u : Eq(u))[m]
  BY DEF Walk
<1>2. Eq(i)
  <2>1. ASSUME NEW x \in 0 .. m
        PROVE  h[x] = IF x = 0 THEN b ELSE IF i[x-1] = NIL THEN NIL ELSE nx[i[x-1]]
    <3>1. CASE x = 0
      BY <3>1 DEF Walks
    <3>2. CASE x # 0
      <4>1. x \in 1 .. n /\ i[x-1] = h[x-1]
        BY <3>2
      <4>2. h[x] = IF h[x-1] = NIL THEN NIL ELSE nx[h[x-1]]
        BY <4>1 DEF Walks
      <4>. QED
        BY <3>2, <4>1, <4>2, Zenon
    <3>. QED
      BY <3>1, <3>2
  <2>. QED
    BY <2>1, Zenon
<1> DEFINE u == CHOOSE u : Eq(u)
<1>3. Eq(u)
  BY <1>2
<1> HIDE DEF u, i
<1> DEFINE P == {x \in 0 .. m : u[x] = h[x]}
<1>4. 0 \in P
  <2>1. 0 \in 0 .. m
    OBVIOUS
  <2>2. u[0] = b
    BY <1>3, <2>1, Zenon
  <2>3. h[0] = b
    BY DEF Walks
  <2>. QED
    BY <2>1, <2>2, <2>3
<1>5. ASSUME NEW x \in 1 .. m, x - 1 \in P PROVE x \in P
  <2>1. x \in 0 .. m /\ x # 0 /\ x \in 1 .. n
    OBVIOUS
  <2>2. u[x] = IF u[x-1] = NIL THEN NIL ELSE nx[u[x-1]]
    BY <1>3, <2>1, Zenon
  <2>3. u[x-1] = h[x-1]
    BY <1>5
  <2>4. h[x] = IF h[x-1] = NIL THEN NIL ELSE nx[h[x-1]]
    BY <2>1 DEF Walks
  <2>. QED
    BY <2>1, <2>2, <2>3, <2>4, Zenon
<1>6. m \in Nat
  OBVIOUS
<1> HIDE DEF P
<1>7. \A x \in 0 .. m : x \in P
  BY <1>4, <1>5, <1>6, UpTo
<1>8. u[m] = h[m]
  BY <1>7 DEF P
<1>. QED
  BY <1>1, <1>8 DEF u

OnDisk == All \cup {NIL}

LEMMA WalkStep ==
  ASSUME NEW nx \in [All -> OnDisk], NEW b \in OnDisk, NEW n \in Nat
  PROVE  /\ Walk(nx, b, 0) = b
         /\ Walk(nx, b, n) \in OnDisk
         /\ n > 0 => Walk(nx, b, n) = IF Walk(nx, b, n - 1) = NIL THEN NIL
                                      ELSE nx[Walk(nx, b, n - 1)]
<1> DEFINE g == [p \in OnDisk \X (1 .. n) |-> IF p[1] = NIL THEN NIL ELSE nx[p[1]]]
<1>1. \A c \in OnDisk : (IF c = NIL THEN NIL ELSE nx[c]) \in OnDisk
  BY DEF OnDisk
<1>2. g \in [OnDisk \X (1 .. n) -> OnDisk]
  BY <1>1
<1>3. \A c \in OnDisk, x \in 1 .. n : g[<<c, x>>] = IF c = NIL THEN NIL ELSE nx[c]
  OBVIOUS
<1> HIDE DEF g
<1>4. PICK h : Unrolls(h, OnDisk, b, n, g)
  BY <1>2, Recursion
<1>5. h \in [0 .. n -> OnDisk] /\ h[0] = b /\ \A x \in 1 .. n : h[x] = g[<<h[x-1], x>>]
  BY <1>4 DEF Unrolls
<1>6. Walks(nx, h, b, n)
  <2>1. ASSUME NEW x \in 1 .. n PROVE h[x] = IF h[x-1] = NIL THEN NIL ELSE nx[h[x-1]]
    <3>1. h[x-1] \in OnDisk
      BY <1>5
    <3>. QED
      BY <1>3, <1>5, <3>1
  <2>. QED
    BY <1>5, <2>1 DEF Walks
<1>7. DOMAIN h = 0 .. n /\ h = [x \in 0 .. n |-> h[x]]
  BY <1>5
<1>8. \A m \in 0 .. n : Walk(nx, b, m) = h[m]
  BY <1>6, <1>7, WalkIsThat
<1>9. Walk(nx, b, 0) = b /\ Walk(nx, b, n) \in OnDisk
  BY <1>5, <1>8
<1>10. ASSUME n > 0
       PROVE  Walk(nx, b, n) = IF Walk(nx, b, n - 1) = NIL THEN NIL ELSE nx[Walk(nx, b, n - 1)]
  <2>1. n \in 1 .. n /\ n \in 0 .. n /\ n - 1 \in 0 .. n
    BY <1>10
  <2>2. h[n] = IF h[n-1] = NIL THEN NIL ELSE nx[h[n-1]]
    BY <1>6, <2>1 DEF Walks
  <2>3. Walk(nx, b, n) = h[n] /\ Walk(nx, b, n - 1) = h[n-1]
    BY <1>8, <2>1
  <2>. QED
    BY <2>2, <2>3, Zenon
<1>. QED
  BY <1>9, <1>10

(* Blocks from which links lead only to each other.                        *)
Closed(nx, X) == X \subseteq All /\ \A b \in X : nx[b] \in X \cup {NIL}

Injective(nx, X) == \A b, c \in X : nx[b] = nx[c] /\ nx[b] # NIL => b = c

LEMMA WalkIn ==
  ASSUME NEW nx \in [All -> OnDisk], NEW X, Closed(nx, X), NEW b \in X, NEW n \in Nat
  PROVE  Walk(nx, b, n) \in X \cup {NIL}
<1>1. b \in OnDisk /\ X \subseteq OnDisk
  BY DEF Closed, OnDisk
<1> DEFINE P == {x \in 0 .. n : Walk(nx, b, x) \in X \cup {NIL}}
<1>2. 0 \in P
  BY <1>1, WalkStep
<1>3. ASSUME NEW x \in 1 .. n, x - 1 \in P PROVE x \in P
  <2>1. x \in Nat /\ x > 0 /\ x \in 0 .. n
    OBVIOUS
  <2>2. PICK w : w = Walk(nx, b, x - 1)
    OBVIOUS
  <2>3. w \in X \cup {NIL}
    BY <1>3, <2>2
  <2>4. Walk(nx, b, x) = IF w = NIL THEN NIL ELSE nx[w]
    BY <1>1, <2>1, <2>2, WalkStep
  <2>5. Walk(nx, b, x) \in X \cup {NIL}
    BY <2>3, <2>4, Zenon DEF Closed
  <2>. QED
    BY <2>1, <2>5
<1> HIDE DEF P
<1>4. \A x \in 0 .. n : x \in P
  BY <1>2, <1>3, UpTo
<1>5. n \in P
  BY <1>4
<1>. QED
  BY <1>5 DEF P

LEMMA WalkBefore ==
  ASSUME NEW nx \in [All -> OnDisk], NEW b \in OnDisk, NEW n \in Nat, Walk(nx, b, n) # NIL,
         NEW i \in 0 .. n
  PROVE  Walk(nx, b, i) # NIL
<1> DEFINE P == {x \in 0 .. n : Walk(nx, b, n - x) # NIL}
<1>1. 0 \in P
  <2>1. n - 0 = n /\ 0 \in 0 .. n
    OBVIOUS
  <2>. QED
    BY <2>1
<1>2. ASSUME NEW x \in 1 .. n, x - 1 \in P PROVE x \in P
  <2>1. PICK m : m = n - (x - 1)
    OBVIOUS
  <2>2. m \in Nat /\ m > 0 /\ m - 1 = n - x /\ x \in 0 .. n
    BY <2>1
  <2>3. Walk(nx, b, m) # NIL
    BY <1>2, <2>1
  <2>4. Walk(nx, b, m - 1) # NIL
    BY <2>2, <2>3, WalkStep
  <2>. QED
    BY <2>2, <2>4
<1> HIDE DEF P
<1>3. \A x \in 0 .. n : x \in P
  BY <1>1, <1>2, UpTo
<1>4. n - i \in P /\ n - (n - i) = i
  BY <1>3
<1>. QED
  BY <1>4 DEF P

(* Two chains with different beginnings have nothing in common, and no     *)
(* chain comes back.                                                       *)
LEMMA WalkApart ==
  ASSUME NEW nx \in [All -> OnDisk], NEW X, Closed(nx, X), Injective(nx, X),
         NEW d \in X, \A b \in X : nx[b] # d, NEW e \in X, \A b \in X : nx[b] # e,
         NEW i \in Nat, NEW j \in Nat,
         Walk(nx, d, i) = Walk(nx, e, j), Walk(nx, d, i) # NIL
  PROVE  d = e /\ i = j
<1>1. d \in OnDisk /\ e \in OnDisk /\ X \subseteq OnDisk
  BY DEF Closed, OnDisk
<1>2. ASSUME NEW c \in X, NEW m \in Nat, m > 0, Walk(nx, c, m) # NIL
      PROVE  Walk(nx, c, m - 1) \in X /\ Walk(nx, c, m) = nx[Walk(nx, c, m - 1)]
  <2>1. c \in OnDisk
    BY <1>1
  <2>2. Walk(nx, c, m - 1) # NIL /\ Walk(nx, c, m) = nx[Walk(nx, c, m - 1)]
    BY <1>2, <2>1, WalkStep
  <2>3. m - 1 \in Nat
    BY <1>2
  <2>4. Walk(nx, c, m - 1) \in X \cup {NIL}
    BY <2>3, WalkIn
  <2>. QED
    BY <2>2, <2>4
<1> DEFINE P == {x \in 0 .. i : \A y \in Nat : Walk(nx, d, x) = Walk(nx, e, y) /\ Walk(nx, d, x) # NIL
                                  => d = e /\ x = y}
<1>3. 0 \in P
  <2>1. ASSUME NEW y \in Nat, Walk(nx, d, 0) = Walk(nx, e, y), Walk(nx, d, 0) # NIL
        PROVE  d = e /\ 0 = y
    <3>1. Walk(nx, d, 0) = d /\ Walk(nx, e, 0) = e
      BY <1>1, WalkStep
    <3>2. CASE y = 0
      BY <2>1, <3>1, <3>2
    <3>3. CASE y # 0
      <4>1. y > 0 /\ Walk(nx, e, y) = d
        BY <2>1, <3>1, <3>3
      <4>2. Walk(nx, e, y - 1) \in X /\ nx[Walk(nx, e, y - 1)] = d
        BY <1>2, <2>1, <4>1
      <4>. QED
        BY <4>2
    <3>. QED
      BY <3>2, <3>3
  <2>. QED
    BY <2>1
<1>4. ASSUME NEW x \in 1 .. i, x - 1 \in P PROVE x \in P
  <2>1. ASSUME NEW y \in Nat, Walk(nx, d, x) = Walk(nx, e, y), Walk(nx, d, x) # NIL
        PROVE  d = e /\ x = y
    <3>1. x \in Nat /\ x > 0
      OBVIOUS
    <3>2. Walk(nx, d, x - 1) \in X /\ Walk(nx, d, x) = nx[Walk(nx, d, x - 1)]
      BY <1>2, <2>1, <3>1
    <3>3. CASE y = 0
      <4>1. Walk(nx, e, y) = e
        BY <1>1, <3>3, WalkStep
      <4>. QED
        BY <2>1, <3>2, <4>1
    <3>4. CASE y # 0
      <4>1. y > 0 /\ y - 1 \in Nat
        BY <3>4
      <4>2. Walk(nx, e, y - 1) \in X /\ Walk(nx, e, y) = nx[Walk(nx, e, y - 1)]
        BY <1>2, <2>1, <4>1
      <4>3. Walk(nx, d, x - 1) = Walk(nx, e, y - 1)
        BY <2>1, <3>2, <4>2 DEF Injective
      <4>4. Walk(nx, d, x - 1) # NIL
        BY <3>1, <1>1, WalkStep, <2>1
      <4>5. d = e /\ x - 1 = y - 1
        BY <1>4, <4>1, <4>3, <4>4
      <4>. QED
        BY <4>5
    <3>. QED
      BY <3>3, <3>4
  <2>. QED
    BY <2>1
<1> HIDE DEF P
<1>5. \A x \in 0 .. i : x \in P
  BY <1>3, <1>4, UpTo
<1>6. i \in P
  BY <1>5
<1>. QED
  BY <1>6 DEF P

(* A link that is not on the way changes nothing.                          *)
LEMMA WalkSame ==
  ASSUME NEW nx \in [All -> OnDisk], NEW ny \in [All -> OnDisk], NEW b \in OnDisk, NEW n \in Nat,
         \A i \in 0 .. n - 1 : Walk(nx, b, i) # NIL => ny[Walk(nx, b, i)] = nx[Walk(nx, b, i)],
         NEW m \in 0 .. n
  PROVE  Walk(ny, b, m) = Walk(nx, b, m)
<1> DEFINE P == {x \in 0 .. n : Walk(ny, b, x) = Walk(nx, b, x)}
<1>1. 0 \in P
  BY WalkStep
<1>2. ASSUME NEW x \in 1 .. n, x - 1 \in P PROVE x \in P
  <2>1. x \in Nat /\ x > 0 /\ x \in 0 .. n /\ x - 1 \in 0 .. n - 1
    OBVIOUS
  <2>2. PICK w : w = Walk(nx, b, x - 1)
    OBVIOUS
  <2>3. Walk(ny, b, x - 1) = w
    BY <1>2, <2>2
  <2>4. Walk(nx, b, x) = IF w = NIL THEN NIL ELSE nx[w]
    BY <2>1, <2>2, WalkStep
  <2>5. Walk(ny, b, x) = IF w = NIL THEN NIL ELSE ny[w]
    BY <2>1, <2>3, WalkStep
  <2>6. w # NIL => ny[w] = nx[w]
    BY <2>1, <2>2
  <2>7. Walk(ny, b, x) = Walk(nx, b, x)
    <3>1. CASE w = NIL
      BY <2>4, <2>5, <3>1
    <3>2. CASE w # NIL
      BY <2>4, <2>5, <2>6, <3>2
    <3>. QED
      BY <3>1, <3>2
  <2>. QED
    BY <2>1, <2>7
<1> HIDE DEF P
<1>3. \A x \in 0 .. n : x \in P
  BY <1>1, <1>2, UpTo
<1>4. m \in P
  BY <1>3
<1>. QED
  BY <1>4 DEF P
-----------------------------------------------------------------------------
(* The inductive invariant.  A command has taken the blocks Mine, and      *)
(* nothing leads to them yet; every name leads to a block that is Proper:  *)
(* a directory, or the first of a file, whose entries are blank.           *)
Stage  == IF pc = "count" THEN job.after ELSE pc
Taken  == used \cup {ROOT_BLOCK}
First  == IF job.first # NIL /\ pc # "uncount" THEN {job.first} ELSE {}
New    == IF pc \in {"count", "link", "chain"} THEN {job.new} ELSE {}
Mine   == First \cup New
Proper == {b \in Taken \ (Linked \cup Mine) : slots[b] = Blank \/ b \in Directories}

Metas == [type : {Empty, "d", "f"}, name : Names \cup {Empty, ".", ".."}, size : Nat,
          first : All \cup {NIL}]

DiskTyped == /\ used \subseteq Blocks
             /\ next \in [All -> Blocks \cup {NIL}]
             /\ slots \in [All -> [0 .. E - 1 -> Metas]]

JobTyped == /\ DOMAIN job = Fields
            /\ job.kind \in {Empty, "d", "f"} /\ job.name \in Names \cup {Empty} /\ job.size \in Nat
            /\ job.first \in Blocks \cup {NIL} /\ job.src \in OnDisk

(* The links, and a block that is free.                                    *)
Links == /\ \A b, c \in Taken : next[b] = next[c] /\ next[b] # NIL => b = c
         /\ Linked \subseteq used
         /\ \A b \in Blocks \ used : next[b] = NIL /\ slots[b] = Blank

(* A directory, and that its chain is long enough.                         *)
Heads == \A d \in Directories :
           /\ d \notin Linked
           /\ slots[d][0].first = d /\ slots[d][0].type = "d" /\ Size(d) >= 2

Fine(d, k) == /\ Entry(d, k).type # Empty
              /\ k = 1 => Entry(d, k).name = ".."
              /\ k >= 1 => Entry(d, k).first \in Proper \cup {NIL}
              /\ k >= 2 => Entry(d, k).first # ROOT_BLOCK

Entries == \A d \in Directories : \A k \in 0 .. Size(d) - 1 : Fine(d, k)

Apart == \A d, e \in Directories : \A j \in 2 .. Size(d) - 1, k \in 2 .. Size(e) - 1 :
           Entry(d, j).first = Entry(e, k).first /\ Entry(d, j).first # NIL => d = e /\ j = k

Structure == DiskTyped /\ Links /\ Heads /\ Entries

(* The shell.                                                              *)
IsMade == job.kind = "d" /\ Stage \in {"enter", "extend", "free", "link", "enternew", "grow",
                                           "wild"}

Private == /\ Mine \subseteq used \ Linked
           /\ \A b \in New : b # job.first /\ next[b] = NIL /\ slots[b] = Blank
           /\ \A b \in First : /\ job.kind = "d" => next[b] = NIL
                               /\ IF IsMade THEN b \in Directories /\ Size(b) = 2
                                  ELSE slots[b] = Blank

Where == /\ CBN \in Proper \cap Directories /\ ROOT_BLOCK \in Directories
         /\ pc # "idle" => job.parent \in Proper \cup {NIL, NOWHERE}
         /\ pc \notin {"idle", "wild", "overrun"} /\ job.kind = "d" => job.parent # NOWHERE

Progress ==
  /\ pc = "idle" => job = NoJob
  /\ pc \notin {"idle", "wild", "overrun"} => job.kind \in {"d", "f"} /\ job.name \in Names
  /\ pc \in {"md", "first"} => job.first = NIL
  /\ pc = "count" => job.after \in {"format", "fill", "chain", "link"}
  /\ pc = "count" /\ Stage \in {"format", "fill"} => job.first = NIL
  /\ Stage \in {"md", "format", "free", "uncount"} => job.kind = "d"
  /\ Stage \in {"first", "more", "fill", "chain"} => job.kind = "f"
  /\ pc = "format" \/ IsMade => job.first # NIL
  /\ pc \in {"fill", "more"} \/ Stage = "chain" => job.cur \in used /\ slots[job.cur] = Blank

Extension ==
  /\ Stage \in {"extend", "link", "enternew"} =>
       job.parent \in Directories /\ Size(job.parent) % E = 0
  /\ pc = "enternew" =>
       /\ job.new \in Linked /\ slots[job.new] = Blank
       /\ Follow(job.parent, Size(job.parent) \div E) = job.new
  /\ pc = "grow" =>
       job.parent \in Directories /\ Entry(job.parent, Size(job.parent)) = new_entry

DInv == Structure /\ JobTyped /\ Apart /\ Private /\ Where /\ Progress /\ Extension
-----------------------------------------------------------------------------
LEMMA NotNIL == NIL \notin All /\ NOWHERE \notin All /\ NIL # NOWHERE /\ ROOT_BLOCK \notin Blocks
BY DiskAssumption DEF All

LEMMA FollowNext == \A b, n : Follow(b, n)' = Walk(next', b, n)
BY DEF Follow, Walk

LEMMA LinksTyped ==
  /\ next \in [All -> Blocks \cup {NIL}] => next \in [All -> OnDisk]
  /\ next' \in [All -> Blocks \cup {NIL}] => next' \in [All -> OnDisk]
BY DEF OnDisk, All

LEMMA EmptyIs == Empty \notin {"d", "f", ".", ".."}
BY Zenon DEF Empty

LEMMA BlankIs ==
  /\ Blank \in [0 .. E - 1 -> Metas]
  /\ Blank[0] = NoEntry /\ NoEntry.type = Empty /\ NoEntry.name = Empty /\ NoEntry.size = 0
  /\ NoEntry.first = NIL
<1>1. 0 \in 0 .. E - 1
  BY EIs
<1>2. NoEntry \in Metas
  BY DEF NoEntry, Metas
<1>3. NoEntry.type = Empty /\ NoEntry.name = Empty /\ NoEntry.size = 0 /\ NoEntry.first = NIL
  BY DEF NoEntry
<1>. QED
  BY <1>1, <1>2, <1>3 DEF Blank

LEMMA MetaTyped ==
  ASSUME DiskTyped, NEW b \in All
  PROVE  /\ \A k \in 0 .. E - 1 : slots[b][k] \in Metas
         /\ slots[b][0] \in Metas /\ Size(b) \in Nat /\ slots[b][0].first \in All \cup {NIL}
<1>1. 0 \in 0 .. E - 1
  BY EIs
<1>2. slots[b] \in [0 .. E - 1 -> Metas]
  BY DEF DiskTyped
<1>3. \A k \in 0 .. E - 1 : slots[b][k] \in Metas
  BY <1>2
<1>4. slots[b][0] \in Metas
  BY <1>1, <1>3
<1>5. slots[b][0].size \in Nat /\ slots[b][0].first \in All \cup {NIL}
  BY <1>4 DEF Metas
<1>. QED
  BY <1>3, <1>4, <1>5 DEF Size

LEMMA Everywhere ==
  ASSUME Structure
  PROVE  /\ next \in [All -> OnDisk] /\ Taken \subseteq All /\ Taken \subseteq OnDisk
         /\ Closed(next, Taken) /\ Injective(next, Taken)
         /\ Directories \subseteq Taken
         /\ \A d \in Directories : Size(d) \in Nat /\ \A b \in Taken : next[b] # d
<1>1. Taken \subseteq All /\ Taken \subseteq OnDisk
  BY DEF Structure, DiskTyped, Taken, All, OnDisk
<1>2. next \in [All -> OnDisk]
  BY LinksTyped DEF Structure, DiskTyped
<1>3. \A b \in Taken : next[b] \in Taken \cup {NIL}
  BY DEF Structure, Links, Linked, Taken
<1>4. Closed(next, Taken)
  BY <1>1, <1>3 DEF Closed
<1>5. Injective(next, Taken)
  BY DEF Structure, Links, Injective
<1>6. Directories \subseteq Taken
  BY DEF Directories, Taken
<1>7. ASSUME NEW d \in Directories, NEW b \in Taken PROVE next[b] # d
  <2>1. d # NIL
    BY <1>1, <1>6, NotNIL
  <2>2. d \notin Linked
    BY DEF Structure, Heads
  <2>. QED
    BY <2>1, <2>2 DEF Linked, Taken
<1>8. \A d \in Directories : Size(d) \in Nat
  BY <1>1, <1>6, MetaTyped DEF Structure
<1>. QED
  BY <1>1, <1>2, <1>4, <1>5, <1>6, <1>7, <1>8

LEMMA SamePlace ==
  ASSUME Structure, NEW d \in Directories, NEW e \in Directories, NEW i \in Nat, NEW j \in Nat,
         Follow(d, i) = Follow(e, j), Follow(d, i) # NIL
  PROVE  d = e /\ i = j
<1>1. Walk(next, d, i) = Walk(next, e, j) /\ Walk(next, d, i) # NIL
  BY FollowIs, Zenon
<1>. QED
  BY <1>1, Everywhere, WalkApart

(* The n-th block of a directory, up to its last.                          *)
LEMMA InChain ==
  ASSUME Structure, NEW d \in Directories, NEW k \in 0 .. Size(d) - 1
  PROVE  /\ Follow(d, k \div E) \in Taken
         /\ Entry(d, k) = slots[Follow(d, k \div E)][k % E]
         /\ slots[Follow(d, k \div E)][0].type # Empty
         /\ slots[Follow(d, k \div E)] # Blank
<1>1. PICK q : q = k \div E
  OBVIOUS
<1>2. ASSUME NEW x \in 0 .. Size(d) - 1
      PROVE  Follow(d, x \div E) # NIL /\ Entry(d, x) = slots[Follow(d, x \div E)][x % E]
             /\ Entry(d, x).type # Empty
  <2>1. Entry(d, x).type # Empty
    BY Zenon DEF Structure, Entries, Fine
  <2>2. Follow(d, x \div E) = NIL => Entry(d, x) = NoEntry
    BY Zenon DEF Entry
  <2>3. Follow(d, x \div E) # NIL
    BY <2>1, <2>2, BlankIs, Zenon
  <2>. QED
    BY <2>1, <2>3, Zenon DEF Entry
<1>3. k \in Nat /\ q \in Nat
  BY <1>1, Place
<1>4. Follow(d, q) \in Taken
  <2>1. Walk(next, d, q) \in Taken \cup {NIL}
    BY <1>3, Everywhere, WalkIn
  <2>2. Follow(d, q) # NIL
    BY <1>1, <1>2
  <2>. QED
    BY <2>1, <2>2, FollowIs
<1>5. PICK x \in 0 .. k : x \div E = q /\ x % E = 0
  <2>1. q \in 0 .. k \div E
    BY <1>1, <1>3
  <2>. QED
    BY <1>3, <2>1, FirstPlace
<1>6. x \in 0 .. Size(d) - 1
  BY <1>5, Everywhere
<1>7. slots[Follow(d, q)][0].type # Empty
  BY <1>2, <1>5, <1>6, Zenon
<1>8. slots[Follow(d, q)] # Blank
  BY <1>7, BlankIs
<1>. QED
  BY <1>1, <1>2, <1>4, <1>7, <1>8

LEMMA Chained ==
  ASSUME Structure, NEW d \in Directories, NEW q \in 0 .. (Size(d) - 1) \div E
  PROVE  Follow(d, q) \in Taken /\ slots[Follow(d, q)][0].type # Empty /\ slots[Follow(d, q)] # Blank
<1>1. PICK n : n = Size(d) - 1
  OBVIOUS
<1>2. n \in Nat
  BY <1>1, Everywhere DEF Structure, Heads
<1>3. PICK k \in 0 .. n : k \div E = q
  BY <1>1, <1>2, FirstPlace
<1>4. k \in 0 .. Size(d) - 1
  BY <1>1
<1>. QED
  BY <1>3, <1>4, InChain

(* A directory of which a step changes nothing.                            *)
Same(d) == /\ Size(d)' = Size(d)
           /\ \A k \in 0 .. Size(d) - 1 : Entry(d, k)' = Entry(d, k)

LEMMA ChainKept ==
  ASSUME Structure, DiskTyped', NEW d \in Directories,
         \A i \in 0 .. (Size(d) - 1) \div E - 1 : next'[Follow(d, i)] = next[Follow(d, i)]
  PROVE  \A q \in 0 .. (Size(d) - 1) \div E : Follow(d, q)' = Follow(d, q)
<1>1. PICK n : n = (Size(d) - 1) \div E
  OBVIOUS
<1>2. n \in Nat
  <2>1. Size(d) - 1 \in Nat
    BY Everywhere DEF Structure, Heads
  <2>. QED
    BY <1>1, <2>1, Place
<1>3. next' \in [All -> OnDisk] /\ next \in [All -> OnDisk] /\ d \in OnDisk
  BY Everywhere, LinksTyped DEF DiskTyped
<1>4. \A i \in 0 .. n - 1 : Walk(next, d, i) # NIL => next'[Walk(next, d, i)] = next[Walk(next, d, i)]
  BY <1>1, FollowIs, Zenon
<1>5. \A q \in 0 .. n : Walk(next', d, q) = Walk(next, d, q)
  BY <1>2, <1>3, <1>4, WalkSame
<1>. QED
  BY <1>1, <1>5, FollowIs, FollowNext, Zenon

LEMMA SameWhen ==
  ASSUME Structure, DiskTyped', NEW d \in Directories, Size(d)' = Size(d),
         \A i \in 0 .. (Size(d) - 1) \div E - 1 : next'[Follow(d, i)] = next[Follow(d, i)],
         \A k \in 0 .. Size(d) - 1 :
            slots'[Follow(d, k \div E)][k % E] = slots[Follow(d, k \div E)][k % E]
  PROVE  Same(d)
<1>1. ASSUME NEW k \in 0 .. Size(d) - 1
      PROVE  Entry(d, k)' = Entry(d, k)
  <2>1. PICK b : b = Follow(d, k \div E)
    OBVIOUS
  <2>2. k \div E \in 0 .. (Size(d) - 1) \div E
    <3>1. k \in Nat /\ Size(d) - 1 \in Nat /\ k <= Size(d) - 1
      BY Everywhere
    <3>. QED
      BY <3>1, Place, Earlier
  <2>3. Follow(d, k \div E)' = b
    BY <2>1, <2>2, ChainKept
  <2>4. b # NIL /\ Entry(d, k) = slots[b][k % E]
    <3>1. b \in Taken
      BY <2>1, InChain
    <3>2. b # NIL
      BY <3>1, Everywhere, NotNIL
    <3>. QED
      BY <2>1, <3>2, InChain
  <2>5. Entry(d, k)' = slots'[b][k % E]
    BY <2>3, <2>4, Zenon DEF Entry
  <2>6. slots'[b][k % E] = slots[b][k % E]
    BY <2>1
  <2>. QED
    BY <2>4, <2>5, <2>6
<1>. QED
  BY <1>1 DEF Same

(* A step that writes only to blocks that are blank changes no directory.  *)
LEMMA SameAway ==
  ASSUME Structure, DiskTyped',
         \A b \in Taken : slots[b] # Blank => next'[b] = next[b] /\ slots'[b] = slots[b],
         NEW d \in Directories
  PROVE  Same(d)
<1>1. d \in Taken /\ slots[d] # Blank
  <2>1. d \in Taken
    BY Everywhere
  <2>. QED
    BY <2>1, BlankIs, EmptyIs DEF Structure, Heads
<1>2. Size(d)' = Size(d)
  BY <1>1 DEF Size
<1>3. ASSUME NEW q \in 0 .. (Size(d) - 1) \div E
      PROVE  next'[Follow(d, q)] = next[Follow(d, q)] /\ slots'[Follow(d, q)] = slots[Follow(d, q)]
  BY Chained
<1>4. Size(d) - 1 \in Nat /\ (Size(d) - 1) \div E \in Nat
  <2>1. Size(d) - 1 \in Nat
    BY Everywhere DEF Structure, Heads
  <2>. QED
    BY <2>1, Place
<1>5. \A i \in 0 .. (Size(d) - 1) \div E - 1 : next'[Follow(d, i)] = next[Follow(d, i)]
  <2>1. PICK n : n = (Size(d) - 1) \div E
    OBVIOUS
  <2>2. \A i \in 0 .. n - 1 : i \in 0 .. n
    BY <1>4, <2>1
  <2>. QED
    BY <1>3, <2>1, <2>2
<1>6. ASSUME NEW k \in 0 .. Size(d) - 1
      PROVE  slots'[Follow(d, k \div E)][k % E] = slots[Follow(d, k \div E)][k % E]
  <2>1. k \in Nat /\ k <= Size(d) - 1
    OBVIOUS
  <2>2. k \div E \in 0 .. (Size(d) - 1) \div E
    BY <1>4, <2>1, Place, Earlier
  <2>. QED
    BY <1>3, <2>2
<1>. QED
  BY <1>2, <1>5, <1>6, SameWhen

LEMMA EntryZero ==
  ASSUME Structure, NEW d \in Directories
  PROVE  Entry(d, 0) = slots[d][0] /\ Follow(d, 0) = d
<1>1. 0 \div E = 0 /\ 0 % E = 0
  <2>1. 0 = E * 0 + 0 /\ 0 \in 0 .. E - 1
    BY EIs
  <2>. QED
    BY <2>1, PlaceOf
<1>2. Follow(d, 0) = d
  <2>1. d \in OnDisk
    BY Everywhere
  <2>. QED
    BY <2>1, Everywhere, WalkStep, FollowIs
<1>3. 0 \in 0 .. Size(d) - 1
  BY Everywhere DEF Structure, Heads
<1>. QED
  BY <1>1, <1>2, <1>3, InChain

LEMMA EntryZeroNext ==
  ASSUME DiskTyped', NEW d \in All
  PROVE  Entry(d, 0)' = slots'[d][0]
<1>1. 0 \div E = 0 /\ 0 % E = 0
  <2>1. 0 = E * 0 + 0 /\ 0 \in 0 .. E - 1
    BY EIs
  <2>. QED
    BY <2>1, PlaceOf
<1>2. Walk(next', d, 0) = d
  <2>1. d \in OnDisk /\ next' \in [All -> OnDisk]
    BY LinksTyped DEF DiskTyped, OnDisk
  <2>. QED
    BY <2>1, WalkStep
<1>3. Follow(d, 0)' = d /\ d # NIL
  BY <1>2, FollowNext, NotNIL
<1>. QED
  BY <1>1, <1>3 DEF Entry

LEMMA SameDirs ==
  ASSUME Structure, Apart, DiskTyped', Proper \subseteq Proper',
         \A d \in Directories' : d \in Directories /\ Same(d) /\ d \notin Linked'
  PROVE  Heads' /\ Entries' /\ Apart'
<1>1. ASSUME NEW d \in Directories'
      PROVE  /\ d \in Directories /\ Size(d)' = Size(d) /\ d \notin Linked'
             /\ \A k \in 0 .. Size(d) - 1 : Entry(d, k)' = Entry(d, k)
  BY DEF Same
<1>2. Heads'
  <2>1. ASSUME NEW d \in Directories'
        PROVE  /\ d \notin Linked'
               /\ slots'[d][0].first = d /\ slots'[d][0].type = "d" /\ Size(d)' >= 2
    <3>1. d \in All /\ 0 \in 0 .. Size(d) - 1
      BY <1>1, Everywhere DEF Structure, Heads
    <3>2. slots'[d][0] = slots[d][0]
      BY <1>1, <3>1, EntryZero, EntryZeroNext
    <3>. QED
      BY <1>1, <3>2 DEF Structure, Heads
  <2>. QED
    BY <2>1 DEF Heads
<1>3. Entries'
  <2>1. ASSUME NEW d \in Directories', NEW k \in 0 .. Size(d)' - 1
        PROVE  Fine(d, k)'
    <3>1. d \in Directories /\ k \in 0 .. Size(d) - 1 /\ Entry(d, k)' = Entry(d, k)
      BY <1>1
    <3>2. Fine(d, k)
      BY <3>1 DEF Structure, Entries
    <3>. QED
      BY <3>1, <3>2 DEF Fine
  <2>. QED
    BY <2>1 DEF Entries
<1>4. Apart'
  <2>1. ASSUME NEW d \in Directories', NEW e \in Directories', NEW j \in 2 .. Size(d)' - 1,
               NEW k \in 2 .. Size(e)' - 1,
               Entry(d, j).first' = Entry(e, k).first', Entry(d, j).first' # NIL
        PROVE  d = e /\ j = k
    <3>1. /\ d \in Directories /\ j \in 2 .. Size(d) - 1 /\ j \in 0 .. Size(d) - 1
          /\ e \in Directories /\ k \in 2 .. Size(e) - 1 /\ k \in 0 .. Size(e) - 1
      BY <1>1
    <3>2. Entry(d, j)' = Entry(d, j) /\ Entry(e, k)' = Entry(e, k)
      BY <1>1, <3>1
    <3>. QED
      BY <2>1, <3>1, <3>2 DEF Apart
  <2>. QED
    BY <2>1 DEF Apart
<1>. QED
  BY <1>2, <1>3, <1>4

(* The invariant says who leads to what.                                   *)
LEMMA Owners == DInv => OneOwner
<1> SUFFICES ASSUME DInv PROVE OneOwner
  OBVIOUS
<1>0. Structure
  BY DEF DInv
<1>1. \A b, c \in used \cup {ROOT_BLOCK} : next[b] = next[c] /\ next[b] # NIL => b = c
  BY <1>0 DEF Structure, Links, Taken
<1>2. ASSUME NEW l \in Listed
      PROVE  /\ l = <<l[1], l[2]>> /\ l[1] \in Directories /\ l[2] \in 2 .. Size(l[1]) - 1
             /\ FirstOf(l) = Entry(l[1], l[2]).first
  <2>1. PICK d \in Directories : \E k \in 2 .. Size(d) - 1 : l = <<d, k>>
    BY DEF Listed
  <2>2. PICK k \in 2 .. Size(d) - 1 : l = <<d, k>>
    BY <2>1
  <2>. QED
    BY <2>1, <2>2 DEF FirstOf, Meta
<1>3. ASSUME NEW l \in Listed, NEW m \in Listed, FirstOf(l) = FirstOf(m), FirstOf(l) # NIL
      PROVE  l = m
  <2>1. l[1] = m[1] /\ l[2] = m[2]
    BY <1>2, <1>3 DEF DInv, Apart
  <2>. QED
    BY <1>2, <2>1
<1>4. ASSUME NEW l \in Listed PROVE FirstOf(l) \in (used \ Linked) \cup {NIL}
  <2>1. PICK d, k : d = l[1] /\ k = l[2]
    OBVIOUS
  <2>2. d \in Directories /\ k \in 2 .. Size(d) - 1 /\ FirstOf(l) = Entry(d, k).first
    BY <1>2, <2>1
  <2>3. k \in 0 .. Size(d) - 1 /\ k >= 1 /\ k >= 2
    BY <2>2
  <2>4. Fine(d, k)
    BY <1>0, <2>2, <2>3 DEF Structure, Entries
  <2>5. FirstOf(l) \in Proper \cup {NIL} /\ FirstOf(l) # ROOT_BLOCK
    BY <2>2, <2>3, <2>4 DEF Fine
  <2>. QED
    BY <2>5 DEF Proper, Taken
<1>5. Linked \subseteq used
  BY <1>0 DEF Structure, Links
<1>6. \A d \in Directories : LastBlock(d) # NIL
  <2>1. ASSUME NEW d \in Directories PROVE LastBlock(d) # NIL
    <3>1. Size(d) - 1 \in 0 .. Size(d) - 1
      BY <1>0, Everywhere DEF Structure, Heads
    <3>2. Follow(d, (Size(d) - 1) \div E) \in Taken
      BY <1>0, <3>1, InChain
    <3>. QED
      BY <1>0, <3>2, Everywhere, NotNIL DEF LastBlock
  <2>. QED
    BY <2>1
<1>7. \A b \in Blocks \ used : next[b] = NIL /\ slots[b] = Blank
  BY <1>0 DEF Structure, Links
<1>. QED
  BY <1>1, <1>3, <1>4, <1>5, <1>6, <1>7 DEF OneOwner

LEMMA WherePassed ==
  ASSUME Where, Proper \subseteq Proper', {CBN, ROOT_BLOCK} \subseteq Directories', CBN' = CBN,
         pc' # "idle" => pc # "idle" /\ job'.parent = job.parent /\ job'.kind = job.kind,
         pc' \notin {"idle", "wild", "overrun"} => pc \notin {"idle", "wild", "overrun"}
  PROVE  Where'
BY DEF Where

(* A step that leaves blocks and links alone.                              *)
LEMMA Untouched ==
  ASSUME DInv, used' = used, next' = next, slots' = slots, Mine' \subseteq Mine
  PROVE  /\ Structure' /\ Apart' /\ Proper \subseteq Proper'
         /\ Directories' = Directories /\ Linked' = Linked
         /\ \A d, n : Follow(d, n)' = Follow(d, n)
         /\ \A d, k : Size(d)' = Size(d) /\ Entry(d, k)' = Entry(d, k)
<1>1. Directories' = Directories /\ Linked' = Linked
  BY DEF Directories, Linked
<1>2. Proper \subseteq Proper'
  BY <1>1 DEF Proper, Taken
<1>3. DiskTyped' /\ Links'
  BY DEF DInv, Structure, DiskTyped, Links, Linked, Taken
<1>4. \A d, n : Follow(d, n)' = Follow(d, n)
  BY FollowIs, FollowNext
<1>5. ASSUME NEW d, NEW k PROVE Size(d)' = Size(d) /\ Entry(d, k)' = Entry(d, k)
  <2>1. Follow(d, k \div E)' = Follow(d, k \div E)
    BY <1>4
  <2>. QED
    BY <2>1 DEF Size, Entry
<1>6. \A d \in Directories' : d \in Directories /\ Same(d) /\ d \notin Linked'
  BY <1>1, <1>5 DEF Same, DInv, Structure, Heads
<1>7. Heads' /\ Entries' /\ Apart'
  BY <1>2, <1>3, <1>6, SameDirs DEF DInv
<1>. QED
  BY <1>1, <1>2, <1>3, <1>4, <1>5, <1>7 DEF Structure

LEMMA CountOwns ==
  ASSUME DInv, Count
  PROVE  DInv'
<1> USE DEF Count
<1>1. job.new \in used /\ job.new # NIL /\ New = {job.new} /\ First = IF job.first = NIL THEN {} ELSE {job.first}
  <2>1. New = {job.new} /\ First = IF job.first = NIL THEN {} ELSE {job.first}
    BY DEF New, First
  <2>2. job.new \in used
    BY <2>1 DEF DInv, Private, Mine
  <2>. QED
    BY <2>1, <2>2, Everywhere, NotNIL DEF DInv, Taken
<1>2. /\ job.after \in {"format", "fill", "chain", "link"} /\ Stage' = Stage /\ Stage = job.after
      /\ job.after \in {"format", "fill"} => job.first = NIL
  BY DEF DInv, Progress, Stage
<1>3. /\ DOMAIN job' = Fields /\ job'.kind = job.kind /\ job'.parent = job.parent
      /\ job'.name = job.name /\ job'.size = job.size /\ job'.new = job.new /\ job'.src = job.src
      /\ job'.first = IF job.after \in {"format", "fill"} THEN job.new ELSE job.first
      /\ job'.cur = IF job.after \in {"format", "fill"} THEN job.new ELSE job.cur
  BY DEF DInv, JobTyped, Fields, NoJob
<1>4. /\ First' = IF job.after \in {"format", "fill"} THEN New ELSE First
      /\ New' = IF job.after \in {"format", "fill"} THEN {} ELSE New
  BY <1>1, <1>2, <1>3 DEF First, New
<1>5. Mine' = Mine
  BY <1>1, <1>2, <1>4 DEF Mine
<1>6. /\ Structure' /\ Apart' /\ Proper \subseteq Proper'
      /\ Directories' = Directories /\ Linked' = Linked /\ \A d : Size(d)' = Size(d)
  BY <1>5, Untouched
<1>7. JobTyped'
  BY <1>1, <1>3 DEF DInv, JobTyped, Structure, DiskTyped
<1>8. Private'
  <2>1. Mine' \subseteq used' \ Linked'
    BY <1>5, <1>6 DEF DInv, Private
  <2>2. \A b \in New' : b # job'.first /\ next'[b] = NIL /\ slots'[b] = Blank
    BY <1>3, <1>4 DEF DInv, Private
  <2>3. IsMade' = IsMade
    BY <1>2, <1>3 DEF IsMade
  <2>4. CASE job.after \in {"format", "fill"}
    <3>1. ~IsMade' /\ First' = New
      BY <1>2, <1>4, <2>3, <2>4 DEF IsMade
    <3>. QED
      BY <2>1, <2>2, <3>1 DEF DInv, Private
  <2>5. CASE job.after \notin {"format", "fill"}
    <3>1. First' = First
      BY <1>4, <2>5
    <3>2. \A b \in First : Size(b)' = Size(b)
      BY <1>6
    <3>. QED
      BY <1>3, <1>6, <2>1, <2>2, <2>3, <3>1, <3>2 DEF DInv, Private
  <2>. QED
    BY <2>4, <2>5
<1>9. Where'
  <2>1. pc' \notin {"idle", "wild", "overrun"} /\ pc = "count" /\ CBN' = CBN
    BY <1>2
  <2>. QED
    BY <1>3, <1>6, <2>1, WherePassed DEF DInv, Where
<1>10. Progress'
  <2>1. IsMade' = IsMade
    BY <1>2, <1>3 DEF IsMade
  <2>2. slots'[job.new] = Blank
    BY <1>1 DEF DInv, Private
  <2>. QED
    BY <1>1, <1>2, <1>3, <2>1, <2>2 DEF DInv, Progress
<1>11. Extension'
  BY <1>2, <1>3, <1>6 DEF DInv, Extension
<1>. QED
  BY <1>6, <1>7, <1>8, <1>9, <1>10, <1>11 DEF DInv

(* The shell goes idle and forgets the command.                            *)
LEMMA Rests ==
  ASSUME DInv, used' = used, next' = next, slots' = slots, pc' = "idle", job' = NoJob,
         CBN' \in {CBN, ROOT_BLOCK}
  PROVE  DInv'
<1>1. /\ NoJob.kind = Empty /\ NoJob.name = Empty /\ NoJob.size = 0 /\ NoJob.first = NIL
      /\ NoJob.src = NIL /\ NoJob.parent = NIL /\ DOMAIN NoJob = Fields
  BY DEF NoJob, Fields
<1>2. First' = {} /\ New' = {} /\ Mine' = {} /\ ~IsMade'
  BY <1>1, EmptyIs DEF First, New, Mine, IsMade
<1>3. /\ Structure' /\ Apart' /\ Proper \subseteq Proper'
      /\ Directories' = Directories /\ Linked' = Linked
  BY <1>2, Untouched
<1>4. JobTyped'
  <2>1. DOMAIN job' = Fields
    BY <1>1
  <2>2. job'.kind = Empty /\ job'.name = Empty /\ job'.size = 0 /\ job'.first = NIL /\ job'.src = NIL
    BY <1>1
  <2>. QED
    BY <2>1, <2>2 DEF JobTyped, OnDisk
<1>5. Private'
  BY <1>2 DEF Private
<1>6. Where'
  <2>1. ROOT_BLOCK \in Directories' /\ ROOT_BLOCK \in Proper'
    <3>1. ROOT_BLOCK \in Directories'
      BY <1>3 DEF DInv, Where
    <3>2. ROOT_BLOCK \notin Linked'
      BY <1>3, <3>1 DEF Structure, Heads
    <3>. QED
      BY <1>2, <3>1, <3>2 DEF Proper, Taken
  <2>2. CBN \in Directories' /\ CBN \in Proper'
    BY <1>3 DEF DInv, Where
  <2>. QED
    BY <1>1, <2>1, <2>2 DEF Where
<1>7. Progress'
  BY <1>2 DEF Progress, Stage
<1>8. Extension'
  BY DEF Extension, Stage
<1>. QED
  BY <1>3, <1>4, <1>5, <1>6, <1>7, <1>8 DEF DInv

(* The shell goes on, or leaves the disk, with the command as it is.       *)
LEMMA Gives ==
  ASSUME DInv, UNCHANGED <<used, next, slots, CBN, job>>,
         \/ pc = "extend" /\ pc' = "free" /\ job.kind = "d"
         \/ pc = "more" /\ pc' = "overrun"
         \/ pc = "enter" /\ pc' = "wild"
  PROVE  DInv'
<1>1. First' = First /\ New' = {} /\ New = {} /\ Stage' = pc' /\ Stage = pc
  BY DEF First, New, Stage
<1>2. IsMade' = IsMade
  BY <1>1 DEF IsMade, DInv, Progress
<1>3. /\ Structure' /\ Apart' /\ Proper \subseteq Proper'
      /\ Directories' = Directories /\ Linked' = Linked /\ \A d : Size(d)' = Size(d)
  BY <1>1, Untouched DEF Mine
<1>4. JobTyped'
  BY DEF DInv, JobTyped
<1>5. Private'
  <2>1. Mine' = Mine
    BY <1>1 DEF Mine
  <2>2. \A b \in First : Size(b)' = Size(b)
    BY <1>3
  <2>. QED
    BY <1>1, <1>2, <1>3, <2>1, <2>2 DEF DInv, Private
<1>6. Where'
  BY <1>3, WherePassed DEF DInv, Where
<1>7. Progress'
  BY <1>1, <1>2 DEF DInv, Progress, IsMade
<1>8. Extension'
  BY <1>1 DEF Extension
<1>. QED
  BY <1>3, <1>4, <1>5, <1>6, <1>7, <1>8 DEF DInv

LEMMA TakeFailsOwns ==
  ASSUME DInv, TakeFails
  PROVE  DInv'
<1>1. UNCHANGED <<used, next, slots, CBN>> /\ pc \in Takes
  BY DEF TakeFails, disk
<1>2. CASE pc' = "idle"
  BY <1>1, <1>2, Rests DEF TakeFails
<1>3. CASE pc' # "idle"
  <2>1. job' = job
    BY <1>3 DEF TakeFails
  <2>2. \/ pc = "extend" /\ pc' = "free" /\ job.kind = "d"
        \/ pc = "more" /\ pc' = "overrun"
    BY <1>1, <1>3 DEF TakeFails, AfterFail, Takes
  <2>. QED
    BY <1>1, <2>1, <2>2, Gives
<1>. QED
  BY <1>2, <1>3

LEMMA NoParentOwns ==
  ASSUME DInv, NoParent
  PROVE  DInv'
<1>1. UNCHANGED <<used, next, slots, CBN>> /\ pc = "enter" /\ pc' \in {"idle", "wild"}
  BY DEF NoParent, disk
<1>2. CASE pc' = "idle"
  BY <1>1, <1>2, Rests DEF NoParent
<1>3. CASE pc' = "wild"
  <2>1. job' = job
    BY <1>3 DEF NoParent
  <2>. QED
    BY <1>1, <1>3, <2>1, Gives
<1>. QED
  BY <1>1, <1>2, <1>3

LEMMA RestOwns ==
  ASSUME DInv, FreeCount \/ Crash
  PROVE  DInv'
<1>1. UNCHANGED <<used, next, slots>> /\ job' = NoJob /\ pc' = "idle"
  BY DEF FreeCount, Crash, disk
<1>2. CBN' \in {CBN, ROOT_BLOCK}
  BY DEF FreeCount, Crash
<1>. QED
  BY <1>1, <1>2, Rests
-----------------------------------------------------------------------------
(* What names lead to.                                                     *)
LEMMA Least ==
  ASSUME NEW S, S \subseteq Nat, S # {}
  PROVE  \E k \in S : \A l \in S : k <= l
<1>1. PICK p \in S : \A x \in S : ~ (<<x, p>> \in OpToRel(<, Nat))
  BY NatLessThanWellFounded, WFMin
<1>2. \A x \in S : ~ (x < p)
  <2>1. \A x \in S : x \in Nat /\ p \in Nat
    OBVIOUS
  <2>. QED
    BY <1>1, <2>1, Zenon DEF OpToRel
<1>. QED
  BY <1>2

Reachable == Proper \cup {NIL, NOWHERE}

LEMMA IsProper ==
  ASSUME Structure, NEW b \in Reachable, IsDirectory(b)
  PROVE  b \in Proper /\ b \in Directories
<1>1. isallocated(b) /\ slots[b][0].type = "d"
  BY DEF IsDirectory
<1>2. b \in Taken
  BY <1>1 DEF isallocated, Taken
<1>3. b # NIL /\ b # NOWHERE
  BY <1>2, Everywhere, NotNIL
<1>4. b \in Proper
  BY <1>3 DEF Reachable
<1>5. slots[b] # Blank
  BY <1>1, BlankIs, EmptyIs
<1>. QED
  BY <1>4, <1>5 DEF Proper

(* The entry that is found is one of the directory.                        *)
LEMMA Found ==
  ASSUME Structure, NEW b \in Reachable, NEW name, Places(b, name) # {}
  PROVE  /\ b \in Proper /\ b \in Directories
         /\ \E k \in 0 .. Size(b) - 1 : find_entry(b, name) = Entry(b, k) /\ Entry(b, k).name = name
<1>1. IsDirectory(b) /\ Places(b, name) = {k \in 0 .. Size(b) - 1 : Entry(b, k).name = name}
  BY DEF Places
<1>2. b \in Proper /\ b \in Directories
  BY <1>1, IsProper
<1>3. PICK S : S = Places(b, name)
  OBVIOUS
<1>4. S \subseteq Nat /\ S # {}
  BY <1>1, <1>3
<1>5. (CHOOSE k \in S : \A l \in S : k <= l) \in S
  BY <1>4, Least
<1>6. find_entry(b, name) = Entry(b, CHOOSE k \in S : \A l \in S : k <= l)
  BY <1>3 DEF find_entry
<1>. QED
  BY <1>1, <1>2, <1>3, <1>5, <1>6

LEMMA FoundProper ==
  ASSUME Structure, NEW b \in Reachable, NEW name, Places(b, name) # {}
  PROVE  find_entry(b, name).first \in Proper \cup {NIL}
<1>1. PICK k \in 0 .. Size(b) - 1 : find_entry(b, name) = Entry(b, k)
  BY Found
<1>2. b \in Proper /\ b \in Directories
  BY Found
<1>3. CASE k = 0
  BY <1>1, <1>2, <1>3, EntryZero DEF Structure, Heads
<1>4. CASE k >= 1
  <2>1. Fine(b, k)
    BY <1>2 DEF Structure, Entries
  <2>. QED
    BY <1>1, <1>4, <2>1 DEF Fine
<1>. QED
  BY <1>1, <1>3, <1>4

LEMMA DescendReaches ==
  ASSUME Structure, NEW b \in Reachable, NEW name
  PROVE  Descend(b, name) \in Reachable
BY FoundProper DEF Descend, Reachable

(* The recursion of resolve_path stays among the blocks that are proper.   *)
LEMMA Resolves ==
  ASSUME DInv, NEW path \in Paths
  PROVE  resolve_path(path) \in Reachable
<1>0. Structure /\ path.names \in Seq(STRING)
  BY DiskAssumption DEF DInv
<1>1. PICK n, a, s : n = Len(path.names) /\ a = (IF path.absolute THEN ROOT_BLOCK ELSE CBN)
                     /\ s = path.names
  OBVIOUS
<1>2. n \in Nat
  BY <1>0, <1>1, LenProperties
<1>3. a \in Reachable
  <2>1. ROOT_BLOCK \in Proper
    <3>1. ROOT_BLOCK \in Directories /\ ROOT_BLOCK \notin Linked
      BY DEF DInv, Where, Structure, Heads
    <3>2. ROOT_BLOCK \notin Mine
      BY NotNIL DEF DInv, Private, Structure, DiskTyped
    <3>. QED
      BY <3>1, <3>2 DEF Proper, Taken
  <2>. QED
    BY <1>1, <2>1 DEF DInv, Where, Reachable
<1> DEFINE g == [p \in Reachable \X (1 .. n) |-> Descend(p[1], s[p[2]])]
           Eq(u) == u = [k \in 0 .. n |-> IF k = 0 THEN a ELSE Descend(u[k-1], s[k])]
<1>4. g \in [Reachable \X (1 .. n) -> Reachable]
  BY <1>0, DescendReaches
<1>5. \A c \in Reachable, x \in 1 .. n : g[<<c, x>>] = Descend(c, s[x])
  OBVIOUS
<1> HIDE DEF g
<1>6. PICK h : Unrolls(h, Reachable, a, n, g)
  BY <1>2, <1>3, <1>4, Recursion
<1>7. h \in [0 .. n -> Reachable] /\ h[0] = a /\ \A x \in 1 .. n : h[x] = Descend(h[x-1], s[x])
  <2>1. h \in [0 .. n -> Reachable] /\ h[0] = a /\ \A x \in 1 .. n : h[x] = g[<<h[x-1], x>>]
    BY <1>6 DEF Unrolls
  <2>2. ASSUME NEW x \in 1 .. n PROVE h[x] = Descend(h[x-1], s[x])
    <3>1. x - 1 \in 0 .. n
      BY <1>2
    <3>2. h[x-1] \in Reachable
      BY <2>1, <3>1
    <3>. QED
      BY <1>5, <2>1, <3>2
  <2>. QED
    BY <2>1, <2>2
<1>8. Eq(h)
  <2>1. ASSUME NEW x \in 0 .. n
        PROVE  h[x] = IF x = 0 THEN a ELSE Descend(h[x-1], s[x])
    <3>1. CASE x = 0
      BY <1>7, <3>1
    <3>2. CASE x # 0
      <4>1. x \in 1 .. n
        BY <3>2
      <4>. QED
        BY <1>7, <3>2, <4>1, Zenon
    <3>. QED
      BY <3>1, <3>2
  <2>2. h = [x \in 0 .. n |-> h[x]]
    BY <1>7
  <2>. QED
    BY <2>1, <2>2, Zenon
<1>9. resolve_path(path) = (CHOOSE u : Eq(u))[n]
  BY <1>1, Zenon DEF resolve_path
<1> DEFINE u == CHOOSE u : Eq(u)
<1>10. Eq(u)
  BY <1>8
<1> HIDE DEF u
<1> DEFINE P == {x \in 0 .. n : u[x] = h[x]}
<1>11. 0 \in P
  <2>1. 0 \in 0 .. n
    BY <1>2
  <2>2. u[0] = a
    BY <1>10, <2>1, Zenon
  <2>. QED
    BY <1>7, <2>1, <2>2
<1>12. ASSUME NEW x \in 1 .. n, x - 1 \in P PROVE x \in P
  <2>1. x \in 0 .. n /\ x # 0
    OBVIOUS
  <2>2. u[x] = Descend(u[x-1], s[x])
    BY <1>10, <2>1, Zenon
  <2>3. u[x-1] = h[x-1]
    BY <1>12
  <2>. QED
    BY <1>7, <2>1, <2>2, <2>3, Zenon
<1> HIDE DEF P
<1>13. \A x \in 0 .. n : x \in P
  BY <1>2, <1>11, <1>12, UpTo
<1>14. u[n] = h[n]
  BY <1>2, <1>13 DEF P
<1>15. h[n] \in Reachable
  BY <1>2, <1>7
<1>. QED
  BY <1>9, <1>14, <1>15 DEF u

(* A command begins: it has taken nothing yet.                             *)
LEMMA Starts ==
  ASSUME DInv, pc = "idle", used' = used, next' = next, slots' = slots,
         pc' \in {"md", "first", "enter"}, JobTyped', job'.first = NIL,
         job'.kind \in {"d", "f"}, job'.name \in Names, job'.parent \in Reachable,
         job'.kind = "d" => pc' = "md" /\ job'.parent # NOWHERE,
         pc' = "md" => job'.kind = "d",
         CBN' = CBN
  PROVE  DInv'
<1>1. First' = {} /\ New' = {} /\ Mine' = {} /\ ~IsMade' /\ Stage' = pc'
  BY DEF First, New, Mine, IsMade, Stage
<1>2. /\ Structure' /\ Apart' /\ Proper \subseteq Proper'
      /\ Directories' = Directories /\ Linked' = Linked
  BY <1>1, Untouched
<1>3. Private'
  BY <1>1 DEF Private
<1>4. Where'
  <2>1. job'.parent \in Proper' \cup {NIL, NOWHERE}
    BY <1>2 DEF Reachable
  <2>. QED
    BY <1>2, <2>1 DEF DInv, Where
<1>5. Progress'
  BY <1>1 DEF Progress
<1>6. Extension'
  BY <1>1 DEF Extension
<1>. QED
  BY <1>2, <1>3, <1>4, <1>5, <1>6 DEF DInv

LEMMA cmd_cdOwns ==
  ASSUME DInv, NEW path \in Paths, cmd_cd(path)
  PROVE  DInv'
<1>1. /\ pc = "idle" /\ pc' = pc /\ job' = job /\ used' = used /\ next' = next /\ slots' = slots
      /\ IsDirectory(resolve_path(path)) /\ CBN' = resolve_path(path)
  BY DEF cmd_cd, disk
<1>2. First' = First /\ New' = New /\ Mine' = Mine /\ Stage' = Stage /\ IsMade' = IsMade
  BY <1>1 DEF First, New, Mine, Stage, IsMade
<1>3. /\ Structure' /\ Apart' /\ Proper \subseteq Proper'
      /\ Directories' = Directories /\ Linked' = Linked /\ \A d : Size(d)' = Size(d)
      /\ \A d, n : Follow(d, n)' = Follow(d, n) /\ \A k : Entry(d, k)' = Entry(d, k)
  BY <1>1, <1>2, Untouched
<1>4. JobTyped'
  BY <1>1 DEF DInv, JobTyped
<1>5. Private'
  <2>1. \A b \in First : Size(b)' = Size(b)
    BY <1>3
  <2>. QED
    BY <1>1, <1>2, <1>3, <2>1 DEF DInv, Private
<1>6. Where'
  <2>1. CBN' \in Proper /\ CBN' \in Directories
    BY <1>1, Resolves, IsProper DEF DInv
  <2>. QED
    BY <1>1, <1>3, <2>1 DEF DInv, Where
<1>7. Progress'
  BY <1>1, <1>2 DEF DInv, Progress
<1>8. Extension'
  BY <1>1, <1>2 DEF Extension, Stage
<1>. QED
  BY <1>3, <1>4, <1>5, <1>6, <1>7, <1>8 DEF DInv

LEMMA cmd_mdOwns ==
  ASSUME DInv, NEW path \in Paths, NEW name \in Names, cmd_md(path, name)
  PROVE  DInv'
<1>1. PICK parent : parent = resolve_path(path)
  OBVIOUS
<1>2. /\ pc = "idle" /\ pc' = "md" /\ used' = used /\ next' = next /\ slots' = slots
      /\ parent # NOWHERE /\ CBN' = CBN
      /\ job' = [NoJob EXCEPT !.kind = "d", !.parent = parent, !.name = name, !.size = 2,
                              !.known = IsDirectory(parent)]
  BY <1>1 DEF cmd_md, Ready, disk
<1>3. /\ DOMAIN job' = Fields /\ job'.kind = "d" /\ job'.parent = parent /\ job'.name = name
      /\ job'.size = 2 /\ job'.first = NIL /\ job'.src = NIL
  BY <1>2 DEF NoJob, Fields
<1>4. JobTyped'
  BY <1>3 DEF JobTyped, OnDisk
<1>5. parent \in Reachable
  BY <1>1, Resolves
<1>. QED
  BY <1>2, <1>3, <1>4, <1>5, Starts

(* The directory of that name, or the one where it is looked up.           *)
ToCopy(c, size) ==
  /\ DOMAIN c = Fields /\ c.kind = "f" /\ c.name \in Names /\ c.size = size
  /\ c.first = NIL /\ c.src = NIL /\ c.parent \in Reachable

LEMMA CopyGoes ==
  ASSUME Structure, NEW parent \in Reachable, NEW name \in Names, NEW source \in Names, NEW size
  PROVE  ToCopy(Copy(parent, name, source, size), size)
<1>1. PICK inside, target, c :
        /\ inside = (Places(parent, name) # {} /\ find_entry(parent, name).type = "d")
        /\ target = IF inside THEN find_entry(parent, name).first ELSE parent
        /\ c = Copy(parent, name, source, size)
  OBVIOUS
<1>2. c = [NoJob EXCEPT !.kind = "f", !.size = size,
                        !.parent = target, !.known = IsDirectory(target),
                        !.name = IF inside THEN source ELSE name]
  BY <1>1, Zenon DEF Copy
<1>3. /\ DOMAIN c = Fields /\ c.kind = "f" /\ c.name = (IF inside THEN source ELSE name)
      /\ c.size = size /\ c.first = NIL /\ c.src = NIL
      /\ c.parent = IF inside THEN find_entry(parent, name).first ELSE parent
  BY <1>1, <1>2 DEF NoJob, Fields
<1>4. inside => find_entry(parent, name).first \in Reachable
  BY <1>1, FoundProper DEF Reachable
<1>5. ToCopy(c, size)
  BY <1>3, <1>4 DEF ToCopy
<1>. QED
  BY <1>1, <1>5

LEMMA CopyInOwns ==
  ASSUME DInv, NEW path \in Paths, NEW name \in Names, NEW source \in Names,
         NEW content \in HdFiles, CopyIn(content, source, path, name)
  PROVE  DInv'
<1>0. Structure
  BY DEF DInv
<1>1. PICK parent, size, c : /\ parent = resolve_path(path) /\ size = Len(content)
                             /\ c = Copy(parent, name, source, size)
  OBVIOUS
<1>2. /\ pc = "idle" /\ pc' \in {"enter", "first"} /\ used' = used /\ next' = next
      /\ slots' = slots /\ CBN' = CBN
      /\ job' = [c EXCEPT !.rest = content, !.want = content]
  BY <1>1 DEF CopyIn, Ready, disk
<1>3. parent \in Reachable /\ size \in Nat
  BY <1>1, Resolves, Contents, LenProperties
<1>4. /\ DOMAIN c = Fields /\ c.kind = "f" /\ c.name \in Names /\ c.size = size
      /\ c.first = NIL /\ c.src = NIL /\ c.parent \in Reachable
  <2>1. ToCopy(Copy(parent, name, source, size), size)
    BY <1>0, <1>3, CopyGoes
  <2>2. ToCopy(c, size)
    BY <1>1, <2>1
  <2>. QED
    BY <2>2 DEF ToCopy
<1>5. /\ DOMAIN job' = Fields /\ job'.kind = "f" /\ job'.name \in Names /\ job'.size \in Nat
      /\ job'.first = NIL /\ job'.src = NIL /\ job'.parent \in Reachable
  BY <1>2, <1>3, <1>4 DEF Fields, NoJob
<1>6. JobTyped'
  BY <1>5 DEF JobTyped, OnDisk
<1>. QED
  BY <1>2, <1>5, <1>6, Starts

LEMMA CopyWithinOwns ==
  ASSUME DInv, NEW path \in Paths, NEW name \in Names, NEW source \in Names, NEW from \in Paths,
         CopyWithin(from, source, path, name)
  PROVE  DInv'
<1>0. Structure
  BY DEF DInv
<1>1. PICK parent, folder, meta, size, c, print :
        /\ parent = resolve_path(path) /\ folder = resolve_path(from)
        /\ meta = find_entry(folder, source) /\ size = meta.size
        /\ c = Copy(parent, name, source, size)
        /\ print = printfile(meta.first, meta.size)
  OBVIOUS
<1>2. /\ pc = "idle" /\ pc' \in {"enter", "first"} /\ used' = used /\ next' = next
      /\ slots' = slots /\ CBN' = CBN /\ Places(folder, source) # {}
      /\ job' = [c EXCEPT !.src = meta.first, !.want = print]
  BY <1>1 DEF CopyWithin, Ready, disk
<1>3. parent \in Reachable /\ folder \in Reachable
  BY <1>1, Resolves
<1>4. meta.size \in Nat /\ meta.first \in OnDisk
  <2>1. PICK k \in 0 .. Size(folder) - 1 : meta = Entry(folder, k)
    BY <1>0, <1>1, <1>2, <1>3, Found
  <2>2. folder \in Directories
    BY <1>0, <1>2, <1>3, Found
  <2>3. PICK b : b = Follow(folder, k \div E)
    OBVIOUS
  <2>4. b \in All /\ meta = slots[b][k % E]
    BY <1>0, <2>1, <2>2, <2>3, InChain, Everywhere
  <2>5. (k % E) \in 0 .. E - 1
    BY Place
  <2>6. meta \in Metas
    BY <1>0, <2>4, <2>5, MetaTyped DEF Structure
  <2>. QED
    BY <2>6 DEF Metas, OnDisk
<1>5. /\ DOMAIN c = Fields /\ c.kind = "f" /\ c.name \in Names /\ c.size = size
      /\ c.first = NIL /\ c.parent \in Reachable /\ size \in Nat
  <2>1. ToCopy(Copy(parent, name, source, size), size)
    BY <1>0, <1>3, CopyGoes
  <2>2. ToCopy(c, size)
    BY <1>1, <2>1
  <2>. QED
    BY <1>1, <1>4, <2>2 DEF ToCopy
<1>6. /\ DOMAIN job' = Fields /\ job'.kind = "f" /\ job'.name \in Names /\ job'.size \in Nat
      /\ job'.first = NIL /\ job'.src \in OnDisk /\ job'.parent \in Reachable
  BY <1>2, <1>4, <1>5 DEF Fields, NoJob
<1>7. JobTyped'
  BY <1>6 DEF JobTyped
<1>. QED
  BY <1>2, <1>6, <1>7, Starts
-----------------------------------------------------------------------------
(* getfreeblock and freeblock.                                             *)
LEMMA TakeOwns ==
  ASSUME DInv, NEW b \in Blocks, Take(b)
  PROVE  DInv'
<1>0. Structure
  BY DEF DInv
<1>1. /\ pc \in {"md", "first", "more", "extend"} /\ pc' = "count" /\ b \notin used
      /\ used' = used \cup {b} /\ next' = next /\ slots' = slots /\ CBN' = CBN
      /\ job' = [job EXCEPT !.new = b, !.after = AfterCount[pc]]
  BY DEF Take, Takes
<1>2. /\ DOMAIN job' = Fields /\ job'.kind = job.kind /\ job'.parent = job.parent
      /\ job'.name = job.name /\ job'.size = job.size /\ job'.new = b /\ job'.src = job.src
      /\ job'.first = job.first /\ job'.cur = job.cur /\ job'.after = AfterCount[pc]
  BY <1>1 DEF DInv, JobTyped, Fields, NoJob
<1>3. /\ Stage = pc /\ Stage' = AfterCount[pc]
      /\ AfterCount[pc] = CASE pc = "md" -> "format" [] pc = "first" -> "fill"
                            [] pc = "more" -> "chain" [] pc = "extend" -> "link"
  BY <1>1, <1>2 DEF Stage, AfterCount
<1>4. IsMade' = IsMade
  BY <1>1, <1>2, <1>3 DEF IsMade
<1>5. b \notin Taken /\ next[b] = NIL /\ slots[b] = Blank /\ Taken' = Taken \cup {b}
  BY <1>0, <1>1, NotNIL DEF Structure, Links, Taken
<1>6. Directories' = Directories
  <2>1. slots[b][0].name # "."
    BY <1>5, BlankIs, EmptyIs
  <2>. QED
    BY <1>1, <2>1 DEF Directories
<1>7. Linked' = Linked
  BY <1>1, <1>5 DEF Linked
<1>8. First' = First /\ New' = {b} /\ New = {}
  BY <1>1, <1>2 DEF First, New
<1>9. Proper \subseteq Proper'
  BY <1>1, <1>5, <1>6, <1>7, <1>8 DEF Proper, Mine
<1>10. DiskTyped' /\ Links'
  <2>1. DiskTyped'
    BY <1>0, <1>1 DEF Structure, DiskTyped
  <2>2. \A x, y \in Taken' : next'[x] = next'[y] /\ next'[x] # NIL => x = y
    BY <1>0, <1>1, <1>5 DEF Structure, Links
  <2>3. Linked' \subseteq used' /\ \A x \in Blocks \ used' : next'[x] = NIL /\ slots'[x] = Blank
    BY <1>0, <1>1, <1>7 DEF Structure, Links
  <2>. QED
    BY <2>1, <2>2, <2>3 DEF Links
<1>11. \A d \in Directories' : d \in Directories /\ Same(d) /\ d \notin Linked'
  BY <1>0, <1>1, <1>6, <1>7, <1>10, SameAway DEF Structure, Heads
<1>12. Structure' /\ Apart'
  BY <1>0, <1>9, <1>10, <1>11, SameDirs DEF DInv, Structure
<1>13. JobTyped'
  BY <1>2 DEF DInv, JobTyped
<1>14. Private'
  <2>1. First \subseteq used \ Linked
    BY DEF DInv, Private, Mine
  <2>2. Mine' \subseteq used' \ Linked'
    <3>1. b \notin Linked
      BY <1>0, <1>1 DEF Structure, Links
    <3>. QED
      BY <1>1, <1>7, <1>8, <2>1, <3>1 DEF Mine
  <2>3. \A x \in New' : x # job'.first /\ next'[x] = NIL /\ slots'[x] = Blank
    <3>1. b # job.first
      <4>1. job.first # NIL => job.first \in First
        BY <1>1 DEF First
      <4>2. b # NIL
        BY NotNIL DEF All
      <4>. QED
        BY <1>1, <2>1, <4>1, <4>2
    <3>. QED
      BY <1>1, <1>2, <1>5, <1>8, <3>1
  <2>4. \A x \in First' : /\ job'.kind = "d" => next'[x] = NIL
                          /\ IF IsMade' THEN x \in Directories' /\ Size(x)' = 2
                                        ELSE slots'[x] = Blank
    BY <1>1, <1>2, <1>4, <1>6, <1>8 DEF DInv, Private, Size
  <2>. QED
    BY <2>2, <2>3, <2>4 DEF Private
<1>15. Where'
  BY <1>1, <1>2, <1>6, <1>9, WherePassed DEF DInv, Where
<1>16. Progress'
  <2>1. IsMade => job.first # NIL
    BY DEF DInv, Progress
  <2>. QED
    BY <1>1, <1>2, <1>3, <1>4, <2>1 DEF DInv, Progress
<1>17. Extension'
  <2>1. Stage \in {"extend", "link", "enternew"} =>
          job.parent \in Directories /\ Size(job.parent) % E = 0
    BY DEF DInv, Extension
  <2>2. \A d : Size(d)' = Size(d)
    BY <1>1 DEF Size
  <2>3. Stage' \in {"extend", "link", "enternew"} =>
          job'.parent \in Directories' /\ Size(job.parent)' % E = 0
    BY <1>1, <1>2, <1>3, <1>6, <2>1, <2>2
  <2>. QED
    BY <1>1, <1>2, <2>3 DEF Extension, Size
<1>. QED
  BY <1>12, <1>13, <1>14, <1>15, <1>16, <1>17 DEF DInv

LEMMA FreeBitOwns ==
  ASSUME DInv, FreeBit
  PROVE  /\ DInv'
         /\ Linked' = Linked /\ Directories' = Directories \ {job.first}
         /\ \A d \in Directories' : Same(d)
<1>0. Structure
  BY DEF DInv
<1>1. PICK f : f = job.first
  OBVIOUS
<1>2. /\ pc = "free" /\ pc' = "uncount" /\ used' = used \ {f} /\ next' = next /\ CBN' = CBN
      /\ slots' = [slots EXCEPT ![f] = Blank] /\ job' = job
  BY <1>1 DEF FreeBit
<1>3. /\ Stage = "free" /\ Stage' = "uncount" /\ IsMade /\ ~IsMade' /\ f # NIL /\ job.kind = "d"
      /\ First = {f} /\ First' = {} /\ New' = {} /\ Mine' = {}
  <2>1. Stage = "free" /\ Stage' = "uncount" /\ New' = {} /\ First' = {}
    BY <1>2 DEF Stage, New, First
  <2>2. job.kind = "d"
    BY <2>1 DEF DInv, Progress
  <2>3. IsMade /\ ~IsMade'
    BY <2>1, <2>2 DEF IsMade
  <2>4. f # NIL
    BY <1>1, <2>3 DEF DInv, Progress
  <2>. QED
    BY <1>1, <1>2, <2>1, <2>2, <2>3, <2>4 DEF First, Mine
<1>4. f \in used /\ f \notin Linked /\ next[f] = NIL /\ f \in Directories
  BY <1>3 DEF DInv, Private, Mine
<1>5. f \in Blocks /\ f \in All /\ f # ROOT_BLOCK /\ Taken' = Taken \ {f}
  BY <1>0, <1>2, <1>4, NotNIL DEF Structure, DiskTyped, Taken, All
<1>6. /\ DOMAIN slots = All /\ slots'[f] = Blank
      /\ \A x \in All \ {f} : slots'[x] = slots[x]
  BY <1>0, <1>2, <1>5 DEF Structure, DiskTyped
<1>7. Directories' = Directories \ {f}
  <2>1. Blank[0].name # "."
    BY BlankIs, EmptyIs
  <2>. QED
    BY <1>0, <1>5, <1>6, <2>1, Everywhere DEF Directories, Taken
<1>8. Linked' = Linked
  BY <1>2, <1>4, <1>5 DEF Linked, Taken
<1>9. Proper \subseteq Proper'
  <2>1. f \notin Proper
    BY <1>3 DEF Proper, Mine
  <2>2. Proper \subseteq All
    BY <1>0, Everywhere DEF Proper
  <2>. QED
    BY <1>3, <1>5, <1>6, <1>7, <1>8, <2>1, <2>2 DEF Proper
<1>10. DiskTyped' /\ Links'
  <2>1. DiskTyped'
    BY <1>0, <1>2, BlankIs DEF Structure, DiskTyped
  <2>2. \A x, y \in Taken' : next'[x] = next'[y] /\ next'[x] # NIL => x = y
    BY <1>0, <1>2, <1>5 DEF Structure, Links
  <2>3. Linked' \subseteq used'
    BY <1>0, <1>2, <1>4, <1>8 DEF Structure, Links
  <2>4. \A x \in Blocks \ used' : next'[x] = NIL /\ slots'[x] = Blank
    BY <1>0, <1>2, <1>4, <1>6 DEF Structure, Links, All
  <2>. QED
    BY <2>1, <2>2, <2>3, <2>4 DEF Links
<1>11. ASSUME NEW d \in Directories'
       PROVE  d \in Directories /\ Same(d) /\ d \notin Linked'
  <2>1. d \in Directories /\ d # f /\ d \in All
    BY <1>0, <1>7, Everywhere
  <2>2. Size(d)' = Size(d)
    BY <1>6, <2>1 DEF Size
  <2>3. ASSUME NEW k \in 0 .. Size(d) - 1
        PROVE  slots'[Follow(d, k \div E)][k % E] = slots[Follow(d, k \div E)][k % E]
    <3>1. PICK q : q = k \div E
      OBVIOUS
    <3>2. q \in Nat /\ Follow(d, q) \in All /\ Follow(d, q) # NIL
      BY <1>0, <2>1, <3>1, Place, InChain, Everywhere, NotNIL
    <3>3. Follow(d, q) # f
      <4>1. ASSUME Follow(d, q) = f PROVE FALSE
        <5>1. Follow(f, 0) = f
          BY <1>0, <1>4, EntryZero
        <5>. QED
          BY <1>0, <1>4, <2>1, <3>2, <4>1, <5>1, SamePlace
      <4>. QED
        BY <4>1
    <3>. QED
      BY <1>6, <3>1, <3>2, <3>3
  <2>4. \A i \in 0 .. (Size(d) - 1) \div E - 1 : next'[Follow(d, i)] = next[Follow(d, i)]
    BY <1>2
  <2>5. Same(d)
    BY <1>0, <1>10, <2>1, <2>2, <2>3, <2>4, SameWhen
  <2>. QED
    BY <1>0, <1>8, <2>1, <2>5 DEF Structure, Heads
<1>12. Structure' /\ Apart'
  BY <1>0, <1>9, <1>10, <1>11, SameDirs DEF DInv, Structure
<1>13. JobTyped'
  BY <1>2 DEF DInv, JobTyped
<1>14. Private'
  BY <1>3 DEF Private
<1>15. Where'
  <2>1. CBN # f
    BY <1>3 DEF DInv, Where, Proper, Mine
  <2>2. {CBN, ROOT_BLOCK} \subseteq Directories'
    BY <1>5, <1>7, <2>1 DEF DInv, Where
  <2>. QED
    BY <1>2, <1>9, <2>2, WherePassed DEF DInv
<1>16. Progress'
  BY <1>2, <1>3 DEF DInv, Progress
<1>17. Extension'
  BY <1>2, <1>3 DEF Extension
<1>. QED
  BY <1>1, <1>7, <1>8, <1>11, <1>12, <1>13, <1>14, <1>15, <1>16, <1>17 DEF DInv
-----------------------------------------------------------------------------
(* The links.  What copies data writes only to a block without entries.    *)
LEMMA LinkedAway ==
  ASSUME DInv, used' = used, slots' = slots, DiskTyped', Mine' \subseteq Mine,
         NEW x \in Taken, NEW y \in Mine \cup {NIL}, y \notin Mine',
         y # NIL => slots[y] = Blank, next' = [next EXCEPT ![x] = y],
         \A d \in Directories : Same(d)
  PROVE  /\ Structure' /\ Apart' /\ Proper \subseteq Proper' /\ Directories' = Directories
         /\ Linked' \subseteq Linked \cup {y}
<1>0. Structure
  BY DEF DInv
<1>1. Taken' = Taken /\ Directories' = Directories /\ Taken \subseteq All
  BY <1>0, Everywhere DEF Taken, Directories
<1>2. next'[x] = y /\ \A z \in All \ {x} : next'[z] = next[z]
  BY <1>0, <1>1 DEF Structure, DiskTyped
<1>3. Linked' \subseteq (Linked \cup {y}) \ {NIL}
  BY <1>1, <1>2 DEF Linked, Taken
<1>4. y \notin Linked
  BY NotNIL DEF DInv, Private, Linked
<1>5. Links'
  <2>1. ASSUME NEW b \in Taken, NEW c \in Taken, next'[b] = next'[c], next'[b] # NIL
        PROVE  b = c
    <3>1. ASSUME NEW z \in Taken, next[z] # NIL PROVE next[z] \in Linked
      BY <3>1 DEF Linked, Taken
    <3>. QED
      BY <1>0, <1>1, <1>2, <1>4, <2>1, <3>1 DEF Structure, Links
  <2>2. Linked' \subseteq used
    BY <1>0, <1>3 DEF Structure, Links, DInv, Private
  <2>3. \A b \in Blocks \ used : next'[b] = NIL /\ slots'[b] = Blank
    <3>1. ASSUME NEW b \in Blocks \ used PROVE b \in All /\ b # x
      BY NotNIL DEF All, Taken
    <3>. QED
      BY <1>0, <1>2, <3>1 DEF Structure, Links
  <2>. QED
    BY <1>1, <2>1, <2>2, <2>3 DEF Links
<1>6. Proper \subseteq Proper'
  <2>1. y \notin Proper
    BY <1>1, NotNIL DEF Proper
  <2>. QED
    BY <1>1, <1>3, <2>1 DEF Proper
<1>7. \A d \in Directories' : d \in Directories /\ Same(d) /\ d \notin Linked'
  <2>1. ASSUME NEW d \in Directories, y = d PROVE FALSE
    <3>1. y # NIL /\ slots[y][0].type = "d"
      BY <1>0, <2>1, Everywhere, NotNIL DEF Structure, Heads
    <3>. QED
      BY <3>1, BlankIs, EmptyIs
  <2>. QED
    BY <1>0, <1>1, <1>3, <2>1 DEF Structure, Heads
<1>. QED
  BY <1>0, <1>1, <1>3, <1>5, <1>6, <1>7, SameDirs DEF DInv, Structure

LEMMA FillOwns ==
  ASSUME DInv, WriteBlock \/ CopyBlock
  PROVE  DInv'
<1>0. Structure
  BY DEF DInv
<1>1. PICK c : c = job.cur
  OBVIOUS
<1>2. /\ pc = "fill" /\ pc' \in {"more", "enter"} /\ used' = used /\ slots' = slots /\ CBN' = CBN
      /\ next' = next \/ next' = [next EXCEPT ![c] = NIL]
      /\ job' = job \/ job' = [job EXCEPT !.rest = Tail(@)]
  BY <1>1 DEF WriteBlock, CopyBlock
<1>3. /\ DOMAIN job' = Fields /\ job'.kind = job.kind /\ job'.parent = job.parent
      /\ job'.name = job.name /\ job'.size = job.size /\ job'.src = job.src
      /\ job'.first = job.first /\ job'.cur = job.cur
  BY <1>2 DEF DInv, JobTyped, Fields, NoJob
<1>4. /\ Stage = "fill" /\ Stage' = pc' /\ job.kind = "f" /\ ~IsMade /\ ~IsMade'
      /\ New = {} /\ New' = {} /\ First' = First /\ Mine' = Mine
  <2>1. Stage = "fill" /\ Stage' = pc' /\ New = {} /\ New' = {} /\ First' = First
    BY <1>2, <1>3 DEF Stage, New, First
  <2>2. job.kind = "f"
    BY <2>1 DEF DInv, Progress
  <2>. QED
    BY <1>3, <2>1, <2>2 DEF IsMade, Mine
<1>5. c \in used /\ slots[c] = Blank /\ c \in Taken
  BY <1>1, <1>2, <1>4 DEF DInv, Progress, Taken
<1>6. DiskTyped'
  BY <1>0, <1>2 DEF Structure, DiskTyped
<1>7. \A d \in Directories : Same(d)
  <2>1. \A b \in Taken : slots[b] # Blank => next'[b] = next[b] /\ slots'[b] = slots[b]
    BY <1>0, <1>2, <1>5, Everywhere DEF Structure, DiskTyped
  <2>. QED
    BY <1>0, <1>6, <2>1, SameAway
<1>8. /\ Structure' /\ Apart' /\ Proper \subseteq Proper' /\ Directories' = Directories
      /\ Linked' \subseteq Linked
  <2>1. CASE next' = next
    BY <1>2, <1>4, <2>1, Untouched
  <2>2. CASE next' = [next EXCEPT ![c] = NIL]
    <3>1. NIL \in Mine \cup {NIL} /\ NIL \notin Mine' /\ NIL \notin Linked'
      BY <1>0, <1>4, NotNIL DEF Linked, DInv, Private, Structure, DiskTyped, All
    <3>. QED
      BY <1>2, <1>4, <1>5, <1>6, <1>7, <2>2, <3>1, LinkedAway
  <2>. QED
    BY <1>2, <2>1, <2>2
<1>9. JobTyped'
  BY <1>3 DEF DInv, JobTyped
<1>10. Private'
  BY <1>2, <1>3, <1>4, <1>8 DEF DInv, Private
<1>11. Where'
  BY <1>2, <1>3, <1>8, WherePassed DEF DInv, Where
<1>12. Progress'
  BY <1>1, <1>2, <1>3, <1>4, <1>5 DEF DInv, Progress
<1>13. Extension'
  BY <1>2, <1>4 DEF Extension
<1>. QED
  BY <1>8, <1>9, <1>10, <1>11, <1>12, <1>13 DEF DInv

LEMMA ChainOwns ==
  ASSUME DInv, Chain
  PROVE  DInv'
<1>0. Structure
  BY DEF DInv
<1>1. PICK c, n : c = job.cur /\ n = job.new
  OBVIOUS
<1>2. /\ pc = "chain" /\ pc' = "fill" /\ used' = used /\ slots' = slots /\ CBN' = CBN
      /\ next' = [next EXCEPT ![c] = n]
      /\ job' = [job EXCEPT !.cur = n, !.src = IF @ = NIL THEN NIL ELSE next[@]]
  BY <1>1 DEF Chain
<1>3. /\ DOMAIN job' = Fields /\ job'.kind = job.kind /\ job'.parent = job.parent
      /\ job'.name = job.name /\ job'.size = job.size /\ job'.first = job.first /\ job'.cur = n
      /\ job'.src = IF job.src = NIL THEN NIL ELSE next[job.src]
  BY <1>2 DEF DInv, JobTyped, Fields, NoJob
<1>4. /\ Stage = "chain" /\ Stage' = "fill" /\ job.kind = "f" /\ ~IsMade /\ ~IsMade'
      /\ New = {n} /\ New' = {} /\ First' = First
  <2>1. Stage = "chain" /\ Stage' = "fill" /\ New = {n} /\ New' = {} /\ First' = First
    BY <1>1, <1>2, <1>3 DEF Stage, New, First
  <2>2. job.kind = "f"
    BY <2>1 DEF DInv, Progress
  <2>. QED
    BY <1>3, <2>1, <2>2 DEF IsMade
<1>5. c \in used /\ slots[c] = Blank /\ c \in Taken
  BY <1>1, <1>4 DEF DInv, Progress, Taken
<1>6. n \in used /\ n \notin Linked /\ n # job.first /\ slots[n] = Blank
  BY <1>4 DEF DInv, Private, Mine
<1>7. Mine' = First /\ n \in Mine /\ n \notin First
  BY <1>4, <1>6 DEF Mine, First
<1>8. DiskTyped'
  BY <1>0, <1>2, <1>6 DEF Structure, DiskTyped
<1>9. \A d \in Directories : Same(d)
  <2>1. \A b \in Taken : slots[b] # Blank => next'[b] = next[b] /\ slots'[b] = slots[b]
    BY <1>0, <1>2, <1>5, Everywhere DEF Structure, DiskTyped
  <2>. QED
    BY <1>0, <1>8, <2>1, SameAway
<1>10. /\ Structure' /\ Apart' /\ Proper \subseteq Proper' /\ Directories' = Directories
       /\ Linked' \subseteq Linked \cup {n}
  <2>1. Mine' \subseteq Mine
    BY <1>7 DEF Mine
  <2>. QED
    BY <1>2, <1>5, <1>6, <1>7, <1>8, <1>9, <2>1, LinkedAway
<1>11. JobTyped'
  <2>1. job'.src \in OnDisk
    BY <1>0, <1>3, Everywhere DEF DInv, JobTyped, OnDisk
  <2>. QED
    BY <1>3, <2>1 DEF DInv, JobTyped
<1>12. Private'
  BY <1>2, <1>3, <1>4, <1>7, <1>10 DEF DInv, Private, Mine
<1>13. Where'
  BY <1>2, <1>3, <1>10, WherePassed DEF DInv, Where
<1>14. Progress'
  BY <1>2, <1>3, <1>4, <1>6 DEF DInv, Progress
<1>15. Extension'
  BY <1>2, <1>4 DEF Extension
<1>. QED
  BY <1>10, <1>11, <1>12, <1>13, <1>14, <1>15 DEF DInv

(* The last block of the parent is linked to the new one.                  *)
LEMMA LinkOwns ==
  ASSUME DInv, Link
  PROVE  /\ DInv'
         /\ \A d \in Directories :
              /\ Same(d)
              /\ \A i \in 0 .. (Size(d) - 1) \div E - 1 : next'[Follow(d, i)] = next[Follow(d, i)]
<1>0. Structure
  BY DEF DInv
<1>1. PICK p, n, q, z : /\ p = job.parent /\ n = job.new /\ q = (Size(p) - 1) \div E
                        /\ z = LastBlock(p)
  OBVIOUS
<1>2. /\ pc = "link" /\ pc' = "enternew" /\ used' = used /\ slots' = slots /\ CBN' = CBN
      /\ next' = [next EXCEPT ![z] = n] /\ job' = job
  BY <1>1 DEF Link
<1>3. /\ Stage = "link" /\ Stage' = "enternew" /\ New = {n} /\ New' = {} /\ First' = First
      /\ IsMade' = IsMade
  <2>1. Stage = "link" /\ Stage' = "enternew" /\ New = {n} /\ New' = {} /\ First' = First
    BY <1>1, <1>2 DEF Stage, New, First
  <2>. QED
    BY <1>2, <2>1 DEF IsMade
<1>4. p \in Directories /\ Size(p) % E = 0
  BY <1>1, <1>3 DEF DInv, Extension
<1>5. /\ Size(p) - 1 \in 0 .. Size(p) - 1 /\ Size(p) \in Nat /\ Size(p) > 0
      /\ q \in Nat /\ q \in 0 .. q /\ Size(p) \div E = q + 1
  <2>1. Size(p) - 1 \in 0 .. Size(p) - 1 /\ Size(p) \in Nat /\ Size(p) > 0
    BY <1>0, <1>4, Everywhere DEF Structure, Heads
  <2>2. q \in Nat
    BY <1>1, <2>1, Place
  <2>3. Size(p) \div E = q + 1
    BY <1>1, <1>4, <2>1, Behind
  <2>. QED
    BY <2>1, <2>2, <2>3
<1>6. z = Follow(p, q) /\ z \in Taken /\ z # NIL
  BY <1>0, <1>1, <1>4, <1>5, InChain, Everywhere, NotNIL DEF LastBlock
<1>7. n \in used /\ n \notin Linked /\ n # job.first /\ slots[n] = Blank /\ n # NIL /\ n \in All
  BY <1>0, <1>3, Everywhere, NotNIL DEF DInv, Private, Mine, Taken
<1>8. Mine' = First /\ n \in Mine /\ n \notin First
  BY <1>3, <1>7 DEF Mine, First
<1>9. DiskTyped'
  BY <1>0, <1>2, <1>7 DEF Structure, DiskTyped
<1>10. next'[z] = n /\ \A b \in Taken \ {z} : next'[b] = next[b]
  BY <1>0, <1>2, <1>6, Everywhere DEF Structure, DiskTyped
<1>11. ASSUME NEW d \in Directories
       PROVE  /\ Same(d)
              /\ \A i \in 0 .. (Size(d) - 1) \div E - 1 : next'[Follow(d, i)] = next[Follow(d, i)]
  <2>1. ASSUME NEW i \in 0 .. (Size(d) - 1) \div E - 1
        PROVE  next'[Follow(d, i)] = next[Follow(d, i)]
    <3>1. i \in Nat /\ i \in 0 .. (Size(d) - 1) \div E /\ i # (Size(d) - 1) \div E
      <4>1. Size(d) - 1 \in Nat
        BY <1>0, Everywhere DEF Structure, Heads
      <4>2. (Size(d) - 1) \div E \in Nat
        BY <4>1, Place
      <4>. QED
        BY <4>2
    <3>2. Follow(d, i) \in Taken /\ Follow(d, i) # NIL
      BY <1>0, <3>1, Chained, Everywhere, NotNIL
    <3>3. Follow(d, i) # z
      <4>1. ASSUME Follow(d, i) = z PROVE FALSE
        <5>1. d = p /\ i = q
          BY <1>0, <1>4, <1>5, <1>6, <3>1, <3>2, <4>1, SamePlace
        <5>. QED
          BY <1>1, <3>1, <5>1
      <4>. QED
        BY <4>1
    <3>. QED
      BY <1>10, <3>2, <3>3
  <2>2. Size(d)' = Size(d)
    BY <1>2 DEF Size
  <2>. QED
    BY <1>0, <1>2, <1>9, <2>1, <2>2, SameWhen
<1>12. /\ Structure' /\ Apart' /\ Proper \subseteq Proper' /\ Directories' = Directories
       /\ Linked' \subseteq Linked \cup {n}
  <2>1. Mine' \subseteq Mine
    BY <1>8 DEF Mine
  <2>2. \A d \in Directories : Same(d)
    BY <1>11
  <2>. QED
    BY <1>2, <1>6, <1>7, <1>8, <1>9, <2>1, <2>2, LinkedAway
<1>13. Follow(p, Size(p) \div E)' = n
  <2>1. Follow(p, q)' = z
    BY <1>0, <1>1, <1>4, <1>5, <1>6, <1>9, <1>11, ChainKept
  <2>2. Walk(next', p, q) = z
    BY <2>1, FollowNext
  <2>3. next' \in [All -> OnDisk] /\ p \in OnDisk
    BY <1>0, <1>4, <1>9, LinksTyped, Everywhere DEF DiskTyped
  <2>4. q + 1 \in Nat /\ q + 1 > 0 /\ (q + 1) - 1 = q
    BY <1>5
  <2>5. Walk(next', p, q + 1) = IF z = NIL THEN NIL ELSE next'[z]
    BY <2>2, <2>3, <2>4, WalkStep
  <2>6. Walk(next', p, q + 1) = n
    BY <1>6, <1>10, <2>5
  <2>7. Size(p)' = Size(p)
    BY <1>2 DEF Size
  <2>. QED
    BY <1>5, <2>6, <2>7, FollowNext
<1>14. JobTyped'
  BY <1>2 DEF DInv, JobTyped
<1>15. Private'
  <2>1. Mine' \subseteq used' \ Linked'
    BY <1>2, <1>8, <1>12 DEF DInv, Private, Mine
  <2>2. ASSUME NEW b \in First, job.kind = "d" PROVE next'[b] = NIL
    <3>1. next[b] = NIL /\ IsMade /\ b \in Directories /\ b \in Taken
      <4>1. IsMade
        BY <1>3, <2>2 DEF IsMade
      <4>. QED
        BY <1>0, <2>2, <4>1, Everywhere DEF DInv, Private
    <3>2. p # b
      BY <1>0, <1>1, <1>2, <1>4, Everywhere, NotNIL DEF DInv, Where, Proper, Mine
    <3>3. z # b
      <4>1. ASSUME z = b PROVE FALSE
        <5>1. Follow(p, q) = Follow(b, 0) /\ Follow(p, q) # NIL
          BY <1>0, <1>6, <3>1, <4>1, EntryZero
        <5>2. q \in Nat /\ 0 \in Nat
          BY <1>5
        <5>3. p = b
          BY <1>0, <1>4, <3>1, <5>1, <5>2, SamePlace
        <5>. QED
          BY <3>2, <5>3
      <4>. QED
        BY <4>1
    <3>. QED
      BY <1>10, <3>1, <3>3
  <2>3. \A b \in First : IF IsMade THEN b \in Directories /\ Size(b) = 2 ELSE slots[b] = Blank
    BY DEF DInv, Private
  <2>4. \A b \in First' : IF IsMade' THEN b \in Directories' /\ Size(b)' = 2 ELSE slots'[b] = Blank
    BY <1>2, <1>3, <1>12, <2>3 DEF Size
  <2>. QED
    BY <1>2, <1>3, <2>1, <2>2, <2>4 DEF Private
<1>16. Where'
  BY <1>2, <1>12, WherePassed DEF DInv, Where
<1>17. Progress'
  <2>1. IsMade => job.first # NIL
    BY DEF DInv, Progress
  <2>. QED
    BY <1>2, <1>3, <2>1 DEF DInv, Progress
<1>18. Extension'
  <2>1. Size(p)' = Size(p)
    BY <1>2 DEF Size
  <2>2. n \in Linked'
    BY <1>2, <1>6, <1>7, <1>10 DEF Linked, Taken
  <2>3. Follow(job.parent, Size(job.parent) \div E)' = n
    BY <1>1, <1>2, <1>13
  <2>4. Size(job.parent)' % E = 0
    BY <1>1, <1>2, <1>4 DEF Size
  <2>. QED
    BY <1>1, <1>2, <1>3, <1>4, <1>7, <1>12, <2>2, <2>3, <2>4 DEF Extension
<1>. QED
  BY <1>11, <1>12, <1>14, <1>15, <1>16, <1>17, <1>18 DEF DInv
-----------------------------------------------------------------------------
(* The entries.                                                            *)
(* An entry leads to the block.                                            *)
Leads(b) == \E d \in Directories : \E k \in 2 .. Size(d) - 1 : Entry(d, k).first = b

(* The beginning of a directory of which a step changes nothing.           *)
LEMMA HeadsKept ==
  ASSUME Structure, DiskTyped', NEW d \in Directories, Same(d)
  PROVE  slots'[d][0] = slots[d][0] /\ Size(d)' = Size(d)
<1>1. d \in All /\ 0 \in 0 .. Size(d) - 1
  BY Everywhere DEF Structure, Heads
<1>. QED
  BY <1>1, EntryZero, EntryZeroNext DEF Same

LEMMA FormatOwns ==
  ASSUME DInv, Format
  PROVE  DInv'
<1>0. Structure
  BY DEF DInv
<1>1. PICK f, p : f = job.first /\ p = job.parent
  OBVIOUS
<1>2. /\ pc = "format" /\ pc' = "enter" /\ used' = used /\ next' = next /\ CBN' = CBN
      /\ slots' = [slots EXCEPT ![f] = Directory(f, p)] /\ job' = job
  BY <1>1 DEF Format
<1>3. /\ Stage = "format" /\ Stage' = "enter" /\ job.kind = "d" /\ ~IsMade /\ IsMade'
      /\ First = {f} /\ First' = First /\ New' = {} /\ New = {} /\ Mine' = Mine /\ Mine = {f}
      /\ f # NIL
  <2>1. Stage = "format" /\ Stage' = "enter" /\ New' = {} /\ New = {}
    BY <1>2 DEF Stage, New
  <2>2. job.kind = "d" /\ f # NIL
    BY <1>1, <1>2, <2>1 DEF DInv, Progress
  <2>3. First = {f} /\ First' = First
    BY <1>1, <1>2, <2>2 DEF First
  <2>. QED
    BY <1>2, <2>1, <2>2, <2>3 DEF IsMade, Mine
<1>4. f \in used /\ f \notin Linked /\ next[f] = NIL /\ slots[f] = Blank /\ f \in All /\ f \in Taken
  BY <1>0, <1>3, Everywhere DEF DInv, Private, Mine, Taken
<1>5. p \in Proper \cup {NIL} /\ p \in All \cup {NIL}
  <2>1. p \in Proper \cup {NIL}
    BY <1>1, <1>2, <1>3 DEF DInv, Where
  <2>. QED
    BY <1>0, <2>1, Everywhere DEF Proper
<1>6. /\ Directory(f, p) \in [0 .. E - 1 -> Metas]
      /\ Directory(f, p)[0] = dot(f) /\ Directory(f, p)[1] = dotdot(p)
  <2>1. 0 \in 0 .. E - 1 /\ 1 \in 0 .. E - 1
    BY EIs
  <2>2. dot(f) \in Metas /\ dotdot(p) \in Metas
    BY <1>4, <1>5 DEF dot, dotdot, Metas
  <2>3. Blank \in [0 .. E - 1 -> Metas]
    BY BlankIs
  <2>. QED
    BY <2>1, <2>2, <2>3 DEF Directory
<1>7. DiskTyped' /\ slots'[f] = Directory(f, p) /\ \A b \in All \ {f} : slots'[b] = slots[b]
  BY <1>0, <1>2, <1>4, <1>6 DEF Structure, DiskTyped
<1>8. Directories' = Directories \cup {f} /\ f \notin Directories
  <2>1. slots'[f][0].name = "."
    BY <1>6, <1>7 DEF dot
  <2>2. slots[f][0].name # "."
    BY <1>4, BlankIs, EmptyIs
  <2>3. \A b \in Taken : b # f => slots'[b] = slots[b]
    BY <1>0, <1>7, Everywhere
  <2>. QED
    BY <1>2, <1>4, <2>1, <2>2, <2>3 DEF Directories, Taken
<1>9. Linked' = Linked
  BY <1>2 DEF Linked
<1>10. Proper \subseteq Proper'
  <2>1. f \notin Proper
    BY <1>3 DEF Proper
  <2>2. Proper \subseteq All
    BY <1>0, Everywhere DEF Proper
  <2>. QED
    BY <1>2, <1>3, <1>7, <1>8, <1>9, <2>1, <2>2 DEF Proper, Taken
<1>11. \A d \in Directories : Same(d)
  <2>1. \A b \in Taken : slots[b] # Blank => next'[b] = next[b] /\ slots'[b] = slots[b]
    BY <1>0, <1>2, <1>4, <1>7, Everywhere
  <2>. QED
    BY <1>0, <1>7, <2>1, SameAway
<1>12. Links'
  <2>1. \A b \in Blocks \ used : slots'[b] = slots[b]
    BY <1>4, <1>7 DEF All
  <2>. QED
    BY <1>0, <1>2, <1>9, <2>1 DEF Structure, Links, Taken
<1>13. Size(f)' = 2 /\ slots'[f][0].first = f /\ slots'[f][0].type = "d"
  BY <1>6, <1>7 DEF Size, dot
<1>14. Entry(f, 0)' = dot(f) /\ Entry(f, 1)' = dotdot(p)
  <2>1. 0 = E * 0 + 0 /\ 1 = E * 0 + 1 /\ 0 \in 0 .. E - 1 /\ 1 \in 0 .. E - 1
    BY EIs
  <2>2. 1 \div E = 0 /\ 1 % E = 1
    BY <2>1, PlaceOf
  <2>3. Walk(next', f, 0) = f
    <3>1. f \in OnDisk /\ next' \in [All -> OnDisk]
      BY <1>4, <1>7, LinksTyped DEF DiskTyped, OnDisk
    <3>. QED
      BY <3>1, WalkStep
  <2>4. Follow(f, 0)' = f
    BY <2>3, FollowNext
  <2>5. Entry(f, 1)' = slots'[f][1]
    BY <1>3, <2>2, <2>4 DEF Entry
  <2>. QED
    BY <1>4, <1>6, <1>7, <2>5, EntryZeroNext
<1>15. Heads'
  <2>1. ASSUME NEW d \in Directories
        PROVE  /\ d \notin Linked' /\ Size(d)' >= 2
               /\ slots'[d][0].first = d /\ slots'[d][0].type = "d"
    <3>1. slots'[d][0] = slots[d][0] /\ Size(d)' = Size(d)
      BY <1>0, <1>7, <1>11, HeadsKept
    <3>. QED
      BY <1>0, <1>9, <3>1 DEF Structure, Heads
  <2>. QED
    BY <1>4, <1>8, <1>9, <1>13, <2>1 DEF Heads
<1>16. Entries'
  <2>1. ASSUME NEW d \in Directories, NEW k \in 0 .. Size(d)' - 1 PROVE Fine(d, k)'
    <3>1. k \in 0 .. Size(d) - 1 /\ Entry(d, k)' = Entry(d, k)
      BY <1>11, <2>1 DEF Same
    <3>2. Fine(d, k)
      BY <1>0, <3>1 DEF Structure, Entries
    <3>. QED
      BY <1>10, <3>1, <3>2 DEF Fine
  <2>2. ASSUME NEW k \in 0 .. Size(f)' - 1 PROVE Fine(f, k)'
    <3>1. k = 0 \/ k = 1
      BY <1>13
    <3>2. CASE k = 0
      BY <1>14, <3>2, EmptyIs DEF Fine, dot
    <3>3. CASE k = 1
      BY <1>5, <1>10, <1>14, <3>3, EmptyIs DEF Fine, dotdot
    <3>. QED
      BY <3>1, <3>2, <3>3
  <2>. QED
    BY <1>8, <2>1, <2>2 DEF Entries
<1>17. Apart'
  <2>1. ASSUME NEW d \in Directories', NEW e \in Directories', NEW j \in 2 .. Size(d)' - 1,
               NEW k \in 2 .. Size(e)' - 1,
               Entry(d, j).first' = Entry(e, k).first', Entry(d, j).first' # NIL
        PROVE  d = e /\ j = k
    <3>1. d # f /\ e # f
      BY <1>13, <2>1
    <3>2. /\ d \in Directories /\ j \in 2 .. Size(d) - 1 /\ j \in 0 .. Size(d) - 1
          /\ e \in Directories /\ k \in 2 .. Size(e) - 1 /\ k \in 0 .. Size(e) - 1
      BY <1>8, <1>11, <3>1 DEF Same
    <3>3. Entry(d, j)' = Entry(d, j) /\ Entry(e, k)' = Entry(e, k)
      BY <1>11, <3>2 DEF Same
    <3>. QED
      BY <2>1, <3>2, <3>3 DEF DInv, Apart
  <2>. QED
    BY <2>1 DEF Apart
<1>18. JobTyped'
  BY <1>2 DEF DInv, JobTyped
<1>19. Private'
  BY <1>2, <1>3, <1>4, <1>8, <1>9, <1>13 DEF Private
<1>20. Where'
  BY <1>2, <1>8, <1>10, WherePassed DEF DInv, Where
<1>21. Progress'
  BY <1>1, <1>2, <1>3 DEF DInv, Progress
<1>22. Extension'
  BY <1>2, <1>3 DEF Extension
<1>. QED
  BY <1>7, <1>12, <1>15, <1>16, <1>17, <1>18, <1>19, <1>20, <1>21, <1>22 DEF DInv, Structure

LEMMA NewEntry ==
  ASSUME DInv
  PROVE  new_entry \in Metas
BY DEF DInv, JobTyped, new_entry, Metas, All

LEMMA EnterOwns ==
  ASSUME DInv, Enter
  PROVE  DInv' /\ \A d \in Directories : Same(d)
<1>0. Structure
  BY DEF DInv
<1>1. PICK p, n, q, r, z, m :
        /\ p = job.parent /\ n = Size(p) /\ q = (Size(p) - 1) \div E /\ r = Size(p) % E
        /\ z = LastBlock(p) /\ m = new_entry
  OBVIOUS
<1>2. /\ pc = "enter" /\ IsDirectory(p) /\ used' = used /\ next' = next /\ CBN' = CBN
      /\ job' = job
      /\ \/ r # 0 /\ pc' = "grow" /\ slots' = [slots EXCEPT ![z][r] = m]
         \/ r = 0 /\ pc' = "extend" /\ slots' = slots
  BY <1>1 DEF Enter
<1>3. /\ Stage = "enter" /\ Stage' = pc' /\ New' = {} /\ New = {} /\ First' = First
      /\ Mine' = Mine /\ IsMade' = IsMade
  <2>1. Stage = "enter" /\ Stage' = pc' /\ New' = {} /\ New = {} /\ First' = First
    BY <1>2 DEF Stage, New, First
  <2>. QED
    BY <1>2, <2>1 DEF IsMade, Mine
<1>4. p \in Directories
  <2>1. p \in Reachable
    BY <1>1, <1>2 DEF DInv, Where, Reachable
  <2>. QED
    BY <1>0, <1>2, <2>1, IsProper
<1>5. n \in Nat /\ n > 0 /\ q \in Nat /\ r \in 0 .. E - 1 /\ n - 1 \in 0 .. n - 1
  <2>1. n \in Nat /\ n > 0 /\ n - 1 \in 0 .. n - 1
    BY <1>0, <1>1, <1>4, Everywhere DEF Structure, Heads
  <2>. QED
    BY <1>1, <2>1, Place
<1>6. z = Follow(p, q) /\ z \in Taken /\ z # NIL /\ z \in All /\ slots[z] # Blank
  BY <1>0, <1>1, <1>4, <1>5, InChain, Everywhere, NotNIL DEF LastBlock
<1>7. JobTyped'
  BY <1>2 DEF DInv, JobTyped
<1>8. Progress'
  BY <1>2, <1>3 DEF DInv, Progress
<1>9. CASE r = 0
  <2>1. slots' = slots /\ pc' = "extend"
    BY <1>2, <1>9
  <2>2. /\ Structure' /\ Apart' /\ Proper \subseteq Proper'
        /\ Directories' = Directories /\ Linked' = Linked
        /\ \A d, k : Size(d)' = Size(d) /\ Entry(d, k)' = Entry(d, k)
    BY <1>2, <1>3, <2>1, Untouched
  <2>3. Private'
    <3>1. \A b \in First : Size(b)' = Size(b)
      BY <2>2
    <3>. QED
      BY <1>2, <1>3, <2>1, <2>2, <3>1 DEF DInv, Private
  <2>4. Where'
    BY <1>2, <2>1, <2>2, WherePassed DEF DInv, Where
  <2>5. Extension'
    <3>1. Size(job.parent)' % E = 0
      BY <1>1, <1>2, <1>9, <2>2
    <3>. QED
      BY <1>1, <1>2, <1>3, <1>4, <2>1, <2>2, <3>1 DEF Extension
  <2>6. \A d : Same(d)
    BY <2>2 DEF Same
  <2>. QED
    BY <1>7, <1>8, <2>2, <2>3, <2>4, <2>5, <2>6 DEF DInv
<1>10. CASE r # 0
  <2>1. pc' = "grow" /\ slots' = [slots EXCEPT ![z][r] = m]
    BY <1>2, <1>10
  <2>2. m \in Metas
    BY <1>1, NewEntry
  <2>3. /\ DiskTyped' /\ slots'[z][r] = m /\ \A b \in All \ {z} : slots'[b] = slots[b]
        /\ \A k \in 0 .. E - 1 : k # r => slots'[z][k] = slots[z][k]
    BY <1>0, <1>2, <1>5, <1>6, <2>1, <2>2 DEF Structure, DiskTyped
  <2>4. \A b \in All : slots'[b][0] = slots[b][0]
    <3>1. 0 \in 0 .. E - 1 /\ 0 # r
      BY <1>10, EIs
    <3>. QED
      BY <2>3, <3>1
  <2>5. Directories' = Directories /\ Linked' = Linked /\ Taken' = Taken /\ Taken \subseteq All
    BY <1>0, <1>2, <2>4, Everywhere DEF Directories, Linked, Taken
  <2>6. \A d \in Taken : Size(d)' = Size(d)
    BY <2>4, <2>5 DEF Size
  <2>7. \A b \in All : slots[b] = Blank => slots'[b] = Blank
    BY <1>6, <2>3
  <2>8. Proper \subseteq Proper'
    BY <1>3, <2>5, <2>7 DEF Proper
  <2>9. Links'
    BY <1>0, <1>2, <2>5, <2>7 DEF Structure, Links, All
  <2>10. n \div E = q
    BY <1>1, <1>5, <1>10, Behind
  <2>11. ASSUME NEW d \in Directories PROVE Same(d)
    <3>1. ASSUME NEW k \in 0 .. Size(d) - 1
          PROVE  slots'[Follow(d, k \div E)][k % E] = slots[Follow(d, k \div E)][k % E]
      <4>1. PICK i, s : i = k \div E /\ s = k % E
        OBVIOUS
      <4>2. k \in Nat /\ i \in Nat /\ s \in 0 .. E - 1 /\ k = E * i + s
        BY <4>1, Place
      <4>3. Follow(d, i) \in All /\ Follow(d, i) # NIL
        BY <1>0, <4>1, InChain, Everywhere, NotNIL
      <4>4. CASE Follow(d, i) # z
        BY <2>3, <4>1, <4>3, <4>4
      <4>5. CASE Follow(d, i) = z
        <5>1. d = p /\ i = q
          BY <1>0, <1>4, <1>5, <1>6, <4>2, <4>3, <4>5, SamePlace
        <5>2. s # r
          <6>1. n = E * (n \div E) + (n % E)
            BY <1>5, Place
          <6>2. n = E * q + r
            BY <1>1, <2>10, <6>1
          <6>3. ASSUME s = r PROVE FALSE
            <7>1. k = n
              BY <4>2, <5>1, <6>2, <6>3
            <7>. QED
              BY <1>1, <1>5, <5>1, <7>1
          <6>. QED
            BY <6>3
        <5>. QED
          BY <2>3, <4>1, <4>2, <4>5, <5>2
      <4>. QED
        BY <4>4, <4>5
    <3>2. \A i \in 0 .. (Size(d) - 1) \div E - 1 : next'[Follow(d, i)] = next[Follow(d, i)]
      BY <1>2
    <3>3. Size(d)' = Size(d)
      BY <1>0, <2>6, Everywhere
    <3>. QED
      BY <1>0, <2>3, <3>1, <3>2, <3>3, SameWhen
  <2>12. Structure' /\ Apart'
    <3>1. \A d \in Directories' : d \in Directories /\ Same(d) /\ d \notin Linked'
      BY <1>0, <2>5, <2>11 DEF Structure, Heads
    <3>. QED
      BY <1>0, <2>3, <2>8, <2>9, <3>1, SameDirs DEF DInv, Structure
  <2>13. Private'
    <3>1. First \subseteq Taken
      BY DEF DInv, Private, Mine, Taken
    <3>2. \A b \in First : Size(b)' = Size(b) /\ b \in All
      BY <2>5, <2>6, <3>1
    <3>. QED
      BY <1>2, <1>3, <2>5, <2>7, <3>2 DEF DInv, Private
  <2>14. Where'
    BY <1>2, <2>1, <2>5, <2>8, WherePassed DEF DInv, Where
  <2>15. Extension'
    <3>1. Size(p)' = n
      BY <1>0, <1>1, <1>4, <2>6, Everywhere
    <3>2. Follow(p, q)' = z
      BY <1>2, <1>6, FollowIs, FollowNext, Zenon
    <3>3. Entry(p, n)' = m
      BY <1>1, <1>6, <2>3, <2>10, <3>2 DEF Entry
    <3>4. new_entry' = m
      BY <1>1, <1>2 DEF new_entry
    <3>5. Entry(job.parent, Size(job.parent))' = m
      BY <1>1, <1>2, <3>1, <3>3
    <3>. QED
      BY <1>1, <1>2, <1>3, <1>4, <2>1, <2>5, <3>4, <3>5 DEF Extension
  <2>. QED
    BY <1>7, <1>8, <2>11, <2>12, <2>13, <2>14, <2>15 DEF DInv
<1>. QED
  BY <1>9, <1>10

LEMMA EnterNewOwns ==
  ASSUME DInv, EnterNew
  PROVE  DInv'
<1>0. Structure
  BY DEF DInv
<1>1. PICK p, n, c, m : p = job.parent /\ n = Size(p) /\ c = job.new /\ m = new_entry
  OBVIOUS
<1>2. /\ pc = "enternew" /\ pc' = "grow" /\ used' = used /\ next' = next /\ CBN' = CBN
      /\ slots' = [slots EXCEPT ![c] = [Blank EXCEPT ![0] = m]] /\ job' = job
  BY <1>1 DEF EnterNew
<1>3. /\ Stage = "enternew" /\ Stage' = "grow" /\ New' = {} /\ New = {} /\ First' = First
      /\ Mine' = Mine /\ IsMade' = IsMade
  <2>1. Stage = "enternew" /\ Stage' = "grow" /\ New' = {} /\ New = {} /\ First' = First
    BY <1>2 DEF Stage, New, First
  <2>. QED
    BY <1>2, <2>1 DEF IsMade, Mine
<1>4. /\ p \in Directories /\ n % E = 0 /\ c \in Linked /\ slots[c] = Blank
      /\ Follow(p, n \div E) = c
  BY <1>1, <1>2, <1>3 DEF DInv, Extension
<1>5. c \in used /\ c \in Taken /\ c \in All /\ c # NIL
  BY <1>0, <1>4, Everywhere, NotNIL DEF Structure, Links, Taken
<1>6. m \in Metas /\ m.name # "." /\ 0 \in 0 .. E - 1
  <2>1. job.name \in Names
    BY <1>2 DEF DInv, Progress
  <2>2. m.name # "."
    BY <1>1, <2>1, DiskAssumption DEF new_entry
  <2>. QED
    BY <1>1, <2>2, NewEntry, EIs
<1>7. /\ DiskTyped' /\ slots'[c][0] = m /\ \A b \in All \ {c} : slots'[b] = slots[b]
  <2>1. [Blank EXCEPT ![0] = m] \in [0 .. E - 1 -> Metas] /\ [Blank EXCEPT ![0] = m][0] = m
    BY <1>6, BlankIs
  <2>. QED
    BY <1>0, <1>2, <1>5, <2>1 DEF Structure, DiskTyped
<1>8. Directories' = Directories /\ Linked' = Linked /\ Taken' = Taken /\ Taken \subseteq All
  <2>1. slots[c][0].name # "."
    BY <1>4, BlankIs, EmptyIs
  <2>. QED
    BY <1>0, <1>2, <1>6, <1>7, <2>1, Everywhere DEF Directories, Linked, Taken
<1>9. Proper \subseteq Proper'
  <2>1. c \notin Proper
    BY <1>4 DEF Proper
  <2>. QED
    BY <1>3, <1>7, <1>8, <2>1 DEF Proper
<1>10. Links'
  BY <1>0, <1>2, <1>5, <1>7, <1>8 DEF Structure, Links, All
<1>11. \A d \in Directories : Same(d)
  <2>1. \A b \in Taken : slots[b] # Blank => next'[b] = next[b] /\ slots'[b] = slots[b]
    BY <1>2, <1>4, <1>7, <1>8
  <2>. QED
    BY <1>0, <1>7, <2>1, SameAway
<1>12. Structure' /\ Apart'
  <2>1. \A d \in Directories' : d \in Directories /\ Same(d) /\ d \notin Linked'
    BY <1>0, <1>8, <1>11 DEF Structure, Heads
  <2>. QED
    BY <1>0, <1>7, <1>9, <1>10, <2>1, SameDirs DEF DInv, Structure
<1>13. JobTyped'
  BY <1>2 DEF DInv, JobTyped
<1>14. Private'
  <2>1. \A b \in First : b \in All /\ b # c /\ slots'[b] = slots[b]
    BY <1>4, <1>7, <1>8 DEF DInv, Private, Mine, Taken
  <2>. QED
    BY <1>2, <1>3, <1>8, <2>1 DEF DInv, Private, Size
<1>15. Where'
  BY <1>2, <1>8, <1>9, WherePassed DEF DInv, Where
<1>16. Progress'
  BY <1>2, <1>3 DEF DInv, Progress
<1>17. Extension'
  <2>1. Size(p)' = n
    BY <1>1, <1>4, <1>11 DEF Same
  <2>2. Follow(p, n \div E)' = c
    BY <1>2, <1>4, FollowIs, FollowNext, Zenon
  <2>3. Entry(p, n)' = m
    BY <1>4, <1>5, <1>7, <2>2 DEF Entry
  <2>4. new_entry' = m
    BY <1>1, <1>2 DEF new_entry
  <2>5. Entry(job.parent, Size(job.parent))' = m
    BY <1>1, <1>2, <2>1, <2>3
  <2>. QED
    BY <1>1, <1>2, <1>3, <1>4, <1>8, <2>4, <2>5 DEF Extension
<1>. QED
  BY <1>12, <1>13, <1>14, <1>15, <1>16, <1>17 DEF DInv

LEMMA GrowOwns ==
  ASSUME DInv, Grow
  PROVE  DInv' /\ \A b : b \in First \/ Leads(b) => Leads(b)'
<1>0. Structure
  BY DEF DInv
<1>1. PICK p, n, c, t, m : /\ p = job.parent /\ n = Size(p) /\ c = Follow(p, n \div E)
                           /\ t = n % E /\ m = new_entry
  OBVIOUS
<1>2. /\ pc = "grow" /\ pc' = "idle" /\ used' = used /\ next' = next /\ CBN' = CBN
      /\ slots' = [slots EXCEPT ![p][0].size = @ + 1] /\ job' = NoJob
  BY <1>1 DEF Grow
<1>3. Stage = "grow" /\ Stage' = "idle" /\ Mine' = {} /\ First' = {} /\ New' = {} /\ ~IsMade'
  <2>1. Stage = "grow" /\ Stage' = "idle"
    BY <1>2 DEF Stage
  <2>2. job'.first = NIL
    BY <1>2 DEF NoJob
  <2>3. First' = {} /\ New' = {}
    BY <1>2, <2>2 DEF First, New
  <2>. QED
    BY <2>1, <2>3 DEF Mine, IsMade
<1>4. p \in Directories /\ Entry(p, n) = m
  BY <1>1, <1>2 DEF DInv, Extension
<1>5. n \in Nat /\ n >= 2 /\ p \in Taken /\ p \in All /\ slots[p] # Blank /\ n \div E \in Nat
      /\ t \in 0 .. E - 1 /\ 0 \in 0 .. E - 1
  <2>1. n \in Nat /\ n >= 2 /\ p \in Taken /\ p \in All
    BY <1>0, <1>1, <1>4, Everywhere DEF Structure, Heads
  <2>2. slots[p] # Blank
    BY <1>0, <1>4, BlankIs, EmptyIs DEF Structure, Heads
  <2>. QED
    BY <1>1, <2>1, <2>2, Place, EIs
<1>6. PICK h : h = [slots[p][0] EXCEPT !.size = n + 1]
  OBVIOUS
<1>7. /\ h \in Metas /\ h.size = n + 1 /\ h.name = slots[p][0].name
      /\ h.first = slots[p][0].first /\ h.type = slots[p][0].type
      /\ slots' = [slots EXCEPT ![p][0] = h]
  <2>1. slots[p][0] \in Metas /\ slots[p][0].size = n
    BY <1>0, <1>1, <1>5, MetaTyped DEF Structure, Size
  <2>2. /\ h \in Metas /\ h.size = n + 1 /\ h.name = slots[p][0].name
        /\ h.first = slots[p][0].first /\ h.type = slots[p][0].type
    BY <1>5, <1>6, <2>1 DEF Metas
  <2>3. slots' = [slots EXCEPT ![p] = [slots[p] EXCEPT ![0] = h]]
    <3>1. slots \in [All -> [0 .. E - 1 -> Metas]]
      BY <1>0 DEF Structure, DiskTyped
    <3>. QED
      BY <1>2, <1>5, <1>6, <2>1, <3>1
  <2>. QED
    BY <2>2, <2>3
<1>8. /\ DiskTyped' /\ slots'[p][0] = h /\ \A b \in All \ {p} : slots'[b] = slots[b]
      /\ \A k \in 0 .. E - 1 : k # 0 => slots'[p][k] = slots[p][k]
  <2>1. slots \in [All -> [0 .. E - 1 -> Metas]] /\ slots[p] \in [0 .. E - 1 -> Metas]
    BY <1>0, <1>5 DEF Structure, DiskTyped
  <2>2. PICK w : w = [slots[p] EXCEPT ![0] = h]
    OBVIOUS
  <2>3. /\ w \in [0 .. E - 1 -> Metas] /\ w[0] = h
        /\ \A k \in 0 .. E - 1 : k # 0 => w[k] = slots[p][k]
    BY <1>5, <1>7, <2>1, <2>2
  <2>4. slots' = [slots EXCEPT ![p] = w]
    BY <1>7, <2>2
  <2>5. slots'[p] = w /\ \A b \in All \ {p} : slots'[b] = slots[b]
    BY <1>5, <2>1, <2>4
  <2>6. slots' \in [All -> [0 .. E - 1 -> Metas]]
    BY <1>5, <2>1, <2>3, <2>4
  <2>. QED
    BY <1>0, <1>2, <2>3, <2>5, <2>6 DEF Structure, DiskTyped
<1>9. Directories' = Directories /\ Linked' = Linked /\ Taken' = Taken /\ Taken \subseteq All
  <2>1. Taken' = Taken /\ Taken \subseteq All
    BY <1>0, <1>2, Everywhere DEF Taken
  <2>2. \A b \in Taken : slots'[b][0].name = slots[b][0].name
    BY <1>7, <1>8, <2>1
  <2>. QED
    BY <1>2, <2>1, <2>2 DEF Directories, Linked, Taken
<1>10. \A b \in All : slots[b] = Blank => slots'[b] = Blank
  BY <1>5, <1>8
<1>11. Proper \subseteq Proper' /\ First \subseteq Proper'
  <2>1. First \subseteq Taken \ Linked
    BY DEF DInv, Private, Mine, Taken
  <2>2. \A b \in First : b \in Directories \/ slots[b] = Blank
    BY DEF DInv, Private
  <2>. QED
    BY <1>3, <1>9, <1>10, <2>1, <2>2 DEF Proper
<1>12. Links'
  BY <1>0, <1>2, <1>9, <1>10 DEF Structure, Links, All
<1>13. /\ m.type # Empty /\ m.first = job.first /\ m.first \in First \cup {NIL}
       /\ m.first # ROOT_BLOCK
  <2>1. m.type # Empty /\ m.first = job.first
    BY <1>1, <1>2, EmptyIs DEF DInv, Progress, new_entry
  <2>2. job.first \in First \cup {NIL}
    BY <1>2 DEF First
  <2>3. job.first # ROOT_BLOCK
    BY NotNIL DEF DInv, JobTyped, All
  <2>. QED
    BY <2>1, <2>2, <2>3
<1>14. Size(p)' = n + 1 /\ \A d \in Directories : d # p => Size(d)' = Size(d)
  <2>1. \A d \in Directories : d \in All
    BY <1>0, Everywhere
  <2>. QED
    BY <1>7, <1>8, <2>1 DEF Size
(* Only the size is written: every other place holds what it held.         *)
<1>15. ASSUME NEW d \in Directories, NEW i \in Nat, NEW s \in 0 .. E - 1,
              Follow(d, i) # NIL, d # p \/ i # 0 \/ s # 0
       PROVE  Follow(d, i)' = Follow(d, i) /\ slots'[Follow(d, i)][s] = slots[Follow(d, i)][s]
  <2>1. Follow(d, i)' = Follow(d, i)
    BY <1>2, FollowIs, FollowNext, Zenon
  <2>2. Follow(d, i) \in Taken \cup {NIL}
    <3>1. Walk(next, d, i) \in Taken \cup {NIL}
      BY <1>0, <1>15, Everywhere, WalkIn
    <3>. QED
      BY <3>1, FollowIs
  <2>3. Follow(d, i) \in All
    BY <1>9, <1>15, <2>2
  <2>4. CASE Follow(d, i) # p
    BY <1>8, <2>1, <2>3, <2>4
  <2>5. CASE Follow(d, i) = p
    <3>1. Follow(d, i) = Follow(p, 0) /\ 0 \in Nat
      BY <1>0, <1>4, <2>5, EntryZero
    <3>2. d = p /\ i = 0
      BY <1>0, <1>4, <1>15, <3>1, SamePlace
    <3>. QED
      BY <1>8, <1>15, <2>1, <2>5, <3>2
  <2>. QED
    BY <2>4, <2>5
<1>16. ASSUME NEW d \in Directories, NEW k \in 0 .. Size(d) - 1, d # p \/ k # 0
       PROVE  Entry(d, k)' = Entry(d, k)
  <2>1. PICK i, s : i = k \div E /\ s = k % E
    OBVIOUS
  <2>2. i \in Nat /\ s \in 0 .. E - 1 /\ k = E * i + s
    <3>1. k \in Nat
      BY <1>0, Everywhere
    <3>. QED
      BY <2>1, <3>1, Place
  <2>3. Follow(d, i) # NIL /\ Entry(d, k) = slots[Follow(d, i)][s]
    BY <1>0, <1>9, <2>1, InChain, NotNIL
  <2>4. d # p \/ i # 0 \/ s # 0
    <3>1. i = 0 /\ s = 0 => k = 0
      BY <2>2, EIs
    <3>. QED
      BY <1>16, <3>1
  <2>5. Follow(d, i)' = Follow(d, i) /\ slots'[Follow(d, i)][s] = slots[Follow(d, i)][s]
    BY <1>15, <2>2, <2>3, <2>4
  <2>6. Entry(d, k)' = slots'[Follow(d, i)][s]
    BY <2>1, <2>3, <2>5, Zenon DEF Entry
  <2>. QED
    BY <2>3, <2>5, <2>6
<1>17. Entry(p, n)' = m
  <2>1. c # NIL
    <3>1. c = NIL => Entry(p, n) = NoEntry
      BY <1>1, Zenon DEF Entry
    <3>. QED
      BY <1>4, <1>13, <3>1, BlankIs
  <2>2. Entry(p, n) = slots[c][t]
    BY <1>1, <2>1, Zenon DEF Entry
  <2>3. n \div E # 0 \/ t # 0
    <3>1. n = E * (n \div E) + t
      BY <1>1, <1>5, Place
    <3>2. n \div E = 0 /\ t = 0 => n = 0
      BY <1>5, <3>1, EIs
    <3>. QED
      BY <1>5, <3>2
  <2>4. Follow(p, n \div E)' = c /\ slots'[c][t] = slots[c][t]
    BY <1>1, <1>4, <1>5, <1>15, <2>1, <2>3
  <2>5. Entry(p, n)' = slots'[c][t]
    BY <1>1, <2>1, <2>4, Zenon DEF Entry
  <2>. QED
    BY <1>4, <2>2, <2>4, <2>5
<1>18. Heads'
  <2>1. ASSUME NEW d \in Directories
        PROVE  /\ d \notin Linked' /\ Size(d)' >= 2
               /\ slots'[d][0].first = d /\ slots'[d][0].type = "d"
    <3>1. d \in All /\ d \notin Linked /\ slots[d][0].first = d /\ slots[d][0].type = "d"
          /\ Size(d) >= 2
      BY <1>0, Everywhere DEF Structure, Heads
    <3>2. CASE d = p
      BY <1>5, <1>7, <1>8, <1>9, <1>14, <3>1, <3>2
    <3>3. CASE d # p
      BY <1>8, <1>9, <1>14, <3>1, <3>3
    <3>. QED
      BY <3>2, <3>3
  <2>. QED
    BY <1>9, <2>1 DEF Heads
<1>19. Entries'
  <2>1. ASSUME NEW d \in Directories, NEW k \in 0 .. Size(d)' - 1 PROVE Fine(d, k)'
    <3>1. CASE d = p /\ k = 0
      <4>1. Entry(d, k)' = h
        BY <1>5, <1>8, <3>1, EntryZeroNext
      <4>2. h.type # Empty
        BY <1>0, <1>4, <1>7, EmptyIs DEF Structure, Heads
      <4>. QED
        BY <3>1, <4>1, <4>2 DEF Fine
    <3>2. CASE d = p /\ k = n
      BY <1>5, <1>11, <1>13, <1>17, <3>2 DEF Fine
    <3>3. CASE ~(d = p /\ k = 0) /\ ~(d = p /\ k = n)
      <4>1. k \in 0 .. Size(d) - 1
        <5>1. CASE d = p
          BY <1>1, <1>5, <1>14, <2>1, <3>3, <5>1
        <5>2. CASE d # p
          BY <1>14, <2>1, <5>2
        <5>. QED
          BY <5>1, <5>2
      <4>2. Entry(d, k)' = Entry(d, k)
        BY <1>16, <3>3, <4>1
      <4>3. Fine(d, k)
        BY <1>0, <4>1 DEF Structure, Entries
      <4>. QED
        BY <1>11, <4>2, <4>3 DEF Fine
    <3>. QED
      BY <3>1, <3>2, <3>3
  <2>. QED
    BY <1>9, <2>1 DEF Entries
<1>20. ASSUME NEW d \in Directories, NEW j \in 2 .. Size(d)' - 1, ~(d = p /\ j = n)
       PROVE  /\ j \in 2 .. Size(d) - 1 /\ Entry(d, j)' = Entry(d, j)
              /\ Entry(d, j).first \notin First
  <2>1. j \in 2 .. Size(d) - 1 /\ j \in 0 .. Size(d) - 1 /\ j # 0 /\ j >= 1
    <3>1. CASE d = p
      BY <1>1, <1>5, <1>14, <1>20, <3>1
    <3>2. CASE d # p
      BY <1>14, <1>20, <3>2
    <3>. QED
      BY <3>1, <3>2
  <2>2. Entry(d, j)' = Entry(d, j)
    BY <1>16, <2>1
  <2>3. Fine(d, j)
    BY <1>0, <2>1 DEF Structure, Entries
  <2>4. NIL \notin First
    BY DEF First
  <2>. QED
    BY <2>1, <2>2, <2>3, <2>4 DEF Fine, Proper, Mine
<1>21. Apart'
  <2>1. ASSUME NEW d \in Directories, NEW e \in Directories, NEW j \in 2 .. Size(d)' - 1,
               NEW k \in 2 .. Size(e)' - 1,
               Entry(d, j).first' = Entry(e, k).first', Entry(d, j).first' # NIL
        PROVE  d = e /\ j = k
    <3>1. CASE d = p /\ j = n
      <4>1. Entry(e, k)'.first \in First
        BY <1>13, <1>17, <2>1, <3>1
      <4>. QED
        BY <1>20, <3>1, <4>1
    <3>2. CASE e = p /\ k = n
      <4>1. Entry(d, j)'.first \in First
        BY <1>13, <1>17, <2>1, <3>2
      <4>. QED
        BY <1>20, <3>2, <4>1
    <3>3. CASE ~(d = p /\ j = n) /\ ~(e = p /\ k = n)
      <4>1. j \in 2 .. Size(d) - 1 /\ Entry(d, j)' = Entry(d, j)
        BY <1>20, <3>3
      <4>2. k \in 2 .. Size(e) - 1 /\ Entry(e, k)' = Entry(e, k)
        BY <1>20, <3>3
      <4>. QED
        BY <2>1, <4>1, <4>2 DEF DInv, Apart
    <3>. QED
      BY <3>1, <3>2, <3>3
  <2>. QED
    BY <1>9, <2>1 DEF Apart
<1>22. JobTyped'
  <2>1. /\ NoJob.kind = Empty /\ NoJob.name = Empty /\ NoJob.size = 0 /\ NoJob.first = NIL
        /\ NoJob.src = NIL /\ DOMAIN NoJob = Fields
    BY DEF NoJob, Fields
  <2>. QED
    BY <1>2, <2>1 DEF JobTyped, OnDisk
<1>23. Where'
  BY <1>2, <1>9, <1>11 DEF DInv, Where
<1>24. Progress'
  BY <1>2, <1>3 DEF Progress
<1>25. Extension'
  BY <1>2, <1>3 DEF Extension
<1>26. Private'
  BY <1>3 DEF Private
<1>27. ASSUME NEW b, b \in First \/ Leads(b) PROVE Leads(b)'
  <2>1. CASE b \in First
    <3>1. b = m.first
      BY <1>13, <2>1 DEF First
    <3>2. p \in Directories' /\ n \in 2 .. Size(p)' - 1
      BY <1>4, <1>5, <1>9, <1>14
    <3>. QED
      BY <1>17, <3>1, <3>2 DEF Leads
  <2>2. CASE Leads(b)
    <3>1. PICK d \in Directories : \E k \in 2 .. Size(d) - 1 : Entry(d, k).first = b
      BY <2>2 DEF Leads
    <3>2. PICK k \in 2 .. Size(d) - 1 : Entry(d, k).first = b
      BY <3>1
    <3>3. k \in 0 .. Size(d) - 1 /\ k # 0 /\ Size(d) \in Nat
      BY <1>0, Everywhere
    <3>4. Entry(d, k)' = Entry(d, k)
      BY <1>16, <3>3
    <3>5. k \in 2 .. Size(d)' - 1
      BY <1>1, <1>14, <3>3
    <3>. QED
      BY <1>9, <3>2, <3>4, <3>5 DEF Leads
  <2>. QED
    BY <1>27, <2>1, <2>2
<1>. QED
  BY <1>8, <1>12, <1>18, <1>19, <1>21, <1>22, <1>23, <1>24, <1>25, <1>26, <1>27 DEF DInv, Structure
-----------------------------------------------------------------------------
LEMMA DInitially == Init => DInv
<1> SUFFICES ASSUME Init PROVE DInv
  OBVIOUS
<1>1. PICK r, row : r = ROOT_BLOCK /\ row = Directory(r, r)
  OBVIOUS
<1>2. /\ used = {} /\ next = [b \in All |-> NIL] /\ CBN = r /\ pc = "idle" /\ job = NoJob
      /\ slots = [b \in All |-> IF b = r THEN row ELSE Blank]
  BY <1>1 DEF Init
<1>3. r \in All /\ r # NIL /\ Taken = {r} /\ r \notin Blocks
  BY <1>1, <1>2, NotNIL DEF All, Taken
<1>4. 0 \in 0 .. E - 1 /\ 1 \in 0 .. E - 1
  BY EIs
<1>5. row \in [0 .. E - 1 -> Metas] /\ row[0] = dot(r) /\ row[1] = dotdot(r)
  <2>1. dot(r) \in Metas /\ dotdot(r) \in Metas
    BY <1>3 DEF dot, dotdot, Metas
  <2>. QED
    BY <1>1, <1>4, <2>1, BlankIs DEF Directory
<1>6. DiskTyped
  BY <1>2, <1>5, BlankIs DEF DiskTyped
<1>7. slots[r] = row /\ next[r] = NIL /\ \A b \in Blocks : slots[b] = Blank /\ next[b] = NIL
  BY <1>2, <1>3 DEF All
<1>8. Linked = {} /\ First = {} /\ New = {} /\ Mine = {} /\ ~IsMade /\ Stage = "idle"
  <2>1. Linked = {}
    BY <1>3, <1>7 DEF Linked, Taken
  <2>2. First = {} /\ New = {} /\ Stage = "idle"
    BY <1>2 DEF First, New, Stage, NoJob
  <2>. QED
    BY <2>1, <2>2 DEF Mine, IsMade
<1>9. Directories = {r} /\ Size(r) = 2 /\ slots[r][0].first = r /\ slots[r][0].type = "d"
  <2>1. slots[r][0].name = "."
    BY <1>5, <1>7 DEF dot
  <2>2. Directories = {r}
    BY <1>3, <2>1 DEF Directories, Taken
  <2>. QED
    BY <1>5, <1>7, <2>2 DEF Size, dot
<1>10. Proper = {r}
  BY <1>3, <1>8, <1>9 DEF Proper
<1>11. Entry(r, 0) = dot(r) /\ Entry(r, 1) = dotdot(r)
  <2>1. 0 = E * 0 + 0 /\ 1 = E * 0 + 1
    BY EIs
  <2>2. 0 \div E = 0 /\ 0 % E = 0 /\ 1 \div E = 0 /\ 1 % E = 1
    BY <1>4, <2>1, PlaceOf
  <2>3. Follow(r, 0) = r
    <3>1. r \in OnDisk /\ next \in [All -> OnDisk]
      BY <1>3, <1>6, LinksTyped DEF DiskTyped, OnDisk
    <3>2. Walk(next, r, 0) = r
      BY <3>1, WalkStep
    <3>. QED
      BY <3>2, FollowIs
  <2>4. Entry(r, 0) = slots[r][0]
    BY <1>3, <2>2, <2>3, Zenon DEF Entry
  <2>5. Entry(r, 1) = slots[r][1]
    BY <1>3, <2>2, <2>3, Zenon DEF Entry
  <2>. QED
    BY <1>5, <1>7, <2>4, <2>5
<1>12. Links
  BY <1>2, <1>3, <1>7, <1>8 DEF Links
<1>13. Heads
  BY <1>8, <1>9 DEF Heads
<1>14. Entries
  <2>1. ASSUME NEW k \in 0 .. 1 PROVE Fine(r, k)
    <3>1. CASE k = 0
      BY <1>11, <3>1, EmptyIs DEF Fine, dot
    <3>2. CASE k = 1
      BY <1>10, <1>11, <3>2, EmptyIs DEF Fine, dotdot
    <3>. QED
      BY <3>1, <3>2
  <2>. QED
    BY <1>9, <2>1 DEF Entries
<1>15. Apart
  BY <1>9 DEF Apart
<1>16. JobTyped
  <2>1. /\ NoJob.kind = Empty /\ NoJob.name = Empty /\ NoJob.size = 0 /\ NoJob.first = NIL
        /\ NoJob.src = NIL /\ DOMAIN NoJob = Fields
    BY DEF NoJob, Fields
  <2>. QED
    BY <1>2, <2>1 DEF JobTyped, OnDisk
<1>17. Private
  BY <1>8 DEF Private
<1>18. Where
  BY <1>1, <1>2, <1>9, <1>10 DEF Where
<1>19. Progress
  BY <1>2, <1>8 DEF Progress
<1>20. Extension
  BY <1>2, <1>8 DEF Extension
<1>. QED
  BY <1>6, <1>12, <1>13, <1>14, <1>15, <1>16, <1>17, <1>18, <1>19, <1>20 DEF DInv, Structure

LEMMA DStutter == DInv /\ UNCHANGED vars => DInv'
<1> SUFFICES ASSUME DInv, UNCHANGED vars PROVE DInv'
  OBVIOUS
<1>1. /\ used' = used /\ next' = next /\ slots' = slots /\ job' = job /\ pc' = pc /\ CBN' = CBN
  BY DEF vars, disk, shell
<1>2. First' = First /\ New' = New /\ Stage' = Stage
  BY <1>1 DEF First, New, Stage
<1>3. Mine' = Mine /\ (IsMade' <=> IsMade)
  BY <1>1, <1>2 DEF Mine, IsMade
<1>4. /\ Structure' /\ Apart' /\ Proper \subseteq Proper'
      /\ Directories' = Directories /\ Linked' = Linked
      /\ \A d, n : Follow(d, n)' = Follow(d, n)
      /\ \A d, k : Size(d)' = Size(d) /\ Entry(d, k)' = Entry(d, k)
  BY <1>1, <1>3, Untouched
<1>5. JobTyped'
  BY <1>1 DEF DInv, JobTyped
<1>6. Private'
  BY <1>1, <1>2, <1>3, <1>4 DEF DInv, Private
<1>7. Where'
  BY <1>1, <1>4 DEF DInv, Where
<1>8. Progress'
  BY <1>1, <1>2, <1>3 DEF DInv, Progress
<1>9. Extension'
  <2>1. PICK p, n, i : p = job.parent /\ n = Size(p) /\ i = n \div E
    OBVIOUS
  <2>2. /\ Size(job.parent)' = n /\ Follow(job.parent, Size(job.parent) \div E)' = Follow(p, i)
        /\ Entry(job.parent, Size(job.parent))' = Entry(p, n)
    BY <1>1, <1>4, <2>1, Zenon
  <2>3. new_entry' = new_entry
    BY <1>1 DEF new_entry
  <2>. QED
    BY <1>1, <1>2, <1>4, <2>1, <2>2, <2>3 DEF DInv, Extension
<1>. QED
  BY <1>4, <1>5, <1>6, <1>7, <1>8, <1>9 DEF DInv

LEMMA DKept == DInv /\ [Next]_vars => DInv'
<1> SUFFICES ASSUME DInv, [Next]_vars PROVE DInv'
  OBVIOUS
<1>1. CASE Command
  BY <1>1, cmd_cdOwns, cmd_mdOwns, CopyInOwns, CopyWithinOwns DEF Command
<1>2. CASE Allocate
  BY <1>2, TakeOwns, CountOwns, TakeFailsOwns, FreeBitOwns, RestOwns DEF Allocate
<1>3. CASE Work
  BY <1>3, FormatOwns, EnterOwns, NoParentOwns, LinkOwns, EnterNewOwns, GrowOwns, FillOwns, ChainOwns
     DEF Work
<1>4. CASE Crash
  BY <1>4, RestOwns
<1>5. CASE UNCHANGED vars
  BY <1>5, DStutter
<1>. QED
  BY <1>1, <1>2, <1>3, <1>4, <1>5 DEF Next

(* A block belongs to one owner, in every state and after every kill of    *)
(* the shell: at most one link or one entry leads to it, it is then taken  *)
(* in the bitmap, a directory's chain is as long as its size says, and a   *)
(* free block is blank (getfreeblock, add_file_entry, createdirectory,     *)
(* write_to_disk, copyfile, freeblock).                                    *)
THEOREM BlocksOwned == Spec => []OneOwner
<1>1. Init => DInv
  BY DInitially
<1>2. DInv /\ [Next]_vars => DInv'
  BY DKept
<1>3. DInv => OneOwner
  BY Owners
<1>. QED
  BY <1>1, <1>2, <1>3, PTL DEF Spec
-----------------------------------------------------------------------------
(* Unless a command failed half way, something leads to every block that   *)
(* is taken, or the command under way has it; and nothing comes after the  *)
(* last block of a directory or of the file being written, so that no link *)
(* that is overwritten led anywhere.                                       *)
Top(d) == IF d = job.parent /\ pc \in {"enternew", "grow"} THEN Size(d) ELSE Size(d) - 1
End(d) == Follow(d, Top(d) \div E)
Writes == pc \in {"fill", "more"} \/ Stage = "chain"
Led(b) == b \in Linked \cup Mine \/ Leads(b)

Compact == ~spoiled => /\ \A b \in used : Led(b)
                       /\ \A d \in Directories : next[End(d)] = NIL
                       /\ Writes => next[job.cur] = NIL /\ job.cur \in Linked \cup First

LEMMA Steady ==
  ASSUME used' = used, next' = next, slots' = slots
  PROVE  Directories' = Directories /\ Linked' = Linked /\ \A d : Same(d)
<1>1. Directories' = Directories /\ Linked' = Linked
  BY DEF Directories, Linked
<1>2. \A d, n : Follow(d, n)' = Follow(d, n)
  BY FollowIs, FollowNext
<1>3. ASSUME NEW d, NEW k PROVE Size(d)' = Size(d) /\ Entry(d, k)' = Entry(d, k)
  <2>1. Follow(d, k \div E)' = Follow(d, k \div E)
    BY <1>2
  <2>. QED
    BY <2>1 DEF Size, Entry
<1>. QED
  BY <1>1, <1>3 DEF Same

LEMMA LeadsKept ==
  ASSUME Structure, NEW b, Leads(b),
         \A d \in Directories : Size(d) > 2 => d \in Directories' /\ Same(d)
  PROVE  Leads(b)'
<1>1. PICK d \in Directories : \E k \in 2 .. Size(d) - 1 : Entry(d, k).first = b
  BY DEF Leads
<1>2. PICK k \in 2 .. Size(d) - 1 : Entry(d, k).first = b
  BY <1>1
<1>3. Size(d) > 2 /\ k \in 0 .. Size(d) - 1
  BY <1>2, Everywhere
<1>4. d \in Directories' /\ Entry(d, k)' = Entry(d, k) /\ k \in 2 .. Size(d)' - 1
  BY <1>3 DEF Same
<1>. QED
  BY <1>2, <1>4 DEF Leads

LEMMA CompactKept ==
  ASSUME Compact, next' = next, spoiled => spoiled', Directories' \subseteq Directories,
         \A b \in used' : b \in Mine' \/ (b \in used /\ (Led(b) => Led(b)')),
         \A d \in Directories' : Top(d)' \div E = Top(d) \div E,
         ~spoiled /\ Writes' => next[job'.cur] = NIL /\ job'.cur \in Linked' \cup First'
  PROVE  Compact'
<1> SUFFICES ASSUME ~spoiled' PROVE Compact'
  BY DEF Compact
<1>1. /\ ~spoiled /\ \A b \in used : Led(b)
      /\ \A d \in Directories : next[End(d)] = NIL
  BY DEF Compact
<1>2. \A b \in used' : Led(b)'
  BY <1>1 DEF Led
<1>3. ASSUME NEW d \in Directories' PROVE next'[End(d)'] = NIL
  <2>1. PICK q : q = Top(d) \div E
    OBVIOUS
  <2>2. End(d)' = Follow(d, q)'
    BY <2>1, Zenon DEF End
  <2>3. End(d)' = End(d)
    BY <2>1, <2>2, FollowIs, FollowNext, Zenon DEF End
  <2>. QED
    BY <1>1, <2>3
<1>. QED
  BY <1>1, <1>2, <1>3 DEF Compact

(* A step of the shell that leaves the links and the entries alone.        *)
LEMMA CompactSteady ==
  ASSUME DInv, Compact, used' = used, next' = next, slots' = slots, spoiled => spoiled',
         pc \notin {"enternew", "grow"}, pc' \notin {"enternew", "grow"},
         ~spoiled' => Mine \subseteq Mine',
         ~spoiled /\ Writes' => next[job'.cur] = NIL /\ job'.cur \in Linked \cup First'
  PROVE  Compact'
<1> SUFFICES ASSUME ~spoiled' PROVE Compact'
  BY DEF Compact
<1>1. Directories' = Directories /\ Linked' = Linked /\ \A d : Same(d)
  BY Steady
<1>2. \A b \in used : Led(b) => Led(b)'
  BY <1>1, LeadsKept DEF Led, DInv
<1>3. \A d : Top(d)' = Top(d)
  BY <1>1 DEF Top, Same
<1>. QED
  BY <1>1, <1>2, <1>3, CompactKept

LEMMA CommandCompact ==
  ASSUME DInv, Compact, Command
  PROVE  Compact'
<1>1. /\ pc = "idle" /\ pc' \in {"idle", "md", "first", "enter"}
      /\ used' = used /\ next' = next /\ slots' = slots /\ spoiled' = spoiled
  <2>1. ASSUME NEW path \in Paths, cmd_cd(path)
        PROVE  pc = "idle" /\ pc' = "idle" /\ UNCHANGED <<disk, spoiled>>
    BY <2>1 DEF cmd_cd
  <2>2. ASSUME NEW path \in Paths, NEW name \in Names, cmd_md(path, name)
        PROVE  pc = "idle" /\ pc' = "md" /\ UNCHANGED <<disk, spoiled>>
    BY <2>2 DEF cmd_md, Ready
  <2>3. ASSUME NEW path \in Paths, NEW name \in Names, NEW source \in Names, NEW from \in Paths,
               CopyWithin(from, source, path, name)
        PROVE  pc = "idle" /\ pc' \in {"first", "enter"} /\ UNCHANGED <<disk, spoiled>>
    BY <2>3, Zenon DEF CopyWithin, Ready
  <2>4. ASSUME NEW path \in Paths, NEW name \in Names, NEW source \in Names,
               NEW content \in HdFiles, CopyIn(content, source, path, name)
        PROVE  pc = "idle" /\ pc' \in {"first", "enter"} /\ UNCHANGED <<disk, spoiled>>
    BY <2>4, Zenon DEF CopyIn, Ready
  <2>5. pc = "idle" /\ pc' \in {"idle", "md", "first", "enter"} /\ UNCHANGED <<disk, spoiled>>
    BY <2>1, <2>2, <2>3, <2>4 DEF Command
  <2>. QED
    BY <2>5 DEF disk
<1>2. Mine = {}
  <2>1. job.first = NIL
    BY <1>1 DEF DInv, Progress, NoJob
  <2>. QED
    BY <1>1, <2>1 DEF Mine, First, New
<1>3. ~Writes'
  BY <1>1 DEF Writes, Stage
<1>. QED
  BY <1>1, <1>2, <1>3, CompactSteady

LEMMA TakeCompact ==
  ASSUME DInv, DInv', Compact, NEW b \in Blocks, Take(b)
  PROVE  Compact'
<1>0. Structure
  BY DEF DInv
<1>1. /\ pc \in {"md", "first", "more", "extend"} /\ pc' = "count" /\ b \notin used
      /\ used' = used \cup {b} /\ next' = next /\ slots' = slots /\ spoiled' = spoiled
      /\ job' = [job EXCEPT !.new = b, !.after = AfterCount[pc]]
  BY DEF Take, Takes
<1>2. /\ job'.new = b /\ job'.first = job.first /\ job'.cur = job.cur
      /\ job'.after = AfterCount[pc]
  BY <1>1 DEF DInv, JobTyped, Fields, NoJob
<1>3. Stage' = "chain" => pc = "more"
  BY <1>1, <1>2 DEF Stage, AfterCount
<1>4. next[b] = NIL /\ slots[b] = Blank /\ b \notin Taken
  BY <1>0, <1>1, NotNIL DEF Structure, Links, Taken
<1>5. Directories' = Directories
  <2>1. slots[b][0].name # "."
    BY <1>4, BlankIs, EmptyIs
  <2>. QED
    BY <1>1, <2>1 DEF Directories
<1>6. Linked' = Linked
  BY <1>1, <1>4 DEF Linked
<1>7. First' = First /\ Mine' = Mine \cup {b}
  <2>1. First' = First /\ New' = {b} /\ New = {}
    BY <1>1, <1>2 DEF First, New
  <2>. QED
    BY <2>1 DEF Mine
<1>8. \A d \in Directories : Same(d)
  BY <1>0, <1>1, SameAway DEF DInv, Structure
<1>9. \A c \in used' : c \in Mine' \/ (c \in used /\ (Led(c) => Led(c)'))
  BY <1>0, <1>1, <1>5, <1>6, <1>7, <1>8, LeadsKept DEF Led
<1>10. \A d \in Directories' : Top(d)' = Top(d)
  BY <1>1, <1>5, <1>8 DEF Top, Same
<1>11. ~spoiled /\ Writes' => next[job'.cur] = NIL /\ job'.cur \in Linked' \cup First'
  <2>1. Writes' => Writes
    BY <1>1, <1>3 DEF Writes
  <2>. QED
    BY <1>2, <1>6, <1>7, <2>1 DEF Compact
<1>. QED
  BY <1>1, <1>5, <1>9, <1>10, <1>11, CompactKept

LEMMA CountCompact ==
  ASSUME DInv, Compact, Count
  PROVE  Compact'
<1>1. /\ pc = "count" /\ pc' = job.after /\ job.after \in {"format", "fill", "chain", "link"}
      /\ used' = used /\ next' = next /\ slots' = slots /\ spoiled' = spoiled
      /\ job.after \in {"format", "fill"} => job.first = NIL
      /\ job' = IF job.after \in {"format", "fill"}
                THEN [job EXCEPT !.first = job.new, !.cur = job.new] ELSE job
  BY DEF Count, DInv, Progress, Stage
<1>2. New = {job.new} /\ job.new \in used /\ next[job.new] = NIL /\ job.new # NIL
  <2>1. New = {job.new}
    BY <1>1 DEF New
  <2>2. job.new \in used /\ next[job.new] = NIL
    BY <2>1 DEF DInv, Private, Mine
  <2>. QED
    BY <2>1, <2>2, Everywhere, NotNIL DEF DInv, Taken
<1>3. CASE job.after \in {"format", "fill"}
  <2>1. job'.first = job.new /\ job'.cur = job.new
    BY <1>1, <1>3 DEF DInv, JobTyped, Fields, NoJob
  <2>2. First = {} /\ First' = {job.new} /\ Mine = {job.new} /\ Mine \subseteq Mine'
    BY <1>1, <1>2, <1>3, <2>1 DEF First, Mine
  <2>. QED
    BY <1>1, <1>2, <1>3, <2>1, <2>2, CompactSteady
<1>4. CASE job.after \in {"chain", "link"}
  <2>1. job' = job /\ First' = First /\ New' = New /\ Stage' = Stage
    BY <1>1, <1>4 DEF First, New, Stage
  <2>2. Mine' = Mine
    BY <2>1 DEF Mine
  <2>3. ~spoiled /\ Writes' => next[job.cur] = NIL /\ job.cur \in Linked \cup First
    BY <1>1, <1>4, <2>1 DEF Writes, Compact
  <2>. QED
    BY <1>1, <1>4, <2>1, <2>2, <2>3, CompactSteady
<1>. QED
  BY <1>1, <1>3, <1>4

LEMMA TakeFailsCompact ==
  ASSUME DInv, Compact, TakeFails
  PROVE  Compact'
<1>1. pc \in {"md", "first", "more", "extend"} /\ pc' \in {"free", "overrun", "idle"}
  BY DEF TakeFails, Takes, AfterFail
<1>2. /\ used' = used /\ next' = next /\ slots' = slots
      /\ job' = IF pc' = "idle" THEN NoJob ELSE job
  BY DEF TakeFails, disk
<1>3. /\ spoiled => spoiled'
      /\ ~spoiled' => job.kind # "f" \/ job.first = NIL
  BY DEF TakeFails
<1>4. pc' # "free" => job.kind = "f" \/ job.first = NIL
  <2>1. pc = "extend" /\ job.kind = "d" => pc' = "free"
    BY DEF TakeFails, AfterFail
  <2>2. Stage = pc
    BY <1>1 DEF Stage
  <2>3. /\ job.kind \in {"d", "f"}
        /\ pc \in {"first", "more"} => job.kind = "f"
        /\ pc = "md" => job.first = NIL
    BY <1>1, <2>2 DEF DInv, Progress
  <2>. QED
    BY <1>1, <2>1, <2>3
<1>5. ~spoiled' => Mine \subseteq Mine'
  <2>1. New = {}
    BY <1>1 DEF New
  <2>2. CASE pc' = "free"
    <3>1. First' = First
      BY <1>1, <1>2, <2>2 DEF First
    <3>. QED
      BY <2>1, <3>1 DEF Mine
  <2>3. CASE pc' # "free"
    <3>1. ~spoiled' => First = {}
      BY <1>3, <1>4, <2>3 DEF First
    <3>. QED
      BY <2>1, <3>1 DEF Mine
  <2>. QED
    BY <2>2, <2>3
<1>6. ~Writes'
  BY <1>1 DEF Writes, Stage
<1>. QED
  BY <1>1, <1>2, <1>3, <1>5, <1>6, CompactSteady

LEMMA FreeBitCompact ==
  ASSUME DInv, Compact, FreeBit
  PROVE  Compact'
<1>0. Structure
  BY DEF DInv
<1>1. PICK f : f = job.first
  OBVIOUS
<1>2. /\ pc = "free" /\ pc' = "uncount" /\ used' = used \ {f} /\ next' = next
      /\ job' = job /\ spoiled' = spoiled
  BY <1>1 DEF FreeBit
<1>3. /\ Linked' = Linked /\ Directories' = Directories \ {f}
      /\ \A d \in Directories' : Same(d)
  BY <1>1, FreeBitOwns
<1>4. f # NIL /\ Size(f) = 2 /\ Mine = {f}
  <2>1. Stage = "free" /\ New = {}
    BY <1>2 DEF Stage, New
  <2>2. IsMade
    BY <2>1 DEF DInv, Progress, IsMade
  <2>3. f # NIL
    BY <1>1, <2>2 DEF DInv, Progress
  <2>4. First = {f}
    BY <1>1, <1>2, <2>3 DEF First
  <2>. QED
    BY <2>1, <2>2, <2>3, <2>4 DEF DInv, Private, Mine
<1>5. \A b : Leads(b) => Leads(b)'
  <2>1. \A d \in Directories : Size(d) > 2 => d \in Directories' /\ Same(d)
    BY <1>3, <1>4
  <2>. QED
    BY <1>0, <2>1, LeadsKept
<1>6. \A b \in used' : b \in used /\ (Led(b) => Led(b)')
  BY <1>2, <1>3, <1>4, <1>5 DEF Led
<1>7. \A d \in Directories' : Top(d)' = Top(d)
  BY <1>2, <1>3 DEF Top, Same
<1>8. ~Writes'
  BY <1>2 DEF Writes, Stage
<1>. QED
  BY <1>2, <1>3, <1>6, <1>7, <1>8, CompactKept

LEMMA RestCompact ==
  ASSUME DInv, Compact, FreeCount \/ NoParent \/ Crash
  PROVE  Compact'
<1>1. CASE Crash
  BY <1>1 DEF Crash, Compact
<1>2. CASE FreeCount
  <2>1. /\ pc = "uncount" /\ pc' = "idle" /\ used' = used /\ next' = next /\ slots' = slots
        /\ spoiled' = spoiled
    BY <1>2 DEF FreeCount
  <2>2. Mine = {} /\ ~Writes'
    BY <2>1 DEF Mine, First, New, Writes, Stage
  <2>. QED
    BY <2>1, <2>2, CompactSteady
<1>3. CASE NoParent
  <2>1. /\ pc = "enter" /\ pc' \in {"wild", "idle"}
        /\ used' = used /\ next' = next /\ slots' = slots
        /\ spoiled => spoiled'
        /\ ~spoiled' => job.first = NIL
    BY <1>3 DEF NoParent, disk
  <2>2. ~spoiled' => Mine = {}
    BY <2>1 DEF Mine, First, New
  <2>3. ~Writes'
    BY <2>1 DEF Writes, Stage
  <2>. QED
    BY <2>1, <2>2, <2>3, CompactSteady
<1>. QED
  BY <1>1, <1>2, <1>3

LEMMA FillCompact ==
  ASSUME DInv, Compact, WriteBlock \/ CopyBlock
  PROVE  Compact'
<1>1. PICK c : c = job.cur
  OBVIOUS
<1>2. /\ pc = "fill" /\ pc' \in {"more", "enter"} /\ used' = used /\ slots' = slots
      /\ next' = next \/ next' = [next EXCEPT ![c] = NIL]
      /\ job' = job \/ job' = [job EXCEPT !.rest = Tail(@)]
      /\ spoiled' = spoiled
  BY <1>1 DEF WriteBlock, CopyBlock
<1>3. job'.first = job.first /\ job'.cur = c
  BY <1>1, <1>2 DEF DInv, JobTyped, Fields, NoJob
<1>4. First' = First /\ Mine' = Mine
  <2>1. First' = First /\ New = {} /\ New' = {}
    BY <1>2, <1>3 DEF First, New
  <2>. QED
    BY <2>1 DEF Mine
<1>5. Writes
  BY <1>2 DEF Writes
<1>6. ASSUME ~spoiled PROVE next' = next /\ next[c] = NIL /\ c \in Linked \cup First
  <2>1. next[c] = NIL /\ c \in Linked \cup First
    BY <1>1, <1>5, <1>6 DEF Compact
  <2>2. next \in [All -> Blocks \cup {NIL}]
    BY DEF DInv, Structure, DiskTyped
  <2>. QED
    BY <1>2, <2>1, <2>2
<1>7. CASE ~spoiled
  BY <1>2, <1>3, <1>4, <1>6, <1>7, CompactSteady
<1>8. CASE spoiled
  BY <1>2, <1>8 DEF Compact
<1>. QED
  BY <1>7, <1>8

LEMMA ChainCompact ==
  ASSUME DInv, DInv', Compact, Chain
  PROVE  Compact'
<1>0. Structure
  BY DEF DInv
<1> SUFFICES ASSUME ~spoiled PROVE Compact'
  BY DEF Chain, Compact
<1>1. PICK c, n : c = job.cur /\ n = job.new
  OBVIOUS
<1>2. /\ pc = "chain" /\ pc' = "fill" /\ used' = used /\ slots' = slots
      /\ next' = [next EXCEPT ![c] = n]
      /\ job' = [job EXCEPT !.cur = n, !.src = IF @ = NIL THEN NIL ELSE next[@]]
  BY <1>1 DEF Chain
<1>3. job'.first = job.first /\ job'.cur = n
  BY <1>2 DEF DInv, JobTyped, Fields, NoJob
<1>4. Stage = "chain" /\ New = {n} /\ New' = {} /\ First' = First
  BY <1>1, <1>2, <1>3 DEF Stage, New, First
<1>5. c \in used /\ slots[c] = Blank /\ next[c] = NIL /\ c \in Linked \cup First
  BY <1>1, <1>4 DEF DInv, Progress, Compact, Writes
<1>6. n \in used /\ n \notin Linked /\ n # job.first /\ next[n] = NIL /\ n # NIL
  BY <1>0, <1>4, Everywhere, NotNIL DEF DInv, Private, Mine, Taken
<1>7. n # c /\ c \in All /\ n \in All
  BY <1>0, <1>5, <1>6, Everywhere DEF First, Taken
<1>8. next'[c] = n /\ next'[n] = NIL /\ \A b \in All \ {c} : next'[b] = next[b]
  BY <1>0, <1>2, <1>6, <1>7 DEF Structure, DiskTyped
<1>9. Linked \cup {n} \subseteq Linked'
  <2>1. Taken \subseteq All /\ Taken' = Taken /\ c \in Taken
    BY <1>0, <1>2, <1>5, Everywhere DEF Taken
  <2>. QED
    BY <1>5, <1>6, <1>8, <2>1 DEF Linked, Taken
<1>10. Directories' = Directories
  BY <1>2 DEF Directories
<1>11. \A d \in Directories : Same(d)
  <2>1. \A b \in Taken : slots[b] # Blank => next'[b] = next[b] /\ slots'[b] = slots[b]
    BY <1>0, <1>2, <1>5, <1>8, Everywhere
  <2>. QED
    BY <1>0, <2>1, SameAway DEF DInv, Structure
<1>12. \A b \in used' : Led(b)'
  <2>1. \A b \in used : Led(b)
    BY DEF Compact
  <2>2. \A b : Leads(b) => Leads(b)'
    BY <1>0, <1>10, <1>11, LeadsKept
  <2>3. Mine \subseteq Mine' \cup {n}
    BY <1>4 DEF Mine
  <2>. QED
    BY <1>2, <1>9, <2>1, <2>2, <2>3 DEF Led
<1>13. ASSUME NEW d \in Directories' PROVE next'[End(d)'] = NIL
  <2>1. PICK q : q = (Size(d) - 1) \div E
    OBVIOUS
  <2>2. d \in Directories /\ Top(d) = Size(d) - 1 /\ Top(d)' = Size(d) - 1
    BY <1>2, <1>10, <1>11 DEF Top, Same
  <2>3. q \in Nat /\ q \in 0 .. q
    <3>1. Size(d) - 1 \in Nat
      BY <1>0, <2>2, Everywhere DEF Structure, Heads
    <3>. QED
      BY <2>1, <3>1, Place
  <2>4. Follow(d, q) # c /\ Follow(d, q) \in All
    BY <1>0, <1>5, <2>1, <2>2, <2>3, Chained, Everywhere
  <2>5. next[Follow(d, q)] = NIL
    BY <2>1, <2>2, Zenon DEF Compact, End
  <2>6. Follow(d, q)' = Follow(d, q)
    <3>1. ASSUME NEW i \in 0 .. (Size(d) - 1) \div E - 1
          PROVE  next'[Follow(d, i)] = next[Follow(d, i)]
      <4>1. i \in 0 .. (Size(d) - 1) \div E
        BY <2>1, <2>3, <3>1
      <4>2. Follow(d, i) # c /\ Follow(d, i) \in All
        BY <1>0, <1>5, <2>2, <4>1, Chained, Everywhere
      <4>. QED
        BY <1>8, <4>2
    <3>2. DiskTyped'
      BY DEF DInv, Structure
    <3>. QED
      BY <1>0, <2>1, <2>2, <2>3, <3>1, <3>2, ChainKept
  <2>7. End(d)' = Follow(d, q)
    BY <2>1, <2>2, <2>6, Zenon DEF End
  <2>. QED
    BY <1>8, <2>4, <2>5, <2>7
<1>. QED
  BY <1>3, <1>8, <1>9, <1>12, <1>13 DEF Compact

LEMMA FormatCompact ==
  ASSUME DInv, DInv', Compact, Format
  PROVE  Compact'
<1>0. Structure
  BY DEF DInv
<1> SUFFICES ASSUME ~spoiled PROVE Compact'
  BY DEF Format, Compact
<1>1. PICK f, p : f = job.first /\ p = job.parent
  OBVIOUS
<1>2. /\ pc = "format" /\ pc' = "enter" /\ used' = used /\ next' = next
      /\ slots' = [slots EXCEPT ![f] = Directory(f, p)] /\ job' = job
  BY <1>1 DEF Format
<1>3. First = {f} /\ First' = {f} /\ Mine' = Mine /\ f # NIL /\ job.kind = "d" /\ ~IsMade /\ IsMade'
  <2>1. Stage = "format" /\ Stage' = "enter" /\ New = {} /\ New' = {}
    BY <1>2 DEF Stage, New
  <2>2. f # NIL /\ job.kind = "d"
    BY <1>1, <1>2, <2>1 DEF DInv, Progress
  <2>3. First = {f} /\ First' = {f}
    BY <1>1, <1>2, <2>2 DEF First
  <2>. QED
    BY <1>2, <2>1, <2>2, <2>3 DEF Mine, IsMade
<1>4. f \in used /\ next[f] = NIL /\ slots[f] = Blank /\ f \in Directories' /\ Size(f)' = 2
  BY <1>3 DEF DInv, Private, Mine
<1>5. \A b \in Taken : b # f => slots'[b] = slots[b]
  BY <1>0, <1>2, Everywhere DEF Structure, DiskTyped
<1>6. Directories \subseteq Directories' /\ Directories' \subseteq Directories \cup {f}
  <2>1. slots[f][0].name # "."
    BY <1>4, BlankIs, EmptyIs
  <2>. QED
    BY <1>2, <1>5, <2>1 DEF Directories, Taken
<1>7. \A d \in Directories : Same(d)
  <2>1. \A b \in Taken : slots[b] # Blank => next'[b] = next[b] /\ slots'[b] = slots[b]
    BY <1>2, <1>4, <1>5
  <2>. QED
    BY <1>0, <2>1, SameAway DEF DInv, Structure
<1>8. \A b \in used' : Led(b)'
  <2>1. \A b \in used : Led(b)
    BY DEF Compact
  <2>2. \A b : Leads(b) => Leads(b)'
    BY <1>0, <1>6, <1>7, LeadsKept
  <2>3. Linked' = Linked
    BY <1>2 DEF Linked
  <2>. QED
    BY <1>2, <1>3, <2>1, <2>2, <2>3 DEF Led
<1>9. ASSUME NEW d \in Directories' PROVE next'[End(d)'] = NIL
  <2>1. CASE d \in Directories
    <3>1. PICK q : q = Top(d) \div E
      OBVIOUS
    <3>2. Top(d)' = Top(d)
      BY <1>2, <1>7, <2>1 DEF Top, Same
    <3>3. End(d)' = End(d)
      BY <1>2, <3>1, <3>2, FollowIs, FollowNext, Zenon DEF End
    <3>. QED
      BY <1>2, <2>1, <3>3 DEF Compact
  <2>2. CASE d = f
    <3>1. Top(d)' = 1
      BY <1>2, <1>4, <2>2 DEF Top
    <3>2. 1 \div E = 0
      <4>1. 1 = E * 0 + 1 /\ 1 \in 0 .. E - 1
        BY EIs
      <4>. QED
        BY <4>1, PlaceOf
    <3>3. Walk(next', f, 0) = f
      <4>1. f \in OnDisk /\ next' \in [All -> OnDisk]
        BY <1>0, <1>2, <1>4, Everywhere DEF Taken
      <4>. QED
        BY <4>1, WalkStep
    <3>4. End(d)' = f
      BY <2>2, <3>1, <3>2, <3>3, FollowNext, Zenon DEF End
    <3>. QED
      BY <1>2, <1>4, <3>4
  <2>. QED
    BY <1>6, <2>1, <2>2
<1>10. ~Writes'
  BY <1>2 DEF Writes, Stage
<1>. QED
  BY <1>8, <1>9, <1>10 DEF Compact

LEMMA EnterCompact ==
  ASSUME DInv, DInv', Compact, Enter
  PROVE  Compact'
<1>0. Structure /\ Structure'
  BY DEF DInv
<1>1. PICK p, n : p = job.parent /\ n = Size(p)
  OBVIOUS
<1>2. /\ pc = "enter" /\ used' = used /\ next' = next /\ job' = job /\ spoiled' = spoiled
      /\ \/ n % E # 0 /\ pc' = "grow"
         \/ pc' = "extend" /\ slots' = slots
      /\ IsDirectory(p)
  BY <1>1 DEF Enter
<1>3. \A d \in Directories : Same(d)
  BY EnterOwns
<1>4. Mine' = Mine /\ ~Writes'
  <2>1. First' = First /\ New = {} /\ New' = {}
    BY <1>2 DEF First, New
  <2>2. ~Writes'
    BY <1>2 DEF Writes, Stage
  <2>. QED
    BY <2>1, <2>2 DEF Mine
<1>5. CASE pc' = "extend"
  <2>1. slots' = slots
    BY <1>2, <1>5
  <2>. QED
    BY <1>2, <1>4, <1>5, <2>1, CompactSteady
<1>6. CASE pc' = "grow"
  <2>1. p \in Directories
    <3>1. p \in Reachable
      BY <1>1, <1>2 DEF DInv, Where, Reachable
    <3>. QED
      BY <1>0, <1>2, <3>1, IsProper
  <2>2. n % E # 0 /\ n \in Nat /\ n > 0
    BY <1>0, <1>1, <1>2, <1>6, <2>1, Everywhere DEF Structure, Heads
  <2>3. n \div E = (n - 1) \div E
    BY <2>2, Behind
  <2>4. Directories' = Directories
    <3>1. /\ slots' = [slots EXCEPT ![LastBlock(p)][n % E] = new_entry]
      BY <1>1, <1>6 DEF Enter
    <3>2. slots \in [All -> [0 .. E - 1 -> Metas]] /\ 0 \in 0 .. E - 1
      BY <1>0, EIs DEF Structure, DiskTyped
    <3>3. \A b \in All : slots'[b][0] = slots[b][0]
      BY <2>2, <3>1, <3>2
    <3>4. Taken \subseteq All
      BY <1>0, Everywhere
    <3>. QED
      BY <1>2, <3>3, <3>4 DEF Directories, Taken
  <2>5. \A b \in used' : b \in used /\ (Led(b) => Led(b)')
    <3>1. Linked' = Linked
      BY <1>2 DEF Linked
    <3>. QED
      BY <1>0, <1>2, <1>3, <1>4, <2>4, <3>1, LeadsKept DEF Led
  <2>6. ASSUME NEW d \in Directories' PROVE Top(d)' \div E = Top(d) \div E
    <3>1. Size(d)' = Size(d)
      BY <1>3, <2>4 DEF Same
    <3>2. CASE d = p
      BY <1>1, <1>2, <1>6, <2>3, <3>1, <3>2 DEF Top
    <3>3. CASE d # p
      BY <1>1, <1>2, <3>1, <3>3 DEF Top
    <3>. QED
      BY <3>2, <3>3
  <2>. QED
    BY <1>2, <1>4, <2>4, <2>5, <2>6, CompactKept
<1>. QED
  BY <1>2, <1>5, <1>6

LEMMA EnterNewCompact ==
  ASSUME DInv, DInv', Compact, EnterNew
  PROVE  Compact'
<1>0. Structure
  BY DEF DInv
<1>1. PICK c, m : c = job.new /\ m = new_entry
  OBVIOUS
<1>2. /\ pc = "enternew" /\ pc' = "grow" /\ used' = used /\ next' = next /\ spoiled' = spoiled
      /\ slots' = [slots EXCEPT ![c] = [Blank EXCEPT ![0] = m]] /\ job' = job
  BY <1>1 DEF EnterNew
<1>3. Mine' = Mine /\ ~Writes'
  <2>1. First' = First /\ New = {} /\ New' = {}
    BY <1>2 DEF First, New
  <2>2. ~Writes'
    BY <1>2 DEF Writes, Stage
  <2>. QED
    BY <2>1, <2>2 DEF Mine
<1>4. slots[c] = Blank /\ c \in used /\ c \in All
  <2>1. slots[c] = Blank /\ c \in Linked
    BY <1>1, <1>2 DEF DInv, Extension
  <2>. QED
    BY <1>0, <2>1, Everywhere DEF Structure, Links, Taken
<1>5. slots'[c][0] = m /\ \A b \in All : b # c => slots'[b] = slots[b]
  <2>1. 0 \in 0 .. E - 1
    BY EIs
  <2>2. [Blank EXCEPT ![0] = m][0] = m
    BY <2>1, BlankIs
  <2>. QED
    BY <1>0, <1>2, <1>4, <2>2 DEF Structure, DiskTyped
<1>6. Directories' = Directories
  <2>1. slots[c][0].name # "."
    BY <1>4, BlankIs, EmptyIs
  <2>2. m.name # "."
    <3>1. job.name \in Names
      BY <1>2 DEF DInv, Progress
    <3>. QED
      BY <1>1, <3>1, DiskAssumption DEF new_entry
  <2>. QED
    BY <1>0, <1>2, <1>5, <2>1, <2>2, Everywhere DEF Directories, Taken
<1>7. \A d \in Directories : Same(d)
  <2>1. \A b \in Taken : slots[b] # Blank => next'[b] = next[b] /\ slots'[b] = slots[b]
    BY <1>0, <1>2, <1>4, <1>5, Everywhere
  <2>. QED
    BY <1>0, <2>1, SameAway DEF DInv, Structure
<1>8. \A b \in used' : b \in used /\ (Led(b) => Led(b)')
  <2>1. Linked' = Linked
    BY <1>2 DEF Linked
  <2>. QED
    BY <1>0, <1>2, <1>3, <1>6, <1>7, <2>1, LeadsKept DEF Led
<1>9. \A d \in Directories' : Top(d)' = Top(d)
  BY <1>2, <1>6, <1>7 DEF Top, Same
<1>. QED
  BY <1>2, <1>3, <1>6, <1>8, <1>9, CompactKept

LEMMA LinkCompact ==
  ASSUME DInv, DInv', Compact, Link
  PROVE  Compact'
<1>0. Structure /\ DiskTyped'
  BY DEF DInv, Structure
<1> SUFFICES ASSUME ~spoiled PROVE Compact'
  BY DEF Link, Compact
<1>1. PICK p, n, q, z : /\ p = job.parent /\ n = job.new /\ q = (Size(p) - 1) \div E
                        /\ z = LastBlock(p)
  OBVIOUS
<1>2. /\ pc = "link" /\ pc' = "enternew" /\ used' = used /\ slots' = slots
      /\ next' = [next EXCEPT ![z] = n] /\ job' = job
  BY <1>1 DEF Link
<1>3. Stage = "link" /\ New = {n} /\ New' = {} /\ First' = First
  BY <1>1, <1>2 DEF Stage, New, First
<1>4. p \in Directories
  BY <1>1, <1>3 DEF DInv, Extension
<1>5. ASSUME NEW d \in Directories
      PROVE  /\ Same(d) /\ (Size(d) - 1) \div E \in Nat
             /\ Follow(d, (Size(d) - 1) \div E) \in All
             /\ Follow(d, (Size(d) - 1) \div E) # NIL
             /\ \A i : i = (Size(d) - 1) \div E => Follow(d, i)' = Follow(d, i)
             /\ next[Follow(d, (Size(d) - 1) \div E)] = NIL
             /\ slots[Follow(d, (Size(d) - 1) \div E)] # Blank
  <2>1. PICK i : i = (Size(d) - 1) \div E
    OBVIOUS
  <2>2. i \in Nat /\ i \in 0 .. i
    <3>1. Size(d) - 1 \in Nat
      BY <1>0, Everywhere DEF Structure, Heads
    <3>. QED
      BY <2>1, <3>1, Place
  <2>3. Same(d) /\ \A j \in 0 .. i - 1 : next'[Follow(d, j)] = next[Follow(d, j)]
    BY <2>1, LinkOwns
  <2>4. Follow(d, i)' = Follow(d, i)
    BY <1>0, <2>1, <2>2, <2>3, ChainKept
  <2>5. Follow(d, i) \in All /\ Follow(d, i) # NIL /\ slots[Follow(d, i)] # Blank
    BY <1>0, <2>1, <2>2, Chained, Everywhere, NotNIL
  <2>6. Top(d) = Size(d) - 1
    BY <1>2 DEF Top
  <2>7. next[Follow(d, i)] = NIL
    BY <2>1, <2>6, Zenon DEF Compact, End
  <2>. QED
    BY <2>1, <2>2, <2>3, <2>4, <2>5, <2>7
<1>6. z = Follow(p, q) /\ z \in All /\ next[z] = NIL /\ slots[z] # Blank /\ z # NIL
  BY <1>1, <1>4, <1>5 DEF LastBlock
<1>7. n \in used /\ n \in All /\ n # NIL /\ next[n] = NIL /\ slots[n] = Blank
  BY <1>0, <1>3, Everywhere, NotNIL DEF DInv, Private, Mine, Taken
<1>8. next'[z] = n /\ next'[n] = NIL /\ \A b \in All \ {z} : next'[b] = next[b]
  BY <1>0, <1>2, <1>6, <1>7 DEF Structure, DiskTyped
<1>9. Linked \cup {n} \subseteq Linked'
  <2>1. z \in Taken
    <3>1. q \in 0 .. q
      BY <1>1, <1>4, <1>5
    <3>. QED
      BY <1>0, <1>1, <1>4, <1>6, <3>1, Chained
  <2>2. Taken \subseteq All
    BY <1>0, Everywhere
  <2>. QED
    BY <1>2, <1>6, <1>7, <1>8, <2>1, <2>2 DEF Linked, Taken
<1>10. Directories' = Directories
  BY <1>2 DEF Directories
<1>11. \A b \in used' : Led(b)'
  <2>1. \A b \in used : Led(b)
    BY DEF Compact
  <2>2. \A b : Leads(b) => Leads(b)'
    BY <1>0, <1>5, <1>10, LeadsKept
  <2>3. Mine \subseteq Mine' \cup {n}
    BY <1>3 DEF Mine
  <2>. QED
    BY <1>2, <1>9, <2>1, <2>2, <2>3 DEF Led
<1>12. ASSUME NEW d \in Directories' PROVE next'[End(d)'] = NIL
  <2>1. d \in Directories /\ Size(d)' = Size(d)
    BY <1>5, <1>10 DEF Same
  <2>2. CASE d = p
    <3>1. Top(d)' = Size(p)'
      BY <1>1, <1>2, <2>2 DEF Top
    <3>2. Follow(job.parent, Size(job.parent) \div E)' = job'.new
      BY <1>2 DEF DInv, Extension
    <3>3. End(d)' = n
      BY <1>1, <1>2, <2>2, <3>1, <3>2, Zenon DEF End
    <3>. QED
      BY <1>8, <3>3
  <2>3. CASE d # p
    <3>1. PICK i : i = (Size(d) - 1) \div E
      OBVIOUS
    <3>2. Top(d)' = Size(d) - 1
      BY <1>1, <1>2, <2>1, <2>3 DEF Top
    <3>3. End(d)' = Follow(d, i)'
      BY <3>1, <3>2, Zenon DEF End
    <3>4. /\ Follow(d, i)' = Follow(d, i) /\ Follow(d, i) \in All /\ i \in Nat
          /\ Follow(d, i) # NIL /\ next[Follow(d, i)] = NIL
      BY <1>5, <2>1, <3>1
    <3>5. Follow(d, i) # z
      <4>1. q \in Nat
        BY <1>1, <1>4, <1>5
      <4>. QED
        BY <1>0, <1>4, <1>6, <2>1, <2>3, <3>4, <4>1, SamePlace
    <3>. QED
      BY <1>8, <3>3, <3>4, <3>5
  <2>. QED
    BY <2>2, <2>3
<1>13. ~Writes'
  BY <1>2 DEF Writes, Stage
<1>. QED
  BY <1>11, <1>12, <1>13 DEF Compact

LEMMA GrowCompact ==
  ASSUME DInv, DInv', Compact, Grow
  PROVE  Compact'
<1>0. Structure
  BY DEF DInv
<1>1. PICK p, n : p = job.parent /\ n = Size(p)
  OBVIOUS
<1>2. /\ pc = "grow" /\ pc' = "idle" /\ used' = used /\ next' = next /\ job' = NoJob
      /\ slots' = [slots EXCEPT ![p][0].size = @ + 1] /\ spoiled' = spoiled
  BY <1>1 DEF Grow
<1>3. p \in Directories /\ p \in All /\ n \in Nat
  BY <1>0, <1>1, <1>2, Everywhere DEF DInv, Extension
<1>4. slots \in [All -> [0 .. E - 1 -> Metas]] /\ 0 \in 0 .. E - 1 /\ slots[p][0] \in Metas
  BY <1>0, <1>3, MetaTyped, EIs DEF Structure, DiskTyped
<1>5. /\ slots'[p][0] = [slots[p][0] EXCEPT !.size = @ + 1]
      /\ \A b \in All \ {p} : slots'[b] = slots[b]
  BY <1>2, <1>3, <1>4
<1>6. Size(p)' = n + 1 /\ slots'[p][0].name = slots[p][0].name
  BY <1>1, <1>4, <1>5 DEF Metas, Size
<1>7. Directories' = Directories
  BY <1>0, <1>2, <1>5, <1>6, Everywhere DEF Directories, Taken
<1>8. Linked' = Linked /\ Mine = First
  BY <1>2 DEF Linked, Mine, New
<1>9. \A b \in used' : b \in used /\ (Led(b) => Led(b)')
  BY <1>2, <1>8, GrowOwns DEF Led
<1>10. ASSUME NEW d \in Directories' PROVE Top(d)' \div E = Top(d) \div E
  <2>1. CASE d = p
    BY <1>1, <1>2, <1>3, <1>6, <2>1 DEF Top
  <2>2. CASE d # p
    <3>1. d \in All
      BY <1>0, <1>7, Everywhere
    <3>2. Size(d)' = Size(d)
      BY <1>5, <2>2, <3>1 DEF Size
    <3>. QED
      BY <1>1, <1>2, <2>2, <3>2 DEF Top
  <2>. QED
    BY <2>1, <2>2
<1>11. ~Writes'
  BY <1>2 DEF Writes, Stage
<1>. QED
  BY <1>2, <1>7, <1>9, <1>10, <1>11, CompactKept

LEMMA CompactInitially == Init => Compact
<1> SUFFICES ASSUME Init PROVE Compact
  OBVIOUS
<1>1. used = {} /\ next = [b \in All |-> NIL] /\ pc = "idle"
  BY DEF Init
<1>2. ASSUME NEW d \in Directories PROVE next[End(d)] = NIL
  <2>1. Structure
    BY DInitially DEF DInv
  <2>2. PICK q : q = (Size(d) - 1) \div E
    OBVIOUS
  <2>3. q \in Nat /\ q \in 0 .. q
    <3>1. Size(d) - 1 \in Nat
      BY <2>1, Everywhere DEF Structure, Heads
    <3>. QED
      BY <2>2, <3>1, Place
  <2>4. Follow(d, q) \in All
    BY <2>1, <2>2, <2>3, Chained, Everywhere
  <2>5. Top(d) = Size(d) - 1
    BY <1>1 DEF Top
  <2>6. End(d) = Follow(d, q)
    BY <2>2, <2>5, Zenon DEF End
  <2>. QED
    BY <1>1, <2>4, <2>6
<1>3. ~Writes
  BY <1>1 DEF Writes, Stage
<1>. QED
  BY <1>1, <1>2, <1>3 DEF Compact

LEMMA CompactStutter == DInv /\ Compact /\ UNCHANGED vars => Compact'
<1> SUFFICES ASSUME DInv, Compact, UNCHANGED vars PROVE Compact'
  OBVIOUS
<1>1. /\ used' = used /\ next' = next /\ slots' = slots /\ job' = job /\ pc' = pc
      /\ spoiled' = spoiled
  BY DEF vars, disk, shell
<1>2. Directories' = Directories /\ Linked' = Linked /\ \A d : Same(d)
  BY <1>1, Steady
<1>3. First' = First /\ New' = New /\ (Writes' => Writes)
  BY <1>1 DEF First, New, Writes, Stage
<1>4. \A b \in used' : b \in used /\ (Led(b) => Led(b)')
  BY <1>1, <1>2, <1>3, LeadsKept DEF Led, Mine, DInv
<1>5. \A d \in Directories' : Top(d)' = Top(d)
  BY <1>1, <1>2 DEF Top, Same
<1>6. ~spoiled /\ Writes' => next[job'.cur] = NIL /\ job'.cur \in Linked' \cup First'
  BY <1>1, <1>2, <1>3 DEF Compact
<1>. QED
  BY <1>1, <1>2, <1>4, <1>5, <1>6, CompactKept

LEMMA CompactStep == DInv /\ Compact /\ [Next]_vars => Compact'
<1> SUFFICES ASSUME DInv, Compact, [Next]_vars PROVE Compact'
  OBVIOUS
<1>0. DInv'
  BY DKept
<1>1. CASE Command
  BY <1>1, CommandCompact
<1>2. CASE Allocate
  BY <1>0, <1>2, TakeCompact, CountCompact, TakeFailsCompact, FreeBitCompact, RestCompact
     DEF Allocate
<1>3. CASE Work
  BY <1>0, <1>3, FormatCompact, EnterCompact, RestCompact, LinkCompact, EnterNewCompact,
     GrowCompact, FillCompact, ChainCompact DEF Work
<1>4. CASE Crash
  BY <1>4, RestCompact
<1>5. CASE UNCHANGED vars
  BY <1>5, CompactStutter
<1>. QED
  BY <1>1, <1>2, <1>3, <1>4, <1>5 DEF Next

LEMMA Collected == DInv /\ Compact => NothingLeaked
<1> SUFFICES ASSUME DInv, Compact, pc = "idle", ~spoiled
             PROVE  used = Linked \cup ({FirstOf(l) : l \in Listed} \ {NIL})
  BY DEF NothingLeaked
<1>1. Mine = {}
  <2>1. job.first = NIL
    BY DEF DInv, Progress, NoJob
  <2>. QED
    BY <2>1 DEF Mine, First, New
<1>2. ASSUME NEW b \in used PROVE b \in Linked \cup ({FirstOf(l) : l \in Listed} \ {NIL})
  <2>1. b \in Linked \/ Leads(b)
    BY <1>1 DEF Compact, Led
  <2>2. b # NIL
    BY Everywhere, NotNIL DEF DInv, Taken
  <2>3. ASSUME Leads(b) PROVE b \in {FirstOf(l) : l \in Listed}
    <3>1. PICK d \in Directories : \E k \in 2 .. Size(d) - 1 : Entry(d, k).first = b
      BY <2>3 DEF Leads
    <3>2. PICK k \in 2 .. Size(d) - 1 : Entry(d, k).first = b
      BY <3>1
    <3>3. <<d, k>> \in Listed
      BY <3>1, <3>2 DEF Listed
    <3>4. FirstOf(<<d, k>>) = b
      BY <3>2 DEF FirstOf, Meta
    <3>. QED
      BY <3>3, <3>4
  <2>. QED
    BY <2>1, <2>2, <2>3
<1>3. Linked \cup ({FirstOf(l) : l \in Listed} \ {NIL}) \subseteq used
  BY Owners DEF OneOwner
<1>. QED
  BY <1>2, <1>3

(* While no command has failed half way, every block that the bitmap has   *)
(* as taken between two commands is led to by a link or an entry: md gives *)
(* the block of a directory back that its parent had no room for           *)
(* (freeblock in createdirectory), and no link that is overwritten led to  *)
(* a block.                                                                *)
THEOREM BlocksCollected == Spec => []NothingLeaked
<1>1. Init => DInv /\ Compact
  BY DInitially, CompactInitially
<1>2. DInv /\ Compact /\ [Next]_vars => (DInv /\ Compact)'
  BY DKept, CompactStep
<1>3. DInv /\ Compact => NothingLeaked
  BY Collected
<1>. QED
  BY <1>1, <1>2, <1>3, PTL DEF Spec
-----------------------------------------------------------------------------
(* The count in its bounds.  freeblock adds one only when getfreeblock has *)
(* just found the count to be zero.                                        *)
Ranges == /\ NFREEBLOCKS \in 0 .. Cardinality(Blocks)
          /\ pc = "count" => NFREEBLOCKS > 0
          /\ pc \in {"free", "uncount"} => NFREEBLOCKS = 0 /\ Blocks # {}
          /\ pc \in Takes \cup {"idle", "count", "free", "uncount", "format", "enter", "link",
                                 "enternew", "grow", "fill", "chain", "wild", "overrun"}

LEMMA RangesStep == DInv /\ Ranges /\ [Next]_vars => Ranges'
<1> SUFFICES ASSUME DInv, Ranges, [Next]_vars PROVE Ranges'
  OBVIOUS
<1>1. Cardinality(Blocks) \in Nat /\ (Blocks # {} => Cardinality(Blocks) > 0)
  BY FS_CardinalityType, FS_EmptySet, DiskAssumption
<1>2. CASE Command
  <2>1. pc' \in {"idle", "md", "first", "enter"} /\ NFREEBLOCKS' = NFREEBLOCKS
    <3>1. ASSUME NEW path \in Paths, cmd_cd(path)
          PROVE  pc' = "idle" /\ NFREEBLOCKS' = NFREEBLOCKS
      BY <3>1 DEF cmd_cd, disk
    <3>2. ASSUME NEW path \in Paths, NEW name \in Names, cmd_md(path, name)
          PROVE  pc' = "md" /\ NFREEBLOCKS' = NFREEBLOCKS
      BY <3>2 DEF cmd_md, disk
    <3>3. ASSUME NEW path \in Paths, NEW name \in Names, NEW source \in Names,
                 NEW from \in Paths, CopyWithin(from, source, path, name)
          PROVE  pc' \in {"first", "enter"} /\ UNCHANGED disk
      BY <3>3, Zenon DEF CopyWithin
    <3>4. ASSUME NEW path \in Paths, NEW name \in Names, NEW source \in Names,
                 NEW content \in HdFiles, CopyIn(content, source, path, name)
          PROVE  pc' \in {"first", "enter"} /\ UNCHANGED disk
      BY <3>4, Zenon DEF CopyIn
    <3>. QED
      BY <1>2, <3>1, <3>2, <3>3, <3>4 DEF Command, disk
  <2>. QED
    BY <2>1 DEF Ranges, Takes
<1>3. CASE Allocate
  <2>1. ASSUME NEW b \in Blocks, Take(b) PROVE Ranges'
    BY <1>1, <2>1 DEF Take, Ranges
  <2>2. CASE Count
    <3>1. job.after \in {"format", "fill", "chain", "link"}
      BY <2>2 DEF Count, DInv, Progress
    <3>2. NFREEBLOCKS' \in 0 .. Cardinality(Blocks) /\ pc' \in {"format", "fill", "chain", "link"}
      BY <1>1, <2>2, <3>1 DEF Count, Ranges
    <3>. QED
      BY <3>2 DEF Ranges
  <2>3. CASE TakeFails
    <3>1. pc' \in {"free", "overrun", "idle"} /\ NFREEBLOCKS' = NFREEBLOCKS /\ NFREEBLOCKS = 0
      BY <2>3 DEF TakeFails, AfterFail, disk
    <3>2. pc' = "free" => Blocks # {}
      <4>1. pc' = "free" => Stage = "extend" /\ job.kind = "d"
        BY <2>3 DEF TakeFails, AfterFail, Takes, Stage
      <4>2. pc' = "free" => job.first \in Blocks
        BY <4>1 DEF DInv, Progress, IsMade, JobTyped
      <4>. QED
        BY <4>2
    <3>. QED
      BY <3>1, <3>2 DEF Ranges, Takes
  <2>4. CASE FreeBit
    BY <2>4 DEF FreeBit, Ranges
  <2>5. CASE FreeCount
    <3>1. NFREEBLOCKS' = 1 /\ Cardinality(Blocks) > 0 /\ pc' = "idle"
      BY <1>1, <2>5 DEF FreeCount, Ranges
    <3>. QED
      BY <1>1, <3>1 DEF Ranges
  <2>. QED
    BY <1>3, <2>1, <2>2, <2>3, <2>4, <2>5 DEF Allocate
<1>4. CASE Work
  <2>1. NFREEBLOCKS' = NFREEBLOCKS
        /\ pc' \in {"enter", "grow", "extend", "wild", "idle", "enternew", "more", "fill"}
    <3>1. CASE Format \/ Enter \/ Link \/ EnterNew \/ Grow
      BY <3>1 DEF Format, Enter, Link, EnterNew, Grow
    <3>2. CASE NoParent
      BY <3>2 DEF NoParent, disk
    <3>3. CASE WriteBlock \/ CopyBlock \/ Chain
      BY <3>3 DEF WriteBlock, CopyBlock, Chain
    <3>. QED
      BY <1>4, <3>1, <3>2, <3>3 DEF Work
  <2>. QED
    BY <2>1 DEF Ranges, Takes
<1>5. CASE Crash
  BY <1>5 DEF Crash, Ranges, Takes, disk
<1>6. CASE UNCHANGED vars
  BY <1>6 DEF vars, disk, shell, Ranges
<1>. QED
  BY <1>2, <1>3, <1>4, <1>5, <1>6 DEF Next

LEMMA Typed == DInv /\ Ranges => TypeOK
<1> SUFFICES ASSUME DInv, Ranges PROVE TypeOK
  OBVIOUS
<1>0. Structure
  BY DEF DInv
<1>1. ASSUME NEW d \in Directories
      PROVE  slots[d][0].first = d /\ slots[d][1].name = ".." /\ Size(d) >= 2
  <2>1. slots[d][0].first = d /\ Size(d) >= 2 /\ Size(d) \in Nat
    BY <1>0, Everywhere DEF Structure, Heads
  <2>2. 1 \in 0 .. Size(d) - 1
    BY <2>1
  <2>3. Entry(d, 1).name = ".."
    BY <1>0, <2>2 DEF Structure, Entries, Fine
  <2>4. 1 \div E = 0 /\ 1 % E = 1
    <3>1. 1 = E * 0 + 1 /\ 1 \in 0 .. E - 1
      BY EIs
    <3>. QED
      BY <3>1, PlaceOf
  <2>5. Entry(d, 1) = slots[d][1]
    BY <1>0, <2>2, <2>4, InChain, EntryZero
  <2>. QED
    BY <2>1, <2>3, <2>5
<1>. QED
  BY <1>0, <1>1 DEF TypeOK, Ranges, DInv, Where, Structure, DiskTyped, Metas

(* What is on the disk and in the shell's variables has the shape the code *)
(* gives it: the count stays within the disk, a directory begins with its  *)
(* entries for itself and its parent, and the shell is in a directory.     *)
THEOREM TypesKept == Spec => []TypeOK
<1>1. Init => DInv /\ Ranges
  BY DInitially, FS_CardinalityType, DiskAssumption DEF Init, Ranges, Takes
<1>2. DInv /\ Ranges /\ [Next]_vars => (DInv /\ Ranges)'
  BY DKept, RangesStep
<1>3. DInv /\ Ranges => TypeOK
  BY Typed
<1>. QED
  BY <1>1, <1>2, <1>3, PTL DEF Spec
=============================================================================
